----------------------------- MODULE HmgWindows -----------------------------
(***************************************************************************)
(* The window table of Harbour MiniGUI and the commands that work on it:   *)
(* DEFINE, ACTIVATE, RELEASE, SHOW and HIDE WINDOW (h_windows.prg), the    *)
(* handlers of WM_CLOSE and WM_DESTROY in Events() (h_events.prg), and the *)
(* two message pumps DO MESSAGE LOOP and DO EVENTS (c_windowsAPI.c).       *)
(*                                                                         *)
(* The program is single threaded, but every pump may run user code, and   *)
(* that code may pump again.  What is interleaved is therefore a STACK of  *)
(* unfinished calls, kept in the variable stack with the running call at   *)
(* its head.  User code is arbitrary: between two returns it may issue any *)
(* command named in Uses, and its callbacks are those named in OnInit,     *)
(* OnRelease and AskClose.                                                 *)
(***************************************************************************)
EXTENDS Naturals, Sequences, FiniteSets

CONSTANTS
  Names,       \* names of the DEFINE WINDOW commands of the program
  Main,        \* the one that has the MAIN clause
  Modal,       \* those that have the MODAL clause
  Manual,      \* those that have NOAUTORELEASE
  NoShow,      \* those that have NOSHOW
  OnInit,      \* those that have an ON INIT procedure
  OnRelease,   \* those that have an ON RELEASE procedure
  AskClose,    \* those that have an ON INTERACTIVECLOSE procedure
  Activations, \* the name lists of the ACTIVATE WINDOW commands
  Handles,     \* window handles the operating system hands out, and reuses
  ActivateIds, \* values Int( Seconds() * 100 ) takes
  ControlIds,  \* indices of the controls whose actions the user triggers
  Uses,        \* commands the user code issues
  Careful,     \* TRUE: the user code keeps to the rules of section "Careful"
  InteractiveClose, \* the setting of SET INTERACTIVECLOSE, 0 to 3
  MaxDepth,    \* bound: user code starts nothing new above this many calls
  MaxQueue,    \* bound: posted messages that wait at the same time
  NoName, NoHandle

Commands == {"activate", "nowait", "release", "show", "hide",
             "events", "loop", "control", "timer", "close"}

ASSUME WindowsAssumption ==
  /\ IsFiniteSet(Names) /\ Main \in Names /\ NoName \notin Names
  /\ Modal \subseteq Names \ {Main} /\ Manual \subseteq Names \ {Main}
  /\ NoHandle \notin Handles
  /\ Activations \subseteq Seq(Names) /\ <<>> \notin Activations
  /\ ActivateIds \subseteq Nat
  /\ ControlIds \subseteq Nat
  /\ Uses \subseteq Commands
  /\ Careful \in BOOLEAN
  /\ InteractiveClose \in 0 .. 3
  /\ MaxDepth \in Nat /\ MaxQueue \in Nat

VARIABLES
  form,         \* the parallel arrays _HMG_aForm...: slot -> record
  nameVar,      \* the public variable _<name> of each window; 0: none
  mainHandle,   \* _HMG_MainHandle
  mainActive,   \* _HMG_MainActive
  interactiveClose, \* _HMG_InteractiveClose
  modalActive,  \* _HMG_IsModalActive
  activeModal,  \* _HMG_ActiveModalHandle
  userWindow,   \* _HMG_UserWindowHandle, the active form focused last
  counter,      \* the public variables _HMG_ACTIVATE_<id>; 0: none
  visible,      \* handles of the windows the system shows
  enabled,      \* handles of the windows that take input
  queue,        \* posted WM_CLOSE messages, oldest first
  quit,         \* PostQuitMessage was called and WM_QUIT not yet retrieved
  stack,        \* unfinished calls, the running one first
  status        \* "run", "error" (MsgMiniGuiError) or "exit"

table   == <<form, nameVar, mainHandle, mainActive, interactiveClose>>
modality == <<modalActive, activeModal, userWindow>>
screen  == <<visible, enabled>>
message == <<queue, quit>>
vars    == <<table, modality, counter, screen, message, stack, status>>

-----------------------------------------------------------------------------
(* The window table.                                                       *)

Slots == 1 .. Cardinality(Names)

NoForm ==
  [name |-> NoName, handle |-> NoHandle, active |-> FALSE,
   parent |-> NoHandle, id |-> 0, loop |-> 0, released |-> 0]

Live(i)     == form[i].name # NoName
LiveHandles == {form[i].handle : i \in {j \in Slots : Live(j)}}
Defined(n)  == nameVar[n] # 0
Active(n)   == Defined(n) /\ form[nameVar[n]].active
IsModal(i)  == form[i].name \in Modal

(* AScan( _HMG_aFormHandles, h ) *)
SlotOf(h) ==
  IF \E i \in Slots : Live(i) /\ form[i].handle = h
    THEN CHOOSE i \in Slots : Live(i) /\ form[i].handle = h
    ELSE 0

(* AScan( _HMG_aFormDeleted, .T. ), or the slot AAdd would append *)
FreeSlot(k) == ~Live(k) /\ \A i \in Slots : i < k => Live(i)

-----------------------------------------------------------------------------
(* Unfinished calls.                                                       *)

User(ev, i)    == [k |-> "user", ev |-> ev, i |-> i]
Loop(g)        == [k |-> "loop", g |-> g]
Pump           == [k |-> "events"]
InitCall(i)    == [k |-> "init", i |-> i]
Closing(at, i, h, lp) == [k |-> "close", at |-> at, i |-> i, h |-> h, lp |-> lp]
ReleasingAll(i) == [k |-> "all", i |-> i]
Activating(todo, several, id, g, nowait, shown) ==
  [k |-> "act", todo |-> todo, several |-> several, id |-> id, g |-> g,
   nowait |-> nowait, shown |-> shown]

Running(k) == status = "run" /\ stack # <<>> /\ Head(stack).k = k
Pumping    == Running("loop") \/ Running("events")
Top        == Head(stack)
Rest       == Tail(stack)
Push(f, s) == <<f>> \o s

(* Faulty: the event type is not set while the procedure runs *)
ThisEventTypeUnset == ""

(* _HMG_ThisEventType: a control's event procedure leaves it as it was *)
Sets(f) == f.k = "user" /\ f.ev # "CONTROL"
ThisEventType ==
  LET p == {d \in DOMAIN stack : Sets(stack[d])}
  IN  IF p = {} THEN "" ELSE stack[CHOOSE d \in p : \A e \in p : d <= e].ev

(* Bookkeeping of the model: each ACTIVATE and DO MESSAGE LOOP has a number *)
(* of its own, its loop, which its windows keep in the field loop.         *)
LoopCalls == {d \in DOMAIN stack : stack[d].k \in {"loop", "act"}}
InnerLoop ==
  IF LoopCalls = {} THEN 0
  ELSE stack[CHOOSE d \in LoopCalls : \A e \in LoopCalls : d <= e].g

LoopsInUse == {stack[d].g : d \in LoopCalls} \cup {form[i].loop : i \in Slots}
NewLoop ==
  LET free == 1 .. (Cardinality(LoopsInUse) + 1) \ LoopsInUse
  IN  CHOOSE g \in free : TRUE

Abort ==
  /\ status' = "error"
  /\ UNCHANGED <<table, modality, counter, screen, message, stack>>

(* The running call ends or changes, and nothing else does *)
Goto(s) ==
  /\ stack' = s
  /\ UNCHANGED <<table, modality, counter, screen, message, status>>

-----------------------------------------------------------------------------
(* Focus, showing and hiding.                                              *)

(* SetFocus( h ) sends WM_SETFOCUS, whose handler notes the active form *)
Focused(h, en) ==
  IF h \in en /\ \E i \in Slots : form[i].handle = h /\ form[i].active
    THEN h ELSE userWindow

(* Faulty forms of the next two, for the runs to find: an index for a      *)
(* handle, the active modal window overlooked, the test of parents inverted *)
ModalParentIndex ==
  IF modalActive THEN activeModal
  ELSE IF SlotOf(userWindow) # 0 THEN SlotOf(userWindow) ELSE mainHandle
ModalParentUser == IF SlotOf(userWindow) # 0 THEN userWindow ELSE mainHandle
OthersInverted(g, i) ==
  {g[x].handle : x \in {y \in Slots : y # i /\ g[y].parent = g[i].handle}}

(* The modal part of _ShowWindow for slot i of the table f: the parent, and *)
(* the windows it disables                                                 *)
ModalParent ==
  IF modalActive THEN activeModal
  ELSE IF SlotOf(userWindow) # 0 THEN userWindow ELSE mainHandle

Others(g, i) ==
  {g[x].handle : x \in {y \in Slots : y # i /\ g[y].parent # g[i].handle}}

ShowModal(f, i) ==
  LET g == [f EXCEPT ![i].parent = ModalParent]
      h == f[i].handle
  IN  /\ form' = g
      /\ enabled' = (enabled \ Others(g, i)) \cup {h}
      /\ modalActive' = TRUE
      /\ activeModal' = h
      /\ visible' = visible \cup {h}
      /\ UNCHANGED userWindow

(* Faulty: the modal parent of a modal window is not made active again *)
OnHideToMain(i) ==
  IF form[i].parent = NoHandle
    THEN [modal |-> modalActive, top |-> activeModal, focus |-> userWindow,
          on |-> IF modalActive THEN enabled ELSE enabled \cup LiveHandles]
    ELSE [modal |-> FALSE, top |-> NoHandle, focus |-> userWindow,
          on |-> enabled \cup LiveHandles]

(* What _hmg_OnHideFocusManagement( i ) does, as a record of the new values *)
OnHide(i) ==
  LET p == form[i].parent
      x == SlotOf(p)
      all == enabled \cup LiveHandles
  IN  CASE p = NoHandle ->
             [modal |-> modalActive, top |-> activeModal, focus |-> userWindow,
              on |-> IF modalActive THEN enabled ELSE all]
        [] p # NoHandle /\ x # 0 /\ IsModal(x) ->
             [modal |-> TRUE, top |-> p, on |-> enabled \cup {p},
              focus |-> Focused(p, enabled \cup {p})]
        [] p # NoHandle /\ x # 0 /\ ~IsModal(x) ->
             [modal |-> FALSE, top |-> NoHandle, on |-> all,
              focus |-> Focused(p, all)]
        [] OTHER ->
             [modal |-> FALSE, top |-> NoHandle, on |-> all,
              focus |-> Focused(mainHandle, all)]

SetModality(r) ==
  /\ modalActive' = r.modal
  /\ activeModal' = r.top
  /\ userWindow'  = r.focus

(* _HideWindow( name of slot i ), after which the stack is s *)
HideWindow(i, s) ==
  LET h == form[i].handle
      r == OnHide(i)
  IN  IF h \notin visible THEN Goto(s)
      ELSE IF IsModal(i) /\ activeModal # h THEN Abort
      ELSE /\ visible' = visible \ {h}
           /\ enabled' = r.on
           /\ SetModality(r)
           /\ stack' = s
           /\ UNCHANGED <<table, counter, message, status>>

-----------------------------------------------------------------------------
(* Closing.  A WM_CLOSE handler captures the slot i of its window once, and *)
(* goes on using i after each of the callbacks it runs; s is the stack of  *)
(* the calls below the handler.                                            *)

(* The message box of SET INTERACTIVECLOSE OFF, QUERY and QUERY MAIN *)
MayRefuse(i) ==
  \/ interactiveClose \in {0, 2}
  \/ (interactiveClose = 3 /\ form[i].name = Main)

(* Faulty: single activations overlooked; off by one; never removed; the   *)
(* last window not counted                                                 *)
LastOfActivationCounted(i) == form[i].id # 0 /\ counter[form[i].id] = 1
LastOfActivationEarly(i) == form[i].id = 0 \/ counter[form[i].id] <= 2
ForgetNot(n)             == nameVar
CountDownFromTwo(a)      == IF a > 1 THEN [counter EXCEPT ![a] = @ - 1] ELSE counter

(* PostQuitMessage is called for the last window of an activation *)
LastOfActivation(i) == form[i].id = 0 \/ counter[form[i].id] = 1

(* The public variable of the window is released, the activation counted   *)
Forget(n)    == [nameVar EXCEPT ![n] = 0]
CountDown(a) ==
  IF a > 0 /\ counter[a] > 0 THEN [counter EXCEPT ![a] = @ - 1] ELSE counter

(* DestroyWindow( h ) sends WM_DESTROY, whose handler clears the slot of h, *)
(* and discards the messages posted for h                                  *)
Discarded == [h |-> NoHandle, lp |-> 0]
DestroyWindow(h) ==
  LET d == SlotOf(h)
  IN  IF d = 0 THEN UNCHANGED <<form, nameVar, visible, counter, queue, quit>>
      ELSE /\ form' = [form EXCEPT ![d] = NoForm]
           /\ nameVar' = Forget(form[d].name)
           /\ visible' = visible \ {h}
           /\ counter' = CountDown(form[d].id)
           /\ quit' = (quit \/ LastOfActivation(d))
           /\ queue' = [j \in DOMAIN queue |->
                         IF queue[j].h = h THEN Discarded ELSE queue[j]]

(* The end of the handler, after ON RELEASE *)
FinishClose(i, h, s) ==
  LET r == OnHide(i)
  IN  /\ SetModality(r)
      /\ DestroyWindow(h)
      /\ enabled' = r.on \ {h}
      /\ stack' = s
      /\ UNCHANGED <<mainHandle, mainActive, interactiveClose, status>>

(* ReleaseAllWindows() *)
ReleaseAllWindows(s) ==
  IF ThisEventType = "WINDOW_RELEASE" THEN Abort
  ELSE Goto(Push(ReleasingAll(1), s))

(* _DoWindowEventProcedure( ON RELEASE of slot i ) *)
CallOnRelease(i, s) ==
  /\ form' = [form EXCEPT ![i].released = @ + 1]
  /\ stack' = Push(User("WINDOW_RELEASE", i), s)
  /\ UNCHANGED <<nameVar, mainHandle, mainActive, interactiveClose, modality,
                 counter, screen, message, status>>

(* AutoRelease, the main window, ON RELEASE.  A cleared slot has no        *)
(* AutoRelease and no name, and _HideWindow( "" ) does nothing.            *)
HideOrRelease(i, h, s) ==
  \/ /\ ~Live(i)
     /\ Goto(s)
  \/ /\ form[i].name \in Manual
     /\ HideWindow(i, s)
  \/ /\ form[i].name = Main
     /\ ReleaseAllWindows(s)
  \/ /\ form[i].name \in OnRelease \ (Manual \cup {Main})
     /\ CallOnRelease(i, Push(Closing("release", i, h, 1), s))
  \/ /\ form[i].name \in Names \ (OnRelease \cup Manual \cup {Main})
     /\ FinishClose(i, h, s)

(* What follows ON INTERACTIVECLOSE, when that did not return .F. *)
AfterAsk(i, h, lp, s) ==
  \/ /\ lp # 1
     /\ MayRefuse(i)
     /\ Goto(s)
  \/ /\ lp = 1 \/ interactiveClose # 0
     /\ HideOrRelease(i, h, s)

(* WM_CLOSE reaches the window procedure of h *)
StartClose(i, h, lp, s) ==
  IF form[i].name \in AskClose
    THEN Goto(Push(User("WINDOW_ONINTERACTIVECLOSE", i),
                   Push(Closing("ask", i, h, lp), s)))
    ELSE AfterAsk(i, h, lp, s)

-----------------------------------------------------------------------------
(* Careful.  Rules under which a program's modal windows behave as a stack: *)
(* a program that breaks one of them can lose modality or return from the  *)
(* wrong ACTIVATE WINDOW.                                                  *)

NothingPending == ~quit /\ \A j \in DOMAIN queue : queue[j] = Discarded
NotClosing     == \A d \in DOMAIN stack : stack[d].k \notin {"close", "all"}

(* ACTIVATE only when no release is under way *)
CareActivate == Careful => NothingPending

(* RELEASE only windows of the innermost ACTIVATE, a modal one only on top *)
CareRelease(i) ==
  Careful => /\ form[i].loop = InnerLoop \/ form[i].name = Main
             /\ IsModal(i) => activeModal = form[i].handle

(* SHOW only activated windows that are hidden, HIDE a modal window only on *)
(* top, and neither while a window is closing                              *)
CareShow(i) ==
  Careful => /\ form[i].active /\ form[i].handle \notin visible
             /\ NothingPending /\ NotClosing
CareHide(i) ==
  Careful => /\ IsModal(i) => activeModal = form[i].handle
             /\ NothingPending /\ NotClosing

-----------------------------------------------------------------------------
(* Commands of the user code.  The base of the stack is the procedure Main *)
(* of the program; the other user calls are callbacks.                     *)

InUserCode(c) == Running("user") /\ c \in Uses
CanNest       == Len(stack) < MaxDepth

(* DEFINE WINDOW ... END WINDOW: no message is dispatched in between *)
Define(n) ==
  /\ Running("user")
  /\ ~Defined(n)
  /\ IF n = Main THEN \A i \in Slots : form[i].name # Main
                 ELSE \E i \in Slots : form[i].name = Main
  /\ \E k \in Slots, h \in Handles \ LiveHandles :
       /\ FreeSlot(k)
       /\ form' = [form EXCEPT ![k] =
                     [NoForm EXCEPT !.name = n, !.handle = h,
                        !.parent = IF n \in Modal THEN mainHandle ELSE NoHandle]]
       /\ nameVar' = [nameVar EXCEPT ![n] = k]
       /\ enabled' = enabled \cup {h}
       /\ mainHandle' = IF n = Main THEN h ELSE mainHandle
  /\ UNCHANGED <<mainActive, interactiveClose, modality, counter, visible,
                 message, stack, status>>

(* DEFINE WINDOW for a name in use, or before MAIN *)
DefineWrongly(n) ==
  /\ Running("user")
  /\ Defined(n) \/ (n # Main /\ \A i \in Slots : form[i].name # Main)
  /\ Abort

(* Set of the names in an ACTIVATE WINDOW command *)
NamesOf(s) == {s[j] : j \in DOMAIN s}

ActivateWrongly(s) ==
  \/ ThisEventType = "WINDOW_RELEASE"
  \/ Main \in NamesOf(s) /\ mainActive
  \/ Main \notin NamesOf(s) /\ ~mainActive
  \/ Len(s) > 1 /\ modalActive

(* _ActivateWindow up to the first window, with _GenActivateId *)
Activate(s, nowait) ==
  /\ InUserCode(IF nowait THEN "nowait" ELSE "activate")
  /\ CanNest
  /\ CareActivate
  /\ IF ActivateWrongly(s) THEN Abort
     ELSE /\ mainActive' = (mainActive \/ Main \in NamesOf(s))
          /\ \/ /\ Len(s) = 1
                /\ stack' = Push(Activating(s, FALSE, 0, NewLoop, nowait, NoName), stack)
                /\ UNCHANGED counter
             \/ \E id \in ActivateIds :
                  /\ Len(s) > 1
                  /\ counter[id] = 0
                  /\ counter' = [counter EXCEPT ![id] = Len(s)]
                  /\ stack' = Push(Activating(s, TRUE, id, NewLoop, nowait, NoName), stack)
          /\ UNCHANGED <<form, nameVar, mainHandle, interactiveClose, modality,
                         screen, message, status>>

(* _ReleaseWindow.  It sets _HMG_InteractiveClose to 1 and back, except for *)
(* the main window, whose release does not return.  The window named is   *)
(* compared with _HMG_ThisIndex, which inside the action of a control is   *)
(* the index of that control.                                              *)
Release(n) ==
  LET i == nameVar[n]
      h == form[i].handle
  IN  /\ InUserCode("release")
      /\ Active(n) => CareRelease(i)
      /\ IF \/ ~Active(n)
            \/ ThisEventType = "WINDOW_RELEASE" /\ (i = Top.i \/ n = Main)
           THEN Abort
         ELSE IF n = Main
           THEN /\ interactiveClose' = 1
                /\ stack' = Push(ReleasingAll(1), stack)
                /\ UNCHANGED <<form, nameVar, mainHandle, mainActive, modality,
                               counter, screen, message, status>>
         ELSE /\ Len(queue) < MaxQueue
              /\ queue' = Append(queue, [h |-> h, lp |-> 1])
              /\ enabled' = enabled \cup {h}
              /\ form' = IF IsModal(i) /\ activeModal # h THEN form
                         ELSE [x \in Slots |->
                                IF form[x].parent = h
                                  THEN [form[x] EXCEPT !.parent = mainHandle]
                                  ELSE form[x]]
              /\ UNCHANGED <<nameVar, mainHandle, mainActive, interactiveClose,
                             modality, counter, visible, quit, stack, status>>

(* _ShowWindow( name ), which ends in DO EVENTS *)
Show(n) ==
  LET i == nameVar[n]
  IN  /\ InUserCode("show")
      /\ CanNest
      /\ Defined(n)
      /\ CareShow(i)
      /\ IF IsModal(i) THEN ShowModal(form, i)
         ELSE /\ visible' = visible \cup {form[i].handle}
              /\ UNCHANGED <<form, enabled, modality>>
      /\ stack' = Push(Pump, stack)
      /\ UNCHANGED <<nameVar, mainHandle, mainActive, interactiveClose, counter,
                     message, status>>

Hide(n) ==
  /\ InUserCode("hide")
  /\ Defined(n)
  /\ CareHide(nameVar[n])
  /\ HideWindow(nameVar[n], stack)

(* DO EVENTS and DO MESSAGE LOOP *)
DoEvents ==
  /\ InUserCode("events")
  /\ CanNest
  /\ Goto(Push(Pump, stack))

DoMessageLoop ==
  /\ InUserCode("loop")
  /\ CanNest
  /\ Goto(Push(Loop(NewLoop), stack))

(* The end of a callback, or of the program.  ON INTERACTIVECLOSE may      *)
(* return .F., and then the window is kept.                                *)
Return ==
  /\ Running("user")
  /\ IF Rest = <<>>
       THEN /\ status' = "exit"
            /\ UNCHANGED <<table, modality, counter, screen, message, stack>>
     ELSE IF Top.ev = "WINDOW_ONINTERACTIVECLOSE"
       THEN \/ Goto(Rest)
            \/ Goto(Tail(Rest))
       ELSE Goto(Rest)

-----------------------------------------------------------------------------
(* Steps of the library itself.                                            *)

ActivateNextWrongly(n) ==
  \/ ~Defined(n)
  \/ Active(n)
  \/ Top.several /\ n \in Modal \ NoShow /\ Top.shown # NoName
  \/ ~Top.several /\ n \notin Modal /\ modalActive /\ ~Top.nowait

(* One turn of _ActivateWindow for the window n: show it, set its flag, and *)
(* run ON INIT.  _ProcessInitProcedure pumps messages before ON INIT, in   *)
(* SuppressKeyAndMouseEvents.                                              *)
ActivateNext ==
  /\ Running("act")
  /\ Top.todo # <<>>
  /\ LET n == Head(Top.todo)
         i == nameVar[n]
         g == [form EXCEPT ![i].active = TRUE, ![i].id = Top.id, ![i].loop = Top.g]
         call == [Top EXCEPT !.todo = Tail(@),
                    !.shown = IF Top.several /\ n \in Modal \ NoShow THEN n ELSE @]
     IN  IF ActivateNextWrongly(n) THEN Abort
         ELSE /\ IF n \in Modal /\ ~Top.several THEN ShowModal(g, i)
                 ELSE /\ form' = g
                      /\ visible' = IF n \in NoShow THEN visible
                                    ELSE visible \cup {form[i].handle}
                      /\ UNCHANGED <<enabled, modality>>
              /\ stack' = IF n \in OnInit
                            THEN Push(Pump, Push(InitCall(i), Push(call, Rest)))
                            ELSE Push(call, Rest)
              /\ UNCHANGED <<nameVar, mainHandle, mainActive, interactiveClose,
                             counter, message, status>>

(* After the pump: ON INIT of the slot, if it still has one *)
CallOnInit ==
  /\ Running("init")
  /\ Goto(IF form[Top.i].name \in OnInit
            THEN Push(User("WINDOW_INIT", Top.i), Rest) ELSE Rest)

(* All windows are activated: show the modal one, start the message loop *)
ActivateDone ==
  /\ Running("act")
  /\ Top.todo = <<>>
  /\ LET s == IF Top.nowait THEN Rest ELSE Push(Loop(Top.g), Rest)
     IN  IF Top.shown = NoName THEN Goto(s)
         ELSE IF ~Defined(Top.shown) THEN Abort
         ELSE /\ ShowModal(form, nameVar[Top.shown])
              /\ stack' = Push(Pump, s)
              /\ UNCHANGED <<nameVar, mainHandle, mainActive, interactiveClose,
                             counter, message, status>>

(* GetMessage and PeekMessage return posted messages first ...  *)
Dispatch ==
  /\ Pumping
  /\ queue # <<>>
  /\ LET m == Head(queue)
     IN  stack' = IF m = Discarded THEN stack
                  ELSE Push(Closing("start", SlotOf(m.h), m.h, m.lp), stack)
  /\ queue' = Tail(queue)
  /\ UNCHANGED <<table, modality, counter, screen, quit, status>>

(* ... then WM_QUIT, once however often it was posted.  It ends the        *)
(* innermost DO MESSAGE LOOP; DO EVENTS takes it and goes on.              *)
TakeQuit ==
  /\ Pumping
  /\ queue = <<>>
  /\ quit
  /\ quit' = FALSE
  /\ stack' = IF Top.k = "loop" THEN Rest ELSE stack
  /\ UNCHANGED <<table, modality, counter, screen, queue, status>>

Idle == Pumping /\ queue = <<>> /\ ~quit

EventsDone ==
  /\ Idle
  /\ Running("events")
  /\ Goto(Rest)

CloseStep ==
  /\ Running("close")
  /\ \/ Top.at = "start"   /\ StartClose(Top.i, Top.h, Top.lp, Rest)
     \/ Top.at = "ask"     /\ AfterAsk(Top.i, Top.h, Top.lp, Rest)
     \/ Top.at = "release" /\ FinishClose(Top.i, Top.h, Rest)

(* The loop of ReleaseAllWindows over the table, and __Quit() at its end *)
ReleaseAllStep ==
  /\ Running("all")
  /\ LET i == Top.i
         next == Push(ReleasingAll(i + 1), Rest)
     IN  IF i \notin Slots
           THEN /\ status' = "exit"
                /\ UNCHANGED <<table, modality, counter, screen, message, stack>>
         ELSE IF form[i].active /\ form[i].name \in OnRelease
           THEN CallOnRelease(i, next)
         ELSE Goto(next)

-----------------------------------------------------------------------------
(* What the user does while a pump is idle: close a window with its close  *)
(* button, trigger the action of a control, move the focus.                *)

Reachable(i) == Live(i) /\ form[i].handle \in visible \cap enabled

UserClose(i) ==
  /\ Idle
  /\ "close" \in Uses
  /\ CanNest
  /\ Reachable(i)
  /\ Goto(Push(Closing("start", i, form[i].handle, 0), stack))

ControlAction(i, c) ==
  /\ Idle
  /\ "control" \in Uses
  /\ CanNest
  /\ Reachable(i)
  /\ Goto(Push(User("CONTROL", c), stack))

(* WM_TIMER reaches a window whether it is enabled or not *)
TimerEvent(i, c) ==
  /\ Idle
  /\ "timer" \in Uses
  /\ CanNest
  /\ Live(i)
  /\ Goto(Push(User("CONTROL", c), stack))

Focus(i) ==
  /\ Idle
  /\ Reachable(i)
  /\ userWindow' = Focused(form[i].handle, enabled)
  /\ UNCHANGED <<table, modalActive, activeModal, counter, screen, message, stack, status>>

-----------------------------------------------------------------------------
Init ==
  /\ form = [i \in Slots |-> NoForm]
  /\ nameVar = [n \in Names |-> 0]
  /\ mainHandle = NoHandle /\ mainActive = FALSE
  /\ interactiveClose = InteractiveClose
  /\ modalActive = FALSE /\ activeModal = NoHandle /\ userWindow = NoHandle
  /\ counter = [id \in ActivateIds |-> 0]
  /\ visible = {} /\ enabled = {}
  /\ queue = <<>> /\ quit = FALSE
  /\ stack = <<User("MAIN", 0)>>
  /\ status = "run"

Command ==
  \/ \E n \in Names : Define(n) \/ DefineWrongly(n)
  \/ \E s \in Activations, w \in BOOLEAN : Activate(s, w)
  \/ \E n \in Names : Release(n) \/ Show(n) \/ Hide(n)
  \/ DoEvents
  \/ DoMessageLoop

Library ==
  \/ ActivateNext
  \/ CallOnInit
  \/ ActivateDone
  \/ Dispatch
  \/ TakeQuit
  \/ EventsDone
  \/ CloseStep
  \/ ReleaseAllStep

UserInput ==
  \E i \in Slots :
    \/ UserClose(i)
    \/ Focus(i)
    \/ \E c \in ControlIds : ControlAction(i, c) \/ TimerEvent(i, c)

Next == Command \/ Return \/ Library \/ UserInput

(* The thread of the program keeps running and every procedure of the user *)
(* returns; what commands it issues, and the user's input, are free.       *)
Fairness == WF_vars(Library) /\ WF_vars(Return)

Spec     == Init /\ [][Next]_vars
FairSpec == Spec /\ Fairness

=============================================================================

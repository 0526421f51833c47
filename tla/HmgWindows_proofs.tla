------------------------- MODULE HmgWindows_proofs -------------------------
(***************************************************************************)
(* The window table stays typed and consistent with the public variables,  *)
(* the screen and the message queue, for any set of windows, any commands  *)
(* of the user code and any nesting of calls.  The counter of a multiple   *)
(* ACTIVATE WINDOW is exact, and WM_QUIT is posted only for the last       *)
(* window of an activation.                                                *)
(***************************************************************************)
EXTENDS HmgWindowsProps, FiniteSetTheorems, SequenceTheorems, TLAPS

Message == [h : Handles \cup {NoHandle}, lp : {0, 1}]

(* The inductive invariant, in parts that different steps disturb.         *)
TableInv ==
  /\ form \in [Slots -> FormRecord]
  /\ nameVar \in [Names -> Slots \cup {0}]
  /\ NamesMatch /\ HandlesMatch
StateInv ==
  /\ mainHandle \in Handles \cup {NoHandle} /\ mainActive \in BOOLEAN
  /\ interactiveClose \in 0 .. 3
  /\ counter \in [ActivateIds -> Nat]
  /\ quit \in BOOLEAN
  /\ status \in {"run", "error", "exit"}
ModalInv ==
  /\ modalActive \in BOOLEAN
  /\ activeModal \in Handles \cup {NoHandle}
  /\ userWindow \in Handles \cup {NoHandle}
ScreenInv == visible \subseteq LiveHandles /\ enabled \subseteq LiveHandles
QueueInv ==
  /\ queue \in Seq(Message)
  /\ \A j \in DOMAIN queue : queue[j] = Discarded \/ queue[j].h \in LiveHandles
StackInv == stack \in Seq(Call)
WindowsInv == TableInv /\ StateInv /\ ModalInv /\ ScreenInv /\ QueueInv /\ StackInv

-----------------------------------------------------------------------------
(* Facts about the operators of the window table.                          *)

(* Slots are positive numbers, finitely many.                              *)
LEMMA SlotsAreNumbers ==
  Slots \subseteq Nat /\ 0 \notin Slots /\ IsFiniteSet(Slots)
<1>1. Cardinality(Names) \in Nat
  BY FS_CardinalityType, WindowsAssumption
<1>2. IsFiniteSet(Slots)
  BY <1>1, FS_Interval DEF Slots
<1> QED
  BY <1>1, <1>2 DEF Slots

(* SlotOf (AScan) finds the slot of a handle exactly when there is one.    *)
LEMMA SlotOfFinds ==
  ASSUME NEW h
  PROVE  /\ SlotOf(h) \in Slots \cup {0}
         /\ SlotOf(h) # 0 => Live(SlotOf(h)) /\ form[SlotOf(h)].handle = h /\ h \in LiveHandles
         /\ SlotOf(h) = 0 => h \notin LiveHandles
BY SlotsAreNumbers DEF SlotOf, LiveHandles

(* Live windows have handles of the system. *)
LEMMA LiveHandlesTyped ==
  ASSUME TableInv
  PROVE  LiveHandles \subseteq Handles
BY DEF TableInv, NamesMatch, LiveHandles, FormRecord

(* A defined window has a live slot, with its handle. *)
LEMMA DefinedIsLive ==
  ASSUME TableInv, NEW n \in Names, Defined(n)
  PROVE  /\ nameVar[n] \in Slots /\ Live(nameVar[n])
         /\ form[nameVar[n]].handle \in LiveHandles
         /\ form[nameVar[n]].handle \in Handles
<1>1. nameVar[n] \in Slots /\ form[nameVar[n]].name = n
  BY DEF TableInv, NamesMatch, Defined
<1>2. Live(nameVar[n])
  BY <1>1, WindowsAssumption DEF Live
<1> QED
  BY <1>1, <1>2, LiveHandlesTyped DEF LiveHandles

(* A step that keeps names and handles keeps the table consistent. *)
LEMMA SameWindows ==
  ASSUME TableInv, form' \in [Slots -> FormRecord], UNCHANGED nameVar,
         \A i \in Slots : form'[i].name = form[i].name /\ form'[i].handle = form[i].handle
  PROVE  TableInv' /\ LiveHandles' = LiveHandles
<1>1. \A i \in Slots : Live(i)' <=> Live(i)
  BY DEF Live
<1>2. NamesMatch'
  BY <1>1 DEF TableInv, NamesMatch, Defined
<1>3. HandlesMatch'
  BY <1>1 DEF TableInv, HandlesMatch
<1>4. LiveHandles' = LiveHandles
  BY <1>1 DEF LiveHandles
<1> QED
  BY <1>2, <1>3, <1>4 DEF TableInv

-----------------------------------------------------------------------------
(* Calls are typed. *)

(* The constructors of calls build calls. *)
LEMMA FramesTyped ==
  /\ \A i \in Nat : \A ev \in {"MAIN", "CONTROL", "WINDOW_INIT", "WINDOW_RELEASE",
                               "WINDOW_ONINTERACTIVECLOSE"} : User(ev, i) \in Call
  /\ \A g \in Nat : Loop(g) \in Call
  /\ Pump \in Call
  /\ \A i \in Slots : InitCall(i) \in Call
  /\ \A at \in {"start", "ask", "release"}, i \in Slots, h \in Handles, lp \in {0, 1} :
       Closing(at, i, h, lp) \in Call
  /\ \A i \in Nat : ReleasingAll(i) \in Call
BY DEF User, Loop, Pump, InitCall, Closing, ReleasingAll, Call

(* A call on top of a stack of calls. *)
LEMMA PushTyped ==
  ASSUME NEW f \in Call, NEW s \in Seq(Call)
  PROVE  Push(f, s) \in Seq(Call)
<1>1. <<f>> \in Seq(Call)
  OBVIOUS
<1> QED
  BY <1>1, ConcatProperties DEF Push

(* The running call and those below it. *)
LEMMA TopTyped ==
  ASSUME StackInv, stack # <<>>
  PROVE  Top \in Call /\ Rest \in Seq(Call)
BY HeadTailProperties DEF StackInv, Top, Rest

(* The fields of each kind of call. *)
LEMMA CallFields ==
  ASSUME NEW c \in Call
  PROVE  /\ c.k = "user" => c.i \in Nat
         /\ c.k = "loop" => c.g \in Nat
         /\ c.k = "init" => c.i \in Slots
         /\ c.k = "close" => c.i \in Slots /\ c.h \in Handles /\ c.lp \in {0, 1}
         /\ c.k = "all" => c.i \in Nat
         /\ c.k = "act" => /\ c \in [k : {"act"}, todo : Seq(Names), several : BOOLEAN,
                                     id : Nat, g : Nat, nowait : BOOLEAN,
                                     shown : Names \cup {NoName}]
BY DEF Call

(* The values of a function with a finite domain are finitely many. *)
LEMMA ImageFinite ==
  ASSUME NEW S, IsFiniteSet(S), NEW f
  PROVE  IsFiniteSet({f[x] : x \in S})
<1>1. [x \in S |-> f[x]] \in Surjection(S, {f[x] : x \in S})
  BY DEF Surjection
<1> QED
  BY <1>1, FS_Surjection

(* The number chosen for a new loop is a number not in use: finitely many  *)
(* are.                                                                    *)
LEMMA NewLoopTyped ==
  ASSUME StackInv
  PROVE  NewLoop \in Nat \ {0} /\ NewLoop \notin LoopsInUse
<1> DEFINE S1 == {stack[d].g : d \in LoopCalls}
           S2 == {form[i].loop : i \in Slots}
           c == Cardinality(LoopsInUse)
           free == 1 .. (c + 1) \ LoopsInUse
<1>1. IsFiniteSet(S1)
  <2>1. LoopCalls \in SUBSET (1 .. Len(stack))
    BY LenProperties DEF LoopCalls, StackInv
  <2>2. Len(stack) \in Nat
    BY LenProperties DEF StackInv
  <2>3. IsFiniteSet(LoopCalls)
    <3>1. IsFiniteSet(1 .. Len(stack))
      BY <2>2, FS_Interval
    <3> QED
      BY <2>1, <3>1, FS_Subset
  <2>5. IsFiniteSet({[d \in LoopCalls |-> stack[d].g][x] : x \in LoopCalls})
    BY <2>3, ImageFinite
  <2>6. S1 = {[d \in LoopCalls |-> stack[d].g][x] : x \in LoopCalls}
    OBVIOUS
  <2> QED
    BY <2>5, <2>6
<1>2. IsFiniteSet(S2)
  <2>2. IsFiniteSet({[i \in Slots |-> form[i].loop][x] : x \in Slots})
    BY SlotsAreNumbers, ImageFinite
  <2>3. S2 = {[i \in Slots |-> form[i].loop][x] : x \in Slots}
    OBVIOUS
  <2> QED
    BY <2>2, <2>3
<1>3. IsFiniteSet(LoopsInUse) /\ c \in Nat
  BY <1>1, <1>2, FS_Union, FS_CardinalityType DEF LoopsInUse
<1>4. free # {}
  <2> SUFFICES ASSUME free = {} PROVE FALSE
    OBVIOUS
  <2>1. 1 .. (c + 1) \in SUBSET LoopsInUse
    OBVIOUS
  <2>2. Cardinality(1 .. (c + 1)) <= c
    BY <1>3, <2>1, FS_Subset
  <2>3. Cardinality(1 .. (c + 1)) = c + 1
    BY <1>3, FS_Interval
  <2> QED
    BY <1>3, <2>2, <2>3
<1>5. NewLoop \in free
  BY <1>4 DEF NewLoop
<1> QED
  BY <1>3, <1>5

-----------------------------------------------------------------------------
(* What the parts of the invariant need from a step that leaves their      *)
(* variables alone.                                                        *)

(* The window table. *)
LEMMA TableKept ==
  ASSUME TableInv, UNCHANGED <<form, nameVar>>
  PROVE  TableInv' /\ LiveHandles' = LiveHandles
BY SameWindows DEF TableInv

(* The variables of the program as a whole. *)
LEMMA StateKept ==
  ASSUME StateInv, UNCHANGED <<mainHandle, mainActive, interactiveClose>>,
         counter' \in [ActivateIds -> Nat], quit' \in BOOLEAN,
         status' \in {"run", "error", "exit"}
  PROVE  StateInv'
BY DEF StateInv

(* The modal state. *)
LEMMA ModalKept ==
  ASSUME ModalInv, UNCHANGED modality
  PROVE  ModalInv'
BY DEF ModalInv, modality

(* The message queue. *)
LEMMA QueueKept ==
  ASSUME QueueInv, UNCHANGED queue, LiveHandles' = LiveHandles
  PROVE  QueueInv'
BY DEF QueueInv, Discarded

(* A step that changes only the stack. *)
LEMMA GotoKeeps ==
  ASSUME WindowsInv, NEW s \in Seq(Call), Goto(s)
  PROVE  WindowsInv'
<1>1. TableInv' /\ LiveHandles' = LiveHandles
  BY TableKept DEF WindowsInv, Goto, table
<1>2. StateInv' /\ ModalInv'
  BY StateKept, ModalKept DEF WindowsInv, StateInv, Goto, table, message
<1>3. ScreenInv' /\ QueueInv' /\ StackInv'
  BY <1>1, QueueKept DEF WindowsInv, ScreenInv, StackInv, Goto, screen, message
<1> QED
  BY <1>1, <1>2, <1>3 DEF WindowsInv

(* A run-time error changes only the status. *)
LEMMA AbortKeeps ==
  ASSUME WindowsInv, Abort
  PROVE  WindowsInv'
<1>1. TableInv' /\ LiveHandles' = LiveHandles
  BY TableKept DEF WindowsInv, Abort, table
<1>2. StateInv' /\ ModalInv'
  BY StateKept, ModalKept DEF WindowsInv, StateInv, Abort, table, message
<1>3. ScreenInv' /\ QueueInv' /\ StackInv'
  BY <1>1, QueueKept DEF WindowsInv, ScreenInv, StackInv, Abort, screen, message
<1> QED
  BY <1>1, <1>2, <1>3 DEF WindowsInv

-----------------------------------------------------------------------------
(* Showing, hiding and closing. *)

(* WM_SETFOCUS notes a handle. *)
LEMMA FocusedTyped ==
  ASSUME ModalInv, NEW h \in Handles \cup {NoHandle}, NEW en
  PROVE  Focused(h, en) \in Handles \cup {NoHandle}
BY DEF Focused, ModalInv

(* _hmg_OnHideFocusManagement enables only windows that exist. *)
LEMMA OnHideTyped ==
  ASSUME TableInv, ModalInv, StateInv, ScreenInv, NEW i \in Slots
  PROVE  /\ OnHide(i).modal \in BOOLEAN
         /\ OnHide(i).top \in Handles \cup {NoHandle}
         /\ OnHide(i).focus \in Handles \cup {NoHandle}
         /\ OnHide(i).on \subseteq LiveHandles
<1> DEFINE p == form[i].parent
           all == enabled \cup LiveHandles
<1>1. p \in Handles \cup {NoHandle} /\ mainHandle \in Handles \cup {NoHandle}
  BY DEF TableInv, FormRecord, StateInv
<1>2. all \subseteq LiveHandles /\ enabled \subseteq LiveHandles
  BY DEF ScreenInv
<1>3. SlotOf(p) # 0 => p \in LiveHandles
  BY SlotOfFinds
<1>4. \A en : /\ Focused(p, en) \in Handles \cup {NoHandle}
              /\ Focused(mainHandle, en) \in Handles \cup {NoHandle}
  BY <1>1, FocusedTyped
<1>5. CASE p = NoHandle
  BY <1>2, <1>5 DEF OnHide, ModalInv
<1>6. CASE p # NoHandle /\ SlotOf(p) # 0 /\ IsModal(SlotOf(p))
  BY <1>1, <1>2, <1>3, <1>4, <1>6 DEF OnHide
<1>7. CASE p # NoHandle /\ SlotOf(p) # 0 /\ ~IsModal(SlotOf(p))
  BY <1>2, <1>4, <1>7 DEF OnHide
<1>8. CASE p # NoHandle /\ SlotOf(p) = 0
  BY <1>2, <1>4, <1>8 DEF OnHide
<1> QED
  BY <1>5, <1>6, <1>7, <1>8

(* _HideWindow *)
LEMMA HideWindowKeeps ==
  ASSUME WindowsInv, NEW i \in Slots, NEW s \in Seq(Call), HideWindow(i, s)
  PROVE  WindowsInv'
<1>1. CASE form[i].handle \notin visible
  BY <1>1, GotoKeeps DEF HideWindow
<1>2. CASE form[i].handle \in visible /\ IsModal(i) /\ activeModal # form[i].handle
  BY <1>2, AbortKeeps DEF HideWindow
<1>3. CASE form[i].handle \in visible /\ ~(IsModal(i) /\ activeModal # form[i].handle)
  <2>1. /\ visible' = visible \ {form[i].handle}
        /\ enabled' = OnHide(i).on
        /\ SetModality(OnHide(i))
        /\ stack' = s
        /\ UNCHANGED <<table, counter, message, status>>
    BY <1>3 DEF HideWindow
  <2>2. TableInv' /\ LiveHandles' = LiveHandles
    BY <2>1, TableKept DEF WindowsInv, table
  <2>3. StateInv'
    BY <2>1, StateKept DEF WindowsInv, StateInv, table, message
  <2>4. ModalInv'
    BY <2>1, OnHideTyped DEF WindowsInv, ModalInv, SetModality
  <2>5. ScreenInv'
    BY <2>1, <2>2, OnHideTyped DEF WindowsInv, ScreenInv
  <2>6. QueueInv' /\ StackInv'
    BY <2>1, <2>2, QueueKept DEF WindowsInv, StackInv, message
  <2> QED
    BY <2>2, <2>3, <2>4, <2>5, <2>6 DEF WindowsInv
<1> QED
  BY <1>1, <1>2, <1>3

(* The modal part of _ShowWindow, for a table with the same windows. *)
LEMMA ShowModalKeeps ==
  ASSUME WindowsInv, NEW f \in [Slots -> FormRecord],
         \A j \in Slots : f[j].name = form[j].name /\ f[j].handle = form[j].handle,
         NEW i \in Slots, Live(i), ShowModal(f, i), UNCHANGED nameVar
  PROVE  TableInv' /\ LiveHandles' = LiveHandles /\ ModalInv' /\ ScreenInv'
<1> DEFINE q == ModalParent
<1>1. q \in Handles \cup {NoHandle}
  BY DEF WindowsInv, ModalInv, StateInv, ModalParent
<1>2. f[i].handle \in LiveHandles /\ f[i].handle \in Handles
  BY LiveHandlesTyped DEF WindowsInv, LiveHandles
<1>3. /\ form' = [f EXCEPT ![i].parent = q]
      /\ enabled' = (enabled \ Others([f EXCEPT ![i].parent = q], i)) \cup {f[i].handle}
      /\ modalActive' = TRUE
      /\ activeModal' = f[i].handle
      /\ visible' = visible \cup {f[i].handle}
      /\ userWindow' = userWindow
  BY DEF ShowModal
<1> HIDE DEF q
<1>4. form' \in [Slots -> FormRecord]
  BY <1>1, <1>3 DEF FormRecord
<1>5. \A j \in Slots : form'[j].name = form[j].name /\ form'[j].handle = form[j].handle
  BY <1>1, <1>3 DEF FormRecord
<1>6. TableInv' /\ LiveHandles' = LiveHandles
  BY <1>4, <1>5, SameWindows DEF WindowsInv
<1>7. ModalInv'
  BY <1>2, <1>3 DEF WindowsInv, ModalInv
<1>8. ScreenInv'
  BY <1>2, <1>3, <1>6 DEF WindowsInv, ScreenInv
<1> QED
  BY <1>6, <1>7, <1>8

(* The counter of an activation never goes below zero. *)
LEMMA CountDownTyped ==
  ASSUME counter \in [ActivateIds -> Nat], NEW a
  PROVE  CountDown(a) \in [ActivateIds -> Nat]
<1>1. CASE a \in ActivateIds /\ a > 0 /\ counter[a] > 0
  <2>1. counter[a] - 1 \in Nat
    BY <1>1
  <2>2. [counter EXCEPT ![a] = counter[a] - 1] \in [ActivateIds -> Nat]
    BY <2>1
  <2> QED
    BY <1>1, <2>2 DEF CountDown
<1>2. CASE a \notin ActivateIds
  <2>1. [counter EXCEPT ![a] = counter[a] - 1] \in [ActivateIds -> Nat]
    BY <1>2
  <2> QED
    BY <2>1 DEF CountDown
<1>3. CASE ~(a > 0 /\ counter[a] > 0)
  BY <1>3 DEF CountDown
<1> QED
  BY <1>1, <1>2, <1>3

(* WM_DESTROY clears one slot, the public variable of its window and what  *)
(* the screen and the queue hold of it.                                    *)
LEMMA DestroyWindowKeeps ==
  ASSUME WindowsInv, NEW h \in Handles, DestroyWindow(h)
  PROVE  /\ TableInv' /\ QueueInv'
         /\ LiveHandles' = LiveHandles \ {h}
         /\ visible' \subseteq LiveHandles \ {h}
         /\ counter' \in [ActivateIds -> Nat] /\ quit' \in BOOLEAN
<1> DEFINE d == SlotOf(h)
<1>0. /\ d \in Slots \cup {0}
      /\ d # 0 => Live(d) /\ form[d].handle = h
      /\ d = 0 => h \notin LiveHandles
  BY SlotOfFinds
<1>1. CASE d = 0
  <2>1. UNCHANGED <<form, nameVar, visible, counter, queue, quit>>
    BY <1>1 DEF DestroyWindow
  <2>2. TableInv' /\ LiveHandles' = LiveHandles /\ LiveHandles = LiveHandles \ {h}
    BY <1>0, <1>1, <2>1, TableKept DEF WindowsInv
  <2> QED
    BY <2>1, <2>2, QueueKept DEF WindowsInv, ScreenInv, StateInv
<1>2. CASE d # 0
  <2>1. /\ form' = [form EXCEPT ![d] = NoForm]
        /\ nameVar' = Forget(form[d].name)
        /\ visible' = visible \ {h}
        /\ counter' = CountDown(form[d].id)
        /\ quit' = (quit \/ LastOfActivation(d))
        /\ queue' = [j \in DOMAIN queue |->
                      IF queue[j].h = h THEN Discarded ELSE queue[j]]
    BY <1>2 DEF DestroyWindow
  <2> HIDE DEF d
  <2>2. d \in Slots /\ Live(d) /\ form[d].handle = h /\ form[d].name \in Names
    BY <1>0, <1>2 DEF WindowsInv, TableInv, Live, FormRecord
  <2>3. form' \in [Slots -> FormRecord]
    <3>1. NoForm \in FormRecord
      BY DEF NoForm, FormRecord
    <3> QED
      BY <2>1, <3>1 DEF WindowsInv, TableInv
  <2>4. nameVar' \in [Names -> Slots \cup {0}]
    BY <2>1 DEF WindowsInv, TableInv, Forget
  <2>5. /\ \A j \in Slots : j # d => form'[j] = form[j]
        /\ form'[d].name = NoName /\ form'[d].handle = NoHandle
    BY <2>1, <2>2 DEF WindowsInv, TableInv, NoForm
  <2>6. \A j \in Slots : Live(j)' <=> Live(j) /\ j # d
    BY <2>5 DEF Live
  <2>7. NamesMatch'
    <3>1. \A n \in Names : nameVar'[n] = IF n = form[d].name THEN 0 ELSE nameVar[n]
      BY <2>1 DEF WindowsInv, TableInv, Forget
    <3>2. nameVar[form[d].name] = d
      BY <2>2 DEF WindowsInv, TableInv, NamesMatch
    <3>3. ASSUME NEW n \in Names, Defined(n)' PROVE form'[nameVar'[n]].name = n
      <4>1. n # form[d].name /\ nameVar'[n] = nameVar[n] /\ Defined(n)
        BY <3>1, <3>3 DEF Defined
      <4>2. nameVar[n] \in Slots /\ form[nameVar[n]].name = n
        BY <4>1 DEF WindowsInv, TableInv, NamesMatch, Defined
      <4> QED
        BY <2>5, <4>1, <4>2
    <3>4. ASSUME NEW j \in Slots, Live(j)' PROVE nameVar'[form'[j].name] = j
      <4>1. j # d /\ Live(j) /\ form'[j] = form[j]
        BY <2>5, <2>6, <3>4
      <4>2. nameVar[form[j].name] = j /\ form[j].name \in Names
        BY <4>1 DEF WindowsInv, TableInv, NamesMatch, Live, FormRecord
      <4> QED
        BY <3>1, <3>2, <4>1, <4>2
    <3>5. \A j \in Slots : Live(j)' <=> form'[j].handle # NoHandle
      BY <2>5, <2>6 DEF WindowsInv, TableInv, NamesMatch
    <3> QED
      BY <3>3, <3>4, <3>5 DEF NamesMatch
  <2>8. HandlesMatch'
    BY <2>5, <2>6 DEF WindowsInv, TableInv, HandlesMatch
  <2>9. LiveHandles' = LiveHandles \ {h}
    BY <2>2, <2>5, <2>6 DEF WindowsInv, TableInv, HandlesMatch, LiveHandles
  <2>10. QueueInv'
    <3>1. Discarded \in Message
      BY DEF Discarded, Message
    <3>2. queue \in [1 .. Len(queue) -> Message] /\ Len(queue) \in Nat
          /\ DOMAIN queue = 1 .. Len(queue)
      BY LenProperties DEF WindowsInv, QueueInv
    <3>3. queue' \in [1 .. Len(queue) -> Message]
      BY <2>1, <3>1, <3>2
    <3>4. queue' \in Seq(Message)
      BY <3>2, <3>3, SeqDef
    <3>5. ASSUME NEW j \in DOMAIN queue'
          PROVE  queue'[j] = Discarded \/ queue'[j].h \in LiveHandles'
      <4>1. /\ j \in DOMAIN queue
            /\ queue'[j] = Discarded \/ (queue'[j] = queue[j] /\ queue[j].h # h)
        BY <2>1, <3>5
      <4>2. queue[j] = Discarded \/ queue[j].h \in LiveHandles
        BY <4>1 DEF WindowsInv, QueueInv
      <4> QED
        BY <2>9, <4>1, <4>2
    <3>6. Discarded' = Discarded
      BY DEF Discarded
    <3> QED
      BY <3>4, <3>5, <3>6 DEF QueueInv, Message
  <2>11. visible' \subseteq LiveHandles \ {h}
    BY <2>1 DEF WindowsInv, ScreenInv
  <2>12. counter' \in [ActivateIds -> Nat] /\ quit' \in BOOLEAN
    <3>1. counter \in [ActivateIds -> Nat] /\ quit \in BOOLEAN
      BY DEF WindowsInv, StateInv
    <3>2. CountDown(form[d].id) \in [ActivateIds -> Nat]
      BY <3>1, CountDownTyped
    <3>3. LastOfActivation(d) \in BOOLEAN
      BY DEF LastOfActivation
    <3> QED
      BY <2>1, <3>1, <3>2, <3>3
  <2> QED
    BY <2>3, <2>4, <2>7, <2>8, <2>9, <2>10, <2>11, <2>12 DEF TableInv
<1> QED
  BY <1>1, <1>2

(* The end of the WM_CLOSE handler. *)
LEMMA FinishCloseKeeps ==
  ASSUME WindowsInv, NEW i \in Slots, NEW h \in Handles, NEW s \in Seq(Call),
         FinishClose(i, h, s)
  PROVE  WindowsInv'
<1>1. /\ SetModality(OnHide(i))
      /\ DestroyWindow(h)
      /\ enabled' = OnHide(i).on \ {h}
      /\ stack' = s
      /\ UNCHANGED <<mainHandle, mainActive, interactiveClose, status>>
  BY DEF FinishClose
<1>2. /\ TableInv' /\ QueueInv'
      /\ LiveHandles' = LiveHandles \ {h}
      /\ visible' \subseteq LiveHandles \ {h}
      /\ counter' \in [ActivateIds -> Nat] /\ quit' \in BOOLEAN
  BY <1>1, DestroyWindowKeeps
<1>3. StateInv'
  BY <1>1, <1>2, StateKept DEF WindowsInv, StateInv
<1>4. ModalInv'
  BY <1>1, OnHideTyped DEF WindowsInv, ModalInv, SetModality
<1>5. ScreenInv'
  BY <1>1, <1>2, OnHideTyped DEF WindowsInv, ScreenInv
<1> QED
  BY <1>1, <1>2, <1>3, <1>4, <1>5 DEF WindowsInv, StackInv

(* ON RELEASE is called. *)
LEMMA CallOnReleaseKeeps ==
  ASSUME WindowsInv, NEW i \in Slots, NEW s \in Seq(Call), CallOnRelease(i, s)
  PROVE  WindowsInv'
<1>1. /\ form' = [form EXCEPT ![i].released = @ + 1]
      /\ stack' = Push(User("WINDOW_RELEASE", i), s)
      /\ UNCHANGED <<nameVar, mainHandle, mainActive, interactiveClose, modality,
                     counter, screen, message, status>>
  BY DEF CallOnRelease
<1>2. form[i] \in FormRecord /\ form[i].released + 1 \in Nat
  BY DEF WindowsInv, TableInv, FormRecord
<1>3. /\ form' \in [Slots -> FormRecord]
      /\ \A j \in Slots : form'[j].name = form[j].name /\ form'[j].handle = form[j].handle
  <2> DEFINE v == [form[i] EXCEPT !.released = @ + 1]
  <2>1. v \in FormRecord /\ v.name = form[i].name /\ v.handle = form[i].handle
    BY <1>2 DEF FormRecord
  <2>2. form' = [form EXCEPT ![i] = v]
    BY <1>1
  <2> HIDE DEF v
  <2> QED
    BY <2>1, <2>2 DEF WindowsInv, TableInv
<1>4. TableInv' /\ LiveHandles' = LiveHandles
  BY <1>1, <1>3, SameWindows DEF WindowsInv
<1>5. StateInv' /\ ModalInv'
  BY <1>1, StateKept, ModalKept DEF WindowsInv, StateInv, message
<1>6. ScreenInv' /\ QueueInv'
  BY <1>1, <1>4, QueueKept DEF WindowsInv, ScreenInv, screen, message
<1>7. StackInv'
  BY <1>1, SlotsAreNumbers, FramesTyped, PushTyped DEF StackInv
<1> QED
  BY <1>4, <1>5, <1>6, <1>7 DEF WindowsInv

(* The three handlers of a WM_CLOSE. *)
LEMMA HideOrReleaseKeeps ==
  ASSUME WindowsInv, NEW i \in Slots, NEW h \in Handles, NEW s \in Seq(Call),
         HideOrRelease(i, h, s)
  PROVE  WindowsInv'
<1>1. CASE Goto(s)
  BY <1>1, GotoKeeps
<1>2. CASE HideWindow(i, s)
  BY <1>2, HideWindowKeeps
<1>3. CASE ReleaseAllWindows(s)
  <2>1. Push(ReleasingAll(1), s) \in Seq(Call)
    BY FramesTyped, PushTyped
  <2> QED
    BY <1>3, <2>1, GotoKeeps, AbortKeeps DEF ReleaseAllWindows
<1>4. CASE CallOnRelease(i, Push(Closing("release", i, h, 1), s))
  <2>1. Push(Closing("release", i, h, 1), s) \in Seq(Call)
    BY FramesTyped, PushTyped
  <2> QED
    BY <1>4, <2>1, CallOnReleaseKeeps
<1>5. CASE FinishClose(i, h, s)
  BY <1>5, FinishCloseKeeps
<1> QED
  BY <1>1, <1>2, <1>3, <1>4, <1>5 DEF HideOrRelease

(* The part after ON INTERACTIVECLOSE. *)
LEMMA AfterAskKeeps ==
  ASSUME WindowsInv, NEW i \in Slots, NEW h \in Handles, NEW lp, NEW s \in Seq(Call),
         AfterAsk(i, h, lp, s)
  PROVE  WindowsInv'
BY GotoKeeps, HideOrReleaseKeeps DEF AfterAsk

(* The part before ON INTERACTIVECLOSE. *)
LEMMA StartCloseKeeps ==
  ASSUME WindowsInv, NEW i \in Slots, NEW h \in Handles, NEW lp \in {0, 1}, NEW s \in Seq(Call),
         StartClose(i, h, lp, s)
  PROVE  WindowsInv'
<1>1. CASE form[i].name \in AskClose
  <2>1. Push(User("WINDOW_ONINTERACTIVECLOSE", i), Push(Closing("ask", i, h, lp), s)) \in Seq(Call)
    BY SlotsAreNumbers, FramesTyped, PushTyped
  <2> QED
    BY <1>1, <2>1, GotoKeeps DEF StartClose
<1>2. CASE form[i].name \notin AskClose
  BY <1>2, AfterAskKeeps DEF StartClose
<1> QED
  BY <1>1, <1>2

-----------------------------------------------------------------------------
(* The commands of the user code. *)

(* A step that replaces the table by one with the same windows. *)
LEMMA FormsKept ==
  ASSUME WindowsInv, form' \in [Slots -> FormRecord], UNCHANGED nameVar,
         \A j \in Slots : form'[j].name = form[j].name /\ form'[j].handle = form[j].handle,
         UNCHANGED <<mainHandle, interactiveClose, modality, visible, quit, status>>,
         mainActive' \in BOOLEAN, counter' \in [ActivateIds -> Nat],
         enabled' \subseteq LiveHandles,
         queue' \in Seq(Message),
         \A j \in DOMAIN queue' : queue'[j] = Discarded \/ queue'[j].h \in LiveHandles,
         stack' \in Seq(Call)
  PROVE  WindowsInv'
<1>1. TableInv' /\ LiveHandles' = LiveHandles
  BY SameWindows DEF WindowsInv
<1>2. StateInv' /\ ModalInv'
  BY ModalKept DEF WindowsInv, StateInv
<1>3. ScreenInv' /\ QueueInv' /\ StackInv'
  BY <1>1 DEF WindowsInv, ScreenInv, QueueInv, StackInv, Discarded, Message
<1> QED
  BY <1>1, <1>2, <1>3 DEF WindowsInv

(* DEFINE WINDOW takes a free slot and a handle that is not in use. *)
LEMMA DefineKeeps ==
  ASSUME WindowsInv, NEW n \in Names, Define(n)
  PROVE  WindowsInv'
<1>1. PICK k \in Slots, h \in Handles \ LiveHandles :
        /\ FreeSlot(k)
        /\ form' = [form EXCEPT ![k] =
                      [NoForm EXCEPT !.name = n, !.handle = h,
                         !.parent = IF n \in Modal THEN mainHandle ELSE NoHandle]]
        /\ nameVar' = [nameVar EXCEPT ![n] = k]
        /\ enabled' = enabled \cup {h}
        /\ mainHandle' = IF n = Main THEN h ELSE mainHandle
  BY DEF Define
<1>2. /\ ~Defined(n)
      /\ UNCHANGED <<mainActive, interactiveClose, modality, counter, visible, message,
                     stack, status>>
  BY DEF Define
<1>3. n # NoName /\ h # NoHandle /\ mainHandle \in Handles \cup {NoHandle}
  BY WindowsAssumption DEF WindowsInv, StateInv
<1> DEFINE v == [NoForm EXCEPT !.name = n, !.handle = h,
                   !.parent = IF n \in Modal THEN mainHandle ELSE NoHandle]
<1>4. v \in FormRecord /\ v.name = n /\ v.handle = h
  BY <1>3 DEF NoForm, FormRecord
<1>5. form' = [form EXCEPT ![k] = v]
  BY <1>1
<1> HIDE DEF v
<1>6. form' \in [Slots -> FormRecord] /\ nameVar' \in [Names -> Slots \cup {0}]
  BY <1>1, <1>4, <1>5 DEF WindowsInv, TableInv
<1>7. \A j \in Slots : form'[j] = IF j = k THEN v ELSE form[j]
  BY <1>5 DEF WindowsInv, TableInv
<1>8. \A j \in Slots : Live(j)' <=> Live(j) \/ j = k
  BY <1>3, <1>4, <1>7 DEF Live
<1>9. ~Live(k)
  BY <1>1 DEF FreeSlot
<1>10. \A m \in Names : nameVar'[m] = IF m = n THEN k ELSE nameVar[m]
  BY <1>1 DEF WindowsInv, TableInv
<1>11. NamesMatch'
  <2>1. ASSUME NEW m \in Names, Defined(m)' PROVE form'[nameVar'[m]].name = m
    <3>1. CASE m = n
      BY <1>4, <1>7, <1>10, <3>1
    <3>2. CASE m # n
      <4>1. nameVar'[m] = nameVar[m] /\ Defined(m)
        BY <1>10, <2>1, <3>2 DEF Defined
      <4>2. nameVar[m] \in Slots /\ form[nameVar[m]].name = m /\ Live(nameVar[m])
        BY <4>1, DefinedIsLive DEF WindowsInv, TableInv, NamesMatch
      <4> QED
        BY <1>7, <1>9, <4>1, <4>2
    <3> QED
      BY <3>1, <3>2
  <2>2. ASSUME NEW j \in Slots, Live(j)' PROVE nameVar'[form'[j].name] = j
    <3>1. CASE j = k
      BY <1>4, <1>7, <1>10, <3>1
    <3>2. CASE j # k
      <4>1. Live(j) /\ form'[j] = form[j] /\ form[j].name \in Names
        BY <1>7, <1>8, <2>2, <3>2 DEF WindowsInv, TableInv, Live, FormRecord
      <4>2. nameVar[form[j].name] = j /\ j # 0
        BY <4>1, SlotsAreNumbers DEF WindowsInv, TableInv, NamesMatch
      <4>3. form[j].name # n
        BY <1>2, <4>2 DEF Defined
      <4> QED
        BY <1>10, <4>1, <4>2, <4>3
    <3> QED
      BY <3>1, <3>2
  <2>3. \A j \in Slots : Live(j)' <=> form'[j].handle # NoHandle
    BY <1>3, <1>4, <1>7, <1>8 DEF WindowsInv, TableInv, NamesMatch
  <2> QED
    BY <2>1, <2>2, <2>3 DEF NamesMatch
<1>12. HandlesMatch'
  BY <1>4, <1>7, <1>8 DEF WindowsInv, TableInv, HandlesMatch, LiveHandles
<1>13. LiveHandles' = LiveHandles \cup {h}
  BY <1>4, <1>7, <1>8, <1>9 DEF LiveHandles
<1>14. TableInv'
  BY <1>6, <1>11, <1>12 DEF TableInv
<1>15. StateInv' /\ ModalInv'
  BY <1>1, <1>2, ModalKept DEF WindowsInv, StateInv, message
<1>16. ScreenInv' /\ StackInv'
  BY <1>1, <1>2, <1>13 DEF WindowsInv, ScreenInv, StackInv
<1>17. QueueInv'
  BY <1>2, <1>13 DEF WindowsInv, QueueInv, message, Discarded
<1> QED
  BY <1>14, <1>15, <1>16, <1>17 DEF WindowsInv

(* ACTIVATE WINDOW up to its first window. *)
LEMMA ActivateKeeps ==
  ASSUME WindowsInv, NEW s \in Activations, NEW w \in BOOLEAN, Activate(s, w)
  PROVE  WindowsInv'
<1>1. CASE Abort
  BY <1>1, AbortKeeps
<1>2. CASE ~ActivateWrongly(s)
  <2>1. /\ UNCHANGED <<form, nameVar, mainHandle, interactiveClose, modality, screen,
                       message, status>>
        /\ mainActive' = (mainActive \/ Main \in NamesOf(s))
        /\ \/ /\ stack' = Push(Activating(s, FALSE, 0, NewLoop, w, NoName), stack)
              /\ UNCHANGED counter
           \/ \E id \in ActivateIds :
                /\ counter' = [counter EXCEPT ![id] = Len(s)]
                /\ stack' = Push(Activating(s, TRUE, id, NewLoop, w, NoName), stack)
    BY <1>2 DEF Activate
  <2>2. s \in Seq(Names) /\ Len(s) \in Nat
    BY WindowsAssumption, LenProperties
  <2>3. \A several \in BOOLEAN, id \in Nat :
          Activating(s, several, id, NewLoop, w, NoName) \in Call
    BY <2>2, NewLoopTyped DEF WindowsInv, Activating, Call
  <2>4. stack' \in Seq(Call)
    <3>1. CASE stack' = Push(Activating(s, FALSE, 0, NewLoop, w, NoName), stack)
      BY <2>3, <3>1, PushTyped DEF WindowsInv, StackInv
    <3>2. CASE \E id \in ActivateIds :
                 stack' = Push(Activating(s, TRUE, id, NewLoop, w, NoName), stack)
      <4>1. PICK id \in ActivateIds :
              stack' = Push(Activating(s, TRUE, id, NewLoop, w, NoName), stack)
        BY <3>2
      <4> DEFINE c == Activating(s, TRUE, id, NewLoop, w, NoName)
      <4>2. id \in Nat
        BY WindowsAssumption
      <4>3. c \in Call /\ stack \in Seq(Call)
        BY <2>3, <4>2 DEF WindowsInv, StackInv
      <4> HIDE DEF c
      <4>4. Push(c, stack) \in Seq(Call)
        BY <4>3, PushTyped
      <4> QED
        BY <4>1, <4>4 DEF c
    <3> QED
      BY <2>1, <3>1, <3>2
  <2>5. counter' \in [ActivateIds -> Nat]
    BY <2>1, <2>2 DEF WindowsInv, StateInv
  <2>6. mainActive' \in BOOLEAN
    BY <2>1 DEF WindowsInv, StateInv
  <2> QED
    BY <2>1, <2>4, <2>5, <2>6, FormsKept
       DEF WindowsInv, TableInv, ScreenInv, QueueInv, screen, message
<1> QED
  BY <1>1, <1>2 DEF Activate

(* RELEASE WINDOW posts WM_CLOSE to a window that exists. *)
LEMMA ReleaseKeeps ==
  ASSUME WindowsInv, NEW n \in Names, Release(n)
  PROVE  WindowsInv'
<1> DEFINE h == form[nameVar[n]].handle
<1>1. CASE Abort
  BY <1>1, AbortKeeps
<1>2. CASE /\ interactiveClose' = 1
           /\ stack' = Push(ReleasingAll(1), stack)
           /\ UNCHANGED <<form, nameVar, mainHandle, mainActive, modality, counter, screen,
                          message, status>>
  <2>1. TableInv' /\ LiveHandles' = LiveHandles
    BY <1>2, TableKept DEF WindowsInv
  <2>2. StateInv' /\ ModalInv'
    BY <1>2, ModalKept DEF WindowsInv, StateInv, message
  <2>3. ScreenInv' /\ QueueInv'
    BY <1>2, <2>1, QueueKept DEF WindowsInv, ScreenInv, screen, message
  <2>4. StackInv'
    BY <1>2, FramesTyped, PushTyped DEF WindowsInv, StackInv
  <2> QED
    BY <2>1, <2>2, <2>3, <2>4 DEF WindowsInv
<1>3. CASE /\ Active(n)
           /\ queue' = Append(queue, [h |-> h, lp |-> 1])
           /\ enabled' = enabled \cup {h}
           /\ form' = IF IsModal(nameVar[n]) /\ activeModal # h THEN form
                      ELSE [x \in Slots |->
                             IF form[x].parent = h
                               THEN [form[x] EXCEPT !.parent = mainHandle]
                               ELSE form[x]]
           /\ UNCHANGED <<nameVar, mainHandle, mainActive, interactiveClose, modality,
                          counter, visible, quit, stack, status>>
  <2>1. h \in LiveHandles /\ h \in Handles
    BY <1>3, DefinedIsLive DEF WindowsInv, Active
  <2> HIDE DEF h
  <2>2. mainHandle \in Handles \cup {NoHandle}
    BY DEF WindowsInv, StateInv
  <2>3. \A x \in Slots :
          LET v == [form[x] EXCEPT !.parent = mainHandle]
          IN  v \in FormRecord /\ v.name = form[x].name /\ v.handle = form[x].handle
    <3>1. \A r \in FormRecord :
            LET v == [r EXCEPT !.parent = mainHandle]
            IN  v \in FormRecord /\ v.name = r.name /\ v.handle = r.handle
      BY <2>2 DEF FormRecord
    <3> QED
      BY <3>1 DEF WindowsInv, TableInv
  <2>4. /\ form' \in [Slots -> FormRecord]
        /\ \A j \in Slots : form'[j].name = form[j].name /\ form'[j].handle = form[j].handle
    BY <1>3, <2>3 DEF WindowsInv, TableInv
  <2>5. [h |-> h, lp |-> 1] \in Message
    BY <2>1 DEF Message
  <2>6. /\ queue' \in Seq(Message)
        /\ \A j \in DOMAIN queue' :
             \/ j \in DOMAIN queue /\ queue'[j] = queue[j]
             \/ queue'[j] = [h |-> h, lp |-> 1]
    BY <1>3, <2>5, AppendProperties, LenProperties DEF WindowsInv, QueueInv
  <2>7. \A j \in DOMAIN queue' : queue'[j] = Discarded \/ queue'[j].h \in LiveHandles
    BY <2>1, <2>6 DEF WindowsInv, QueueInv
  <2> QED
    BY <1>3, <2>1, <2>4, <2>6, <2>7, FormsKept DEF WindowsInv, ScreenInv, StateInv, StackInv
<1> QED
  BY <1>1, <1>2, <1>3 DEF Release

(* SHOW WINDOW. *)
LEMMA ShowKeeps ==
  ASSUME WindowsInv, NEW n \in Names, Show(n)
  PROVE  WindowsInv'
<1> DEFINE i == nameVar[n]
<1>1. i \in Slots /\ Live(i) /\ form[i].handle \in LiveHandles
  BY DefinedIsLive DEF WindowsInv, Show
<1>2. /\ stack' = Push(Pump, stack)
      /\ UNCHANGED <<nameVar, mainHandle, mainActive, interactiveClose, counter, message,
                     status>>
      /\ \/ ShowModal(form, i)
         \/ /\ visible' = visible \cup {form[i].handle}
            /\ UNCHANGED <<form, enabled, modality>>
  BY DEF Show
<1>3. TableInv' /\ LiveHandles' = LiveHandles /\ ModalInv' /\ ScreenInv'
  <2>1. CASE ShowModal(form, i)
    BY <1>1, <1>2, <2>1, ShowModalKeeps DEF WindowsInv, TableInv
  <2>2. CASE /\ visible' = visible \cup {form[i].handle}
             /\ UNCHANGED <<form, enabled, modality>>
    BY <1>1, <1>2, <2>2, TableKept, ModalKept DEF WindowsInv, ScreenInv
  <2> QED
    BY <1>2, <2>1, <2>2
<1>4. StateInv' /\ QueueInv'
  BY <1>2, <1>3, QueueKept DEF WindowsInv, StateInv, message
<1>5. StackInv'
  BY <1>2, FramesTyped, PushTyped DEF WindowsInv, StackInv
<1> QED
  BY <1>3, <1>4, <1>5 DEF WindowsInv

(* HIDE WINDOW. *)
LEMMA HideKeeps ==
  ASSUME WindowsInv, NEW n \in Names, Hide(n)
  PROVE  WindowsInv'
<1>1. nameVar[n] \in Slots /\ HideWindow(nameVar[n], stack) /\ stack \in Seq(Call)
  BY DefinedIsLive DEF WindowsInv, Hide, StackInv
<1> QED
  BY <1>1, HideWindowKeeps

(* A step that only starts a call. *)
LEMMA PushKeeps ==
  ASSUME WindowsInv, NEW f \in Call, Goto(Push(f, stack))
  PROVE  WindowsInv'
BY PushTyped, GotoKeeps DEF WindowsInv, StackInv

(* The return of a callback. *)
LEMMA ReturnKeeps ==
  ASSUME WindowsInv, Return
  PROVE  WindowsInv'
<1>1. stack # <<>> /\ Rest \in Seq(Call)
  BY TopTyped DEF Return, Running, WindowsInv
<1>2. Rest # <<>> => Tail(Rest) \in Seq(Call)
  BY <1>1, HeadTailProperties
<1>3. CASE Rest = <<>>
  <2>1. TableInv' /\ LiveHandles' = LiveHandles
    BY <1>3, TableKept DEF WindowsInv, Return, table
  <2>2. StateInv' /\ ModalInv'
    BY <1>3, ModalKept DEF WindowsInv, StateInv, Return, table, message
  <2>3. ScreenInv' /\ QueueInv' /\ StackInv'
    BY <1>3, <2>1, QueueKept DEF WindowsInv, ScreenInv, StackInv, Return, screen, message
  <2> QED
    BY <2>1, <2>2, <2>3 DEF WindowsInv
<1>4. CASE Goto(Rest)
  BY <1>1, <1>4, GotoKeeps
<1>5. CASE Rest # <<>> /\ Goto(Tail(Rest))
  BY <1>2, <1>5, GotoKeeps
<1> QED
  BY <1>3, <1>4, <1>5 DEF Return

-----------------------------------------------------------------------------
(* The steps of the library. *)

(* One window of ACTIVATE WINDOW. *)
LEMMA ActivateNextKeeps ==
  ASSUME WindowsInv, ActivateNext
  PROVE  WindowsInv'
<1> DEFINE n == Head(Top.todo)
           i == nameVar[n]
           g == [form EXCEPT ![i].active = TRUE, ![i].id = Top.id, ![i].loop = Top.g]
           shown == IF Top.several /\ n \in Modal \ NoShow THEN n ELSE Top.shown
           call == [Top EXCEPT !.todo = Tail(@), !.shown = shown]
<1>1. stack # <<>> /\ Top \in Call /\ Top.k = "act" /\ Rest \in Seq(Call) /\ Top.todo # <<>>
  BY TopTyped DEF ActivateNext, Running, Top, WindowsInv
<1>2. Top \in [k : {"act"}, todo : Seq(Names), several : BOOLEAN, id : Nat, g : Nat,
               nowait : BOOLEAN, shown : Names \cup {NoName}]
  BY <1>1, CallFields
<1>3. n \in Names /\ Tail(Top.todo) \in Seq(Names) /\ Top.id \in Nat /\ Top.g \in Nat
  BY <1>1, <1>2, HeadTailProperties
<1>4. CASE ActivateNextWrongly(n)
  BY <1>4, AbortKeeps DEF ActivateNext
<1>5. CASE ~ActivateNextWrongly(n)
  <2>1. /\ \/ ShowModal(g, i)
           \/ /\ form' = g
              /\ visible' = IF n \in NoShow THEN visible
                            ELSE visible \cup {form[i].handle}
              /\ UNCHANGED <<enabled, modality>>
        /\ stack' = IF n \in OnInit
                      THEN Push(Pump, Push(InitCall(i), Push(call, Rest)))
                      ELSE Push(call, Rest)
        /\ UNCHANGED <<nameVar, mainHandle, mainActive, interactiveClose, counter, message,
                       status>>
    BY <1>5 DEF ActivateNext
  <2>2. i \in Slots /\ Live(i) /\ form[i].handle \in LiveHandles
    BY <1>3, <1>5, DefinedIsLive DEF WindowsInv, ActivateNextWrongly
  <2>3. call \in Call
    <3>1. shown \in Names \cup {NoName}
      BY <1>2, <1>3
    <3>2. \A c \in [k : {"act"}, todo : Seq(Names), several : BOOLEAN, id : Nat, g : Nat,
                     nowait : BOOLEAN, shown : Names \cup {NoName}] :
            \A t \in Seq(Names), x \in Names \cup {NoName} :
              [c EXCEPT !.todo = t, !.shown = x] \in Call
      BY DEF Call
    <3> HIDE DEF shown
    <3> QED
      BY <1>2, <1>3, <3>1, <3>2
  <2>4. stack' \in Seq(Call)
    <3> HIDE DEF call, i
    <3>1. Push(call, Rest) \in Seq(Call)
      BY <1>1, <2>3, PushTyped
    <3>2. InitCall(i) \in Call /\ Pump \in Call
      BY <2>2, FramesTyped
    <3>3. Push(Pump, Push(InitCall(i), Push(call, Rest))) \in Seq(Call)
      BY <3>1, <3>2, PushTyped
    <3> QED
      BY <2>1, <3>1, <3>3
  <2>5. /\ g \in [Slots -> FormRecord]
        /\ \A j \in Slots : g[j].name = form[j].name /\ g[j].handle = form[j].handle
    <3>1. form \in [Slots -> FormRecord]
      BY DEF WindowsInv, TableInv
    <3>2. g = [form EXCEPT ![i] = [form[i] EXCEPT !.active = TRUE, !.id = Top.id, !.loop = Top.g]]
      <4> HIDE DEF i
      <4> QED
        BY <2>2, <3>1
    <3> DEFINE v == [form[i] EXCEPT !.active = TRUE, !.id = Top.id, !.loop = Top.g]
    <3> HIDE DEF i
    <3>3. form[i] \in FormRecord
      BY <2>2, <3>1
    <3>4. v \in FormRecord /\ v.name = form[i].name /\ v.handle = form[i].handle
      BY <1>3, <3>3 DEF FormRecord
    <3>5. g = [form EXCEPT ![i] = v]
      BY <3>2
    <3> HIDE DEF g, v
    <3> QED
      BY <2>2, <3>1, <3>4, <3>5
  <2> HIDE DEF g, i, n
  <2>6. TableInv' /\ LiveHandles' = LiveHandles /\ ModalInv' /\ ScreenInv'
    <3>1. CASE ShowModal(g, i)
      BY <2>1, <2>2, <2>5, <3>1, ShowModalKeeps
    <3>2. CASE /\ form' = g
               /\ visible' = IF n \in NoShow THEN visible
                             ELSE visible \cup {form[i].handle}
               /\ UNCHANGED <<enabled, modality>>
      <4>1. TableInv' /\ LiveHandles' = LiveHandles
        BY <2>1, <2>5, <3>2, SameWindows DEF WindowsInv
      <4> QED
        BY <2>2, <3>2, <4>1, ModalKept DEF WindowsInv, ScreenInv
    <3> QED
      BY <2>1, <3>1, <3>2
  <2>7. StateInv' /\ QueueInv'
    BY <2>1, <2>6, QueueKept DEF WindowsInv, StateInv, message
  <2> QED
    BY <2>4, <2>6, <2>7 DEF WindowsInv, StackInv
<1> QED
  BY <1>4, <1>5

(* ON INIT is called. *)
LEMMA CallOnInitKeeps ==
  ASSUME WindowsInv, CallOnInit
  PROVE  WindowsInv'
<1>1. Top \in Call /\ Top.k = "init" /\ Rest \in Seq(Call)
  BY TopTyped DEF CallOnInit, Running, Top, WindowsInv
<1>2. Top.i \in Nat
  BY <1>1, CallFields, SlotsAreNumbers
<1>3. Push(User("WINDOW_INIT", Top.i), Rest) \in Seq(Call)
  BY <1>1, <1>2, FramesTyped, PushTyped
<1> QED
  BY <1>1, <1>3, GotoKeeps DEF CallOnInit

(* ACTIVATE WINDOW starts its message loop. *)
LEMMA ActivateDoneKeeps ==
  ASSUME WindowsInv, ActivateDone
  PROVE  WindowsInv'
<1> DEFINE s == IF Top.nowait THEN Rest ELSE Push(Loop(Top.g), Rest)
           i == nameVar[Top.shown]
<1>1. Top \in Call /\ Top.k = "act" /\ Rest \in Seq(Call)
  BY TopTyped DEF ActivateDone, Running, Top, WindowsInv
<1>2. Top.g \in Nat /\ Top.shown \in Names \cup {NoName}
  BY <1>1, CallFields
<1>3. s \in Seq(Call)
  BY <1>1, <1>2, FramesTyped, PushTyped
<1>4. CASE Goto(s)
  BY <1>3, <1>4, GotoKeeps
<1>5. CASE Abort
  BY <1>5, AbortKeeps
<1>6. CASE Top.shown # NoName /\ Defined(Top.shown)
  <2>1. /\ ShowModal(form, i)
        /\ stack' = Push(Pump, s)
        /\ UNCHANGED <<nameVar, mainHandle, mainActive, interactiveClose, counter, message,
                       status>>
    BY <1>6 DEF ActivateDone
  <2>2. i \in Slots /\ Live(i)
    BY <1>2, <1>6, DefinedIsLive DEF WindowsInv
  <2>3. TableInv' /\ LiveHandles' = LiveHandles /\ ModalInv' /\ ScreenInv'
    BY <2>1, <2>2, ShowModalKeeps DEF WindowsInv, TableInv
  <2>4. StateInv' /\ QueueInv'
    BY <2>1, <2>3, QueueKept DEF WindowsInv, StateInv, message
  <2>5. StackInv'
    BY <1>3, <2>1, FramesTyped, PushTyped DEF StackInv
  <2> QED
    BY <2>3, <2>4, <2>5 DEF WindowsInv
<1> QED
  BY <1>4, <1>5, <1>6 DEF ActivateDone

(* A retrieved message is for a window that exists, or discarded. *)
LEMMA DispatchKeeps ==
  ASSUME WindowsInv, Dispatch
  PROVE  WindowsInv'
<1> DEFINE m == Head(queue)
<1>1. /\ queue # <<>>
      /\ stack' = IF m = Discarded THEN stack
                  ELSE Push(Closing("start", SlotOf(m.h), m.h, m.lp), stack)
      /\ queue' = Tail(queue)
      /\ UNCHANGED <<table, modality, counter, screen, quit, status>>
  BY DEF Dispatch
<1>2. /\ m \in Message /\ Tail(queue) \in Seq(Message)
      /\ Len(Tail(queue)) = Len(queue) - 1
      /\ \A j \in 1 .. Len(Tail(queue)) : Tail(queue)[j] = queue[j + 1]
  BY <1>1, HeadTailProperties DEF WindowsInv, QueueInv
<1>3. Len(queue) \in Nat /\ DOMAIN queue = 1 .. Len(queue) /\ Len(queue) # 0
  BY <1>1, EmptySeq, LenProperties DEF WindowsInv, QueueInv
<1>4. m = queue[1] /\ 1 \in DOMAIN queue
  BY <1>1, <1>3 DEF WindowsInv, QueueInv
<1>5. m = Discarded \/ m.h \in LiveHandles
  BY <1>4 DEF WindowsInv, QueueInv
<1>6. stack' \in Seq(Call)
  <2>1. CASE m = Discarded
    BY <1>1, <2>1 DEF WindowsInv, StackInv
  <2>2. CASE m # Discarded
    <3>1. m.h \in LiveHandles /\ m.h \in Handles /\ m.lp \in {0, 1}
      BY <1>2, <1>5, <2>2, LiveHandlesTyped DEF WindowsInv, Message
    <3>2. SlotOf(m.h) \in Slots
      BY <3>1, SlotOfFinds
    <3> QED
      BY <1>1, <2>2, <3>1, <3>2, FramesTyped, PushTyped DEF WindowsInv, StackInv
  <2> QED
    BY <2>1, <2>2
<1>7. \A j \in DOMAIN queue' : queue'[j] = Discarded \/ queue'[j].h \in LiveHandles
  <2> TAKE j \in DOMAIN queue'
  <2>1. j \in 1 .. Len(Tail(queue))
    BY <1>1, <1>2, LenProperties
  <2>2. j + 1 \in DOMAIN queue /\ queue'[j] = queue[j + 1]
    BY <1>1, <1>2, <1>3, <2>1
  <2> QED
    BY <2>2 DEF WindowsInv, QueueInv
<1> QED
  BY <1>1, <1>2, <1>6, <1>7, FormsKept
     DEF WindowsInv, TableInv, StateInv, ScreenInv, table, screen

(* WM_QUIT is retrieved. *)
LEMMA TakeQuitKeeps ==
  ASSUME WindowsInv, TakeQuit
  PROVE  WindowsInv'
<1>1. Rest \in Seq(Call) /\ stack \in Seq(Call)
  BY TopTyped DEF TakeQuit, Pumping, Running, WindowsInv, StackInv
<1>2. TableInv' /\ LiveHandles' = LiveHandles
  BY TableKept DEF WindowsInv, TakeQuit, table
<1>3. StateInv' /\ ModalInv'
  BY ModalKept DEF WindowsInv, StateInv, TakeQuit, table
<1>4. ScreenInv' /\ QueueInv' /\ StackInv'
  BY <1>1, <1>2, QueueKept DEF WindowsInv, ScreenInv, StackInv, TakeQuit, screen
<1> QED
  BY <1>2, <1>3, <1>4 DEF WindowsInv

(* A step of the handler of WM_CLOSE. *)
LEMMA CloseStepKeeps ==
  ASSUME WindowsInv, CloseStep
  PROVE  WindowsInv'
<1>1. Top \in Call /\ Top.k = "close" /\ Rest \in Seq(Call)
  BY TopTyped DEF CloseStep, Running, Top, WindowsInv
<1>2. Top.i \in Slots /\ Top.h \in Handles /\ Top.lp \in {0, 1}
  BY <1>1, CallFields
<1> QED
  BY <1>1, <1>2, StartCloseKeeps, AfterAskKeeps, FinishCloseKeeps DEF CloseStep

(* A step of ReleaseAllWindows. *)
LEMMA ReleaseAllStepKeeps ==
  ASSUME WindowsInv, ReleaseAllStep
  PROVE  WindowsInv'
<1> DEFINE next == Push(ReleasingAll(Top.i + 1), Rest)
<1>1. Top \in Call /\ Top.k = "all" /\ Rest \in Seq(Call)
  BY TopTyped DEF ReleaseAllStep, Running, Top, WindowsInv
<1>2. Top.i + 1 \in Nat
  BY <1>1, CallFields
<1>3. next \in Seq(Call)
  BY <1>1, <1>2, FramesTyped, PushTyped
<1>4. CASE status' = "exit" /\ UNCHANGED <<table, modality, counter, screen, message, stack>>
  <2>1. TableInv' /\ LiveHandles' = LiveHandles
    BY <1>4, TableKept DEF WindowsInv, table
  <2>2. StateInv' /\ ModalInv'
    BY <1>4, ModalKept DEF WindowsInv, StateInv, table, message
  <2>3. ScreenInv' /\ QueueInv' /\ StackInv'
    BY <1>4, <2>1, QueueKept DEF WindowsInv, ScreenInv, StackInv, screen, message
  <2> QED
    BY <2>1, <2>2, <2>3 DEF WindowsInv
<1>5. CASE Top.i \in Slots /\ CallOnRelease(Top.i, next)
  BY <1>3, <1>5, CallOnReleaseKeeps
<1>6. CASE Goto(next)
  BY <1>3, <1>6, GotoKeeps
<1> QED
  BY <1>4, <1>5, <1>6 DEF ReleaseAllStep

-----------------------------------------------------------------------------
(* The user's input, and the theorem. *)

(* The user's input. *)
LEMMA UserInputKeeps ==
  ASSUME WindowsInv, NEW i \in Slots
  PROVE  /\ UserClose(i) => WindowsInv'
         /\ Focus(i) => WindowsInv'
         /\ \A c \in ControlIds : ControlAction(i, c) \/ TimerEvent(i, c) => WindowsInv'
<1>1. Live(i) => form[i].handle \in Handles
  BY LiveHandlesTyped DEF WindowsInv, LiveHandles
<1>2. ASSUME UserClose(i) PROVE WindowsInv'
  <2>1. Closing("start", i, form[i].handle, 0) \in Call
    BY <1>1, <1>2, FramesTyped DEF UserClose, Reachable
  <2> QED
    BY <1>2, <2>1, PushKeeps DEF UserClose
<1>3. ASSUME Focus(i) PROVE WindowsInv'
  <2>1. userWindow' \in Handles \cup {NoHandle}
    BY <1>1, <1>3, FocusedTyped DEF Focus, Reachable, WindowsInv
  <2>2. TableInv' /\ LiveHandles' = LiveHandles
    BY <1>3, TableKept DEF WindowsInv, Focus, table
  <2>3. StateInv' /\ ModalInv'
    BY <1>3, <2>1 DEF WindowsInv, StateInv, ModalInv, Focus, table, message
  <2>4. ScreenInv' /\ QueueInv' /\ StackInv'
    BY <1>3, <2>2, QueueKept DEF WindowsInv, ScreenInv, StackInv, Focus, screen, message
  <2> QED
    BY <2>2, <2>3, <2>4 DEF WindowsInv
<1>4. ASSUME NEW c \in ControlIds, ControlAction(i, c) \/ TimerEvent(i, c)
      PROVE  WindowsInv'
  <2>1. User("CONTROL", c) \in Call
    BY FramesTyped, WindowsAssumption
  <2> QED
    BY <1>4, <2>1, PushKeeps DEF ControlAction, TimerEvent
<1> QED
  BY <1>2, <1>3, <1>4

(* The invariant holds at the start. *)
LEMMA InitWindowsInv == Init => WindowsInv
<1> SUFFICES ASSUME Init PROVE WindowsInv
  OBVIOUS
<1>1. \A i \in Slots : ~Live(i) /\ form[i].handle = NoHandle
  BY DEF Init, NoForm, Live
<1>2. TableInv
  <2>1. NoForm \in FormRecord
    BY DEF NoForm, FormRecord
  <2>2. NamesMatch /\ HandlesMatch
    BY <1>1 DEF Init, NamesMatch, HandlesMatch, Defined
  <2> QED
    BY <2>1, <2>2 DEF Init, TableInv
<1>3. StateInv /\ ModalInv /\ ScreenInv
  BY WindowsAssumption DEF Init, StateInv, ModalInv, ScreenInv
<1>4. QueueInv
  BY EmptySeq DEF Init, QueueInv
<1>5. StackInv
  <2>1. User("MAIN", 0) \in Call
    BY FramesTyped
  <2> QED
    BY <2>1 DEF Init, StackInv
<1> QED
  BY <1>2, <1>3, <1>4, <1>5 DEF WindowsInv

(* Every step keeps the invariant, one case per action. *)
LEMMA NextWindowsInv == WindowsInv /\ [Next]_vars => WindowsInv'
<1> SUFFICES ASSUME WindowsInv, [Next]_vars PROVE WindowsInv'
  OBVIOUS
<1>1. ASSUME NEW n \in Names, DefineWrongly(n) PROVE WindowsInv'
  BY <1>1, AbortKeeps DEF DefineWrongly
<1>2. ASSUME DoEvents \/ DoMessageLoop PROVE WindowsInv'
  <2>1. Pump \in Call /\ Loop(NewLoop) \in Call
    BY FramesTyped, NewLoopTyped DEF WindowsInv
  <2> QED
    BY <1>2, <2>1, PushKeeps DEF DoEvents, DoMessageLoop
<1>3. ASSUME Command PROVE WindowsInv'
  BY <1>1, <1>2, <1>3, DefineKeeps, ActivateKeeps, ReleaseKeeps, ShowKeeps, HideKeeps
     DEF Command
<1>4. ASSUME EventsDone PROVE WindowsInv'
  BY <1>4, TopTyped, GotoKeeps DEF EventsDone, Running, WindowsInv
<1>5. ASSUME Library PROVE WindowsInv'
  BY <1>4, <1>5, ActivateNextKeeps, CallOnInitKeeps, ActivateDoneKeeps, DispatchKeeps,
     TakeQuitKeeps, CloseStepKeeps, ReleaseAllStepKeeps
     DEF Library
<1>6. ASSUME UserInput PROVE WindowsInv'
  BY <1>6, UserInputKeeps DEF UserInput
<1>7. ASSUME UNCHANGED vars PROVE WindowsInv'
  <2>1. Goto(stack)
    BY <1>7 DEF vars, Goto
  <2> QED
    BY <2>1, GotoKeeps DEF WindowsInv, StackInv
<1> QED
  BY <1>3, <1>5, <1>6, <1>7, ReturnKeeps DEF Next

(* The table, the calls and the messages keep their types, for any program *)
(* (_DefineWindow, _ActivateWindow, _ReleaseWindow, WM_CLOSE, WM_DESTROY). *)
THEOREM WindowsTypeCorrect == Spec => []TypeOK
<1>1. WindowsInv => TypeOK
  BY LiveHandlesTyped
     DEF WindowsInv, TableInv, StateInv, ModalInv, ScreenInv, QueueInv, StackInv, Message, TypeOK
<1> QED
  BY <1>1, InitWindowsInv, NextWindowsInv, PTL DEF Spec

(* Slots, public variables and handles agree, and neither the screen nor   *)
(* the queue refers to a window already destroyed, for any program.        *)
THEOREM TableAlwaysConsistent == Spec => []TableConsistent
<1>1. WindowsInv => TableConsistent
  BY DEF WindowsInv, TableInv, ScreenInv, QueueInv, TableConsistent, ScreenMatches
<1> QED
  BY <1>1, InitWindowsInv, NextWindowsInv, PTL DEF Spec

-----------------------------------------------------------------------------
(* The counters of the activations.                                        *)

(* The windows of an activation, and what a call still owes to it.         *)
With(id)     == {i \in Slots : form[i].id = id}
Owes(c, id)  == c.k = "act" /\ c.several /\ c.id = id /\ c.todo # <<>>
Owed(s, id, m) ==
  \/ m = 0 /\ \A d \in DOMAIN s : ~Owes(s[d], id)
  \/ \E d \in DOMAIN s :
       /\ Owes(s[d], id)
       /\ m = Len(s[d].todo)
       /\ \A e \in DOMAIN s : Owes(s[e], id) => e = d

(* The windows of the table: only an active one is counted, and those of   *)
(* one message loop belong to one activation.                              *)
IdsInv ==
  \A i \in Slots : form[i].id # 0 =>
    Live(i) /\ form[i].active /\ form[i].id \in ActivateIds
LoopInv ==
  \A i, j \in Slots : i # j /\ form[i].loop = form[j].loop /\ form[i].loop # 0 =>
    form[i].id = form[j].id /\ form[i].id \in ActivateIds

(* The calls of a stack.  An ACTIVATE in progress owns the windows of its  *)
(* loop, a simple one has none before its only window.                     *)
OwnsLoop(c) == c.k \in {"loop", "act"}
CallOk(c) ==
  /\ OwnsLoop(c) => c.g # 0
  /\ c.k = "act" => \/ c.several /\ c.id \in ActivateIds
                    \/ ~c.several /\ c.id = 0 /\ Len(c.todo) <= 1
  /\ c.k = "act" /\ c.todo # <<>> =>
       \A i \in Slots : form[i].loop = c.g => c.several /\ form[i].id = c.id
Asks(c) == c.k = "user" /\ c.ev = "WINDOW_ONINTERACTIVECLOSE"
StackOk(s) ==
  /\ \A d \in DOMAIN s : CallOk(s[d])
  /\ \A d \in DOMAIN s : Asks(s[d]) => d + 1 \in DOMAIN s /\ s[d + 1].k = "close"
  /\ \A d, e \in DOMAIN s : OwnsLoop(s[d]) /\ OwnsLoop(s[e]) /\ s[d].g = s[e].g => d = e

CountInv ==
  \A id \in ActivateIds \ {0} : \E m \in Nat :
    Owed(stack, id, m) /\ counter[id] = Cardinality(With(id)) + m

(* The inductive invariant.  After a run-time error nothing is claimed.    *)
CountersInv ==
  status = "run" => IdsInv /\ LoopInv /\ StackOk(stack) /\ CountInv

(* A stack that may follow the present one in a step that activates        *)
(* nothing: it owes what the present one does.                             *)
Follows(s) ==
  /\ s \in Seq(Call)
  /\ StackOk(s)
  /\ \A id \in ActivateIds \ {0}, m \in Nat : Owed(stack, id, m) => Owed(s, id, m)

-----------------------------------------------------------------------------
(* Facts about stacks. *)

(* The elements of a stack with one more call.                             *)
LEMMA PushElements ==
  ASSUME NEW f \in Call, NEW s \in Seq(Call)
  PROVE  /\ Push(f, s) \in Seq(Call)
         /\ Len(s) \in Nat
         /\ DOMAIN s = 1 .. Len(s)
         /\ DOMAIN Push(f, s) = 1 .. Len(s) + 1
         /\ Push(f, s)[1] = f
         /\ \A d \in 1 .. Len(s) : Push(f, s)[d + 1] = s[d]
         /\ \A d \in 2 .. Len(s) + 1 : Push(f, s)[d] = s[d - 1] /\ d - 1 \in 1 .. Len(s)
BY PushTyped DEF Push

(* The elements of a stack without its first call.                         *)
LEMMA TailElements ==
  ASSUME NEW s \in Seq(Call), s # <<>>
  PROVE  /\ Head(s) \in Call /\ Head(s) = s[1]
         /\ Tail(s) \in Seq(Call)
         /\ Len(s) \in Nat /\ Len(s) > 0
         /\ DOMAIN s = 1 .. Len(s)
         /\ DOMAIN Tail(s) = 1 .. Len(s) - 1
         /\ \A d \in 1 .. Len(s) - 1 : Tail(s)[d] = s[d + 1] /\ d + 1 \in 1 .. Len(s)
BY HeadTailProperties

(* What is owed is determined. *)
LEMMA OwedZero ==
  ASSUME NEW s \in Seq(Call), NEW id, Owed(s, id, 0)
  PROVE  \A d \in DOMAIN s : ~Owes(s[d], id)
<1> SUFFICES ASSUME NEW d \in DOMAIN s, Owes(s[d], id), Len(s[d].todo) = 0 PROVE FALSE
  BY DEF Owed
<1>1. s[d] \in Call /\ s[d].k = "act"
  BY DEF Owes
<1>2. s[d].todo \in Seq(Names)
  BY <1>1, CallFields
<1> QED
  BY <1>2, EmptySeq DEF Owes

(* A call that owes nothing does not change what is owed. *)
LEMMA OwedPush ==
  ASSUME NEW f \in Call, NEW s \in Seq(Call), NEW id, NEW m, ~Owes(f, id), Owed(s, id, m)
  PROVE  Owed(Push(f, s), id, m)
<1>0. /\ Len(s) \in Nat /\ DOMAIN s = 1 .. Len(s)
      /\ DOMAIN Push(f, s) = 1 .. Len(s) + 1 /\ Push(f, s)[1] = f
      /\ \A d \in 1 .. Len(s) : Push(f, s)[d + 1] = s[d]
      /\ \A d \in 2 .. Len(s) + 1 : Push(f, s)[d] = s[d - 1] /\ d - 1 \in 1 .. Len(s)
  BY PushElements
<1>1. CASE m = 0 /\ \A d \in DOMAIN s : ~Owes(s[d], id)
  <2>1. ASSUME NEW d \in DOMAIN Push(f, s) PROVE ~Owes(Push(f, s)[d], id)
    <3>1. d = 1 \/ d \in 2 .. Len(s) + 1
      BY <1>0
    <3> QED
      BY <1>1, <3>1, <1>0
  <2> QED
    BY <1>1, <2>1 DEF Owed
<1>2. ASSUME NEW d \in DOMAIN s, Owes(s[d], id), m = Len(s[d].todo),
             \A e \in DOMAIN s : Owes(s[e], id) => e = d
      PROVE  Owed(Push(f, s), id, m)
  <2>1. d + 1 \in DOMAIN Push(f, s) /\ Push(f, s)[d + 1] = s[d]
    BY <1>0
  <2>2. ASSUME NEW e \in DOMAIN Push(f, s), Owes(Push(f, s)[e], id) PROVE e = d + 1
    <3>1. e \in 2 .. Len(s) + 1
      BY <2>2, <1>0
    <3>2. e - 1 = d
      BY <1>2, <2>2, <3>1, <1>0
    <3> QED
      BY <3>1, <3>2, <1>0
  <2> QED
    BY <1>2, <2>1, <2>2 DEF Owed
<1> QED
  BY <1>1, <1>2 DEF Owed

(* Nor does the end of one. *)
LEMMA OwedTail ==
  ASSUME NEW s \in Seq(Call), s # <<>>, NEW id, NEW m, ~Owes(Head(s), id), Owed(s, id, m)
  PROVE  Owed(Tail(s), id, m)
<1>0. /\ Head(s) = s[1] /\ Len(s) \in Nat /\ Len(s) > 0 /\ DOMAIN s = 1 .. Len(s)
      /\ DOMAIN Tail(s) = 1 .. Len(s) - 1
      /\ \A d \in 1 .. Len(s) - 1 : Tail(s)[d] = s[d + 1] /\ d + 1 \in 1 .. Len(s)
  BY TailElements
<1>1. CASE m = 0 /\ \A d \in DOMAIN s : ~Owes(s[d], id)
  BY <1>1, <1>0 DEF Owed
<1>2. ASSUME NEW d \in DOMAIN s, Owes(s[d], id), m = Len(s[d].todo),
             \A e \in DOMAIN s : Owes(s[e], id) => e = d
      PROVE  Owed(Tail(s), id, m)
  <2>1. d # 1
    BY <1>2, <1>0
  <2>2. d - 1 \in DOMAIN Tail(s) /\ Tail(s)[d - 1] = s[d]
    BY <2>1, <1>0
  <2>3. ASSUME NEW e \in DOMAIN Tail(s), Owes(Tail(s)[e], id) PROVE e = d - 1
    BY <1>2, <2>3, <1>0
  <2> QED
    BY <1>2, <2>2, <2>3 DEF Owed
<1> QED
  BY <1>1, <1>2 DEF Owed

(* A call that owes is alone. *)
LEMMA OwedHead ==
  ASSUME NEW s \in Seq(Call), s # <<>>, NEW id, NEW m, Owes(Head(s), id), Owed(s, id, m)
  PROVE  m = Len(Head(s).todo) /\ Owed(Tail(s), id, 0)
<1>0. /\ Head(s) = s[1] /\ Len(s) \in Nat /\ Len(s) > 0 /\ DOMAIN s = 1 .. Len(s)
      /\ DOMAIN Tail(s) = 1 .. Len(s) - 1
      /\ \A d \in 1 .. Len(s) - 1 : Tail(s)[d] = s[d + 1] /\ d + 1 \in 1 .. Len(s)
  BY TailElements
<1>1. 1 \in DOMAIN s /\ s[1] = Head(s)
  BY <1>0
<1>2. m = Len(s[1].todo) /\ \A e \in DOMAIN s : Owes(s[e], id) => e = 1
  BY <1>1 DEF Owed
<1>3. \A d \in DOMAIN Tail(s) : ~Owes(Tail(s)[d], id)
  BY <1>2, <1>0
<1> QED
  BY <1>1, <1>2, <1>3 DEF Owed

(* A new activation. *)
LEMMA OwedNew ==
  ASSUME NEW f \in Call, NEW s \in Seq(Call), NEW id, Owes(f, id), Owed(s, id, 0)
  PROVE  Owed(Push(f, s), id, Len(f.todo))
<1>0. /\ Len(s) \in Nat /\ DOMAIN s = 1 .. Len(s)
      /\ DOMAIN Push(f, s) = 1 .. Len(s) + 1 /\ Push(f, s)[1] = f
      /\ \A d \in 1 .. Len(s) : Push(f, s)[d + 1] = s[d]
      /\ \A d \in 2 .. Len(s) + 1 : Push(f, s)[d] = s[d - 1] /\ d - 1 \in 1 .. Len(s)
  BY PushElements
<1>1. \A d \in DOMAIN s : ~Owes(s[d], id)
  BY OwedZero
<1>2. 1 \in DOMAIN Push(f, s) /\ Push(f, s)[1] = f
  BY <1>0
<1>3. ASSUME NEW e \in DOMAIN Push(f, s), Owes(Push(f, s)[e], id) PROVE e = 1
  <2>1. e = 1 \/ e \in 2 .. Len(s) + 1
    BY <1>0
  <2> QED
    BY <1>1, <1>3, <2>1, <1>0
<1> QED
  BY <1>2, <1>3 DEF Owed

-----------------------------------------------------------------------------
(* Stacks that may follow. *)

(* One more call, which neither activates windows nor has a loop of its    *)
(* own, and asks only above a handler of WM_CLOSE.                         *)
LEMMA PushOk ==
  ASSUME NEW f \in Call, NEW s \in Seq(Call), StackOk(s), CallOk(f),
         Asks(f) => s # <<>> /\ s[1].k = "close",
         OwnsLoop(f) => \A d \in DOMAIN s : OwnsLoop(s[d]) => s[d].g # f.g
  PROVE  StackOk(Push(f, s))
<1>0. /\ Len(s) \in Nat /\ DOMAIN s = 1 .. Len(s)
      /\ DOMAIN Push(f, s) = 1 .. Len(s) + 1 /\ Push(f, s)[1] = f
      /\ \A d \in 1 .. Len(s) : Push(f, s)[d + 1] = s[d]
      /\ \A d \in 2 .. Len(s) + 1 : Push(f, s)[d] = s[d - 1] /\ d - 1 \in 1 .. Len(s)
  BY PushElements
<1> DEFINE p == Push(f, s)
<1>1. \A d \in DOMAIN p : d = 1 \/ d \in 2 .. Len(s) + 1
  BY <1>0
<1> HIDE DEF p
<1>2. ASSUME NEW d \in DOMAIN p PROVE CallOk(p[d])
  <2>1. CASE d = 1
    BY <1>0, <2>1 DEF p
  <2>2. CASE d \in 2 .. Len(s) + 1
    BY <1>0, <2>2 DEF p, StackOk
  <2> QED
    BY <1>1, <2>1, <2>2
<1>3. ASSUME NEW d \in DOMAIN p, Asks(p[d]) PROVE d + 1 \in DOMAIN p /\ p[d + 1].k = "close"
  <2>1. CASE d = 1
    <3>1. s # <<>> /\ s[1].k = "close"
      BY <1>0, <1>3, <2>1 DEF p
    <3>2. Len(s) # 0
      BY <3>1, EmptySeq
    <3>3. 1 \in 1 .. Len(s)
      BY <1>0, <3>2
    <3> QED
      BY <1>0, <2>1, <3>1, <3>3 DEF p
  <2>2. CASE d \in 2 .. Len(s) + 1
    <3>1. p[d] = s[d - 1] /\ d - 1 \in DOMAIN s
      BY <1>0, <2>2 DEF p
    <3>2. d - 1 + 1 \in DOMAIN s /\ s[d - 1 + 1].k = "close"
      BY <1>3, <3>1 DEF StackOk
    <3>3. d \in 1 .. Len(s) /\ s[d].k = "close"
      BY <1>0, <2>2, <3>2
    <3> QED
      BY <1>0, <3>3 DEF p
  <2> QED
    BY <1>1, <2>1, <2>2
<1>4. ASSUME NEW d \in DOMAIN p, NEW e \in DOMAIN p,
             OwnsLoop(p[d]), OwnsLoop(p[e]), p[d].g = p[e].g
      PROVE  d = e
  <2>1. CASE d = 1 /\ e = 1
    BY <2>1
  <2>2. CASE d = 1 /\ e \in 2 .. Len(s) + 1
    BY <1>0, <1>4, <2>2 DEF p
  <2>3. CASE d \in 2 .. Len(s) + 1 /\ e = 1
    BY <1>0, <1>4, <2>3 DEF p
  <2>4. CASE d \in 2 .. Len(s) + 1 /\ e \in 2 .. Len(s) + 1
    <3>1. /\ p[d] = s[d - 1] /\ d - 1 \in DOMAIN s
          /\ p[e] = s[e - 1] /\ e - 1 \in DOMAIN s
      BY <1>0, <2>4 DEF p
    <3>2. d - 1 = e - 1
      BY <1>4, <3>1 DEF StackOk
    <3> QED
      BY <2>4, <3>2
  <2> QED
    BY <1>1, <2>1, <2>2, <2>3, <2>4
<1> QED
  BY <1>2, <1>3, <1>4 DEF StackOk, p

(* The running call ends. *)
LEMMA TailOk ==
  ASSUME NEW s \in Seq(Call), s # <<>>, StackOk(s)
  PROVE  /\ StackOk(Tail(s))
         /\ CallOk(Head(s))
         /\ OwnsLoop(Head(s)) =>
              \A d \in DOMAIN Tail(s) : OwnsLoop(Tail(s)[d]) => Tail(s)[d].g # Head(s).g
<1>0. /\ Head(s) = s[1] /\ Len(s) \in Nat /\ Len(s) > 0 /\ DOMAIN s = 1 .. Len(s)
      /\ DOMAIN Tail(s) = 1 .. Len(s) - 1
      /\ \A d \in 1 .. Len(s) - 1 : Tail(s)[d] = s[d + 1] /\ d + 1 \in 1 .. Len(s)
  BY TailElements
<1> DEFINE t == Tail(s)
<1> HIDE DEF t
<1>1. \A d \in DOMAIN t : CallOk(t[d])
  BY <1>0 DEF t, StackOk
<1>2. ASSUME NEW d \in DOMAIN t, Asks(t[d]) PROVE d + 1 \in DOMAIN t /\ t[d + 1].k = "close"
  <2>1. t[d] = s[d + 1] /\ d + 1 \in DOMAIN s
    BY <1>0 DEF t
  <2>2. (d + 1) + 1 \in DOMAIN s /\ s[(d + 1) + 1].k = "close"
    BY <1>2, <2>1 DEF StackOk
  <2>3. d + 1 \in 1 .. Len(s) - 1
    BY <1>0, <2>2 DEF t
  <2> QED
    BY <1>0, <2>2, <2>3 DEF t
<1>3. ASSUME NEW d \in DOMAIN t, NEW e \in DOMAIN t,
             OwnsLoop(t[d]), OwnsLoop(t[e]), t[d].g = t[e].g
      PROVE  d = e
  <2>1. /\ t[d] = s[d + 1] /\ d + 1 \in DOMAIN s
        /\ t[e] = s[e + 1] /\ e + 1 \in DOMAIN s
    BY <1>0 DEF t
  <2>2. d + 1 = e + 1
    BY <1>3, <2>1 DEF StackOk
  <2> QED
    BY <1>0, <2>2 DEF t
<1>4. 1 \in DOMAIN s
  BY <1>0
<1>5. ASSUME OwnsLoop(Head(s)), NEW d \in DOMAIN t, OwnsLoop(t[d]), t[d].g = Head(s).g
      PROVE  FALSE
  <2>1. t[d] = s[d + 1] /\ d + 1 \in DOMAIN s
    BY <1>0 DEF t
  <2>2. d + 1 = 1
    BY <1>0, <1>4, <1>5, <2>1 DEF StackOk
  <2> QED
    BY <1>0, <2>2 DEF t
<1> QED
  BY <1>0, <1>1, <1>2, <1>3, <1>4, <1>5 DEF StackOk, t

(* Calls that have no part in activation. *)
LEMMA OtherCalls ==
  ASSUME NEW c \in Call, c.k \notin {"loop", "act"}
  PROVE  CallOk(c) /\ ~OwnsLoop(c) /\ \A id : ~Owes(c, id)
BY DEF CallOk, OwnsLoop, Owes

(* A call of ACTIVATE with another list of names. *)
ActCall ==
  [k : {"act"}, todo : Seq(Names), several : BOOLEAN, id : Nat, g : Nat,
   nowait : BOOLEAN, shown : Names \cup {NoName}]
LEMMA ActCallEdited ==
  ASSUME NEW c \in ActCall, NEW t \in Seq(Names), NEW x \in Names \cup {NoName}
  PROVE  LET r == [c EXCEPT !.todo = t, !.shown = x]
         IN  /\ r \in Call /\ r.k = "act" /\ r.several = c.several
             /\ r.id = c.id /\ r.g = c.g /\ r.todo = t
<1> DEFINE r == [c EXCEPT !.todo = t, !.shown = x]
<1>1. /\ r.k = "act" /\ r.several = c.several /\ r.id = c.id
      /\ r.g = c.g /\ r.todo = t
  BY DEF ActCall
<1>2. r \in ActCall
  BY DEF ActCall
<1>3. ActCall \subseteq Call
  BY DEF ActCall, Call
<1> QED
  BY <1>1, <1>2, <1>3

(* One more such call. *)
LEMMA PushFollows ==
  ASSUME NEW s, Follows(s), NEW f \in Call, f.k \notin {"loop", "act"},
         Asks(f) => s # <<>> /\ s[1].k = "close"
  PROVE  Follows(Push(f, s))
<1>1. s \in Seq(Call) /\ StackOk(s)
  BY DEF Follows
<1>2. CallOk(f) /\ ~OwnsLoop(f) /\ \A id : ~Owes(f, id)
  BY OtherCalls
<1>3. Push(f, s) \in Seq(Call) /\ StackOk(Push(f, s))
  BY <1>1, <1>2, PushTyped, PushOk
<1>4. ASSUME NEW id \in ActivateIds \ {0}, NEW m \in Nat, Owed(stack, id, m)
      PROVE  Owed(Push(f, s), id, m)
  <2>1. Owed(s, id, m)
    BY <1>4 DEF Follows
  <2> QED
    BY <1>1, <1>2, <2>1, OwedPush
<1> QED
  BY <1>3, <1>4 DEF Follows

(* The present stack, and the one without the running call. *)
LEMMA StackFollows ==
  ASSUME WindowsInv, StackOk(stack)
  PROVE  Follows(stack)
BY DEF WindowsInv, StackInv, Follows

LEMMA RestFollows ==
  ASSUME WindowsInv, StackOk(stack), stack # <<>>, \A id : ~Owes(Top, id)
  PROVE  Follows(Rest)
<1>1. stack \in Seq(Call) /\ Top = Head(stack) /\ Rest = Tail(stack)
  BY DEF WindowsInv, StackInv, Top, Rest
<1>2. Rest \in Seq(Call) /\ StackOk(Rest)
  BY <1>1, TailElements, TailOk
<1>3. \A id, m : Owed(stack, id, m) => Owed(Rest, id, m)
  BY <1>1, OwedTail
<1> QED
  BY <1>2, <1>3 DEF Follows

-----------------------------------------------------------------------------
(* Steps that activate no window. *)

(* A call stays as it is when windows only leave their loops. *)
LEMMA StackOkKept ==
  ASSUME NEW s, StackOk(s),
         \A i \in Slots : \/ form'[i].id = form[i].id /\ form'[i].loop = form[i].loop
                          \/ form'[i].loop = 0,
         stack' = s
  PROVE  StackOk(stack)'
<1>1. ASSUME NEW d \in DOMAIN s PROVE CallOk(s[d])'
  <2>1. CallOk(s[d])
    BY DEF StackOk
  <2>2. ASSUME s[d].k = "act", s[d].todo # <<>>, NEW i \in Slots, form'[i].loop = s[d].g
        PROVE  s[d].several /\ form'[i].id = s[d].id
    <3>1. s[d].g # 0
      BY <2>1, <2>2 DEF CallOk, OwnsLoop
    <3>2. form'[i].id = form[i].id /\ form'[i].loop = form[i].loop
      BY <2>2, <3>1
    <3> QED
      BY <2>1, <2>2, <3>2 DEF CallOk
  <2> QED
    BY <2>1, <2>2 DEF CallOk
<1> QED
  BY <1>1 DEF StackOk, CallOk

(* A step that keeps the ids and the counters. *)
LEMMA SameIds ==
  ASSUME WindowsInv, CountersInv, status = "run", NEW s, Follows(s), stack' = s,
         UNCHANGED counter,
         \A i \in Slots : /\ form'[i].id = form[i].id /\ form'[i].loop = form[i].loop
                          /\ form'[i].active = form[i].active
                          /\ form'[i].name = form[i].name
  PROVE  CountersInv'
<1>1. IdsInv'
  BY DEF CountersInv, IdsInv, Live
<1>2. LoopInv'
  BY DEF CountersInv, LoopInv
<1>3. StackOk(stack)'
  BY StackOkKept DEF Follows
<1>4. \A id : With(id)' = With(id)
  BY DEF With
<1>5. CountInv'
  BY <1>4 DEF CountersInv, CountInv, Follows
<1> QED
  BY <1>1, <1>2, <1>3, <1>5 DEF CountersInv

(* A step that changes only the stack, and a run-time error. *)
LEMMA GotoCounts ==
  ASSUME WindowsInv, CountersInv, status = "run", NEW s, Follows(s), Goto(s)
  PROVE  CountersInv'
BY SameIds DEF Goto, table

LEMMA AbortCounts ==
  ASSUME Abort
  PROVE  CountersInv'
BY DEF Abort, CountersInv

(* The modal part of _ShowWindow. *)
LEMMA ShowModalIds ==
  ASSUME NEW f \in [Slots -> FormRecord], NEW i \in Slots, ShowModal(f, i), WindowsInv
  PROVE  \A j \in Slots : /\ form'[j].id = f[j].id /\ form'[j].loop = f[j].loop
                          /\ form'[j].active = f[j].active /\ form'[j].name = f[j].name
<1>1. form' = [f EXCEPT ![i].parent = ModalParent]
  BY DEF ShowModal
<1>2. f[i] \in FormRecord
  OBVIOUS
<1> DEFINE v == [f[i] EXCEPT !.parent = ModalParent]
<1>3. v.id = f[i].id /\ v.loop = f[i].loop /\ v.active = f[i].active /\ v.name = f[i].name
  BY <1>2 DEF FormRecord
<1>4. form' = [f EXCEPT ![i] = v]
  BY <1>1
<1> HIDE DEF v
<1> QED
  BY <1>3, <1>4

(* _HideWindow *)
LEMMA HideWindowCounts ==
  ASSUME WindowsInv, CountersInv, status = "run", NEW i, NEW s, Follows(s), HideWindow(i, s)
  PROVE  CountersInv'
<1>1. CASE Goto(s)
  BY <1>1, GotoCounts
<1>2. CASE Abort
  BY <1>2, AbortCounts
<1>3. CASE stack' = s /\ UNCHANGED <<table, counter, message, status>>
  BY <1>3, SameIds DEF table
<1> QED
  BY <1>1, <1>2, <1>3 DEF HideWindow

(* ON RELEASE is called. *)
LEMMA CallOnReleaseCounts ==
  ASSUME WindowsInv, CountersInv, status = "run", NEW i \in Slots, NEW s, Follows(s),
         CallOnRelease(i, s)
  PROVE  CountersInv'
<1>1. /\ form' = [form EXCEPT ![i].released = @ + 1]
      /\ stack' = Push(User("WINDOW_RELEASE", i), s)
      /\ UNCHANGED counter
  BY DEF CallOnRelease
<1>2. form[i] \in FormRecord /\ form \in [Slots -> FormRecord]
  BY DEF WindowsInv, TableInv
<1> DEFINE v == [form[i] EXCEPT !.released = @ + 1]
<1>3. /\ v.id = form[i].id /\ v.loop = form[i].loop
      /\ v.active = form[i].active /\ v.name = form[i].name
  BY <1>2 DEF FormRecord
<1>4. form' = [form EXCEPT ![i] = v]
  BY <1>1
<1>5. \A j \in Slots : /\ form'[j].id = form[j].id /\ form'[j].loop = form[j].loop
                       /\ form'[j].active = form[j].active /\ form'[j].name = form[j].name
  <2> HIDE DEF v
  <2> QED
    BY <1>2, <1>3, <1>4
<1>6. Follows(Push(User("WINDOW_RELEASE", i), s))
  <2>1. User("WINDOW_RELEASE", i) \in Call
    BY SlotsAreNumbers, FramesTyped
  <2>2. User("WINDOW_RELEASE", i).k = "user" /\ ~Asks(User("WINDOW_RELEASE", i))
    BY DEF User, Asks
  <2> QED
    BY <2>1, <2>2, PushFollows
<1> QED
  BY <1>1, <1>5, <1>6, SameIds

(* The windows of an activation without one of them. *)
LEMMA WithFinite ==
  ASSUME NEW id
  PROVE  IsFiniteSet(With(id)) /\ Cardinality(With(id)) \in Nat
<1>1. With(id) \in SUBSET Slots
  BY DEF With
<1>2. IsFiniteSet(With(id))
  BY <1>1, SlotsAreNumbers, FS_Subset
<1> QED
  BY <1>2, FS_CardinalityType

(* WM_DESTROY takes its window out of its activation. *)
LEMMA DestroyCounts ==
  ASSUME WindowsInv, CountersInv, status = "run", NEW h \in Handles, NEW s, Follows(s),
         DestroyWindow(h), stack' = s
  PROVE  CountersInv'
<1> DEFINE d == SlotOf(h)
<1>0. d \in Slots \cup {0} /\ (d # 0 => Live(d) /\ form[d].handle = h)
  BY SlotOfFinds
<1>1. CASE d = 0
  BY <1>1, SameIds DEF DestroyWindow
<1>2. CASE d # 0
  <2>1. form' = [form EXCEPT ![d] = NoForm] /\ counter' = CountDown(form[d].id)
    BY <1>2 DEF DestroyWindow
  <2>2. d \in Slots /\ Live(d)
    BY <1>0, <1>2
  <2> HIDE DEF d
  <2>3. /\ \A j \in Slots : j # d => form'[j] = form[j]
        /\ form'[d] = NoForm
        /\ NoForm.id = 0 /\ NoForm.loop = 0
    BY <2>1, <2>2 DEF WindowsInv, TableInv, NoForm
  <2>4. IdsInv'
    BY <2>3 DEF CountersInv, IdsInv, Live
  <2>5. LoopInv'
    <3> SUFFICES ASSUME NEW i \in Slots, NEW j \in Slots, i # j,
                        form'[i].loop = form'[j].loop, form'[i].loop # 0
                 PROVE  form'[i].id = form'[j].id /\ form'[i].id \in ActivateIds
      BY DEF LoopInv
    <3>1. i # d /\ j # d
      BY <2>3
    <3> QED
      BY <2>3, <3>1 DEF CountersInv, LoopInv
  <2>6. StackOk(stack)'
    BY <2>3, StackOkKept DEF Follows
  <2>7. ASSUME NEW id \in ActivateIds \ {0}
        PROVE  \E m \in Nat : Owed(s, id, m) /\ counter'[id] = Cardinality(With(id)') + m
    <3>1. PICK m \in Nat : Owed(stack, id, m) /\ counter[id] = Cardinality(With(id)) + m
      BY DEF CountersInv, CountInv
    <3>2. Owed(s, id, m)
      BY <3>1 DEF Follows
    <3>3. counter \in [ActivateIds -> Nat] /\ id \in Nat /\ id # 0
      BY WindowsAssumption DEF WindowsInv, StateInv
    <3>4. CASE form[d].id = id
      <4>1. With(id)' = With(id) \ {d} /\ d \in With(id)
        BY <2>2, <2>3, <3>3, <3>4 DEF With
      <4>2. Cardinality(With(id)') = Cardinality(With(id)) - 1
        BY <4>1, WithFinite, FS_RemoveElement
      <4>3. Cardinality(With(id)) # 0
        BY <4>1, WithFinite, FS_EmptySet
      <4>4. counter[id] > 0
        BY <3>1, <4>3, WithFinite
      <4>5. counter'[id] = counter[id] - 1
        BY <2>1, <3>3, <3>4, <4>4 DEF CountDown
      <4> QED
        BY <3>1, <3>2, <4>2, <4>5, WithFinite
    <3>5. CASE form[d].id # id
      <4>1. With(id)' = With(id)
        BY <2>2, <2>3, <3>3, <3>5 DEF With
      <4>2. counter'[id] = counter[id]
        BY <2>1, <3>3, <3>5 DEF CountDown
      <4> QED
        BY <3>1, <3>2, <4>1, <4>2
    <3> QED
      BY <3>4, <3>5
  <2>8. CountInv'
    BY <2>7 DEF CountInv
  <2> QED
    BY <2>4, <2>5, <2>6, <2>8 DEF CountersInv
<1> QED
  BY <1>1, <1>2

(* The end of the WM_CLOSE handler, and its three parts. *)
LEMMA HideOrReleaseCounts ==
  ASSUME WindowsInv, CountersInv, status = "run", NEW i \in Slots, NEW h \in Handles,
         NEW s, Follows(s), HideOrRelease(i, h, s)
  PROVE  CountersInv'
<1>1. CASE Goto(s)
  BY <1>1, GotoCounts
<1>2. CASE HideWindow(i, s)
  BY <1>2, HideWindowCounts
<1>3. CASE ReleaseAllWindows(s)
  <2>1. ReleasingAll(1) \in Call /\ ReleasingAll(1).k = "all" /\ ~Asks(ReleasingAll(1))
    BY FramesTyped DEF ReleasingAll, Asks
  <2>2. Follows(Push(ReleasingAll(1), s))
    BY <2>1, PushFollows
  <2> QED
    BY <1>3, <2>2, GotoCounts, AbortCounts DEF ReleaseAllWindows
<1>4. CASE CallOnRelease(i, Push(Closing("release", i, h, 1), s))
  <2>1. /\ Closing("release", i, h, 1) \in Call
        /\ Closing("release", i, h, 1).k = "close" /\ ~Asks(Closing("release", i, h, 1))
    BY FramesTyped DEF Closing, Asks
  <2>2. Follows(Push(Closing("release", i, h, 1), s))
    BY <2>1, PushFollows
  <2> QED
    BY <1>4, <2>2, CallOnReleaseCounts
<1>5. CASE FinishClose(i, h, s)
  BY <1>5, DestroyCounts DEF FinishClose
<1> QED
  BY <1>1, <1>2, <1>3, <1>4, <1>5 DEF HideOrRelease

LEMMA AfterAskCounts ==
  ASSUME WindowsInv, CountersInv, status = "run", NEW i \in Slots, NEW h \in Handles,
         NEW lp, NEW s, Follows(s), AfterAsk(i, h, lp, s)
  PROVE  CountersInv'
BY GotoCounts, HideOrReleaseCounts DEF AfterAsk

LEMMA StartCloseCounts ==
  ASSUME WindowsInv, CountersInv, status = "run", NEW i \in Slots, NEW h \in Handles,
         NEW lp \in {0, 1}, NEW s, Follows(s), StartClose(i, h, lp, s)
  PROVE  CountersInv'
<1> DEFINE c == Closing("ask", i, h, lp)
           u == User("WINDOW_ONINTERACTIVECLOSE", i)
<1>1. CASE form[i].name \in AskClose
  <2>1. c \in Call /\ c.k = "close" /\ ~Asks(c) /\ u \in Call /\ u.k = "user"
    BY SlotsAreNumbers, FramesTyped DEF Closing, User, Asks
  <2>2. Goto(Push(u, Push(c, s)))
    BY <1>1 DEF StartClose
  <2> HIDE DEF c, u
  <2>3. Follows(Push(c, s))
    BY <2>1, PushFollows
  <2>4. s \in Seq(Call) /\ Push(c, s) \in Seq(Call)
    BY <2>3 DEF Follows
  <2>5. Push(c, s)[1] = c /\ Push(c, s) # <<>>
    BY <2>1, <2>4, PushElements, EmptySeq
  <2>6. Follows(Push(u, Push(c, s)))
    BY <2>1, <2>3, <2>5, PushFollows
  <2> QED
    BY <2>2, <2>6, GotoCounts
<1>2. CASE form[i].name \notin AskClose
  BY <1>2, AfterAskCounts DEF StartClose
<1> QED
  BY <1>1, <1>2

-----------------------------------------------------------------------------
(* The commands of the user code. *)

(* DEFINE WINDOW: the new window is in no activation. *)
LEMMA DefineCounts ==
  ASSUME WindowsInv, CountersInv, status = "run", NEW n \in Names, Define(n)
  PROVE  CountersInv'
<1>1. PICK k \in Slots, h \in Handles :
        /\ FreeSlot(k)
        /\ form' = [form EXCEPT ![k] =
                      [NoForm EXCEPT !.name = n, !.handle = h,
                         !.parent = IF n \in Modal THEN mainHandle ELSE NoHandle]]
  BY DEF Define
<1>2. UNCHANGED <<counter, stack, status>>
  BY DEF Define
<1> DEFINE v == [NoForm EXCEPT !.name = n, !.handle = h,
                   !.parent = IF n \in Modal THEN mainHandle ELSE NoHandle]
<1>3. v.id = 0 /\ v.loop = 0
  BY DEF NoForm
<1>4. form' = [form EXCEPT ![k] = v]
  BY <1>1
<1> HIDE DEF v
<1>5. \A j \in Slots : form'[j] = IF j = k THEN v ELSE form[j]
  BY <1>4 DEF WindowsInv, TableInv
<1>6. form[k].id = 0
  BY <1>1 DEF FreeSlot, CountersInv, IdsInv
<1>7. IdsInv'
  BY <1>3, <1>5 DEF CountersInv, IdsInv, Live
<1>8. LoopInv'
  <2> SUFFICES ASSUME NEW i \in Slots, NEW j \in Slots, i # j,
                      form'[i].loop = form'[j].loop, form'[i].loop # 0
               PROVE  form'[i].id = form'[j].id /\ form'[i].id \in ActivateIds
    BY DEF LoopInv
  <2>1. i # k /\ j # k
    BY <1>3, <1>5
  <2> QED
    BY <1>5, <2>1 DEF CountersInv, LoopInv
<1>9. StackOk(stack)'
  <2>1. StackOk(stack) /\ stack' = stack
    BY <1>2 DEF CountersInv
  <2> QED
    BY <1>3, <1>5, <2>1, StackOkKept
<1>10. \A id : id # 0 => With(id)' = With(id)
  BY <1>3, <1>5, <1>6 DEF With
<1>11. CountInv'
  BY <1>2, <1>10 DEF CountersInv, CountInv
<1> QED
  BY <1>7, <1>8, <1>9, <1>11 DEF CountersInv

(* The number of a new loop is not in use. *)
LEMMA NewLoopFresh ==
  ASSUME WindowsInv
  PROVE  /\ NewLoop \in Nat /\ NewLoop # 0
         /\ \A i \in Slots : form[i].loop # NewLoop
         /\ \A d \in DOMAIN stack : OwnsLoop(stack[d]) => stack[d].g # NewLoop
<1>1. NewLoop \in Nat \ {0} /\ NewLoop \notin LoopsInUse
  BY NewLoopTyped DEF WindowsInv
<1> QED
  BY <1>1 DEF LoopsInUse, LoopCalls, OwnsLoop

(* DO MESSAGE LOOP *)
LEMMA LoopFollows ==
  ASSUME WindowsInv, StackOk(stack)
  PROVE  Follows(Push(Loop(NewLoop), stack))
<1> DEFINE f == Loop(NewLoop)
<1>1. f \in Call /\ f.k = "loop" /\ f.g = NewLoop
  BY NewLoopFresh, FramesTyped DEF Loop
<1> HIDE DEF f
<1>2. CallOk(f) /\ ~Asks(f) /\ \A id : ~Owes(f, id)
  BY <1>1, NewLoopFresh DEF CallOk, Asks, Owes
<1>3. stack \in Seq(Call)
  BY DEF WindowsInv, StackInv
<1>4. Push(f, stack) \in Seq(Call) /\ StackOk(Push(f, stack))
  BY <1>1, <1>2, <1>3, PushTyped, PushOk, NewLoopFresh
<1> QED
  BY <1>1, <1>2, <1>3, <1>4, OwedPush DEF Follows, f

(* A new ACTIVATE owns no window yet. *)
LEMMA NewCallOk ==
  ASSUME WindowsInv, StackOk(stack), NEW c \in Call, c.k = "act", c.g = NewLoop,
         \/ c.several /\ c.id \in ActivateIds
         \/ ~c.several /\ c.id = 0 /\ Len(c.todo) <= 1
  PROVE  StackOk(Push(c, stack))
<1>1. CallOk(c) /\ ~Asks(c)
  BY NewLoopFresh DEF CallOk, OwnsLoop, Asks
<1>2. stack \in Seq(Call) /\ \A d \in DOMAIN stack : OwnsLoop(stack[d]) => stack[d].g # c.g
  BY NewLoopFresh DEF WindowsInv, StackInv
<1> QED
  BY <1>1, <1>2, PushOk

(* ACTIVATE WINDOW up to its first window: _GenActivateId counts in        *)
(* advance the windows it will activate.                                   *)
LEMMA ActivateCounts ==
  ASSUME WindowsInv, CountersInv, status = "run",
         NEW s \in Activations, NEW w \in BOOLEAN, Activate(s, w)
  PROVE  CountersInv'
<1>1. s \in Seq(Names) /\ Len(s) \in Nat /\ s # <<>>
  BY WindowsAssumption, LenProperties
<1>3. stack \in Seq(Call) /\ StackOk(stack)
  BY DEF WindowsInv, StackInv, CountersInv
<1>5. CASE Abort
  BY <1>5, AbortCounts
<1> DEFINE one == Activating(s, FALSE, 0, NewLoop, w, NoName)
<1>6. CASE UNCHANGED <<form, counter>> /\ Len(s) = 1 /\ stack' = Push(one, stack)
  <2>1. /\ one \in Call /\ one.k = "act" /\ one.g = NewLoop /\ ~one.several
        /\ one.id = 0 /\ one.todo = s
    BY <1>1, NewLoopFresh DEF Activating, Call
  <2>2. \A id : id # 0 => ~Owes(one, id)
    BY <2>1 DEF Owes
  <2>3. UNCHANGED <<form, counter>> /\ stack' = Push(one, stack) /\ Len(s) = 1
    BY <1>6
  <2> HIDE DEF one
  <2>4. StackOk(Push(one, stack)) /\ Push(one, stack) \in Seq(Call)
    <3>1. Len(one.todo) = Len(s)
      BY <2>1
    <3>2. Len(one.todo) <= 1
      BY <2>3, <3>1
    <3> QED
      BY <1>3, <2>1, <3>2, NewCallOk, PushTyped
  <2>5. Follows(Push(one, stack))
    BY <1>3, <2>1, <2>2, <2>4, OwedPush DEF Follows
  <2> QED
    BY <2>3, <2>5, SameIds
<1>7. ASSUME NEW a \in ActivateIds, Len(s) > 1, UNCHANGED form, counter[a] = 0,
             counter' = [counter EXCEPT ![a] = Len(s)],
             stack' = Push(Activating(s, TRUE, a, NewLoop, w, NoName), stack)
      PROVE  CountersInv'
  <2> DEFINE c == Activating(s, TRUE, a, NewLoop, w, NoName)
  <2>1. a \in Nat
    BY WindowsAssumption
  <2>0. /\ c \in Call /\ c.k = "act" /\ c.g = NewLoop /\ c.several
        /\ c.id = a /\ c.todo = s
    BY <1>1, <2>1, NewLoopFresh DEF Activating, Call
  <2>7. stack' = Push(c, stack)
    BY <1>7
  <2> HIDE DEF c
  <2>2. IdsInv' /\ LoopInv'
    BY <1>7 DEF CountersInv, IdsInv, LoopInv, Live
  <2>3. StackOk(stack)'
    <3>1. StackOk(Push(c, stack))
      BY <1>3, <2>0, NewCallOk
    <3> QED
      BY <1>7, <2>7, <3>1, StackOkKept
  <2>4. \A id : With(id)' = With(id)
    BY <1>7 DEF With
  <2>5. ASSUME NEW id \in ActivateIds \ {0}
        PROVE  \E m \in Nat : /\ Owed(Push(c, stack), id, m)
                              /\ counter'[id] = Cardinality(With(id)) + m
    <3>1. PICK m \in Nat : Owed(stack, id, m) /\ counter[id] = Cardinality(With(id)) + m
      BY DEF CountersInv, CountInv
    <3>2. CASE id = a
      <4>1. m = 0 /\ Cardinality(With(id)) = 0
        BY <1>7, <3>1, <3>2, WithFinite
      <4>2. Owes(c, id)
        BY <1>1, <2>0, <3>2 DEF Owes
      <4>3. Owed(Push(c, stack), id, Len(s))
        BY <1>3, <2>0, <3>1, <4>1, <4>2, OwedNew
      <4>4. counter'[id] = Len(s)
        BY <1>7, <3>2 DEF WindowsInv, StateInv
      <4> QED
        BY <1>1, <4>1, <4>3, <4>4
    <3>3. CASE id # a
      <4>1. ~Owes(c, id)
        BY <2>0, <3>3 DEF Owes
      <4>2. Owed(Push(c, stack), id, m)
        BY <1>3, <2>0, <3>1, <4>1, OwedPush
      <4>3. counter'[id] = counter[id]
        BY <1>7, <3>3 DEF WindowsInv, StateInv
      <4> QED
        BY <3>1, <4>2, <4>3
    <3> QED
      BY <3>2, <3>3
  <2>6. CountInv'
    BY <2>4, <2>5, <2>7 DEF CountInv
  <2> QED
    BY <2>2, <2>3, <2>6 DEF CountersInv
<1> QED
  BY <1>5, <1>6, <1>7 DEF Activate

(* RELEASE WINDOW, SHOW WINDOW and HIDE WINDOW. *)
LEMMA ReleaseCounts ==
  ASSUME WindowsInv, CountersInv, status = "run", NEW n \in Names, Release(n)
  PROVE  CountersInv'
<1> DEFINE h == form[nameVar[n]].handle
<1>0. Follows(stack)
  BY StackFollows DEF CountersInv
<1>1. CASE Abort
  BY <1>1, AbortCounts
<1>2. CASE stack' = Push(ReleasingAll(1), stack) /\ UNCHANGED <<form, counter>>
  <2>1. ReleasingAll(1) \in Call /\ ReleasingAll(1).k = "all" /\ ~Asks(ReleasingAll(1))
    BY FramesTyped DEF ReleasingAll, Asks
  <2>2. Follows(Push(ReleasingAll(1), stack))
    BY <1>0, <2>1, PushFollows
  <2> QED
    BY <1>2, <2>2, SameIds
<1>3. CASE /\ form' = IF IsModal(nameVar[n]) /\ activeModal # h THEN form
                      ELSE [x \in Slots |->
                             IF form[x].parent = h
                               THEN [form[x] EXCEPT !.parent = mainHandle]
                               ELSE form[x]]
           /\ UNCHANGED <<counter, stack>>
  <2> HIDE DEF h
  <2>1. \A r \in FormRecord :
          LET v == [r EXCEPT !.parent = mainHandle]
          IN  v.id = r.id /\ v.loop = r.loop /\ v.active = r.active /\ v.name = r.name
    BY DEF FormRecord
  <2>2. \A j \in Slots : /\ form'[j].id = form[j].id /\ form'[j].loop = form[j].loop
                         /\ form'[j].active = form[j].active /\ form'[j].name = form[j].name
    BY <1>3, <2>1 DEF WindowsInv, TableInv
  <2> QED
    BY <1>0, <1>3, <2>2, SameIds
<1> QED
  BY <1>1, <1>2, <1>3 DEF Release, message

LEMMA PumpFollows ==
  ASSUME NEW s, Follows(s)
  PROVE  Follows(Push(Pump, s))
<1>1. Pump \in Call /\ Pump.k = "events" /\ ~Asks(Pump)
  BY FramesTyped DEF Pump, Asks
<1> QED
  BY <1>1, PushFollows

LEMMA ShowCounts ==
  ASSUME WindowsInv, CountersInv, status = "run", NEW n \in Names, Show(n)
  PROVE  CountersInv'
<1>1. Follows(Push(Pump, stack))
  BY StackFollows, PumpFollows DEF CountersInv
<1>2. nameVar[n] \in Slots /\ form \in [Slots -> FormRecord]
  BY DefinedIsLive DEF WindowsInv, TableInv, Show
<1>3. /\ stack' = Push(Pump, stack) /\ UNCHANGED counter
      /\ ShowModal(form, nameVar[n]) \/ UNCHANGED form
  BY DEF Show
<1>4. \A j \in Slots : /\ form'[j].id = form[j].id /\ form'[j].loop = form[j].loop
                       /\ form'[j].active = form[j].active /\ form'[j].name = form[j].name
  BY <1>2, <1>3, ShowModalIds
<1> QED
  BY <1>1, <1>3, <1>4, SameIds

LEMMA HideCounts ==
  ASSUME WindowsInv, CountersInv, status = "run", NEW n \in Names, Hide(n)
  PROVE  CountersInv'
BY StackFollows, HideWindowCounts DEF Hide, CountersInv

(* The running call ends or starts another. *)
LEMMA TailFollows ==
  ASSUME NEW s, Follows(s), s # <<>>, \A id : ~Owes(Head(s), id)
  PROVE  Follows(Tail(s))
<1>1. s \in Seq(Call) /\ StackOk(s)
  BY DEF Follows
<1>2. Tail(s) \in Seq(Call) /\ StackOk(Tail(s))
  BY <1>1, TailElements, TailOk
<1> QED
  BY <1>1, <1>2, OwedTail DEF Follows

(* The return of a callback: ON INTERACTIVECLOSE may end its handler too. *)
LEMMA ReturnCounts ==
  ASSUME WindowsInv, CountersInv, status = "run", Return
  PROVE  CountersInv'
<1>1. stack # <<>> /\ Top.k = "user" /\ stack \in Seq(Call) /\ StackOk(stack)
  BY DEF Return, Running, Top, WindowsInv, StackInv, CountersInv
<1>2. \A id : ~Owes(Top, id)
  BY <1>1 DEF Owes
<1>3. Follows(Rest)
  BY <1>1, <1>2, RestFollows
<1>4. CASE status' = "exit"
  BY <1>4 DEF CountersInv
<1>5. CASE Goto(Rest)
  BY <1>3, <1>5, GotoCounts
<1>6. CASE Rest # <<>> /\ Top.ev = "WINDOW_ONINTERACTIVECLOSE" /\ Goto(Tail(Rest))
  <2>1. 1 \in DOMAIN stack /\ stack[1] = Top
    BY <1>1, TailElements DEF Top
  <2>2. Asks(stack[1])
    BY <1>1, <1>6, <2>1 DEF Asks
  <2>3. 1 + 1 \in DOMAIN stack /\ stack[1 + 1].k = "close"
    BY <1>1, <2>1, <2>2 DEF StackOk
  <2>4. Rest \in Seq(Call) /\ DOMAIN Rest = 1 .. Len(stack) - 1 /\ Len(stack) \in Nat
        /\ DOMAIN stack = 1 .. Len(stack)
        /\ \A d \in 1 .. Len(stack) - 1 : Rest[d] = stack[d + 1]
    BY <1>1, TailElements DEF Rest
  <2>5. 1 \in 1 .. Len(stack) - 1
    BY <2>3, <2>4
  <2>6. Rest[1].k = "close"
    BY <2>3, <2>4, <2>5
  <2>7. Head(Rest) = Rest[1]
    BY <1>6, <2>4, TailElements
  <2>8. \A id : ~Owes(Head(Rest), id)
    BY <2>6, <2>7 DEF Owes
  <2>9. Follows(Tail(Rest))
    BY <1>3, <1>6, <2>8, TailFollows
  <2> QED
    BY <1>6, <2>9, GotoCounts
<1> QED
  BY <1>4, <1>5, <1>6 DEF Return

-----------------------------------------------------------------------------
(* The steps of the library. *)

(* A step in which window i joins the activation of call c, the only one   *)
(* with its loop, and no other window moves.                               *)
LEMMA JoinOk ==
  ASSUME NEW s, StackOk(s), NEW p \in DOMAIN s, s[p].k = "act",
         NEW i \in Slots, form'[i].id = s[p].id, form'[i].loop = s[p].g,
         \A j \in Slots \ {i} : form'[j].id = form[j].id /\ form'[j].loop = form[j].loop,
         s[p].todo # <<>> => s[p].several,
         stack' = s
  PROVE  StackOk(stack)'
<1>1. ASSUME NEW d \in DOMAIN s PROVE CallOk(s[d])'
  <2>1. CallOk(s[d])
    BY DEF StackOk
  <2>2. ASSUME s[d].k = "act", s[d].todo # <<>>, NEW j \in Slots, form'[j].loop = s[d].g
        PROVE  s[d].several /\ form'[j].id = s[d].id
    <3>1. CASE d = p
      <4>1. CASE j = i
        BY <2>2, <3>1, <4>1
      <4>2. CASE j # i
        BY <2>1, <2>2, <4>2 DEF CallOk
      <4> QED
        BY <4>1, <4>2
    <3>2. CASE d # p
      <4>1. s[d].g # s[p].g
        BY <2>2, <3>2 DEF StackOk, OwnsLoop
      <4>2. j # i
        BY <2>2, <4>1
      <4> QED
        BY <2>1, <2>2, <4>2 DEF CallOk
    <3> QED
      BY <3>1, <3>2
  <2> QED
    BY <2>1, <2>2 DEF CallOk
<1> QED
  BY <1>1 DEF StackOk, CallOk

(* One window more in an activation. *)
LEMMA JoinCounts ==
  ASSUME WindowsInv, NEW i \in Slots, NEW id, form[i].id # id, form'[i].id = id,
         \A j \in Slots \ {i} : form'[j].id = form[j].id
  PROVE  Cardinality(With(id)') = Cardinality(With(id)) + 1
<1>1. With(id)' = With(id) \cup {i} /\ i \notin With(id)
  BY DEF With
<1> DEFINE s == With(id)
           t == With(id)'
<1>2. IsFiniteSet(s) /\ t = s \cup {i} /\ i \notin s
  BY <1>1, WithFinite
<1> HIDE DEF s, t
<1>3. Cardinality(s \cup {i}) = Cardinality(s) + 1
  BY <1>2, FS_AddElement
<1> QED
  BY <1>2, <1>3 DEF s, t

(* One window of ACTIVATE WINDOW: it leaves the list of those to come and  *)
(* joins those of the activation.                                          *)
LEMMA ActivateNextCounts ==
  ASSUME WindowsInv, CountersInv, status = "run", ActivateNext
  PROVE  CountersInv'
<1> DEFINE n == Head(Top.todo)
           i == nameVar[n]
           g == [form EXCEPT ![i].active = TRUE, ![i].id = Top.id, ![i].loop = Top.g]
           shown == IF Top.several /\ n \in Modal \ NoShow THEN n ELSE Top.shown
           call == [Top EXCEPT !.todo = Tail(@), !.shown = shown]
<1>1. /\ stack \in Seq(Call) /\ stack # <<>> /\ Top \in Call /\ Top.k = "act"
      /\ Rest \in Seq(Call) /\ Top.todo # <<>> /\ Top = Head(stack) /\ Rest = Tail(stack)
  BY TopTyped DEF ActivateNext, Running, Top, Rest, WindowsInv, StackInv
<1>2. Top \in [k : {"act"}, todo : Seq(Names), several : BOOLEAN, id : Nat, g : Nat,
               nowait : BOOLEAN, shown : Names \cup {NoName}]
  BY <1>1, CallFields
<1>3. /\ n \in Names /\ Tail(Top.todo) \in Seq(Names) /\ Len(Top.todo) \in Nat
      /\ Len(Tail(Top.todo)) = Len(Top.todo) - 1
  BY <1>1, <1>2, HeadTailProperties
<1>4. CASE ActivateNextWrongly(n)
  BY <1>4, AbortCounts DEF ActivateNext
<1>5. CASE ~ActivateNextWrongly(n)
  <2>1. /\ ShowModal(g, i) \/ form' = g
        /\ stack' = IF n \in OnInit
                      THEN Push(Pump, Push(InitCall(i), Push(call, Rest)))
                      ELSE Push(call, Rest)
        /\ UNCHANGED <<counter, status>>
    BY <1>5 DEF ActivateNext
  <2>2. i \in Slots /\ Live(i) /\ ~form[i].active
    BY <1>3, <1>5, DefinedIsLive DEF WindowsInv, ActivateNextWrongly, Active
  <2>3. form \in [Slots -> FormRecord]
    BY DEF WindowsInv, TableInv
  <2>4. /\ g \in [Slots -> FormRecord]
        /\ \A j \in Slots \ {i} : g[j] = form[j]
        /\ g[i].id = Top.id /\ g[i].loop = Top.g /\ g[i].active = TRUE
        /\ g[i].name = form[i].name
    <3>1. form[i] \in FormRecord
      BY <2>2, <2>3
    <3> DEFINE v == [form[i] EXCEPT !.active = TRUE, !.id = Top.id, !.loop = Top.g]
    <3> HIDE DEF i
    <3>2. g = [form EXCEPT ![i] = v]
      BY <2>2, <2>3
    <3>3. /\ v \in FormRecord /\ v.id = Top.id /\ v.loop = Top.g /\ v.active = TRUE
          /\ v.name = form[i].name
      BY <1>2, <3>1 DEF FormRecord
    <3> HIDE DEF g, v
    <3> QED
      BY <2>2, <2>3, <3>2, <3>3
  <2>5. /\ call \in Call /\ call.k = "act" /\ call.several = Top.several
        /\ call.id = Top.id /\ call.g = Top.g /\ call.todo = Tail(Top.todo)
    <3>1. shown \in Names \cup {NoName}
      BY <1>2, <1>3
    <3>2. Top \in ActCall
      BY <1>2, <1>3 DEF ActCall, Call
    <3> HIDE DEF shown
    <3> QED
      BY <1>2, <1>3, <3>1, <3>2, ActCallEdited
  <2> HIDE DEF g, i, n, call
  <2>6. /\ form'[i].id = Top.id /\ form'[i].loop = Top.g /\ form'[i].active = TRUE
        /\ form'[i].name = form[i].name
        /\ \A j \in Slots \ {i} : /\ form'[j].id = form[j].id /\ form'[j].loop = form[j].loop
                                  /\ form'[j].active = form[j].active
                                  /\ form'[j].name = form[j].name
    <3>1. CASE form' = g
      BY <2>2, <2>4, <3>1
    <3>2. CASE ShowModal(g, i)
      BY <2>2, <2>4, <3>2, ShowModalIds
    <3> QED
      BY <2>1, <3>1, <3>2
  <2>7. /\ StackOk(Rest) /\ CallOk(Top)
        /\ \A d \in DOMAIN Rest : OwnsLoop(Rest[d]) => Rest[d].g # Top.g
    BY <1>1, TailOk DEF CountersInv, OwnsLoop
  <2>8. form[i].id = 0
    BY <2>2 DEF CountersInv, IdsInv
  <2>9. IdsInv'
    <3>1. Top.id # 0 => Top.id \in ActivateIds
      BY <1>1, <2>7 DEF CallOk
    <3>2. form'[i].name # NoName
      BY <2>2, <2>6 DEF Live
    <3>3. ASSUME NEW j \in Slots, form'[j].id # 0
          PROVE  form'[j].name # NoName /\ form'[j].active /\ form'[j].id \in ActivateIds
      <4>1. CASE j = i
        BY <2>6, <3>1, <3>2, <3>3, <4>1
      <4>2. CASE j # i
        BY <2>6, <3>3, <4>2 DEF CountersInv, IdsInv, Live
      <4> QED
        BY <4>1, <4>2
    <3> QED
      BY <3>3 DEF IdsInv, Live
  <2>10. LoopInv'
    <3> SUFFICES ASSUME NEW x \in Slots, NEW y \in Slots, x # y,
                        form'[x].loop = form'[y].loop, form'[x].loop # 0
                 PROVE  form'[x].id = form'[y].id /\ form'[x].id \in ActivateIds
      BY DEF LoopInv
    <3>1. \A j \in Slots : form[j].loop = Top.g => Top.several /\ form[j].id = Top.id
      BY <1>1, <2>7 DEF CallOk
    <3>2. Top.several => Top.id \in ActivateIds
      BY <1>1, <2>7 DEF CallOk
    <3>3. CASE x # i /\ y # i
      BY <2>6, <3>3 DEF CountersInv, LoopInv
    <3>4. CASE x = i /\ y # i
      BY <2>6, <3>1, <3>2, <3>4
    <3>5. CASE x # i /\ y = i
      BY <2>6, <3>1, <3>2, <3>5
    <3> QED
      BY <3>3, <3>4, <3>5
  <2>11. /\ ~Asks(call) /\ CallOk(call) /\ (call.todo # <<>> => call.several)
    <3>1. ASSUME ~Top.several PROVE Len(call.todo) = 0
      <4>1. Len(Top.todo) <= 1
        BY <1>1, <2>7, <3>1 DEF CallOk
      <4>2. Len(Top.todo) # 0
        BY <1>1, <1>2, EmptySeq
      <4>3. Len(call.todo) = Len(Tail(Top.todo))
        BY <2>5
      <4>4. Top.todo \in Seq(Names)
        BY <1>2
      <4>5. Len(Top.todo) - 1 = 0
        <5>1. \A a \in Nat : a <= 1 /\ a # 0 => a - 1 = 0
          OBVIOUS
        <5>2. Len(Top.todo) \in Nat
          BY <4>4, LenProperties
        <5> HIDE DEF shown
        <5> QED
          BY <4>1, <4>2, <5>1, <5>2
      <4>6. Len(Tail(Top.todo)) = Len(Top.todo) - 1
        BY <1>1, <1>2, HeadTailProperties
      <4> QED
        BY <4>3, <4>5, <4>6
    <3>2. call.todo # <<>> => call.several
      BY <1>3, <2>5, <3>1, EmptySeq
    <3>3. ~Top.several => Len(call.todo) <= 1
      BY <3>1
    <3> QED
      BY <1>1, <2>5, <2>7, <3>2, <3>3 DEF CallOk, Asks, OwnsLoop
  <2>12. Push(call, Rest) \in Seq(Call) /\ StackOk(Push(call, Rest))
    <3>1. \A d \in DOMAIN Rest : OwnsLoop(Rest[d]) => Rest[d].g # call.g
      BY <2>5, <2>7
    <3> QED
      BY <1>1, <2>5, <2>7, <2>11, <3>1, PushTyped, PushOk
  <2>13. ASSUME NEW id \in ActivateIds \ {0}
         PROVE  \E m \in Nat : /\ Owed(Push(call, Rest), id, m)
                               /\ counter[id] = Cardinality(With(id)') + m
    <3>1. PICK m \in Nat : Owed(stack, id, m) /\ counter[id] = Cardinality(With(id)) + m
      BY DEF CountersInv, CountInv
    <3>2. CASE Top.id = id
      <4>1. Top.several
        BY <1>1, <2>7, <3>2 DEF CallOk
      <4>2. m = Len(Top.todo) /\ Owed(Rest, id, 0)
        BY <1>1, <3>1, <3>2, <4>1, OwedHead DEF Owes
      <4>3. Cardinality(With(id)') = Cardinality(With(id)) + 1
        BY <2>2, <2>6, <2>8, <3>2, JoinCounts
      <4>4. Owed(Push(call, Rest), id, Len(call.todo))
        <5>1. CASE call.todo # <<>>
          BY <1>1, <2>5, <3>2, <4>1, <4>2, <5>1, OwedNew DEF Owes
        <5>2. CASE call.todo = <<>>
          BY <1>1, <2>5, <4>2, <5>2, OwedPush DEF Owes
        <5> QED
          BY <5>1, <5>2
      <4>5. Len(call.todo) = Len(Top.todo) - 1 /\ Len(call.todo) \in Nat
        BY <1>3, <2>5, LenProperties
      <4> QED
        BY <3>1, <4>2, <4>3, <4>4, <4>5, WithFinite
    <3>3. CASE Top.id # id
      <4>1. ~Owes(Top, id) /\ ~Owes(call, id)
        BY <2>5, <3>3 DEF Owes
      <4>2. Owed(Rest, id, m)
        BY <1>1, <3>1, <4>1, OwedTail
      <4>3. Owed(Push(call, Rest), id, m)
        BY <1>1, <2>5, <4>1, <4>2, OwedPush
      <4>4. With(id)' = With(id)
        BY <2>2, <2>6, <2>8, <3>3 DEF With
      <4> QED
        BY <3>1, <4>3, <4>4
    <3> QED
      BY <3>2, <3>3
  <2>18. /\ form'[i].id = call.id /\ form'[i].loop = call.g
         /\ \A j \in Slots \ {i} : form'[j].id = form[j].id /\ form'[j].loop = form[j].loop
    BY <2>5, <2>6
  <2>19. call.k = "act" /\ (call.todo # <<>> => call.several)
    BY <2>5, <2>11
  <2> DEFINE p == Push(call, Rest)
  <2>14. p \in Seq(Call) /\ StackOk(p) /\ 1 \in DOMAIN p /\ p[1] = call
    <3>1. Len(Rest) \in Nat /\ DOMAIN p = 1 .. Len(Rest) + 1 /\ p[1] = call
      BY <1>1, <2>5, PushElements
    <3> HIDE DEF p
    <3>2. 1 \in DOMAIN p
      BY <3>1
    <3> QED
      BY <2>12, <3>1, <3>2 DEF p
  <2>15. \A id \in ActivateIds \ {0} : \E m \in Nat :
           Owed(p, id, m) /\ counter[id] = Cardinality(With(id)') + m
    BY <2>13
  <2>16. CASE n \notin OnInit
    <3>1. stack' = p
      BY <2>1, <2>16
    <3> HIDE DEF p
    <3>3. StackOk(stack)'
      BY <2>2, <2>14, <2>18, <3>1, <2>19, JoinOk
    <3>4. CountInv'
      BY <2>1, <2>15, <3>1 DEF CountInv
    <3> QED
      BY <2>9, <2>10, <3>3, <3>4 DEF CountersInv
  <2>17. CASE n \in OnInit
    <3> DEFINE q == Push(InitCall(i), p)
               r == Push(Pump, q)
    <3>1. /\ InitCall(i) \in Call /\ InitCall(i).k = "init" /\ ~Asks(InitCall(i))
          /\ Pump \in Call /\ Pump.k = "events" /\ ~Asks(Pump)
      BY <2>2, FramesTyped DEF InitCall, Pump, Asks
    <3>2. /\ CallOk(InitCall(i)) /\ ~OwnsLoop(InitCall(i)) /\ \A id : ~Owes(InitCall(i), id)
          /\ CallOk(Pump) /\ ~OwnsLoop(Pump) /\ \A id : ~Owes(Pump, id)
      BY <3>1, OtherCalls
    <3>3. stack' = r
      BY <2>1, <2>17
    <3> HIDE DEF p
    <3>6. q \in Seq(Call) /\ StackOk(q) /\ 2 \in DOMAIN q /\ q[2] = call
      <4>1. q \in Seq(Call) /\ StackOk(q)
        BY <3>1, <3>2, <2>14, PushTyped, PushOk
      <4>2. /\ Len(p) \in Nat /\ DOMAIN p = 1 .. Len(p) /\ DOMAIN q = 1 .. Len(p) + 1
            /\ \A d \in 1 .. Len(p) : q[d + 1] = p[d]
        BY <3>1, <2>14, PushElements
      <4>3. 1 + 1 \in DOMAIN q /\ q[1 + 1] = call
        BY <2>14, <4>2
      <4> QED
        BY <4>1, <4>3
    <3>7. \A id, m : Owed(p, id, m) => Owed(q, id, m)
      BY <3>1, <3>2, <2>14, OwedPush
    <3> HIDE DEF q
    <3>8. r \in Seq(Call) /\ StackOk(r) /\ 3 \in DOMAIN r /\ r[3] = call
      <4>1. r \in Seq(Call) /\ StackOk(r)
        BY <3>1, <3>2, <3>6, PushTyped, PushOk
      <4>2. /\ Len(q) \in Nat /\ DOMAIN q = 1 .. Len(q) /\ DOMAIN r = 1 .. Len(q) + 1
            /\ \A d \in 1 .. Len(q) : r[d + 1] = q[d]
        BY <3>1, <3>6, PushElements
      <4>3. 2 + 1 \in DOMAIN r /\ r[2 + 1] = call
        BY <3>6, <4>2
      <4> QED
        BY <4>1, <4>3
    <3>9. \A id, m : Owed(q, id, m) => Owed(r, id, m)
      BY <3>1, <3>2, <3>6, OwedPush
    <3> HIDE DEF r
    <3>10. StackOk(stack)'
      BY <2>2, <2>18, <2>19, <3>3, <3>8, JoinOk
    <3>11. CountInv'
      BY <2>1, <3>3, <2>15, <3>7, <3>9 DEF CountInv
    <3> QED
      BY <2>9, <2>10, <3>10, <3>11 DEF CountersInv
  <2> QED
    BY <2>16, <2>17
<1> QED
  BY <1>4, <1>5

(* ON INIT is called. *)
LEMMA CallOnInitCounts ==
  ASSUME WindowsInv, CountersInv, status = "run", CallOnInit
  PROVE  CountersInv'
<1>1. stack # <<>> /\ Top \in Call /\ Top.k = "init"
  BY TopTyped DEF CallOnInit, Running, Top, WindowsInv
<1>2. Follows(Rest)
  BY <1>1, RestFollows DEF Owes, CountersInv
<1>3. User("WINDOW_INIT", Top.i) \in Call
  BY <1>1, CallFields, SlotsAreNumbers, FramesTyped
<1>4. User("WINDOW_INIT", Top.i).k = "user" /\ ~Asks(User("WINDOW_INIT", Top.i))
  BY DEF User, Asks
<1>5. Follows(Push(User("WINDOW_INIT", Top.i), Rest))
  BY <1>2, <1>3, <1>4, PushFollows
<1> QED
  BY <1>2, <1>5, GotoCounts DEF CallOnInit

(* ACTIVATE WINDOW starts its message loop, under its own number. *)
LEMMA ActivateDoneCounts ==
  ASSUME WindowsInv, CountersInv, status = "run", ActivateDone
  PROVE  CountersInv'
<1> DEFINE f == Loop(Top.g)
           s == IF Top.nowait THEN Rest ELSE Push(f, Rest)
<1>1. /\ stack \in Seq(Call) /\ stack # <<>> /\ Top \in Call /\ Top.k = "act"
      /\ Top.todo = <<>> /\ Top = Head(stack) /\ Rest = Tail(stack)
  BY TopTyped DEF ActivateDone, Running, Top, Rest, WindowsInv, StackInv
<1>2. Top.g \in Nat /\ Top.shown \in Names \cup {NoName}
  BY <1>1, CallFields
<1>3. Follows(Rest)
  BY <1>1, RestFollows DEF Owes, CountersInv
<1>4. /\ Top.g # 0
      /\ \A d \in DOMAIN Rest : OwnsLoop(Rest[d]) => Rest[d].g # Top.g
  BY <1>1, TailOk DEF CountersInv, CallOk, OwnsLoop
<1>5. Follows(Push(f, Rest))
  <2>1. f \in Call /\ f.k = "loop" /\ f.g = Top.g
    BY <1>2, FramesTyped DEF Loop
  <2> HIDE DEF f
  <2>2. CallOk(f) /\ ~Asks(f) /\ \A id : ~Owes(f, id)
    BY <1>4, <2>1 DEF CallOk, Asks, Owes
  <2>3. Rest \in Seq(Call) /\ StackOk(Rest)
    BY <1>3 DEF Follows
  <2>4. Push(f, Rest) \in Seq(Call) /\ StackOk(Push(f, Rest))
    BY <1>4, <2>1, <2>2, <2>3, PushTyped, PushOk
  <2> QED
    BY <1>3, <2>1, <2>2, <2>3, <2>4, OwedPush DEF Follows
<1>6. Follows(s)
  BY <1>3, <1>5
<1> HIDE DEF f
<1>7. CASE Goto(s)
  BY <1>6, <1>7, GotoCounts
<1>8. CASE Abort
  BY <1>8, AbortCounts
<1>9. CASE Top.shown # NoName /\ Defined(Top.shown)
  <2>1. /\ ShowModal(form, nameVar[Top.shown])
        /\ stack' = Push(Pump, s)
        /\ UNCHANGED counter
    BY <1>9 DEF ActivateDone, f
  <2>2. nameVar[Top.shown] \in Slots /\ form \in [Slots -> FormRecord]
    BY <1>2, <1>9, DefinedIsLive DEF WindowsInv, TableInv
  <2> HIDE DEF s
  <2>3. \A j \in Slots : /\ form'[j].id = form[j].id /\ form'[j].loop = form[j].loop
                         /\ form'[j].active = form[j].active /\ form'[j].name = form[j].name
    BY <2>1, <2>2, ShowModalIds
  <2>4. Follows(Push(Pump, s))
    BY <1>6, PumpFollows
  <2> QED
    BY <2>1, <2>3, <2>4, SameIds
<1> QED
  BY <1>7, <1>8, <1>9 DEF ActivateDone, f

(* A retrieved message starts a handler of WM_CLOSE. *)
LEMMA DispatchCounts ==
  ASSUME WindowsInv, CountersInv, status = "run", Dispatch
  PROVE  CountersInv'
<1> DEFINE m == Head(queue)
           f == Closing("start", SlotOf(m.h), m.h, m.lp)
<1>1. /\ queue # <<>>
      /\ stack' = IF m = Discarded THEN stack ELSE Push(f, stack)
      /\ UNCHANGED <<form, counter>>
  BY DEF Dispatch, table
<1>2. Follows(stack)
  BY StackFollows DEF CountersInv
<1>3. CASE m = Discarded
  BY <1>1, <1>2, <1>3, SameIds
<1>4. CASE m # Discarded
  <2>1. m \in Message /\ m = queue[1] /\ 1 \in DOMAIN queue
    BY <1>1, HeadTailProperties, EmptySeq, LenProperties DEF WindowsInv, QueueInv
  <2>2. m.h \in LiveHandles /\ m.h \in Handles /\ m.lp \in {0, 1}
    BY <1>4, <2>1, LiveHandlesTyped DEF WindowsInv, QueueInv, Message
  <2>3. SlotOf(m.h) \in Slots
    BY <2>2, SlotOfFinds
  <2>4. f \in Call /\ f.k = "close" /\ ~Asks(f)
    BY <2>2, <2>3, FramesTyped DEF Closing, Asks
  <2>5. stack' = Push(f, stack)
    BY <1>1, <1>4
  <2> HIDE DEF f
  <2>6. Follows(Push(f, stack))
    BY <1>2, <2>4, PushFollows
  <2> QED
    BY <1>1, <2>5, <2>6, SameIds
<1> QED
  BY <1>3, <1>4

(* WM_QUIT ends a message loop. *)
LEMMA TakeQuitCounts ==
  ASSUME WindowsInv, CountersInv, status = "run", TakeQuit
  PROVE  CountersInv'
<1>1. /\ stack # <<>> /\ Top.k \in {"loop", "events"}
      /\ stack' = Rest \/ stack' = stack
      /\ UNCHANGED <<form, counter>>
  BY DEF TakeQuit, Pumping, Running, Top, table
<1>2. Follows(stack)
  BY StackFollows DEF CountersInv
<1>3. Follows(Rest)
  BY <1>1, RestFollows DEF Owes, CountersInv
<1> QED
  BY <1>1, <1>2, <1>3, SameIds

(* A pump ends. *)
LEMMA EventsDoneCounts ==
  ASSUME WindowsInv, CountersInv, status = "run", EventsDone
  PROVE  CountersInv'
<1>1. stack # <<>> /\ Top.k = "events" /\ Goto(Rest)
  BY DEF EventsDone, Running, Top
<1>2. Follows(Rest)
  BY <1>1, RestFollows DEF Owes, CountersInv
<1> QED
  BY <1>1, <1>2, GotoCounts

(* A step of the handler of WM_CLOSE, and one of ReleaseAllWindows. *)
LEMMA CloseStepCounts ==
  ASSUME WindowsInv, CountersInv, status = "run", CloseStep
  PROVE  CountersInv'
<1>1. stack # <<>> /\ Top \in Call /\ Top.k = "close"
  BY TopTyped DEF CloseStep, Running, Top, WindowsInv
<1>2. Top.i \in Slots /\ Top.h \in Handles /\ Top.lp \in {0, 1}
  BY <1>1, CallFields
<1>3. Follows(Rest)
  BY <1>1, RestFollows DEF Owes, CountersInv
<1>4. FinishClose(Top.i, Top.h, Rest) => CountersInv'
  BY <1>2, <1>3, DestroyCounts DEF FinishClose
<1> QED
  BY <1>2, <1>3, <1>4, StartCloseCounts, AfterAskCounts DEF CloseStep

LEMMA ReleaseAllStepCounts ==
  ASSUME WindowsInv, CountersInv, status = "run", ReleaseAllStep
  PROVE  CountersInv'
<1> DEFINE f == ReleasingAll(Top.i + 1)
<1>1. stack # <<>> /\ Top \in Call /\ Top.k = "all"
  BY TopTyped DEF ReleaseAllStep, Running, Top, WindowsInv
<1>2. Top.i \in Nat
  BY <1>1, CallFields
<1>3. Follows(Rest)
  BY <1>1, RestFollows DEF Owes, CountersInv
<1>4. f \in Call /\ f.k = "all" /\ ~Asks(f)
  BY <1>2, FramesTyped DEF ReleasingAll, Asks
<1>5. Follows(Push(f, Rest))
  BY <1>3, <1>4, PushFollows
<1>6. CASE status' = "exit"
  BY <1>6 DEF CountersInv
<1>7. CASE Top.i \in Slots /\ CallOnRelease(Top.i, Push(f, Rest))
  BY <1>5, <1>7, CallOnReleaseCounts
<1>8. CASE Goto(Push(f, Rest))
  BY <1>5, <1>8, GotoCounts
<1> QED
  BY <1>6, <1>7, <1>8 DEF ReleaseAllStep

-----------------------------------------------------------------------------
(* The user's input, and the theorem. *)

LEMMA UserInputCounts ==
  ASSUME WindowsInv, CountersInv, status = "run", NEW i \in Slots
  PROVE  /\ UserClose(i) => CountersInv'
         /\ Focus(i) => CountersInv'
         /\ \A c \in ControlIds : ControlAction(i, c) \/ TimerEvent(i, c) => CountersInv'
<1>0. Follows(stack)
  BY StackFollows DEF CountersInv
<1>1. Live(i) => form[i].handle \in Handles
  BY LiveHandlesTyped DEF WindowsInv, LiveHandles
<1>2. ASSUME UserClose(i) PROVE CountersInv'
  <2> DEFINE f == Closing("start", i, form[i].handle, 0)
  <2>1. f \in Call /\ f.k = "close" /\ ~Asks(f)
    BY <1>1, <1>2, FramesTyped DEF UserClose, Reachable, Closing, Asks
  <2>2. Goto(Push(f, stack))
    BY <1>2 DEF UserClose
  <2> HIDE DEF f
  <2> QED
    BY <1>0, <2>1, <2>2, PushFollows, GotoCounts
<1>3. ASSUME Focus(i) PROVE CountersInv'
  BY <1>0, <1>3, SameIds DEF Focus, table
<1>4. ASSUME NEW c \in ControlIds, ControlAction(i, c) \/ TimerEvent(i, c)
      PROVE  CountersInv'
  <2> DEFINE f == User("CONTROL", c)
  <2>1. f \in Call /\ f.k = "user" /\ ~Asks(f)
    BY FramesTyped, WindowsAssumption DEF User, Asks
  <2>2. Goto(Push(f, stack))
    BY <1>4 DEF ControlAction, TimerEvent
  <2> HIDE DEF f
  <2> QED
    BY <1>0, <2>1, <2>2, PushFollows, GotoCounts
<1> QED
  BY <1>2, <1>3, <1>4

(* The invariant holds at the start. *)
LEMMA InitCountersInv == Init => CountersInv
<1> SUFFICES ASSUME Init PROVE CountersInv
  OBVIOUS
<1>1. \A i \in Slots : form[i].id = 0 /\ form[i].loop = 0
  BY DEF Init, NoForm
<1>2. IdsInv /\ LoopInv
  BY <1>1 DEF IdsInv, LoopInv
<1>3. DOMAIN stack = {1} /\ stack[1].k = "user" /\ stack[1].ev = "MAIN"
  BY DEF Init, User
<1>4. StackOk(stack)
  BY <1>3 DEF StackOk, CallOk, Asks, OwnsLoop
<1>5. ASSUME NEW id \in ActivateIds \ {0}
      PROVE  Owed(stack, id, 0) /\ counter[id] = Cardinality(With(id)) + 0
  <2>1. Owed(stack, id, 0)
    BY <1>3 DEF Owed, Owes
  <2>2. With(id) = {}
    BY <1>1 DEF With
  <2>3. counter[id] = 0
    BY DEF Init
  <2> QED
    BY <2>1, <2>2, <2>3, FS_EmptySet
<1>6. CountInv
  BY <1>5 DEF CountInv
<1> QED
  BY <1>2, <1>4, <1>6 DEF CountersInv

(* Only a running program takes steps. *)
LEMMA StepsRun == Next => status = "run"
BY DEF Next, Command, Library, UserInput, Define, DefineWrongly, Activate, Release, Show, Hide,
       DoEvents, DoMessageLoop, InUserCode, Return, ActivateNext, CallOnInit, ActivateDone,
       Dispatch, TakeQuit, EventsDone, CloseStep, ReleaseAllStep, UserClose, Focus,
       ControlAction, TimerEvent, Idle, Pumping, Running

(* Every step keeps the invariant. *)
LEMMA NextCountersInv == WindowsInv /\ CountersInv /\ [Next]_vars => CountersInv'
<1> SUFFICES ASSUME WindowsInv, CountersInv, [Next]_vars PROVE CountersInv'
  OBVIOUS
<1>1. ASSUME UNCHANGED vars PROVE CountersInv'
  <2>1. UNCHANGED <<form, counter, stack, status>>
    BY <1>1 DEF vars, table
  <2>2. CASE status = "run"
    BY <2>1, <2>2, StackFollows, SameIds DEF CountersInv
  <2>3. CASE status # "run"
    BY <2>1, <2>3 DEF CountersInv
  <2> QED
    BY <2>2, <2>3
<1>2. ASSUME Next PROVE CountersInv'
  <2>0. status = "run" /\ StackOk(stack)
    BY <1>2, StepsRun DEF CountersInv
  <2>1. ASSUME NEW n \in Names, DefineWrongly(n) PROVE CountersInv'
    BY <2>1, AbortCounts DEF DefineWrongly
  <2>2. ASSUME DoEvents \/ DoMessageLoop PROVE CountersInv'
    BY <2>0, <2>2, StackFollows, PumpFollows, LoopFollows, GotoCounts DEF DoEvents, DoMessageLoop
  <2>3. ASSUME Command PROVE CountersInv'
    BY <2>0, <2>1, <2>2, <2>3, DefineCounts, ActivateCounts, ReleaseCounts, ShowCounts, HideCounts
       DEF Command
  <2>4. ASSUME Library PROVE CountersInv'
    BY <2>0, <2>4, ActivateNextCounts, CallOnInitCounts, ActivateDoneCounts, DispatchCounts,
       TakeQuitCounts, EventsDoneCounts, CloseStepCounts, ReleaseAllStepCounts
       DEF Library
  <2>5. ASSUME UserInput PROVE CountersInv'
    BY <2>0, <2>5, UserInputCounts DEF UserInput
  <2> QED
    BY <1>2, <2>0, <2>3, <2>4, <2>5, ReturnCounts DEF Next
<1> QED
  BY <1>1, <1>2

(* The counter that decides whether WM_QUIT is posted counts exactly the   *)
(* windows still to be activated or destroyed (_GenActivateId, WM_DESTROY), *)
(* whatever is closed, released or activated meanwhile.                    *)
THEOREM CounterAlwaysExact == Spec => []CounterIsExact
<1>1. WindowsInv /\ CountersInv => CounterIsExact
  <2> SUFFICES ASSUME WindowsInv, CountersInv, status = "run", NEW id \in ActivateIds \ {0}
               PROVE  \/ /\ ToActivate(id) = {}
                         /\ counter[id] = Cardinality(With(id))
                      \/ \E d \in ToActivate(id) :
                           counter[id] = Cardinality(With(id)) + Len(stack[d].todo)
    BY DEF CounterIsExact, With
  <2>1. PICK m \in Nat : Owed(stack, id, m) /\ counter[id] = Cardinality(With(id)) + m
    BY DEF CountersInv, CountInv
  <2>2. ASSUME NEW d \in DOMAIN stack, Owes(stack[d], id), m = Len(stack[d].todo)
        PROVE  d \in ToActivate(id) /\ counter[id] = Cardinality(With(id)) + Len(stack[d].todo)
    BY <2>1, <2>2 DEF Owes, ToActivate
  <2>3. CASE m = 0 /\ (\A d \in DOMAIN stack : ~Owes(stack[d], id)) /\ ToActivate(id) = {}
    BY <2>1, <2>3, WithFinite
  <2>4. ASSUME m = 0, \A d \in DOMAIN stack : ~Owes(stack[d], id), NEW d \in ToActivate(id)
        PROVE  counter[id] = Cardinality(With(id)) + Len(stack[d].todo)
    <3>1. stack[d].todo = <<>>
      BY <2>4 DEF Owes, ToActivate
    <3>2. Len(stack[d].todo) = 0
      BY <3>1, EmptySeq
    <3> QED
      BY <2>1, <2>4, <3>2
  <2> QED
    BY <2>1, <2>2, <2>3, <2>4 DEF Owed
<1>2. Init => WindowsInv /\ CountersInv
  BY InitWindowsInv, InitCountersInv
<1>3. WindowsInv /\ CountersInv /\ [Next]_vars => WindowsInv' /\ CountersInv'
  BY NextWindowsInv, NextCountersInv
<1> QED
  BY <1>1, <1>2, <1>3, PTL DEF Spec

-----------------------------------------------------------------------------
(* WM_QUIT. *)

(* The handler of WM_DESTROY posts WM_QUIT for a window that is the last   *)
(* of its message loop.                                                    *)
LEMMA DestroyQuitsAtLast ==
  ASSUME WindowsInv, CountersInv, status = "run", 0 \notin ActivateIds, NEW h,
         DestroyWindow(h), quit', ~quit
  PROVE  \E i \in Slots : Live(i) /\ ~Live(i)' /\ LastOfLoop(i)
<1>1. SlotOf(h) # 0
  BY DEF DestroyWindow
<1>2. /\ form' = [form EXCEPT ![SlotOf(h)] = NoForm]
      /\ LastOfActivation(SlotOf(h))
  BY <1>1 DEF DestroyWindow
<1>3. PICK d \in Slots : /\ Live(d)
                        /\ form' = [form EXCEPT ![d] = NoForm]
                        /\ LastOfActivation(d)
  BY <1>1, <1>2, SlotOfFinds
<1>4. form'[d].name = NoName
  BY <1>3 DEF WindowsInv, TableInv, NoForm
<1>5. ASSUME NEW j \in Slots \ {d}, form[j].loop = form[d].loop, form[d].loop # 0
      PROVE  FALSE
  <2> DEFINE id == form[d].id
  <2>1. form[j].id = id /\ id \in ActivateIds \ {0}
    BY <1>3, <1>5 DEF CountersInv, LoopInv
  <2>2. counter[id] = 1
    BY <1>3, <2>1 DEF LastOfActivation
  <2>3. d \in With(id) /\ j \in With(id)
    BY <1>3, <2>1 DEF With
  <2> HIDE DEF id
  <2>4. PICK m \in Nat : counter[id] = Cardinality(With(id)) + m
    BY <2>1 DEF CountersInv, CountInv
  <2>5. Cardinality({d, j}) = 2 /\ IsFiniteSet({d, j})
    <3>1. IsFiniteSet({d}) /\ Cardinality({d}) = 1
      BY FS_Singleton
    <3>2. j \notin {d} /\ {d, j} = {d} \cup {j}
      BY <1>5
    <3>3. Cardinality({d} \cup {j}) = 1 + 1 /\ IsFiniteSet({d} \cup {j})
      BY <3>1, <3>2, FS_AddElement
    <3> QED
      BY <3>2, <3>3
  <2>6. Cardinality({d, j}) <= Cardinality(With(id))
    BY <2>3, WithFinite, FS_Subset
  <2> QED
    BY <2>2, <2>4, <2>5, <2>6, WithFinite
<1>6. ~Live(d)' /\ LastOfLoop(d)
  BY <1>4, <1>5 DEF Live, LastOfLoop
<1> QED
  BY <1>3, <1>6

(* No other step posts WM_QUIT. *)
LEMMA CloseQuits ==
  ASSUME NEW i, NEW h, NEW lp, NEW s, AfterAsk(i, h, lp, s) \/ StartClose(i, h, lp, s)
  PROVE  quit' = quit \/ DestroyWindow(h)
<1>1. ASSUME AfterAsk(i, h, lp, s) PROVE quit' = quit \/ DestroyWindow(h)
  BY <1>1 DEF AfterAsk, HideOrRelease, HideWindow, ReleaseAllWindows, CallOnRelease, FinishClose,
              Goto, Abort, message
<1> QED
  BY <1>1 DEF StartClose, Goto, message

LEMMA OnlyDestroyQuits ==
  ASSUME Next, quit', ~quit
  PROVE  \E h : DestroyWindow(h)
<1>1. CASE Command
  BY <1>1 DEF Command, Define, DefineWrongly, Activate, Release, Show, Hide, HideWindow,
              DoEvents, DoMessageLoop, Goto, Abort, message
<1>2. CASE Return
  BY <1>2 DEF Return, Goto, message
<1>3. CASE UserInput
  BY <1>3 DEF UserInput, UserClose, Focus, ControlAction, TimerEvent, Goto, message
<1>4. CASE Library
  <2>1. CASE CloseStep
    BY <2>1, CloseQuits DEF CloseStep, FinishClose
  <2>2. CASE ActivateNext \/ CallOnInit \/ ActivateDone \/ Dispatch \/ TakeQuit \/ EventsDone
    BY <2>2 DEF ActivateNext, CallOnInit, ActivateDone, Dispatch, TakeQuit, EventsDone,
                Goto, Abort, message
  <2>3. CASE ReleaseAllStep
    BY <2>3 DEF ReleaseAllStep, CallOnRelease, Goto, message
  <2> QED
    BY <1>4, <2>1, <2>2, <2>3 DEF Library
<1> QED
  BY <1>1, <1>2, <1>3, <1>4 DEF Next

(* WM_QUIT is posted only when the last window of an ACTIVATE WINDOW is    *)
(* destroyed, provided that no activation draws the id 0, which            *)
(* Int( Seconds() * 100 ) gives in the first hundredth after midnight.     *)
THEOREM QuitOnlyAtLast ==
  ASSUME 0 \notin ActivateIds
  PROVE  Spec => QuitAtLast
<1>1. WindowsInv /\ CountersInv /\ [Next]_vars =>
        [quit' /\ ~quit => \E i \in Slots : Live(i) /\ ~Live(i)' /\ LastOfLoop(i)]_vars
  <2> SUFFICES ASSUME WindowsInv, CountersInv, Next, quit', ~quit
               PROVE  \E i \in Slots : Live(i) /\ ~Live(i)' /\ LastOfLoop(i)
    OBVIOUS
  <2>1. status = "run"
    BY StepsRun
  <2>2. PICK h : DestroyWindow(h)
    BY OnlyDestroyQuits
  <2> QED
    BY <2>1, <2>2, DestroyQuitsAtLast
<1>2. Init => WindowsInv /\ CountersInv
  BY InitWindowsInv, InitCountersInv
<1>3. WindowsInv /\ CountersInv /\ [Next]_vars => WindowsInv' /\ CountersInv'
  BY NextWindowsInv, NextCountersInv
<1> QED
  BY <1>1, <1>2, <1>3, PTL DEF Spec, QuitAtLast
=============================================================================

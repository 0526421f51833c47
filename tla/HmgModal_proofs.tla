-------------------------- MODULE HmgModal_proofs --------------------------
(***************************************************************************)
(* The modal windows of a program of dialogs behave as a stack, for any    *)
(* number of dialogs and any nesting of their event procedures.            *)
(***************************************************************************)
EXTENDS HmgWindows_proofs, WellFoundedInduction

(* Programs of dialogs: every window but the main one is modal, none has   *)
(* an ON INIT procedure, the user code neither pumps messages itself nor   *)
(* activates with NOWAIT, and keeps the rules of section Careful.  Dialogs *)
(* may be kept when closed (NOAUTORELEASE) or ask before (ON               *)
(* INTERACTIVECLOSE), but not both.                                        *)
DialogProgram ==
  /\ Careful
  /\ Names = Modal \cup {Main}
  /\ OnInit = {}
  /\ Manual = {} \/ AskClose \cap Modal = {}
  /\ Uses \cap {"events", "loop", "nowait"} = {}

-----------------------------------------------------------------------------
(* The inductive invariant.  t is the chain of the open dialogs: their     *)
(* slots, the active one first.                                            *)

(* A window that _ShowWindow is still to make modal is not open yet.        *)
Unf(s) == IF Head(s).k = "act" THEN Head(s).shown ELSE NoName
IsOpen(i, fm, vis, un) ==
  fm[i].name \in Modal /\ fm[i].handle \in vis /\ fm[i].name # un
IsChain(t, fm, vis, mh, un) ==
  /\ t \in Seq(Slots)
  /\ \A j, k \in DOMAIN t : t[j] = t[k] => j = k
  /\ \A i \in Slots : IsOpen(i, fm, vis, un) <=> \E j \in DOMAIN t : t[j] = i
  /\ \A j \in DOMAIN t :
       fm[t[j]].parent = IF j = Len(t) THEN mh ELSE fm[t[j + 1]].handle
TopOf(t, fm) == IF t = <<>> THEN NoHandle ELSE fm[t[1]].handle
ChainInv(t) ==
  /\ IsChain(t, form, visible, mainHandle, Unf(stack))
  /\ activeModal = TopOf(t, form)
  /\ modalActive <=> t # <<>>

(* Neither the main window nor a dialog below the top takes input.         *)
OnlyTop(t, fm, en, mh) ==
  /\ \A j \in DOMAIN t : j # 1 => fm[t[j]].handle \notin en
  /\ t # <<>> => mh \notin en

(* The main window exists while there are others, it is active while one   *)
(* is, and without dialogs no other window had the focus last.             *)
MainLives ==
  \/ mainHandle = NoHandle /\ \A i \in Slots : ~Live(i)
  \/ \E i \in Slots : form[i].name = Main /\ form[i].handle = mainHandle
                      /\ form[i].parent = NoHandle
MainInv ==
  /\ MainLives
  /\ \A i \in Slots : form[i].active => mainActive
  /\ mainActive => Active(Main) \/ (Head(stack).k = "act" /\ Main \in NamesOf(Head(stack).todo))
  /\ \A i \in Slots : form[i].handle \in visible => form[i].active
  /\ ~modalActive => userWindow \in {NoHandle, mainHandle}

(* While windows are being activated nothing is closing.                   *)
AllDiscarded == \A j \in DOMAIN queue : queue[j] = Discarded
ActInv ==
  Head(stack).k = "act" =>
    LET c == Head(stack)
    IN  /\ ~quit /\ AllDiscarded /\ ~c.nowait /\ mainActive
        /\ c.several => ~modalActive
        /\ ~c.several => c.shown = NoName
        /\ c.shown # NoName => /\ c.shown \in Modal /\ Active(c.shown)
                               /\ form[nameVar[c.shown]].handle \in visible

(* The calls on the stack, by their neighbours.                            *)
Rel(c)      == c.k = "user" /\ c.ev = "WINDOW_RELEASE"
PumpCall(c) == c.k \in {"loop", "events"}
ShapeOk(s) ==
  /\ s # <<>>
  /\ \A d \in DOMAIN s : s[d].k # "user" => d + 1 \in DOMAIN s
  /\ \A d \in DOMAIN s : s[d].k # "init"
  /\ \A d \in DOMAIN s : s[d].k = "act" => d = 1
  /\ \A d \in DOMAIN s : Rel(s[d]) => d = 1 /\ 2 \in DOMAIN s /\ s[2].k \in {"close", "all"}
  /\ \A d \in DOMAIN s : s[d].k = "all" => d = 1 \/ (d = 2 /\ Rel(s[1]))
  /\ \A d \in DOMAIN s : s[d].k = "close" =>
       /\ s[d].at = "start" => d = 1
       /\ s[d].at = "release" => d = 1 \/ (d = 2 /\ Rel(s[1]))
       /\ d + 1 \in DOMAIN s /\ PumpCall(s[d + 1])

(* A handler of WM_CLOSE still has its window.                             *)
CloseOk(c, fm) ==
  c.k = "close" =>
    /\ fm[c.i].handle = c.h
    /\ c.at = "release" => fm[c.i].name \in Modal \ Manual
    /\ c.at = "ask" => fm[c.i].name \in AskClose
ClosesOk(s, fm) == \A d \in DOMAIN s : CloseOk(s[d], fm)

(* The messages that wait are for the one window that is being closed: the *)
(* active dialog, or one that its first message has hidden.                *)
ModalClose(c, fm) == c.k = "close" /\ fm[c.i].name \in Modal
Targets(q) == {q[j].h : j \in {k \in DOMAIN q : q[k] # Discarded}}
TargetsOk(T, s, fm, vis, am) ==
  /\ \A h \in T : \/ h = am
                  \/ h \notin vis /\ \E i \in Slots : fm[i].handle = h /\ fm[i].name \in Manual
  /\ \A h, k \in T : h = k
  /\ \A d \in DOMAIN s : ModalClose(s[d], fm) /\ s[d].at # "ask" => \A h \in T : h = s[d].h
PendingInv ==
  /\ quit => PumpCall(Head(stack)) /\ AllDiscarded
  /\ TargetsOk(Targets(queue), stack, form, visible, activeModal)
  /\ \A h \in Targets(queue) : h # activeModal =>
       \/ PumpCall(Head(stack))
       \/ ModalClose(Head(stack), form) /\ Head(stack).at = "start"

(* The dialogs above the one a call is about are those that the message    *)
(* loops above that call opened: a dialog that is being closed is on top   *)
(* again when its handler goes on, and a loop above it has its own dialog. *)
Above(s, d) == {s[e].g : e \in {x \in DOMAIN s : x < d /\ OwnsLoop(s[x])}}
Level(s, d, t, fm, j) == \A i \in DOMAIN t : fm[t[i]].loop \in Above(s, d) <=> i < j
CloseMarked(s, d, t, fm) ==
  /\ \A e \in DOMAIN s : e < d => s[e].k # "events"
  /\ \/ \E j \in DOMAIN t : t[j] = s[d].i /\ Level(s, d, t, fm, j)
     \/ d = 1 /\ s[d].at = "start" /\ fm[s[d].i].name \in Manual
ClosesMarked(s, t, fm) ==
  \A d \in DOMAIN s : ModalClose(s[d], fm) => CloseMarked(s, d, t, fm)
OverClose(s, e, fm) == \E d \in DOMAIN s : e < d /\ ModalClose(s[d], fm)
Empty(c, q) == q \/ (c.k = "act" /\ c.todo # <<>>)
HasDialog(s, e, t, fm) ==
  \E j \in DOMAIN t : /\ Level(s, e, t, fm, j) /\ fm[t[j]].id = 0
                      /\ \A i \in Slots : fm[i].loop = s[e].g <=> i = t[j]
LoopsMarked(s, t, fm, q) ==
  \A e \in DOMAIN s : OwnsLoop(s[e]) /\ OverClose(s, e, fm) =>
    IF e = 1 /\ Empty(s[e], q) THEN \A i \in Slots : fm[i].loop # s[e].g
    ELSE HasDialog(s, e, t, fm)
Markers(s, t, fm, q) == ClosesMarked(s, t, fm) /\ LoopsMarked(s, t, fm, q)

(* ON RELEASE ran for a window whose release is not finished.              *)
ReleasedBy(c, i) == \/ c.k = "close" /\ c.at = "release" /\ c.i = i
                    \/ c.k = "all" /\ i < c.i
ReleasedOk(s, fm) ==
  \A i \in Slots : fm[i].released # 0 =>
    fm[i].released = 1 /\ \E d \in DOMAIN s : ReleasedBy(s[d], i)

(* The invariant of a state whose open dialogs are t. *)
Dialog(t) ==
  /\ ChainInv(t)
  /\ OnlyTop(t, form, enabled, mainHandle)
  /\ MainInv
  /\ ActInv
  /\ ShapeOk(stack)
  /\ ClosesOk(stack, form)
  /\ PendingInv
  /\ Markers(stack, t, form, quit)
  /\ ReleasedOk(stack, form)

-----------------------------------------------------------------------------
(* The shape of the stack. *)

(* An event procedure, a handler or an activation starts above a running   *)
(* event procedure or pump.                                                *)
LEMMA ShapePush ==
  ASSUME NEW s \in Seq(Call), ShapeOk(s), s[1].k \notin {"act", "close", "all"}, ~Rel(s[1]),
         NEW f \in Call, f.k # "init", ~Rel(f), f.k = "close" => PumpCall(s[1])
  PROVE  ShapeOk(Push(f, s))
<1> DEFINE p == Push(f, s)
<1>00. s # <<>>
  BY DEF ShapeOk
<1>0. /\ p \in Seq(Call) /\ Len(s) \in Nat /\ DOMAIN s = 1 .. Len(s) /\ Len(s) > 0
      /\ DOMAIN p = 1 .. Len(s) + 1 /\ p[1] = f
      /\ \A d \in 1 .. Len(s) : p[d + 1] = s[d]
      /\ \A d \in 2 .. Len(s) + 1 : p[d] = s[d - 1] /\ d - 1 \in 1 .. Len(s)
  BY <1>00, PushElements, TailElements, ZenonT(40)
<1> HIDE DEF p
<1>1. p # <<>> /\ 1 \in DOMAIN s
  BY <1>0, EmptySeq
<1>2. \A d \in DOMAIN p : d = 1 \/ d \in 2 .. Len(s) + 1
  BY <1>0
<1>3. \A d \in DOMAIN p : p[d].k # "init" /\ (p[d].k # "user" => d + 1 \in DOMAIN p)
  <2> TAKE d \in DOMAIN p
  <2>1. CASE d = 1
    BY <1>0, <2>1
  <2>2. CASE d \in 2 .. Len(s) + 1
    <3>1. p[d] = s[d - 1] /\ d - 1 \in DOMAIN s
      BY <1>0, <2>2
    <3>2. p[d].k # "init" /\ (p[d].k # "user" => (d - 1) + 1 \in DOMAIN s)
      BY <3>1 DEF ShapeOk
    <3> QED
      BY <1>0, <2>2, <3>2
  <2> QED
    BY <1>2, <2>1, <2>2
<1>4. \A d \in DOMAIN p : p[d].k = "act" => d = 1
  <2> TAKE d \in DOMAIN p
  <2> HAVE p[d].k = "act"
  <2>1. CASE d \in 2 .. Len(s) + 1
    <3>1. d - 1 = 1
      BY <1>0, <2>1 DEF ShapeOk
    <3> QED
      BY <1>0, <2>1, <3>1
  <2> QED
    BY <1>2, <2>1
<1>5. \A d \in DOMAIN p : ~Rel(p[d])
  <2> TAKE d \in DOMAIN p
  <2>1. CASE d \in 2 .. Len(s) + 1
    <3>1. Rel(p[d]) => d - 1 = 1
      BY <1>0, <2>1 DEF ShapeOk
    <3> QED
      BY <1>0, <2>1, <3>1
  <2> QED
    BY <1>0, <1>2, <2>1
<1>6. \A d \in DOMAIN p : p[d].k = "all" => d = 1
  <2> TAKE d \in DOMAIN p
  <2>1. CASE d \in 2 .. Len(s) + 1 /\ p[d].k = "all"
    <3>1. d - 1 = 1
      BY <1>0, <2>1 DEF ShapeOk
    <3> QED
      BY <1>0, <2>1, <3>1
  <2> QED
    BY <1>2, <2>1
<1>7. ASSUME NEW d \in DOMAIN p, p[d].k = "close"
      PROVE  /\ p[d].at = "start" => d = 1
             /\ p[d].at = "release" => d = 1
             /\ d + 1 \in DOMAIN p /\ PumpCall(p[d + 1])
  <2>1. CASE d = 1
    <3>1. d + 1 \in DOMAIN p /\ p[d + 1] = s[1]
      BY <1>0, <1>1, <2>1
    <3> QED
      BY <1>0, <1>7, <2>1, <3>1
  <2>2. CASE d \in 2 .. Len(s) + 1
    <3> DEFINE c == d - 1
    <3>1. c \in DOMAIN s /\ p[d] = s[c] /\ d = c + 1
      BY <1>0, <2>2
    <3> HIDE DEF c
    <3>2. /\ s[c].at = "start" => c = 1
          /\ s[c].at = "release" => c = 1
          /\ c + 1 \in DOMAIN s /\ PumpCall(s[c + 1])
      BY <1>7, <3>1 DEF ShapeOk
    <3>3. c # 1
      BY <1>7, <3>1
    <3>4. d + 1 \in DOMAIN p /\ p[d + 1] = s[c + 1]
      BY <1>0, <3>1, <3>2
    <3> QED
      BY <3>1, <3>2, <3>3, <3>4
  <2> QED
    BY <1>2, <2>1, <2>2
<1> QED
  BY <1>1, <1>3, <1>4, <1>5, <1>6, <1>7 DEF ShapeOk, p

(* The running call ends, and another goes on. *)
LEMMA ShapeTail ==
  ASSUME NEW s \in Seq(Call), ShapeOk(s), Tail(s) # <<>>
  PROVE  ShapeOk(Tail(s)) /\ ~Rel(Tail(s)[1]) /\ Tail(s)[1].k # "act"
<1> DEFINE p == Tail(s)
<1>0. /\ p \in Seq(Call) /\ Len(s) \in Nat /\ DOMAIN s = 1 .. Len(s) /\ Len(s) > 0
      /\ DOMAIN p = 1 .. Len(s) - 1
      /\ \A d \in 1 .. Len(s) - 1 : p[d] = s[d + 1] /\ d + 1 \in 1 .. Len(s)
  BY TailElements DEF ShapeOk
<1>00. p # <<>>
  OBVIOUS
<1> HIDE DEF p
<1>1. 1 \in DOMAIN p
  BY <1>0, <1>00, EmptySeq
<1>2. \A d \in DOMAIN p : p[d].k \notin {"init", "act"} /\ ~Rel(p[d])
  <2> TAKE d \in DOMAIN p
  <2>1. p[d] = s[d + 1] /\ d + 1 \in DOMAIN s /\ d + 1 # 1
    BY <1>0
  <2> QED
    BY <2>1 DEF ShapeOk
<1>02. \A d \in DOMAIN p : p[d].k # "user" => d + 1 \in DOMAIN p
  <2> TAKE d \in DOMAIN p
  <2>1. p[d] = s[d + 1] /\ d + 1 \in DOMAIN s
    BY <1>0
  <2>2. p[d].k # "user" => (d + 1) + 1 \in DOMAIN s
    BY <2>1 DEF ShapeOk
  <2> QED
    BY <1>0, <2>2
<1>3. \A d \in DOMAIN p : p[d].k = "all" => d = 1
  <2> TAKE d \in DOMAIN p
  <2>1. p[d] = s[d + 1] /\ d + 1 \in DOMAIN s /\ d + 1 # 1
    BY <1>0
  <2>2. p[d].k = "all" => d + 1 = 2
    BY <2>1 DEF ShapeOk
  <2> QED
    BY <1>0, <2>2
<1>4. ASSUME NEW d \in DOMAIN p, p[d].k = "close"
      PROVE  /\ p[d].at = "start" => d = 1
             /\ p[d].at = "release" => d = 1
             /\ d + 1 \in DOMAIN p /\ PumpCall(p[d + 1])
  <2> DEFINE c == d + 1
  <2>1. p[d] = s[c] /\ c \in DOMAIN s /\ c # 1 /\ c = d + 1
    BY <1>0
  <2> HIDE DEF c
  <2>2. /\ s[c].at # "start"
        /\ s[c].at = "release" => c = 2
        /\ c + 1 \in DOMAIN s /\ PumpCall(s[c + 1])
    BY <1>4, <2>1 DEF ShapeOk
  <2>3. d + 1 \in DOMAIN p /\ p[d + 1] = s[c + 1]
    BY <1>0, <2>1, <2>2
  <2>4. c = 2 => d = 1
    BY <1>0, <2>1
  <2> QED
    BY <2>1, <2>2, <2>3, <2>4
<1> QED
  BY <1>00, <1>02, <1>1, <1>2, <1>3, <1>4 DEF ShapeOk, p

(* A procedure that a handler of WM_CLOSE or ReleaseAllWindows calls.       *)
LEMMA ShapeCall ==
  ASSUME NEW s \in Seq(Call), ShapeOk(s), NEW f \in Call, f.k = "user",
         \/ Rel(f) /\ s[1].k = "all"
         \/ Rel(f) /\ s[1].k = "close" /\ s[1].at = "release"
         \/ ~Rel(f) /\ s[1].k = "close" /\ s[1].at = "ask"
  PROVE  ShapeOk(Push(f, s))
<1> DEFINE p == Push(f, s)
<1>00. s # <<>>
  BY DEF ShapeOk
<1>0. /\ p \in Seq(Call) /\ Len(s) \in Nat /\ DOMAIN s = 1 .. Len(s) /\ Len(s) > 0
      /\ DOMAIN p = 1 .. Len(s) + 1 /\ p[1] = f
      /\ \A d \in 1 .. Len(s) : p[d + 1] = s[d]
      /\ \A d \in 2 .. Len(s) + 1 : p[d] = s[d - 1] /\ d - 1 \in 1 .. Len(s)
  BY <1>00, PushElements, TailElements
<1> HIDE DEF p
<1>1. p # <<>> /\ 1 \in DOMAIN s /\ 2 \in DOMAIN p /\ p[2] = s[1]
  BY <1>0, EmptySeq
<1>2. \A d \in DOMAIN p : d = 1 \/ d \in 2 .. Len(s) + 1
  BY <1>0
<1>3. ~Rel(s[1]) /\ s[1].k # "act"
  BY DEF Rel
<1>4. \A d \in 2 .. Len(s) + 1 : p[d].k \notin {"init", "act"} /\ ~Rel(p[d])
  <2> TAKE d \in 2 .. Len(s) + 1
  <2>1. p[d] = s[d - 1] /\ d - 1 \in DOMAIN s
    BY <1>0
  <2> QED
    BY <1>3, <2>1 DEF ShapeOk
<1>5. \A d \in 2 .. Len(s) + 1 : p[d].k = "all" => d = 2 /\ Rel(p[1])
  <2> TAKE d \in 2 .. Len(s) + 1
  <2>1. p[d] = s[d - 1] /\ d - 1 \in DOMAIN s
    BY <1>0
  <2>2. p[d].k = "all" => d - 1 = 1
    BY <1>3, <2>1 DEF ShapeOk
  <2>3. p[d].k = "all" => Rel(f)
    BY <2>1, <2>2
  <2> QED
    BY <1>0, <2>2, <2>3
<1>6. ASSUME NEW d \in 2 .. Len(s) + 1, p[d].k = "close"
      PROVE  /\ p[d].at # "start"
             /\ p[d].at = "release" => d = 2 /\ Rel(p[1])
             /\ d + 1 \in DOMAIN p /\ PumpCall(p[d + 1])
  <2> DEFINE c == d - 1
  <2>1. c \in DOMAIN s /\ p[d] = s[c] /\ d = c + 1
    BY <1>0
  <2> HIDE DEF c
  <2>2. /\ s[c].at \in {"start", "release"} => c = 1
        /\ c + 1 \in DOMAIN s /\ PumpCall(s[c + 1])
    BY <1>3, <1>6, <2>1 DEF ShapeOk
  <2>3. d + 1 \in DOMAIN p /\ p[d + 1] = s[c + 1]
    BY <1>0, <2>1, <2>2
  <2>4. c = 1 => s[c].k = "close"
    BY <1>6, <2>1
  <2> QED
    BY <1>0, <2>1, <2>2, <2>3, <2>4
<1>7. p[1].k = "user" /\ \A d \in DOMAIN p : p[d].k # "user" => d + 1 \in DOMAIN p
  <2>1. ASSUME NEW d \in 2 .. Len(s) + 1, p[d].k # "user" PROVE d + 1 \in DOMAIN p
    <3>1. p[d] = s[d - 1] /\ d - 1 \in DOMAIN s
      BY <1>0
    <3>2. (d - 1) + 1 \in DOMAIN s
      BY <2>1, <3>1 DEF ShapeOk
    <3> QED
      BY <1>0, <3>2
  <2> QED
    BY <1>0, <1>2, <2>1
<1>8. \A d \in DOMAIN p : Rel(p[d]) => d = 1 /\ 2 \in DOMAIN p /\ p[2].k \in {"close", "all"}
  BY <1>1, <1>2, <1>4
<1> QED
  BY <1>1, <1>2, <1>4, <1>5, <1>6, <1>7, <1>8 DEF ShapeOk, p

-----------------------------------------------------------------------------
(* The marks of the handlers and the loops, as calls start and end.        *)

(* A stack is its running call above the others. *)
LEMMA PushRest ==
  ASSUME NEW s \in Seq(Call), s # <<>>
  PROVE  /\ Head(s) \in Call /\ Tail(s) \in Seq(Call) /\ s = Push(Head(s), Tail(s))
         /\ Head(s) = s[1] /\ 1 \in DOMAIN s
<1> DEFINE p == Push(Head(s), Tail(s))
<1>0. /\ Head(s) \in Call /\ Head(s) = s[1]
      /\ Tail(s) \in Seq(Call)
      /\ Len(s) \in Nat /\ Len(s) > 0
      /\ DOMAIN s = 1 .. Len(s)
      /\ DOMAIN Tail(s) = 1 .. Len(s) - 1
      /\ \A d \in 1 .. Len(s) - 1 : Tail(s)[d] = s[d + 1] /\ d + 1 \in 1 .. Len(s)
  BY TailElements
<1>1. Len(Tail(s)) = Len(s) - 1
  BY HeadTailProperties
<1>2. /\ p \in Seq(Call)
      /\ DOMAIN p = 1 .. Len(Tail(s)) + 1
      /\ p[1] = Head(s)
      /\ \A d \in 2 .. Len(Tail(s)) + 1 : p[d] = Tail(s)[d - 1] /\ d - 1 \in 1 .. Len(Tail(s))
  BY <1>0, PushElements
<1> HIDE DEF p
<1>3. DOMAIN p = DOMAIN s
  BY <1>0, <1>1, <1>2
<1>4. \A d \in DOMAIN s : p[d] = s[d]
  BY <1>0, <1>1, <1>2
<1>5. p = s
  BY <1>2, <1>3, <1>4, SeqDef
<1> QED
  BY <1>0, <1>5 DEF p

(* The loops above a call. *)
LEMMA AbovePush ==
  ASSUME NEW r \in Seq(Call), NEW f \in Call
  PROVE  /\ Above(Push(f, r), 1) = {}
         /\ \A d \in 1 .. Len(r) :
              Above(Push(f, r), d + 1) = Above(r, d) \cup (IF OwnsLoop(f) THEN {f.g} ELSE {})
<1> DEFINE p == Push(f, r)
<1>0. /\ p \in Seq(Call) /\ Len(r) \in Nat /\ DOMAIN r = 1 .. Len(r)
      /\ DOMAIN p = 1 .. Len(r) + 1 /\ p[1] = f
      /\ \A d \in 1 .. Len(r) : p[d + 1] = r[d]
      /\ \A d \in 2 .. Len(r) + 1 : p[d] = r[d - 1] /\ d - 1 \in 1 .. Len(r)
  BY PushElements
<1> HIDE DEF p
<1>1. Above(p, 1) = {}
  BY <1>0 DEF Above
<1>2. ASSUME NEW d \in 1 .. Len(r)
      PROVE  Above(p, d + 1) = Above(r, d) \cup (IF OwnsLoop(f) THEN {f.g} ELSE {})
  <2>1. ASSUME NEW g \in Above(p, d + 1), g \notin Above(r, d) PROVE OwnsLoop(f) /\ g = f.g
    <3>1. PICK e \in DOMAIN p : e < d + 1 /\ OwnsLoop(p[e]) /\ g = p[e].g
      BY <2>1 DEF Above
    <3>2. e # 1 => p[e] = r[e - 1] /\ e - 1 \in DOMAIN r /\ e - 1 < d
      BY <1>0, <3>1
    <3>3. e = 1
      BY <2>1, <3>1, <3>2 DEF Above
    <3> QED
      BY <1>0, <3>1, <3>3
  <2>2. ASSUME NEW g \in Above(r, d) PROVE g \in Above(p, d + 1)
    <3>1. PICK e \in DOMAIN r : e < d /\ OwnsLoop(r[e]) /\ g = r[e].g
      BY <2>2 DEF Above
    <3>2. e + 1 \in DOMAIN p /\ p[e + 1] = r[e] /\ e + 1 < d + 1
      BY <1>0, <3>1
    <3> QED
      BY <3>1, <3>2 DEF Above
  <2>3. ASSUME OwnsLoop(f) PROVE f.g \in Above(p, d + 1)
    <3>1. 1 \in DOMAIN p /\ 1 < d + 1 /\ p[1] = f
      BY <1>0
    <3> QED
      BY <2>3, <3>1 DEF Above
  <2> QED
    BY <2>1, <2>2, <2>3
<1> QED
  BY <1>1, <1>2 DEF p

(* The calls of a stack with one more. *)
LEMMA PushIndices ==
  ASSUME NEW r \in Seq(Call), NEW f \in Call, NEW d \in DOMAIN Push(f, r)
  PROVE  \/ d = 1 /\ Push(f, r)[d] = f
         \/ \E c \in DOMAIN r : d = c + 1 /\ Push(f, r)[d] = r[c]
<1>0. /\ Len(r) \in Nat /\ DOMAIN r = 1 .. Len(r)
      /\ DOMAIN Push(f, r) = 1 .. Len(r) + 1 /\ Push(f, r)[1] = f
      /\ \A c \in 2 .. Len(r) + 1 : Push(f, r)[c] = r[c - 1] /\ c - 1 \in 1 .. Len(r)
  BY PushElements
<1>1. CASE d = 1
  BY <1>0, <1>1
<1>2. CASE d # 1
  <2>1. d - 1 \in DOMAIN r /\ d = (d - 1) + 1 /\ Push(f, r)[d] = r[d - 1]
    BY <1>0, <1>2
  <2> QED
    BY <2>1
<1> QED
  BY <1>1, <1>2

(* Without a handler that closes a dialog nothing is marked. *)
LEMMA NothingMarked ==
  ASSUME NEW s, NEW t, NEW fm, NEW q, \A d \in DOMAIN s : ~ModalClose(s[d], fm)
  PROVE  Markers(s, t, fm, q)
BY DEF Markers, ClosesMarked, LoopsMarked, OverClose

(* Where the calls of a stack are when one more has started. *)
LEMMA ClosesBelow ==
  ASSUME NEW r \in Seq(Call), NEW f \in Call, NEW fm, NEW c \in DOMAIN r
  PROVE  /\ OverClose(Push(f, r), c + 1, fm) <=> OverClose(r, c, fm)
         /\ c + 1 \in DOMAIN Push(f, r) /\ Push(f, r)[c + 1] = r[c]
         /\ c \in Nat /\ c >= 1 /\ c + 1 # 1
<1> DEFINE p == Push(f, r)
<1>0. /\ p \in Seq(Call) /\ Len(r) \in Nat /\ DOMAIN r = 1 .. Len(r)
      /\ DOMAIN p = 1 .. Len(r) + 1 /\ p[1] = f
      /\ \A d \in 1 .. Len(r) : p[d + 1] = r[d]
      /\ \A d \in 2 .. Len(r) + 1 : p[d] = r[d - 1] /\ d - 1 \in 1 .. Len(r)
  BY PushElements
<1> HIDE DEF p
<1>1. ASSUME NEW d \in DOMAIN p, c + 1 < d, ModalClose(p[d], fm)
      PROVE  OverClose(r, c, fm)
  <2>1. d - 1 \in DOMAIN r /\ p[d] = r[d - 1] /\ c < d - 1
    BY <1>0, <1>1
  <2> QED
    BY <1>1, <2>1 DEF OverClose
<1>2. ASSUME NEW d \in DOMAIN r, c < d, ModalClose(r[d], fm)
      PROVE  OverClose(p, c + 1, fm)
  <2>1. d + 1 \in DOMAIN p /\ p[d + 1] = r[d] /\ c + 1 < d + 1
    BY <1>0, <1>2
  <2> QED
    BY <1>2, <2>1 DEF OverClose
<1>3. OverClose(p, c + 1, fm) <=> OverClose(r, c, fm)
  BY <1>1, <1>2 DEF OverClose
<1> QED
  BY <1>0, <1>3 DEF p

(* A call that owns no loop starts. *)
LEMMA MarkersPush ==
  ASSUME NEW r \in Seq(Call), NEW f \in Call, NEW t \in Seq(Slots), NEW fm, NEW q,
         ~OwnsLoop(f), f.k # "events",
         r[1].k # "act", r[1].k = "close" => r[1].at # "start",
         ModalClose(f, fm) => \/ f.at = "start" /\ fm[f.i].name \in Manual
                              \/ t # <<>> /\ t[1] = f.i,
         Markers(r, t, fm, FALSE)
  PROVE  Markers(Push(f, r), t, fm, q)
<1> DEFINE p == Push(f, r)
<1>0. /\ Above(p, 1) = {}
      /\ \A d \in DOMAIN r : Above(p, d + 1) = Above(r, d)
  <2>1. DOMAIN r = 1 .. Len(r)
    BY PushElements
  <2>2. Above(p, 1) = {} /\ \A d \in 1 .. Len(r) :
          Above(p, d + 1) = Above(r, d) \cup (IF OwnsLoop(f) THEN {f.g} ELSE {})
    BY AbovePush
  <2>3. \A S : S \cup (IF OwnsLoop(f) THEN {f.g} ELSE {}) = S
    OBVIOUS
  <2> QED
    BY <2>1, <2>2, <2>3
<1>1. \A d \in DOMAIN p : \/ d = 1 /\ p[d] = f
                          \/ \E c \in DOMAIN r : d = c + 1 /\ p[d] = r[c]
  BY PushIndices
<1>2. \A c \in DOMAIN r : /\ OverClose(p, c + 1, fm) <=> OverClose(r, c, fm)
                          /\ c + 1 \in DOMAIN p /\ p[c + 1] = r[c]
                          /\ c \in Nat /\ c >= 1 /\ c + 1 # 1
  BY ClosesBelow
<1> HIDE DEF p
<1>3. \A c \in DOMAIN r : \A j : Level(r, c, t, fm, j) => Level(p, c + 1, t, fm, j)
  BY <1>0 DEF Level
<1>4. ASSUME NEW d \in DOMAIN p, ModalClose(p[d], fm)
      PROVE  CloseMarked(p, d, t, fm)
  <2>1. CASE d = 1 /\ p[d] = f
    <3>1. \A e \in DOMAIN p : ~(e < d)
      BY <1>1, <1>2, <2>1
    <3>2. CASE t # <<>> /\ t[1] = f.i
      <4>1. 1 \in DOMAIN t /\ \A i \in DOMAIN t : ~(i < 1)
        BY <3>2, EmptySeq, LenProperties
      <4>2. Level(p, 1, t, fm, 1)
        BY <1>0, <4>1 DEF Level
      <4> QED
        BY <2>1, <3>1, <3>2, <4>1, <4>2 DEF CloseMarked
    <3>3. CASE f.at = "start" /\ fm[f.i].name \in Manual
      BY <2>1, <3>1, <3>3 DEF CloseMarked
    <3> QED
      BY <1>4, <2>1, <3>2, <3>3
  <2>2. ASSUME NEW c \in DOMAIN r, d = c + 1, p[d] = r[c]
        PROVE  CloseMarked(p, d, t, fm)
    <3>1. CloseMarked(r, c, t, fm)
      BY <1>4, <2>2 DEF Markers, ClosesMarked
    <3>2. r[c].k = "close"
      BY <1>4, <2>2 DEF ModalClose
    <3>3. ~(c = 1 /\ r[c].at = "start")
      BY <3>2
    <3>4. PICK j \in DOMAIN t : t[j] = r[c].i /\ Level(r, c, t, fm, j)
      BY <3>1, <3>3 DEF CloseMarked
    <3>5. ASSUME NEW e \in DOMAIN p, e < d PROVE p[e].k # "events"
      <4>1. CASE e = 1 /\ p[e] = f
        BY <4>1
      <4>2. ASSUME NEW b \in DOMAIN r, e = b + 1, p[e] = r[b] PROVE p[e].k # "events"
        <5>1. b < c
          BY <1>2, <2>2, <3>5, <4>2
        <5> QED
          BY <3>1, <4>2, <5>1 DEF CloseMarked
      <4> QED
        BY <1>1, <4>1, <4>2
    <3>6. Level(p, d, t, fm, j)
      BY <1>3, <2>2, <3>4
    <3> QED
      BY <2>2, <3>4, <3>5, <3>6 DEF CloseMarked
  <2> QED
    BY <1>1, <2>1, <2>2
<1>5. ASSUME NEW d \in DOMAIN p, OwnsLoop(p[d]), OverClose(p, d, fm)
      PROVE  d # 1 /\ HasDialog(p, d, t, fm)
  <2>1. PICK c \in DOMAIN r : d = c + 1 /\ p[d] = r[c]
    BY <1>1, <1>5
  <2>2. OverClose(r, c, fm)
    BY <1>2, <1>5, <2>1
  <2>3. ~(c = 1 /\ Empty(r[c], FALSE))
    BY DEF Empty
  <2>4. HasDialog(r, c, t, fm)
    BY <1>5, <2>1, <2>2, <2>3 DEF Markers, LoopsMarked
  <2>5. HasDialog(p, d, t, fm)
    BY <1>3, <2>1, <2>4 DEF HasDialog
  <2> QED
    BY <1>2, <2>1, <2>5
<1> QED
  BY <1>4, <1>5 DEF Markers, ClosesMarked, LoopsMarked, p

(* A call that owns no loop ends. *)
LEMMA MarkersTail ==
  ASSUME NEW r \in Seq(Call), NEW f \in Call, NEW t, NEW fm, NEW q,
         ~OwnsLoop(f), r[1].k # "act",
         Markers(Push(f, r), t, fm, q)
  PROVE  Markers(r, t, fm, FALSE)
<1> DEFINE p == Push(f, r)
<1>0. \A d \in DOMAIN r : Above(p, d + 1) = Above(r, d)
  <2>1. DOMAIN r = 1 .. Len(r)
    BY PushElements
  <2>2. \A d \in 1 .. Len(r) :
          Above(p, d + 1) = Above(r, d) \cup (IF OwnsLoop(f) THEN {f.g} ELSE {})
    BY AbovePush
  <2>3. \A S : S \cup (IF OwnsLoop(f) THEN {f.g} ELSE {}) = S
    OBVIOUS
  <2> QED
    BY <2>1, <2>2, <2>3
<1>1. \A c \in DOMAIN r : /\ OverClose(p, c + 1, fm) <=> OverClose(r, c, fm)
                          /\ c + 1 \in DOMAIN p /\ p[c + 1] = r[c]
                          /\ c \in Nat /\ c >= 1 /\ c + 1 # 1
  BY ClosesBelow
<1> HIDE DEF p
<1>2. \A c \in DOMAIN r : \A j : Level(p, c + 1, t, fm, j) => Level(r, c, t, fm, j)
  BY <1>0 DEF Level
<1>3. ASSUME NEW c \in DOMAIN r, ModalClose(r[c], fm)
      PROVE  CloseMarked(r, c, t, fm)
  <2>1. CloseMarked(p, c + 1, t, fm)
    BY <1>1, <1>3 DEF Markers, ClosesMarked, p
  <2>2. PICK j \in DOMAIN t : t[j] = r[c].i /\ Level(p, c + 1, t, fm, j)
    BY <1>1, <2>1 DEF CloseMarked
  <2>3. ASSUME NEW e \in DOMAIN r, e < c PROVE r[e].k # "events"
    <3>1. e + 1 \in DOMAIN p /\ p[e + 1] = r[e] /\ e + 1 < c + 1
      BY <1>1, <2>3
    <3> QED
      BY <2>1, <3>1 DEF CloseMarked
  <2> QED
    BY <1>2, <2>2, <2>3 DEF CloseMarked
<1>4. ASSUME NEW c \in DOMAIN r, OwnsLoop(r[c]), OverClose(r, c, fm)
      PROVE  HasDialog(r, c, t, fm) /\ ~(c = 1 /\ Empty(r[c], FALSE))
  <2>1. HasDialog(p, c + 1, t, fm)
    BY <1>1, <1>4 DEF Markers, LoopsMarked, p
  <2>2. HasDialog(r, c, t, fm)
    BY <1>1, <1>2, <2>1 DEF HasDialog
  <2> QED
    BY <2>2 DEF Empty
<1> QED
  BY <1>3, <1>4 DEF Markers, ClosesMarked, LoopsMarked

(* A table with the same windows in the same loops. *)
LEMMA MarkersSame ==
  ASSUME NEW s \in Seq(Call), NEW t \in Seq(Slots), NEW fm, NEW fm2, NEW q,
         \A i \in Slots : /\ fm2[i].name = fm[i].name /\ fm2[i].loop = fm[i].loop
                          /\ fm2[i].id = fm[i].id,
         Markers(s, t, fm, q)
  PROVE  Markers(s, t, fm2, q)
<1>1. \A j \in DOMAIN t : t[j] \in Slots
  BY ElementOfSeq
<1>2. \A d \in DOMAIN s : s[d] \in Call
  BY ElementOfSeq
<1>3. \A d \in DOMAIN s : s[d].k = "close" => s[d].i \in Slots
  BY <1>2, CallFields
<1>4. \A d \in DOMAIN s : ModalClose(s[d], fm2) <=> ModalClose(s[d], fm)
  BY <1>3 DEF ModalClose
<1>5. \A d, j : Level(s, d, t, fm2, j) <=> Level(s, d, t, fm, j)
  BY <1>1 DEF Level
<1>6. \A e : OverClose(s, e, fm2) <=> OverClose(s, e, fm)
  BY <1>4 DEF OverClose
<1>7. \A e : HasDialog(s, e, t, fm) => HasDialog(s, e, t, fm2)
  BY <1>1, <1>5 DEF HasDialog
<1>8. ClosesMarked(s, t, fm2)
  BY <1>3, <1>4, <1>5 DEF Markers, ClosesMarked, CloseMarked, ModalClose
<1>9. LoopsMarked(s, t, fm2, q)
  BY <1>6, <1>7 DEF Markers, LoopsMarked
<1> QED
  BY <1>8, <1>9 DEF Markers

(* An activation starts, with a loop of its own. *)
LEMMA MarkersActivate ==
  ASSUME NEW r \in Seq(Call), NEW f \in Call, NEW t \in Seq(Slots), NEW fm,
         f.k = "act", f.todo # <<>>, \A i \in Slots : fm[i].loop # f.g,
         r[1].k # "act", r[1].k = "close" => r[1].at # "start",
         Markers(r, t, fm, FALSE)
  PROVE  Markers(Push(f, r), t, fm, FALSE)
<1> DEFINE p == Push(f, r)
<1>0. \A d \in DOMAIN r : Above(p, d + 1) = Above(r, d) \cup {f.g}
  <2>1. DOMAIN r = 1 .. Len(r)
    BY PushElements
  <2>2. \A d \in 1 .. Len(r) :
          Above(p, d + 1) = Above(r, d) \cup (IF OwnsLoop(f) THEN {f.g} ELSE {})
    BY AbovePush
  <2>3. OwnsLoop(f)
    BY DEF OwnsLoop
  <2> QED
    BY <2>1, <2>2, <2>3
<1>1. \A d \in DOMAIN p : \/ d = 1 /\ p[d] = f
                          \/ \E c \in DOMAIN r : d = c + 1 /\ p[d] = r[c]
  BY PushIndices
<1>2. \A c \in DOMAIN r : /\ OverClose(p, c + 1, fm) <=> OverClose(r, c, fm)
                          /\ c + 1 \in DOMAIN p /\ p[c + 1] = r[c]
                          /\ c \in Nat /\ c >= 1 /\ c + 1 # 1
  BY ClosesBelow
<1> HIDE DEF p
<1>3. \A c \in DOMAIN r : \A j : Level(r, c, t, fm, j) => Level(p, c + 1, t, fm, j)
  <2>1. \A i \in DOMAIN t : fm[t[i]].loop # f.g
    BY ElementOfSeq
  <2> QED
    BY <1>0, <2>1 DEF Level
<1>4. ASSUME NEW d \in DOMAIN p, ModalClose(p[d], fm)
      PROVE  CloseMarked(p, d, t, fm)
  <2>1. PICK c \in DOMAIN r : d = c + 1 /\ p[d] = r[c]
    BY <1>1, <1>4 DEF ModalClose
  <2>2. CloseMarked(r, c, t, fm)
    BY <1>4, <2>1 DEF Markers, ClosesMarked
  <2>3. ~(c = 1 /\ r[c].at = "start")
    BY <1>4, <2>1 DEF ModalClose
  <2>4. PICK j \in DOMAIN t : t[j] = r[c].i /\ Level(r, c, t, fm, j)
    BY <2>2, <2>3 DEF CloseMarked
  <2>5. ASSUME NEW e \in DOMAIN p, e < d PROVE p[e].k # "events"
    <3>1. ASSUME NEW b \in DOMAIN r, e = b + 1, p[e] = r[b] PROVE p[e].k # "events"
      <4>1. b < c
        BY <1>2, <2>1, <2>5, <3>1
      <4> QED
        BY <2>2, <3>1, <4>1 DEF CloseMarked
    <3> QED
      BY <1>1, <3>1
  <2>6. Level(p, d, t, fm, j)
    BY <1>3, <2>1, <2>4
  <2> QED
    BY <2>1, <2>4, <2>5, <2>6 DEF CloseMarked
<1>5. ASSUME NEW d \in DOMAIN p, OwnsLoop(p[d]), OverClose(p, d, fm), d # 1
      PROVE  HasDialog(p, d, t, fm)
  <2>1. PICK c \in DOMAIN r : d = c + 1 /\ p[d] = r[c]
    BY <1>1, <1>5
  <2>2. OverClose(r, c, fm)
    BY <1>2, <1>5, <2>1
  <2>3. ~(c = 1 /\ Empty(r[c], FALSE))
    BY DEF Empty
  <2>4. HasDialog(r, c, t, fm)
    BY <1>5, <2>1, <2>2, <2>3 DEF Markers, LoopsMarked
  <2> QED
    BY <1>3, <2>1, <2>4 DEF HasDialog
<1>6. \A d \in DOMAIN p : d = 1 => p[d] = f /\ Empty(p[d], FALSE)
  BY <1>1, <1>2 DEF Empty
<1> QED
  BY <1>4, <1>5, <1>6 DEF Markers, ClosesMarked, LoopsMarked, p

(* An activation becomes a message loop. *)
LEMMA MarkersLoop ==
  ASSUME NEW r \in Seq(Call), NEW f \in Call, NEW l \in Call, NEW t, NEW fm,
         f.k = "act", f.todo = <<>>, l.k = "loop", l.g = f.g,
         Markers(Push(f, r), t, fm, FALSE)
  PROVE  Markers(Push(l, r), t, fm, FALSE)
<1> DEFINE p == Push(f, r)
           s == Push(l, r)
<1>0. /\ Above(p, 1) = {} /\ Above(s, 1) = {}
      /\ \A d \in DOMAIN r : Above(p, d + 1) = Above(s, d + 1)
  <2>1. DOMAIN r = 1 .. Len(r)
    BY PushElements
  <2>2. /\ Above(p, 1) = {} /\ Above(s, 1) = {}
        /\ \A d \in 1 .. Len(r) :
             /\ Above(p, d + 1) = Above(r, d) \cup (IF OwnsLoop(f) THEN {f.g} ELSE {})
             /\ Above(s, d + 1) = Above(r, d) \cup (IF OwnsLoop(l) THEN {l.g} ELSE {})
    BY AbovePush
  <2>3. OwnsLoop(f) /\ OwnsLoop(l)
    BY DEF OwnsLoop
  <2> QED
    BY <2>1, <2>2, <2>3
<1>1. \A d \in DOMAIN s : \/ d = 1 /\ s[d] = l
                          \/ \E c \in DOMAIN r : d = c + 1 /\ s[d] = r[c]
  BY PushIndices
<1>2. \A c \in DOMAIN r : /\ c + 1 \in DOMAIN p /\ p[c + 1] = r[c]
                          /\ c \in Nat /\ c + 1 # 1
  BY ClosesBelow
<1>3. 1 \in DOMAIN p /\ p[1] = f /\ DOMAIN p = DOMAIN s
  <2>1. Len(r) \in Nat /\ DOMAIN p = 1 .. Len(r) + 1 /\ p[1] = f /\ DOMAIN s = 1 .. Len(r) + 1
    BY PushElements
  <2> QED
    BY <2>1
<1> HIDE DEF p, s
<1>4. \A d \in DOMAIN s : /\ d \in DOMAIN p /\ Above(p, d) = Above(s, d)
                          /\ d # 1 => p[d] = s[d]
                          /\ d = 1 => p[d] = f /\ s[d] = l
  BY <1>0, <1>1, <1>2, <1>3
<1>5. \A d \in DOMAIN s : /\ ModalClose(s[d], fm) <=> ModalClose(p[d], fm)
                          /\ ModalClose(s[d], fm) => p[d] = s[d] /\ d # 1
                          /\ s[d].k = "events" => p[d].k = "events"
                          /\ OwnsLoop(s[d]) => OwnsLoop(p[d]) /\ p[d].g = s[d].g
  BY <1>4 DEF ModalClose, OwnsLoop
<1>6. \A d \in DOMAIN s : \A j : Level(p, d, t, fm, j) => Level(s, d, t, fm, j)
  BY <1>4 DEF Level
<1>7. \A e : OverClose(s, e, fm) => OverClose(p, e, fm)
  BY <1>4, <1>5 DEF OverClose
<1>8. ASSUME NEW d \in DOMAIN s, ModalClose(s[d], fm) PROVE CloseMarked(s, d, t, fm)
  <2>1. CloseMarked(p, d, t, fm)
    BY <1>4, <1>5, <1>8 DEF Markers, ClosesMarked, p
  <2> QED
    BY <1>4, <1>5, <1>6, <1>8, <2>1 DEF CloseMarked
<1>9. ASSUME NEW d \in DOMAIN s, OwnsLoop(s[d]), OverClose(s, d, fm)
      PROVE  HasDialog(s, d, t, fm) /\ ~(d = 1 /\ Empty(s[d], FALSE))
  <2>1. ~(d = 1 /\ Empty(p[d], FALSE)) /\ ~(d = 1 /\ Empty(s[d], FALSE))
    BY <1>4 DEF Empty
  <2>2. HasDialog(p, d, t, fm)
    BY <1>4, <1>5, <1>7, <1>9, <2>1 DEF Markers, LoopsMarked, p
  <2>3. p[d].g = s[d].g
    BY <1>5, <1>9
  <2>4. HasDialog(s, d, t, fm)
    BY <1>6, <2>2, <2>3 DEF HasDialog
  <2> QED
    BY <2>1, <2>4
<1> QED
  BY <1>8, <1>9 DEF Markers, ClosesMarked, LoopsMarked, s

(* The slots of a chain with one more dialog, and with one less. *)
LEMMA OneMoreDialog ==
  ASSUME NEW t \in Seq(Slots), NEW i \in Slots
  PROVE  /\ <<i>> \o t \in Seq(Slots) /\ <<i>> \o t # <<>>
         /\ Len(t) \in Nat /\ DOMAIN t = 1 .. Len(t)
         /\ Len(<<i>> \o t) = Len(t) + 1 /\ DOMAIN (<<i>> \o t) = 1 .. Len(t) + 1
         /\ (<<i>> \o t)[1] = i
         /\ \A j \in DOMAIN t : j \in Nat /\ j >= 1 /\ (<<i>> \o t)[j + 1] = t[j]
         /\ \A j \in 1 .. Len(t) + 1 : j # 1 => j - 1 \in DOMAIN t /\ (<<i>> \o t)[j] = t[j - 1]
<1>1. <<i>> \in Seq(Slots) /\ Len(<<i>>) = 1 /\ <<i>>[1] = i
  OBVIOUS
<1>2. Len(t) \in Nat /\ DOMAIN t = 1 .. Len(t)
  BY LenProperties
<1>3. /\ <<i>> \o t \in Seq(Slots) /\ Len(<<i>> \o t) = Len(t) + 1
      /\ DOMAIN (<<i>> \o t) = 1 .. Len(t) + 1
      /\ \A j \in 1 .. Len(t) + 1 : (<<i>> \o t)[j] = IF j <= 1 THEN <<i>>[j] ELSE t[j - 1]
  BY <1>1, <1>2, ConcatProperties, LenProperties
<1>4. <<i>> \o t # <<>>
  BY <1>2, <1>3, EmptySeq
<1> QED
  BY <1>1, <1>2, <1>3, <1>4

(* The places of a chain without its top. *)
LEMMA OneLessDialog ==
  ASSUME NEW t \in Seq(Slots), t # <<>>
  PROVE  /\ Tail(t) \in Seq(Slots) /\ t[1] \in Slots /\ 1 \in DOMAIN t
         /\ Len(t) \in Nat /\ Len(t) >= 1 /\ DOMAIN t = 1 .. Len(t)
         /\ Len(Tail(t)) = Len(t) - 1 /\ DOMAIN Tail(t) = 1 .. Len(t) - 1
         /\ \A j \in DOMAIN Tail(t) : j \in Nat /\ j + 1 \in DOMAIN t /\ Tail(t)[j] = t[j + 1]
         /\ \A j \in DOMAIN t : j # 1 => j - 1 \in DOMAIN Tail(t) /\ Tail(t)[j - 1] = t[j]
<1>1. Len(t) \in Nat /\ DOMAIN t = 1 .. Len(t) /\ Len(t) # 0
  BY LenProperties, EmptySeq
<1>2. /\ Tail(t) \in Seq(Slots) /\ Len(Tail(t)) = Len(t) - 1
      /\ \A j \in 1 .. Len(Tail(t)) : Tail(t)[j] = t[j + 1]
  BY HeadTailProperties
<1>3. DOMAIN Tail(t) = 1 .. Len(t) - 1
  BY <1>2, LenProperties
<1>4. 1 \in DOMAIN t /\ t[1] \in Slots
  BY <1>1, ElementOfSeq
<1> QED
  BY <1>1, <1>2, <1>3, <1>4

(* A simple activation opens its dialog. *)
LEMMA MarkersOpen ==
  ASSUME NEW r \in Seq(Call), NEW f \in Call, NEW c \in Call, NEW t \in Seq(Slots),
         NEW i \in Slots, NEW fm, NEW fm2,
         f.k = "act", f.todo # <<>>, c.k = "act", c.todo = <<>>, c.g = f.g,
         \A j \in DOMAIN t : t[j] # i,
         \A d \in DOMAIN r : OwnsLoop(r[d]) => r[d].g # f.g,
         fm2[i].name = fm[i].name, fm2[i].loop = f.g, fm2[i].id = 0,
         \A x \in Slots : x # i => /\ fm2[x].name = fm[x].name /\ fm2[x].loop = fm[x].loop
                                   /\ fm2[x].id = fm[x].id,
         Markers(Push(f, r), t, fm, FALSE)
  PROVE  Markers(Push(c, r), <<i>> \o t, fm2, FALSE)
<1> DEFINE p == Push(f, r)
           s == Push(c, r)
           u == <<i>> \o t
<1>0. /\ Above(s, 1) = {}
      /\ \A d \in DOMAIN r : Above(p, d + 1) = Above(s, d + 1) /\ f.g \in Above(s, d + 1)
  <2>1. DOMAIN r = 1 .. Len(r)
    BY PushElements
  <2>2. /\ Above(s, 1) = {}
        /\ \A d \in 1 .. Len(r) :
             /\ Above(p, d + 1) = Above(r, d) \cup (IF OwnsLoop(f) THEN {f.g} ELSE {})
             /\ Above(s, d + 1) = Above(r, d) \cup (IF OwnsLoop(c) THEN {c.g} ELSE {})
    BY AbovePush
  <2>3. OwnsLoop(f) /\ OwnsLoop(c)
    BY DEF OwnsLoop
  <2> HIDE DEF p, s
  <2>4. ASSUME NEW d \in DOMAIN r
        PROVE  Above(p, d + 1) = Above(r, d) \cup {f.g} /\ Above(s, d + 1) = Above(r, d) \cup {f.g}
    BY <2>1, <2>2, <2>3
  <2> QED
    BY <2>2, <2>4
<1>1. \A d \in DOMAIN s : \/ d = 1 /\ s[d] = c
                          \/ \E b \in DOMAIN r : d = b + 1 /\ s[d] = r[b]
  BY PushIndices
<1>2. \A b \in DOMAIN r : /\ b + 1 \in DOMAIN p /\ p[b + 1] = r[b]
                          /\ b \in Nat /\ b >= 1 /\ b + 1 # 1
  BY ClosesBelow
<1>3. 1 \in DOMAIN p /\ p[1] = f /\ DOMAIN p = DOMAIN s
  <2>1. Len(r) \in Nat /\ DOMAIN p = 1 .. Len(r) + 1 /\ p[1] = f /\ DOMAIN s = 1 .. Len(r) + 1
    BY PushElements
  <2> QED
    BY <2>1
<1>4. /\ Len(t) \in Nat /\ DOMAIN t = 1 .. Len(t) /\ DOMAIN u = 1 .. Len(t) + 1
      /\ u[1] = i
      /\ \A j \in DOMAIN t : j \in Nat /\ j >= 1 /\ u[j + 1] = t[j]
      /\ \A j \in 1 .. Len(t) + 1 : j # 1 => j - 1 \in DOMAIN t /\ u[j] = t[j - 1]
  BY OneMoreDialog
<1>5. \A j \in DOMAIN t : t[j] \in Slots
  BY ElementOfSeq
<1>6. p \in Seq(Call)
  BY PushElements
<1>7. \A d \in DOMAIN p : p[d].k = "close" => p[d].i \in Slots
  BY <1>6, ElementOfSeq, CallFields
<1> HIDE DEF p, s, u
<1>8. \A d \in DOMAIN s : /\ d \in DOMAIN p
                          /\ d # 1 => p[d] = s[d] /\ Above(p, d) = Above(s, d) /\ f.g \in Above(s, d)
                                      /\ d - 1 \in DOMAIN r /\ s[d] = r[d - 1]
                          /\ d = 1 => p[d] = f /\ s[d] = c
  BY <1>0, <1>1, <1>2, <1>3
<1>9. \A x \in Slots : fm2[x].name = fm[x].name
  OBVIOUS
<1>10. \A d \in DOMAIN s : /\ ModalClose(s[d], fm2) => ModalClose(p[d], fm) /\ d # 1
                           /\ s[d].k = "events" => p[d].k = "events"
                           /\ OwnsLoop(s[d]) => OwnsLoop(p[d]) /\ p[d].g = s[d].g
  BY <1>7, <1>8, <1>9 DEF ModalClose, OwnsLoop
<1>11. ASSUME NEW d \in DOMAIN s, d # 1, NEW j \in DOMAIN t, Level(p, d, t, fm, j)
       PROVE  j + 1 \in DOMAIN u /\ Level(s, d, u, fm2, j + 1)
  <2>1. j + 1 \in DOMAIN u
    BY <1>4
  <2>2. ASSUME NEW k \in DOMAIN u
        PROVE  fm2[u[k]].loop \in Above(s, d) <=> k < j + 1
    <3>1. CASE k = 1
      BY <1>4, <1>8, <1>11, <3>1
    <3>2. CASE k # 1
      <4>1. k - 1 \in DOMAIN t /\ u[k] = t[k - 1] /\ t[k - 1] \in Slots /\ t[k - 1] # i
        BY <1>4, <1>5, <3>2
      <4>2. fm2[u[k]].loop = fm[t[k - 1]].loop
        BY <4>1
      <4>3. fm[t[k - 1]].loop \in Above(p, d) <=> k - 1 < j
        BY <1>11, <4>1 DEF Level
      <4>4. k - 1 < j <=> k < j + 1
        BY <1>4, <4>1
      <4> QED
        BY <1>8, <1>11, <4>2, <4>3, <4>4
    <3> QED
      BY <3>1, <3>2
  <2> QED
    BY <2>1, <2>2 DEF Level
<1>12. \A e : OverClose(s, e, fm2) => OverClose(p, e, fm)
  BY <1>8, <1>10 DEF OverClose
<1>13. ASSUME NEW d \in DOMAIN s, ModalClose(s[d], fm2) PROVE CloseMarked(s, d, u, fm2)
  <2>1. CloseMarked(p, d, t, fm) /\ d # 1 /\ p[d] = s[d]
    BY <1>8, <1>10, <1>13 DEF Markers, ClosesMarked, p
  <2>2. PICK j \in DOMAIN t : t[j] = s[d].i /\ Level(p, d, t, fm, j)
    BY <2>1 DEF CloseMarked
  <2>3. j + 1 \in DOMAIN u /\ Level(s, d, u, fm2, j + 1) /\ u[j + 1] = s[d].i
    BY <1>4, <1>11, <2>1, <2>2
  <2>4. \A e \in DOMAIN s : e < d => s[e].k # "events"
    BY <1>8, <1>10, <2>1 DEF CloseMarked
  <2> QED
    BY <2>3, <2>4 DEF CloseMarked
<1>14. ASSUME NEW d \in DOMAIN s, OwnsLoop(s[d]), OverClose(s, d, fm2)
       PROVE  HasDialog(s, d, u, fm2) /\ ~(d = 1 /\ Empty(s[d], FALSE))
  <2>1. d \in DOMAIN p /\ OwnsLoop(p[d]) /\ OverClose(p, d, fm) /\ p[d].g = s[d].g
    BY <1>8, <1>10, <1>12, <1>14
  <2>2. CASE d = 1
    <3>1. Empty(p[d], FALSE) /\ ~Empty(s[d], FALSE)
      BY <1>8, <2>2 DEF Empty
    <3>2. \A x \in Slots : fm[x].loop # f.g
      <4>1. LoopsMarked(p, t, fm, FALSE)
        BY DEF Markers, p
      <4>2. \A x \in Slots : fm[x].loop # p[d].g
        BY <2>1, <2>2, <3>1, <4>1 DEF LoopsMarked
      <4> QED
        BY <1>8, <2>2, <4>2
    <3>3. \A x \in Slots : fm2[x].loop = s[d].g <=> x = i
      BY <1>8, <2>2, <3>2
    <3>4. 1 \in DOMAIN u /\ \A k \in DOMAIN u : ~(k < 1)
      BY <1>4
    <3>5. Level(s, d, u, fm2, 1)
      BY <1>0, <2>2, <3>4 DEF Level
    <3>6. HasDialog(s, d, u, fm2)
      BY <1>4, <3>3, <3>4, <3>5 DEF HasDialog
    <3> QED
      BY <3>1, <3>6
  <2>3. CASE d # 1
    <3>1. HasDialog(p, d, t, fm)
      BY <2>1, <2>3 DEF Markers, LoopsMarked, p
    <3>2. PICK j \in DOMAIN t : /\ Level(p, d, t, fm, j) /\ fm[t[j]].id = 0
                                /\ \A x \in Slots : fm[x].loop = p[d].g <=> x = t[j]
      BY <3>1 DEF HasDialog
    <3>3. j + 1 \in DOMAIN u /\ Level(s, d, u, fm2, j + 1) /\ u[j + 1] = t[j]
          /\ t[j] \in Slots /\ t[j] # i
      BY <1>4, <1>5, <1>11, <2>3, <3>2
    <3>4. s[d].g # f.g
      BY <1>8, <1>14, <2>3
    <3>5. \A x \in Slots : fm2[x].loop = s[d].g <=> x = t[j]
      BY <2>1, <3>2, <3>3, <3>4
    <3>6. fm2[u[j + 1]].id = 0
      BY <3>2, <3>3
    <3>7. HasDialog(s, d, u, fm2)
      BY <3>3, <3>5, <3>6 DEF HasDialog
    <3> QED
      BY <2>3, <3>7
  <2> QED
    BY <2>2, <2>3
<1> QED
  BY <1>13, <1>14 DEF Markers, ClosesMarked, LoopsMarked, s, u

(* A message loop takes WM_QUIT and ends: its dialog is closed. *)
LEMMA MarkersLeave ==
  ASSUME NEW r \in Seq(Call), NEW f \in Call, NEW t \in Seq(Slots), NEW fm,
         OwnsLoop(f), r[1].k # "act",
         Markers(Push(f, r), t, fm, TRUE)
  PROVE  Markers(r, t, fm, FALSE)
<1> SUFFICES ASSUME NEW m \in DOMAIN r, ModalClose(r[m], fm)
             PROVE  Markers(r, t, fm, FALSE)
  BY NothingMarked
<1> DEFINE p == Push(f, r)
<1>0. \A d \in DOMAIN r : Above(p, d + 1) = Above(r, d) \cup {f.g}
  <2>1. DOMAIN r = 1 .. Len(r)
    BY PushElements
  <2>2. \A d \in 1 .. Len(r) :
          Above(p, d + 1) = Above(r, d) \cup (IF OwnsLoop(f) THEN {f.g} ELSE {})
    BY AbovePush
  <2> QED
    BY <2>1, <2>2
<1>1. \A c \in DOMAIN r : /\ OverClose(p, c + 1, fm) <=> OverClose(r, c, fm)
                          /\ c + 1 \in DOMAIN p /\ p[c + 1] = r[c]
                          /\ c \in Nat /\ c >= 1 /\ c + 1 # 1
  BY ClosesBelow
<1>2. 1 \in DOMAIN p /\ p[1] = f
  <2>1. Len(r) \in Nat /\ DOMAIN p = 1 .. Len(r) + 1 /\ p[1] = f
    BY PushElements
  <2> QED
    BY <2>1
<1>3. \A i \in DOMAIN t : fm[t[i]].loop # f.g
  <2>1. m + 1 \in DOMAIN p /\ p[m + 1] = r[m] /\ 1 < m + 1
    BY <1>1
  <2>2. OverClose(p, 1, fm)
    BY <2>1 DEF OverClose
  <2>3. \A i \in Slots : fm[i].loop # f.g
    BY <1>2, <2>2 DEF Markers, LoopsMarked, Empty
  <2> QED
    BY <2>3, ElementOfSeq
<1> HIDE DEF p
<1>4. \A c \in DOMAIN r : \A j : Level(p, c + 1, t, fm, j) => Level(r, c, t, fm, j)
  BY <1>0, <1>3 DEF Level
<1>5. ASSUME NEW c \in DOMAIN r, ModalClose(r[c], fm)
      PROVE  CloseMarked(r, c, t, fm)
  <2>1. CloseMarked(p, c + 1, t, fm)
    BY <1>1, <1>5 DEF Markers, ClosesMarked, p
  <2>2. PICK j \in DOMAIN t : t[j] = r[c].i /\ Level(p, c + 1, t, fm, j)
    BY <1>1, <2>1 DEF CloseMarked
  <2>3. ASSUME NEW e \in DOMAIN r, e < c PROVE r[e].k # "events"
    <3>1. e + 1 \in DOMAIN p /\ p[e + 1] = r[e] /\ e + 1 < c + 1
      BY <1>1, <2>3
    <3> QED
      BY <2>1, <3>1 DEF CloseMarked
  <2> QED
    BY <1>4, <2>2, <2>3 DEF CloseMarked
<1>6. ASSUME NEW c \in DOMAIN r, OwnsLoop(r[c]), OverClose(r, c, fm)
      PROVE  HasDialog(r, c, t, fm) /\ ~(c = 1 /\ Empty(r[c], FALSE))
  <2>1. HasDialog(p, c + 1, t, fm)
    BY <1>1, <1>6 DEF Markers, LoopsMarked, p
  <2>2. HasDialog(r, c, t, fm)
    BY <1>1, <1>4, <2>1, SMTT(30) DEF HasDialog
  <2> QED
    BY <2>2 DEF Empty
<1> QED
  BY <1>5, <1>6 DEF Markers, ClosesMarked, LoopsMarked

(* The handler of WM_CLOSE destroys the active dialog and returns.  The     *)
(* loop below it, if a dialog further down is being closed, was that of    *)
(* the dialog destroyed.                                                   *)
Destroyed(r, f, t, fm, fm2, q, q2) ==
  /\ ~OwnsLoop(f) /\ PumpCall(r[1]) /\ t # <<>>
  /\ \A j, k \in DOMAIN t : t[j] = t[k] => j = k
  /\ \A d \in DOMAIN r : OwnsLoop(r[d]) => r[d].g # 0
  /\ fm2[t[1]].name \notin Modal /\ fm2[t[1]].loop = 0
  /\ \A x \in Slots : x # t[1] => /\ fm2[x].name = fm[x].name /\ fm2[x].loop = fm[x].loop
                                  /\ fm2[x].id = fm[x].id
  /\ fm[t[1]].id = 0 => q2
  /\ Markers(Push(f, r), t, fm, q)

(* A dialog that is destroyed leaves the markers of the calls below. *)
LEMMA MarkersClosed ==
  ASSUME NEW r \in Seq(Call), NEW f \in Call, NEW t \in Seq(Slots), NEW fm, NEW fm2,
         NEW q, NEW q2, Destroyed(r, f, t, fm, fm2, q, q2)
  PROVE  /\ Markers(r, Tail(t), fm2, q2)
         /\ \A c \in DOMAIN r : ModalClose(r[c], fm) => r[c].i # t[1]
<1> USE DEF Destroyed
<1> DEFINE p == Push(f, r)
           u == Tail(t)
<1>0. \A d \in DOMAIN r : Above(p, d + 1) = Above(r, d)
  <2>1. DOMAIN r = 1 .. Len(r)
    BY PushElements
  <2>2. \A d \in 1 .. Len(r) :
          Above(p, d + 1) = Above(r, d) \cup (IF OwnsLoop(f) THEN {f.g} ELSE {})
    BY AbovePush
  <2>3. \A S : S \cup (IF OwnsLoop(f) THEN {f.g} ELSE {}) = S
    OBVIOUS
  <2> QED
    BY <2>1, <2>2, <2>3
<1>1. \A c \in DOMAIN r : /\ OverClose(p, c + 1, fm) <=> OverClose(r, c, fm)
                          /\ c + 1 \in DOMAIN p /\ p[c + 1] = r[c]
                          /\ c \in Nat /\ c >= 1 /\ c + 1 # 1
  BY ClosesBelow
<1>2. /\ t[1] \in Slots /\ 1 \in DOMAIN t
      /\ Len(t) \in Nat /\ DOMAIN t = 1 .. Len(t) /\ DOMAIN u = 1 .. Len(t) - 1
      /\ \A j \in DOMAIN u : j \in Nat /\ j + 1 \in DOMAIN t /\ u[j] = t[j + 1]
      /\ \A j \in DOMAIN t : j # 1 => j - 1 \in DOMAIN u /\ u[j - 1] = t[j]
  BY OneLessDialog
<1>3. \A j \in DOMAIN t : t[j] \in Slots /\ j \in Nat
  BY <1>2, ElementOfSeq
<1>4. \A d \in DOMAIN r : r[d].k = "close" => r[d].i \in Slots
  BY ElementOfSeq, CallFields
<1>5. DOMAIN r = 1 .. Len(r) /\ Len(r) \in Nat
  BY PushElements
<1>6. ClosesMarked(p, t, fm) /\ LoopsMarked(p, t, fm, q)
  BY DEF Markers
<1>7. Above(r, 1) = {}
  BY <1>5 DEF Above
<1> HIDE DEF p, u
<1>8. ASSUME NEW m \in DOMAIN r, ModalClose(r[m], fm)
      PROVE  /\ 1 \in DOMAIN r /\ m # 1 /\ OwnsLoop(r[1])
             /\ fm[t[1]].id = 0
             /\ \A i \in Slots : fm[i].loop = r[1].g <=> i = t[1]
  <2>1. 1 \in DOMAIN r /\ m # 1 /\ 1 < m
    BY <1>5, <1>8 DEF ModalClose, PumpCall
  <2>2. CloseMarked(p, m + 1, t, fm)
    BY <1>1, <1>6, <1>8 DEF ClosesMarked
  <2>3. p[2].k # "events" /\ p[2] = r[1] /\ 2 \in DOMAIN p
    <3>1. 1 + 1 \in DOMAIN p /\ p[1 + 1] = r[1] /\ 1 + 1 < m + 1
      BY <1>1, <2>1
    <3>2. p[1 + 1].k # "events"
      BY <2>2, <3>1 DEF CloseMarked
    <3> QED
      BY <3>1, <3>2
  <2>4. OwnsLoop(r[1])
    BY <2>3 DEF PumpCall, OwnsLoop
  <2>5. OverClose(r, 1, fm)
    BY <1>8, <2>1 DEF OverClose
  <2>6. OverClose(p, 1 + 1, fm)
    BY <1>1, <2>1, <2>5
  <2>7. HasDialog(p, 2, t, fm)
    BY <1>6, <2>3, <2>4, <2>6 DEF LoopsMarked
  <2>8. PICK j \in DOMAIN t : /\ Level(p, 2, t, fm, j) /\ fm[t[j]].id = 0
                              /\ \A i \in Slots : fm[i].loop = r[1].g <=> i = t[j]
    BY <2>3, <2>7 DEF HasDialog
  <2>9. Above(p, 2) = {}
    <3>1. Above(p, 1 + 1) = {} /\ 1 + 1 = 2
      BY <1>0, <1>7, <2>1
    <3> QED
      BY <3>1
  <2>10. ~(1 < j)
    <3>1. fm[t[1]].loop \in Above(p, 2) <=> 1 < j
      BY <1>2, <2>8 DEF Level
    <3> QED
      BY <2>9, <3>1
  <2>11. j = 1
    BY <1>2, <2>10
  <2> QED
    BY <2>1, <2>4, <2>8, <2>11
<1>9. ASSUME NEW m \in DOMAIN r, ModalClose(r[m], fm),
             NEW c \in DOMAIN r, c # 1,
             NEW j \in DOMAIN t, Level(p, c + 1, t, fm, j)
      PROVE  /\ j # 1 /\ j - 1 \in DOMAIN u /\ u[j - 1] = t[j] /\ t[j] # t[1]
             /\ Level(r, c, u, fm2, j - 1)
  <2>1. /\ 1 \in DOMAIN r /\ OwnsLoop(r[1]) /\ fm[t[1]].loop = r[1].g
    BY <1>2, <1>8, <1>9
  <2>2. r[1].g \in Above(r, c)
    <3>1. 1 < c
      BY <1>5, <1>9
    <3> QED
      BY <2>1, <3>1 DEF Above
  <2>3. 1 < j
    BY <1>0, <1>2, <1>9, <2>1, <2>2 DEF Level
  <2>4. j - 1 \in DOMAIN u /\ u[j - 1] = t[j] /\ t[j] # t[1]
    BY <1>2, <2>3
  <2>5. ASSUME NEW k \in DOMAIN u PROVE fm2[u[k]].loop \in Above(r, c) <=> k < j - 1
    <3>0. k \in 1 .. Len(t) - 1 /\ k + 1 \in DOMAIN t /\ k + 1 # 1 /\ u[k] = t[k + 1]
      BY <1>2
    <3>1. k + 1 \in DOMAIN t /\ u[k] = t[k + 1] /\ t[k + 1] \in Slots /\ t[k + 1] # t[1] /\ k \in Nat
      BY <1>2, <1>3, <3>0
    <3>2. fm2[u[k]].loop = fm[t[k + 1]].loop
      BY <3>1
    <3>3. fm[t[k + 1]].loop \in Above(p, c + 1) <=> k + 1 < j
      BY <1>9, <3>1 DEF Level
    <3>4. k + 1 < j <=> k < j - 1
      BY <1>3, <3>1
    <3> QED
      BY <1>0, <3>2, <3>3, <3>4
  <2> QED
    BY <2>3, <2>4, <2>5 DEF Level
<1>10. ASSUME NEW c \in DOMAIN r, ModalClose(r[c], fm)
       PROVE  r[c].i # t[1] /\ CloseMarked(r, c, u, fm2)
  <2>1. c # 1
    BY <1>8, <1>10
  <2>2. CloseMarked(p, c + 1, t, fm)
    BY <1>1, <1>6, <1>10 DEF ClosesMarked
  <2>3. PICK j \in DOMAIN t : t[j] = r[c].i /\ Level(p, c + 1, t, fm, j)
    BY <1>1, <2>2 DEF CloseMarked
  <2>4. /\ j - 1 \in DOMAIN u /\ u[j - 1] = t[j] /\ t[j] # t[1]
        /\ Level(r, c, u, fm2, j - 1)
    BY <1>9, <1>10, <2>1, <2>3
  <2>5. ASSUME NEW e \in DOMAIN r, e < c PROVE r[e].k # "events"
    <3>1. e + 1 \in DOMAIN p /\ p[e + 1] = r[e] /\ e + 1 < c + 1
      BY <1>1, <2>5
    <3> QED
      BY <2>2, <3>1 DEF CloseMarked
  <2> QED
    BY <2>3, <2>4, <2>5 DEF CloseMarked
<1>11. \A c \in DOMAIN r : ModalClose(r[c], fm2) => ModalClose(r[c], fm)
  BY <1>4 DEF ModalClose
<1>12. ASSUME NEW c \in DOMAIN r, OwnsLoop(r[c]), OverClose(r, c, fm2)
       PROVE  IF c = 1 /\ Empty(r[c], q2) THEN \A i \in Slots : fm2[i].loop # r[c].g
              ELSE HasDialog(r, c, u, fm2)
  <2>1. PICK m \in DOMAIN r : c < m /\ ModalClose(r[m], fm)
    BY <1>11, <1>12 DEF OverClose
  <2>2. r[c].g # 0
    BY <1>12
  <2>3. CASE c = 1
    <3>1. Empty(r[c], q2)
      BY <1>8, <2>1 DEF Empty
    <3>2. \A i \in Slots : fm2[i].loop # r[c].g
      BY <1>8, <2>1, <2>2, <2>3
    <3> QED
      BY <2>3, <3>1, <3>2
  <2>4. CASE c # 1
    <3>1. OverClose(p, c + 1, fm) /\ c + 1 \in DOMAIN p /\ p[c + 1] = r[c] /\ c + 1 # 1
      BY <1>1, <2>1 DEF OverClose
    <3>2. HasDialog(p, c + 1, t, fm)
      BY <1>6, <1>12, <3>1 DEF LoopsMarked
    <3>3. PICK j \in DOMAIN t : /\ Level(p, c + 1, t, fm, j) /\ fm[t[j]].id = 0
                                /\ \A i \in Slots : fm[i].loop = r[c].g <=> i = t[j]
      BY <3>1, <3>2 DEF HasDialog
    <3>4. /\ j - 1 \in DOMAIN u /\ u[j - 1] = t[j] /\ t[j] # t[1]
          /\ Level(r, c, u, fm2, j - 1)
      BY <1>9, <2>1, <2>4, <3>3
    <3>5. t[j] \in Slots
      BY <1>3
    <3>6. \A i \in Slots : fm2[i].loop = r[c].g <=> i = u[j - 1]
      BY <2>2, <3>3, <3>4
    <3>7. fm2[u[j - 1]].id = 0
      BY <3>3, <3>4, <3>5
    <3> QED
      BY <2>4, <3>4, <3>6, <3>7 DEF HasDialog
  <2> QED
    BY <2>3, <2>4
<1>13. ClosesMarked(r, u, fm2)
  BY <1>10, <1>11 DEF ClosesMarked
<1>14. LoopsMarked(r, u, fm2, q2)
  BY <1>12 DEF LoopsMarked
<1> QED
  BY <1>10, <1>13, <1>14 DEF Markers, u

-----------------------------------------------------------------------------
(* The other parts of the invariant, as calls start and end.               *)

(* Where the calls of a stack with one more are. *)
LEMMA PushPlaces ==
  ASSUME NEW r \in Seq(Call), NEW f \in Call
  PROVE  /\ Push(f, r) \in Seq(Call) /\ Push(f, r) # <<>>
         /\ Head(Push(f, r)) = f /\ Tail(Push(f, r)) = r
         /\ 1 \in DOMAIN Push(f, r) /\ Push(f, r)[1] = f
         /\ \A c \in DOMAIN r : c + 1 \in DOMAIN Push(f, r) /\ Push(f, r)[c + 1] = r[c]
                                /\ c \in Nat /\ c >= 1
         /\ \A d \in DOMAIN Push(f, r) :
              \/ d = 1 /\ Push(f, r)[d] = f
              \/ \E c \in DOMAIN r : d = c + 1 /\ Push(f, r)[d] = r[c]
         /\ r # <<>> => 1 \in DOMAIN r /\ r[1] = Head(r)
                        /\ 2 \in DOMAIN Push(f, r) /\ Push(f, r)[2] = r[1]
<1> DEFINE p == Push(f, r)
<1>1. /\ p \in Seq(Call) /\ Len(r) \in Nat /\ DOMAIN r = 1 .. Len(r)
      /\ DOMAIN p = 1 .. Len(r) + 1 /\ p[1] = f
      /\ \A c \in 1 .. Len(r) : p[c + 1] = r[c]
      /\ \A c \in 2 .. Len(r) + 1 : p[c] = r[c - 1] /\ c - 1 \in 1 .. Len(r)
  BY PushElements
<1>2. \A d \in DOMAIN p : \/ d = 1 /\ p[d] = f
                          \/ \E c \in DOMAIN r : d = c + 1 /\ p[d] = r[c]
  BY PushIndices
<1> HIDE DEF p
<1>3. p # <<>> /\ 1 \in DOMAIN p
  BY <1>1, EmptySeq
<1>4. /\ Head(p) \in Call /\ Head(p) = p[1] /\ Tail(p) \in Seq(Call)
      /\ Len(p) \in Nat /\ Len(p) > 0 /\ DOMAIN p = 1 .. Len(p)
      /\ DOMAIN Tail(p) = 1 .. Len(p) - 1
      /\ \A d \in 1 .. Len(p) - 1 : Tail(p)[d] = p[d + 1] /\ d + 1 \in 1 .. Len(p)
  BY <1>1, <1>3, TailElements
<1>5. Len(p) = Len(r) + 1
  BY <1>1, <1>4
<1>6. Tail(p) = r
  <2>1. DOMAIN Tail(p) = DOMAIN r
    BY <1>1, <1>4, <1>5
  <2>2. \A d \in DOMAIN r : Tail(p)[d] = r[d]
    BY <1>1, <1>4, <1>5
  <2> QED
    BY <1>4, <2>1, <2>2, SeqDef
<1>7. ASSUME r # <<>>
      PROVE  1 \in DOMAIN r /\ r[1] = Head(r) /\ 2 \in DOMAIN p /\ p[2] = r[1]
  <2>1. Head(r) = r[1] /\ Len(r) > 0
    BY <1>7, TailElements
  <2>2. 2 \in DOMAIN p /\ p[2] = r[2 - 1]
    BY <1>1, <2>1
  <2> QED
    BY <1>1, <2>1, <2>2
<1>8. \A c \in DOMAIN r : c + 1 \in DOMAIN p /\ p[c + 1] = r[c] /\ c \in Nat /\ c >= 1
  BY <1>1
<1> QED
  BY <1>1, <1>2, <1>3, <1>4, <1>6, <1>7, <1>8 DEF p

(* Another call takes the place of the running one. *)
LEMMA ShapeSwap ==
  ASSUME NEW r \in Seq(Call), NEW f \in Call, NEW c \in Call, ShapeOk(Push(c, r)),
         ~Rel(c), f.k \notin {"user", "init", "close"}, c.k # "user"
  PROVE  ShapeOk(Push(f, r))
<1> DEFINE p == Push(c, r)
           s == Push(f, r)
<1>1. /\ Len(r) \in Nat /\ DOMAIN p = 1 .. Len(r) + 1 /\ DOMAIN s = 1 .. Len(r) + 1
      /\ p[1] = c /\ s[1] = f
      /\ \A d \in 2 .. Len(r) + 1 : p[d] = r[d - 1] /\ s[d] = r[d - 1]
  <2>1. /\ Len(r) \in Nat /\ DOMAIN p = 1 .. Len(r) + 1 /\ p[1] = c
        /\ \A d \in 2 .. Len(r) + 1 : p[d] = r[d - 1]
    BY PushElements
  <2>2. /\ DOMAIN s = 1 .. Len(r) + 1 /\ s[1] = f
        /\ \A d \in 2 .. Len(r) + 1 : s[d] = r[d - 1]
    BY PushElements
  <2> HIDE DEF p, s
  <2> QED
    BY <2>1, <2>2
<1>2. s # <<>>
  BY PushPlaces
<1> HIDE DEF p, s
<1>3. ~Rel(f)
  BY DEF Rel
<1>4. \A d \in DOMAIN s : d \in DOMAIN p /\ (d # 1 => s[d] = p[d])
  BY <1>1
<1>5. 1 \in DOMAIN p /\ DOMAIN p = DOMAIN s
  BY <1>1
<1>6. \A d \in DOMAIN s : s[d].k # "user" => d + 1 \in DOMAIN s
  BY <1>1, <1>4, <1>5 DEF ShapeOk, p
<1>7. \A d \in DOMAIN s : s[d].k # "init"
  BY <1>1, <1>4 DEF ShapeOk, p
<1>8. \A d \in DOMAIN s : s[d].k = "act" => d = 1
  BY <1>4 DEF ShapeOk, p
<1>9. \A d \in DOMAIN s : ~Rel(s[d])
  BY <1>1, <1>3, <1>4 DEF ShapeOk, p
<1>10. \A d \in DOMAIN s : s[d].k = "all" => d = 1
  BY <1>1, <1>4 DEF ShapeOk, p
<1>11. ASSUME NEW d \in DOMAIN s, s[d].k = "close"
       PROVE  /\ s[d].at = "start" => d = 1
              /\ s[d].at = "release" => d = 1
              /\ d + 1 \in DOMAIN s /\ PumpCall(s[d + 1])
  <2>1. d # 1 /\ d \in DOMAIN p /\ s[d] = p[d]
    BY <1>1, <1>4, <1>11
  <2>2. /\ p[d].at = "start" => d = 1
        /\ p[d].at = "release" => d = 1
        /\ d + 1 \in DOMAIN p /\ PumpCall(p[d + 1])
    BY <1>1, <1>11, <2>1 DEF ShapeOk, p
  <2>3. d + 1 # 1
    BY <1>1, <2>1
  <2>4. s[d + 1] = p[d + 1] /\ d + 1 \in DOMAIN s
    BY <1>4, <1>5, <2>2, <2>3
  <2> QED
    BY <2>1, <2>2, <2>4
<1> QED
  BY <1>2, <1>6, <1>7, <1>8, <1>9, <1>10, <1>11 DEF ShapeOk, s

(* A handler of WM_CLOSE that runs is above its pump, and only the one     *)
(* that is finishing a window, or ReleaseAllWindows, has one under way.    *)
LEMMA TopShape ==
  ASSUME NEW r \in Seq(Call), NEW f \in Call, ShapeOk(Push(f, r))
  PROVE  /\ f.k # "init"
         /\ f.k # "user" => r # <<>>
         /\ f.k = "close" => r # <<>> /\ PumpCall(r[1])
         /\ Rel(f) => r # <<>> /\ r[1].k \in {"close", "all"}
         /\ \A d \in DOMAIN r : r[d].k = "close" /\ r[d].at # "ask" =>
              d = 1 /\ Rel(f) /\ r[d].at = "release"
         /\ \A d \in DOMAIN r : r[d].k = "all" => d = 1 /\ Rel(f)
<1> DEFINE p == Push(f, r)
<1>0. /\ 1 \in DOMAIN p /\ p[1] = f
      /\ \A c \in DOMAIN r : c + 1 \in DOMAIN p /\ p[c + 1] = r[c] /\ c \in Nat /\ c >= 1
      /\ r # <<>> => 2 \in DOMAIN p /\ p[2] = r[1]
  BY PushPlaces, ZenonT(40)
<1>1. 2 \in DOMAIN p => r # <<>>
  <2>1. Len(r) \in Nat /\ DOMAIN p = 1 .. Len(r) + 1
    BY PushElements
  <2>2. r = <<>> => Len(r) = 0
    OBVIOUS
  <2> HIDE DEF p
  <2> QED
    BY <2>1, <2>2
<1> HIDE DEF p
<1>2. f.k # "user" => 2 \in DOMAIN p
  <2>1. f.k # "user" => 1 + 1 \in DOMAIN p
    BY <1>0 DEF ShapeOk, p
  <2> QED
    BY <2>1
<1>3. f.k = "close" => PumpCall(p[2])
  <2>1. f.k = "close" => PumpCall(p[1 + 1])
    BY <1>0 DEF ShapeOk, p
  <2> QED
    BY <2>1
<1>4. f.k # "init" /\ (Rel(f) => 2 \in DOMAIN p /\ p[2].k \in {"close", "all"})
  BY <1>0 DEF ShapeOk, p
<1>5. ASSUME NEW d \in DOMAIN r, r[d].k = "close", r[d].at # "ask"
      PROVE  d = 1 /\ Rel(f) /\ r[d].at = "release"
  <2>1. d + 1 \in DOMAIN p /\ p[d + 1] = r[d] /\ d + 1 # 1 /\ d \in Nat
    BY <1>0
  <2>2. r[d] \in Call
    BY ElementOfSeq
  <2>3. r[d].at \in {"start", "release"}
    BY <1>5, <2>2 DEF Call
  <2>4. r[d].at = "start" => d + 1 = 1
    BY <1>5, <2>1 DEF ShapeOk, p
  <2>5. r[d].at = "release" => d + 1 = 1 \/ (d + 1 = 2 /\ Rel(p[1]))
    BY <1>5, <2>1 DEF ShapeOk, p
  <2> QED
    BY <1>0, <2>1, <2>3, <2>4, <2>5
<1>6. ASSUME NEW d \in DOMAIN r, r[d].k = "all" PROVE d = 1 /\ Rel(f)
  <2>1. d + 1 \in DOMAIN p /\ p[d + 1] = r[d] /\ d + 1 # 1 /\ d \in Nat
    BY <1>0
  <2>2. d + 1 = 1 \/ (d + 1 = 2 /\ Rel(p[1]))
    BY <1>6, <2>1 DEF ShapeOk, p
  <2> QED
    BY <1>0, <2>1, <2>2
<1> QED
  BY <1>0, <1>1, <1>2, <1>3, <1>4, <1>5, <1>6

(* The handlers of WM_CLOSE, the messages and the releases.                *)
LEMMA ClosesPush ==
  ASSUME NEW r \in Seq(Call), NEW f \in Call, NEW fm
  PROVE  ClosesOk(Push(f, r), fm) <=> CloseOk(f, fm) /\ ClosesOk(r, fm)
<1> DEFINE p == Push(f, r)
<1>1. /\ 1 \in DOMAIN p /\ p[1] = f
      /\ \A c \in DOMAIN r : c + 1 \in DOMAIN p /\ p[c + 1] = r[c]
      /\ \A d \in DOMAIN p : \/ d = 1 /\ p[d] = f
                             \/ \E c \in DOMAIN r : d = c + 1 /\ p[d] = r[c]
  <2>1. /\ 1 \in DOMAIN p /\ p[1] = f
        /\ \A c \in DOMAIN r : c + 1 \in DOMAIN p /\ p[c + 1] = r[c]
    BY PushPlaces
  <2>2. \A d \in DOMAIN p : \/ d = 1 /\ p[d] = f
                            \/ \E c \in DOMAIN r : d = c + 1 /\ p[d] = r[c]
    BY PushIndices
  <2> QED
    BY <2>1, <2>2
<1> HIDE DEF p
<1>2. ClosesOk(p, fm) => CloseOk(f, fm) /\ ClosesOk(r, fm)
  BY <1>1 DEF ClosesOk
<1>3. ASSUME CloseOk(f, fm), ClosesOk(r, fm) PROVE ClosesOk(p, fm)
  <2> SUFFICES ASSUME NEW d \in DOMAIN p PROVE CloseOk(p[d], fm)
    BY DEF ClosesOk
  <2>1. CASE d = 1 /\ p[d] = f
    BY <1>3, <2>1
  <2>2. CASE \E c \in DOMAIN r : d = c + 1 /\ p[d] = r[c]
    BY <1>3, <2>2 DEF ClosesOk
  <2> QED
    BY <1>1, <2>1, <2>2
<1> QED
  BY <1>2, <1>3 DEF p

(* One more call restricts the waiting messages only if it closes a        *)
(* dialog.                                                                 *)
LEMMA TargetsPush ==
  ASSUME NEW r \in Seq(Call), NEW f \in Call, NEW T, NEW fm, NEW vis, NEW am
  PROVE  TargetsOk(T, Push(f, r), fm, vis, am) <=>
           /\ TargetsOk(T, r, fm, vis, am)
           /\ ModalClose(f, fm) /\ f.at # "ask" => \A h \in T : h = f.h
<1> DEFINE p == Push(f, r)
           For(c) == ModalClose(c, fm) /\ c.at # "ask" => \A h \in T : h = c.h
<1>1. /\ 1 \in DOMAIN p /\ p[1] = f
      /\ \A c \in DOMAIN r : c + 1 \in DOMAIN p /\ p[c + 1] = r[c]
      /\ \A d \in DOMAIN p : \/ d = 1 /\ p[d] = f
                             \/ \E c \in DOMAIN r : d = c + 1 /\ p[d] = r[c]
  <2>1. /\ 1 \in DOMAIN p /\ p[1] = f
        /\ \A c \in DOMAIN r : c + 1 \in DOMAIN p /\ p[c + 1] = r[c]
    BY PushPlaces
  <2>2. \A d \in DOMAIN p : \/ d = 1 /\ p[d] = f
                            \/ \E c \in DOMAIN r : d = c + 1 /\ p[d] = r[c]
    BY PushIndices
  <2> QED
    BY <2>1, <2>2
<1>2. /\ TargetsOk(T, p, fm, vis, am) <=>
           /\ \A h \in T : \/ h = am
                           \/ h \notin vis /\ \E i \in Slots : fm[i].handle = h /\ fm[i].name \in Manual
           /\ \A h, k \in T : h = k
           /\ \A d \in DOMAIN p : For(p[d])
      /\ TargetsOk(T, r, fm, vis, am) <=>
           /\ \A h \in T : \/ h = am
                           \/ h \notin vis /\ \E i \in Slots : fm[i].handle = h /\ fm[i].name \in Manual
           /\ \A h, k \in T : h = k
           /\ \A d \in DOMAIN r : For(r[d])
  BY DEF TargetsOk
<1> HIDE DEF p, For
<1>3. (\A d \in DOMAIN p : For(p[d])) => For(f) /\ \A d \in DOMAIN r : For(r[d])
  BY <1>1
<1>4. ASSUME For(f), \A d \in DOMAIN r : For(r[d]) PROVE \A d \in DOMAIN p : For(p[d])
  BY <1>1, <1>4
<1>5. TargetsOk(T, p, fm, vis, am) <=> TargetsOk(T, r, fm, vis, am) /\ For(f)
  BY <1>2, <1>3, <1>4
<1> QED
  BY <1>5 DEF p, For

(* One more call keeps the record of the ON RELEASE procedures. *)
LEMMA ReleasedPush ==
  ASSUME NEW r \in Seq(Call), NEW f \in Call, NEW fm, ReleasedOk(r, fm)
  PROVE  ReleasedOk(Push(f, r), fm)
<1> DEFINE p == Push(f, r)
<1>1. \A c \in DOMAIN r : c + 1 \in DOMAIN p /\ p[c + 1] = r[c]
  BY PushPlaces
<1> HIDE DEF p
<1>2. ASSUME NEW i \in Slots, fm[i].released # 0
      PROVE  fm[i].released = 1 /\ \E d \in DOMAIN p : ReleasedBy(p[d], i)
  <2>1. PICK c \in DOMAIN r : ReleasedBy(r[c], i)
    BY <1>2 DEF ReleasedOk
  <2>2. fm[i].released = 1
    BY <1>2 DEF ReleasedOk
  <2> QED
    BY <1>1, <2>1, <2>2
<1> QED
  BY <1>2 DEF ReleasedOk, p

(* So does one call less, unless it was a release that is not finished. *)
LEMMA ReleasedTail ==
  ASSUME NEW r \in Seq(Call), NEW f \in Call, NEW fm, ReleasedOk(Push(f, r), fm),
         \A i \in Slots : fm[i].released # 0 => ~ReleasedBy(f, i)
  PROVE  ReleasedOk(r, fm)
<1> DEFINE p == Push(f, r)
<1>1. \A d \in DOMAIN p : \/ d = 1 /\ p[d] = f
                          \/ \E c \in DOMAIN r : d = c + 1 /\ p[d] = r[c]
  BY PushPlaces
<1> HIDE DEF p
<1>2. ASSUME NEW i \in Slots, fm[i].released # 0
      PROVE  fm[i].released = 1 /\ \E c \in DOMAIN r : ReleasedBy(r[c], i)
  <2>1. fm[i].released = 1 /\ \E d \in DOMAIN p : ReleasedBy(p[d], i)
    BY <1>2 DEF ReleasedOk, p
  <2>2. PICK d \in DOMAIN p : ReleasedBy(p[d], i)
    BY <2>1
  <2>3. \E c \in DOMAIN r : d = c + 1 /\ p[d] = r[c]
    BY <1>1, <1>2, <2>2
  <2> QED
    BY <2>1, <2>2, <2>3
<1> QED
  BY <1>2 DEF ReleasedOk

(* WM_QUIT matters only to a loop. *)
LEMMA MarkersQuiet ==
  ASSUME NEW s \in Seq(Call), NEW t, NEW fm, NEW q, NEW q2, ~OwnsLoop(s[1]), Markers(s, t, fm, q)
  PROVE  Markers(s, t, fm, q2)
BY DEF Markers, LoopsMarked

(* What ON RELEASE finds in _HMG_ThisEventType. *)
LEMMA RelEventType ==
  ASSUME stack \in Seq(Call), stack # <<>>, Rel(Head(stack))
  PROVE  ThisEventType = "WINDOW_RELEASE"
<1>1. Head(stack) = stack[1] /\ 1 \in DOMAIN stack
  BY PushRest
<1>2. DOMAIN stack = 1 .. Len(stack) /\ Len(stack) \in Nat
  BY LenProperties
<1> DEFINE p == {d \in DOMAIN stack : Sets(stack[d])}
<1>3. 1 \in p /\ p # {} /\ p \subseteq Nat /\ \A d \in p : 1 <= d
  BY <1>1, <1>2 DEF Rel, Sets
<1> DEFINE m == CHOOSE d \in p : \A e \in p : d <= e
<1>4. m \in p /\ \A e \in p : m <= e
  BY <1>3
<1>5. ThisEventType = stack[m].ev
  BY <1>3 DEF ThisEventType
<1> HIDE DEF p, m
<1>6. m = 1
  BY <1>3, <1>4
<1> QED
  BY <1>1, <1>5, <1>6 DEF Rel

-----------------------------------------------------------------------------
(* Facts about the chain. *)

(* The main window. *)
LEMMA MainWindow ==
  ASSUME WindowsInv, MainLives, NEW x \in Slots, Live(x)
  PROVE  \E m \in Slots :
           /\ form[m].name = Main /\ form[m].handle = mainHandle
           /\ form[m].parent = NoHandle /\ Live(m) /\ nameVar[Main] = m /\ Defined(Main)
           /\ mainHandle \in LiveHandles /\ mainHandle # NoHandle
           /\ \A i \in Slots : form[i].handle = mainHandle \/ form[i].name = Main => i = m
           /\ SlotOf(mainHandle) = m
<1>1. PICK m \in Slots : /\ form[m].name = Main /\ form[m].handle = mainHandle
                         /\ form[m].parent = NoHandle
  BY DEF MainLives
<1>2. Main \in Names /\ Live(m) /\ mainHandle # NoHandle
  BY <1>1, WindowsAssumption DEF Live, WindowsInv, TableInv, NamesMatch
<1>3. nameVar[Main] = m /\ Defined(Main) /\ mainHandle \in LiveHandles
  BY <1>1, <1>2, SlotsAreNumbers DEF WindowsInv, TableInv, NamesMatch, Defined, LiveHandles
<1>4. ASSUME NEW i \in Slots, form[i].handle = mainHandle \/ form[i].name = Main PROVE i = m
  <2>1. Live(i)
    <3>1. CASE form[i].handle = mainHandle
      BY <1>2, <3>1 DEF WindowsInv, TableInv, NamesMatch
    <3>2. CASE form[i].name = Main
      BY <3>2, WindowsAssumption DEF Live
    <3> QED
      BY <1>4, <3>1, <3>2
  <2>2. form[i].name = Main => i = m
    BY <1>3, <2>1 DEF WindowsInv, TableInv, NamesMatch
  <2>3. form[i].handle = mainHandle => i = m
    BY <1>1, <1>2, <2>1 DEF WindowsInv, TableInv, HandlesMatch
  <2> QED
    BY <1>4, <2>2, <2>3
<1>5. SlotOf(mainHandle) = m
  <2>1. SlotOf(mainHandle) # 0 /\ SlotOf(mainHandle) \in Slots
    BY <1>3, SlotOfFinds
  <2>2. form[SlotOf(mainHandle)].handle = mainHandle
    BY <2>1, SlotOfFinds
  <2> QED
    BY <1>4, <2>1, <2>2
<1> QED
  BY <1>1, <1>2, <1>3, <1>4, <1>5

(* The dialogs of the chain. *)
LEMMA ChainFacts ==
  ASSUME WindowsInv, NEW t, ChainInv(t), MainLives
  PROVE  /\ t \in Seq(Slots) /\ Len(t) \in Nat /\ DOMAIN t = 1 .. Len(t)
         /\ t # <<>> => 1 \in DOMAIN t
         /\ t = <<>> => DOMAIN t = {}
         /\ \A j \in DOMAIN t :
              /\ t[j] \in Slots /\ Live(t[j]) /\ form[t[j]].name \in Modal
              /\ form[t[j]].name # Main /\ form[t[j]].handle # mainHandle
              /\ form[t[j]].handle \in visible /\ form[t[j]].handle \in LiveHandles
              /\ form[t[j]].handle # NoHandle
              /\ SlotOf(form[t[j]].handle) = t[j]
              /\ \A i \in Slots : form[i].handle = form[t[j]].handle => i = t[j]
         /\ t # <<>> => activeModal = form[t[1]].handle /\ activeModal # NoHandle
         /\ t = <<>> => activeModal = NoHandle
<1>1. t \in Seq(Slots)
  BY DEF ChainInv, IsChain
<1>2. /\ Len(t) \in Nat /\ DOMAIN t = 1 .. Len(t)
      /\ t # <<>> => 1 \in DOMAIN t
      /\ t = <<>> => DOMAIN t = {}
  BY <1>1, LenProperties, EmptySeq
<1>3. ASSUME NEW j \in DOMAIN t
      PROVE  /\ t[j] \in Slots /\ Live(t[j]) /\ form[t[j]].name \in Modal
             /\ form[t[j]].name # Main /\ form[t[j]].handle # mainHandle
             /\ form[t[j]].handle \in visible /\ form[t[j]].handle \in LiveHandles
             /\ form[t[j]].handle # NoHandle
             /\ SlotOf(form[t[j]].handle) = t[j]
             /\ \A i \in Slots : form[i].handle = form[t[j]].handle => i = t[j]
  <2>1. t[j] \in Slots
    BY <1>1, <1>3, ElementOfSeq
  <2>2. form[t[j]].name \in Modal /\ form[t[j]].handle \in visible
    BY <1>3, <2>1 DEF ChainInv, IsChain, IsOpen
  <2>3. form[t[j]].name # Main /\ Live(t[j])
    BY <2>2, WindowsAssumption DEF Live
  <2>4. form[t[j]].handle \in LiveHandles /\ form[t[j]].handle # NoHandle
    BY <2>1, <2>3 DEF LiveHandles, WindowsInv, TableInv, NamesMatch
  <2>5. form[t[j]].handle # mainHandle
    BY <2>1, <2>3, MainWindow
  <2>6. ASSUME NEW i \in Slots, form[i].handle = form[t[j]].handle PROVE i = t[j]
    <3>1. Live(i)
      BY <2>4, <2>6 DEF WindowsInv, TableInv, NamesMatch
    <3> QED
      BY <2>1, <2>3, <2>6, <3>1 DEF WindowsInv, TableInv, HandlesMatch
  <2>7. SlotOf(form[t[j]].handle) = t[j]
    <3>1. /\ SlotOf(form[t[j]].handle) \in Slots
          /\ form[SlotOf(form[t[j]].handle)].handle = form[t[j]].handle
      BY <2>4, SlotOfFinds
    <3> QED
      BY <2>6, <3>1
  <2> QED
    BY <2>1, <2>2, <2>3, <2>4, <2>5, <2>6, <2>7
<1>4. t # <<>> => activeModal = form[t[1]].handle
  BY DEF ChainInv, TopOf
<1>5. t # <<>> => activeModal # NoHandle
  BY <1>2, <1>3, <1>4
<1>6. t = <<>> => activeModal = NoHandle
  BY DEF ChainInv, TopOf
<1> QED
  BY <1>1, <1>2, <1>3, <1>4, <1>5, <1>6

(* The only dialog with the handle of the active one. *)
LEMMA ActiveIsTop ==
  ASSUME WindowsInv, NEW t, ChainInv(t), MainLives, NEW i \in Slots, Live(i),
         form[i].handle = activeModal
  PROVE  t # <<>> /\ t[1] = i
<1>1. activeModal # NoHandle
  BY DEF WindowsInv, TableInv, NamesMatch
<1>2. t # <<>>
  BY <1>1, ChainFacts
<1>3. 1 \in DOMAIN t /\ activeModal = form[t[1]].handle
  BY <1>2, ChainFacts
<1>4. \A x \in Slots : form[x].handle = form[t[1]].handle => x = t[1]
  BY <1>3, ChainFacts
<1> QED
  BY <1>2, <1>3, <1>4

-----------------------------------------------------------------------------
(* Steps that open and close no dialog.                                    *)

(* A step that leaves the table and the screen alone. *)
SameTable ==
  \A i \in Slots : /\ form'[i].name = form[i].name /\ form'[i].handle = form[i].handle
                   /\ form'[i].active = form[i].active /\ form'[i].parent = form[i].parent
                   /\ form'[i].id = form[i].id /\ form'[i].loop = form[i].loop

(* A step of which only the calls are of interest. *)
LEMMA StackStep ==
  ASSUME WindowsInv, NEW t, Dialog(t), SameTable, UNCHANGED <<nameVar, mainHandle, mainActive>>,
         UNCHANGED modality, UNCHANGED screen,
         Head(stack).k # "act", Head(stack').k # "act",
         ShapeOk(stack'), ClosesOk(stack', form'), PendingInv',
         Markers(stack', t, form', quit'), ReleasedOk(stack', form')
  PROVE  Dialog(t)'
<1>1. Unf(stack) = NoName /\ Unf(stack') = NoName
  BY DEF Unf
<1>2. t \in Seq(Slots) /\ \A j \in DOMAIN t : t[j] \in Slots
  BY ElementOfSeq DEF Dialog, ChainInv, IsChain
<1>3. /\ visible' = visible /\ enabled' = enabled /\ mainHandle' = mainHandle
      /\ modalActive' = modalActive /\ activeModal' = activeModal /\ userWindow' = userWindow
      /\ mainActive' = mainActive /\ nameVar' = nameVar
  BY DEF modality, screen
<1>4. IsChain(t, form, visible, mainHandle, NoName)
  BY <1>1 DEF Dialog, ChainInv
<1>5. IsChain(t, form', visible', mainHandle', NoName)
  <2>1. \A i \in Slots : IsOpen(i, form', visible', NoName) <=> IsOpen(i, form, visible, NoName)
    BY <1>3 DEF SameTable, IsOpen
  <2>2. \A j \in DOMAIN t :
          form'[t[j]].parent = IF j = Len(t) THEN mainHandle ELSE form'[t[j + 1]].handle
    <3> SUFFICES ASSUME NEW j \in DOMAIN t
                 PROVE  form'[t[j]].parent = IF j = Len(t) THEN mainHandle ELSE form'[t[j + 1]].handle
      OBVIOUS
    <3>1. form[t[j]].parent = IF j = Len(t) THEN mainHandle ELSE form[t[j + 1]].handle
      BY <1>4 DEF IsChain
    <3>2. j # Len(t) => j + 1 \in DOMAIN t
      <4>1. Len(t) \in Nat /\ DOMAIN t = 1 .. Len(t)
        BY <1>2, LenProperties
      <4> QED
        BY <4>1
    <3> QED
      BY <1>2, <3>1, <3>2 DEF SameTable
  <2> QED
    BY <1>3, <1>4, <2>1, <2>2 DEF IsChain
<1>6. TopOf(t, form') = TopOf(t, form)
  <2>1. t # <<>> => 1 \in DOMAIN t
    BY <1>2, LenProperties, EmptySeq
  <2> QED
    BY <1>2, <2>1 DEF SameTable, TopOf
<1>7. ChainInv(t)'
  BY <1>1, <1>3, <1>5, <1>6 DEF Dialog, ChainInv
<1>8. OnlyTop(t, form', enabled', mainHandle')
  BY <1>2, <1>3 DEF Dialog, OnlyTop, SameTable
<1>9. MainInv'
  <2>1. MainLives'
    BY <1>3 DEF Dialog, MainInv, MainLives, SameTable, Live
  <2>2. Active(Main) => Active(Main)'
    <3>1. Defined(Main) => nameVar[Main] \in Slots
      BY WindowsAssumption DEF WindowsInv, TableInv, Defined
    <3> QED
      BY <1>3, <3>1 DEF SameTable, Active, Defined
  <2> QED
    BY <1>3, <2>1, <2>2 DEF Dialog, MainInv, SameTable
<1>10. ActInv'
  BY DEF ActInv
<1> QED
  BY <1>7, <1>8, <1>9, <1>10 DEF Dialog

(* A run-time error, and the end of the program. *)
LEMMA StopDialog ==
  ASSUME NEW t, Dialog(t),
         UNCHANGED <<table, modality, counter, screen, message, stack>>
  PROVE  Dialog(t)'
<1>1. /\ form' = form /\ nameVar' = nameVar /\ mainHandle' = mainHandle /\ mainActive' = mainActive
      /\ visible' = visible /\ enabled' = enabled /\ queue' = queue /\ quit' = quit /\ stack' = stack
      /\ modalActive' = modalActive /\ activeModal' = activeModal /\ userWindow' = userWindow
  BY DEF table, modality, screen, message
<1>2. ChainInv(t)' /\ ActInv' /\ PendingInv'
  BY <1>1 DEF Dialog, ChainInv, ActInv, PendingInv, AllDiscarded, Active, Defined
<1>3. MainInv'
  BY <1>1 DEF Dialog, MainInv, MainLives, Live, Active, Defined
<1> QED
  BY <1>1, <1>2, <1>3 DEF Dialog

-----------------------------------------------------------------------------
(* The calls of a stack, all in all. *)
Calls(s, t, fm, T, vis, am, q) ==
  /\ ShapeOk(s) /\ ClosesOk(s, fm) /\ TargetsOk(T, s, fm, vis, am)
  /\ Markers(s, t, fm, q) /\ ReleasedOk(s, fm)

(* A call ends. *)
LEMMA CallEnds ==
  ASSUME NEW r \in Seq(Call), r # <<>>, NEW f \in Call, NEW t, NEW fm, NEW T, NEW vis, NEW am,
         NEW q, Calls(Push(f, r), t, fm, T, vis, am, q), ~OwnsLoop(f),
         \A i \in Slots : fm[i].released # 0 => ~ReleasedBy(f, i)
  PROVE  /\ Calls(r, t, fm, T, vis, am, FALSE)
         /\ ~Rel(r[1]) /\ r[1].k # "act" /\ Head(r) = r[1]
<1>1. Push(f, r) \in Seq(Call) /\ Tail(Push(f, r)) = r /\ Head(r) = r[1]
  BY PushPlaces
<1>2. ShapeOk(r) /\ ~Rel(r[1]) /\ r[1].k # "act"
  BY <1>1, ShapeTail DEF Calls
<1>3. ClosesOk(r, fm) /\ TargetsOk(T, r, fm, vis, am)
  BY ClosesPush, TargetsPush DEF Calls
<1>4. Markers(r, t, fm, FALSE)
  BY <1>2, MarkersTail DEF Calls
<1>5. ReleasedOk(r, fm)
  BY ReleasedTail DEF Calls
<1> QED
  BY <1>1, <1>2, <1>3, <1>4, <1>5 DEF Calls

(* A call that has no loop of its own starts above a pump or an event      *)
(* procedure.                                                              *)
LEMMA CallStarts ==
  ASSUME NEW s \in Seq(Call), NEW f \in Call, NEW t \in Seq(Slots), NEW fm, NEW T, NEW vis,
         NEW am, Calls(s, t, fm, T, vis, am, FALSE),
         s[1].k \notin {"act", "close", "all"}, ~Rel(s[1]),
         f.k \notin {"init", "events"}, ~OwnsLoop(f), ~Rel(f),
         f.k = "close" => PumpCall(s[1]), CloseOk(f, fm),
         ModalClose(f, fm) => \/ f.at = "start" /\ fm[f.i].name \in Manual
                              \/ t # <<>> /\ t[1] = f.i,
         ModalClose(f, fm) /\ f.at # "ask" => \A h \in T : h = f.h
  PROVE  Calls(Push(f, s), t, fm, T, vis, am, FALSE)
<1>1. ShapeOk(Push(f, s))
  BY ShapePush DEF Calls
<1>2. ClosesOk(Push(f, s), fm) /\ TargetsOk(T, Push(f, s), fm, vis, am)
  BY ClosesPush, TargetsPush DEF Calls
<1>3. Markers(Push(f, s), t, fm, FALSE)
  BY MarkersPush DEF Calls
<1>4. ReleasedOk(Push(f, s), fm)
  BY ReleasedPush DEF Calls
<1> QED
  BY <1>1, <1>2, <1>3, <1>4 DEF Calls

(* A handler of WM_CLOSE or ReleaseAllWindows runs a procedure. *)
LEMMA CallBack ==
  ASSUME NEW s \in Seq(Call), NEW f \in Call, NEW t \in Seq(Slots), NEW fm, NEW T, NEW vis,
         NEW am, Calls(s, t, fm, T, vis, am, FALSE), f.k = "user",
         \/ Rel(f) /\ s[1].k = "all"
         \/ Rel(f) /\ s[1].k = "close" /\ s[1].at = "release"
         \/ ~Rel(f) /\ s[1].k = "close" /\ s[1].at = "ask"
  PROVE  Calls(Push(f, s), t, fm, T, vis, am, FALSE)
<1>1. ShapeOk(Push(f, s))
  BY ShapeCall DEF Calls
<1>2. CloseOk(f, fm) /\ ~ModalClose(f, fm) /\ ~OwnsLoop(f) /\ f.k # "events"
  BY DEF CloseOk, ModalClose, OwnsLoop
<1>3. ClosesOk(Push(f, s), fm) /\ TargetsOk(T, Push(f, s), fm, vis, am)
  BY <1>2, ClosesPush, TargetsPush DEF Calls
<1>4. s[1].k # "act" /\ (s[1].k = "close" => s[1].at # "start")
  OBVIOUS
<1>5. Markers(Push(f, s), t, fm, FALSE)
  BY <1>2, <1>4, MarkersPush DEF Calls
<1>6. ReleasedOk(Push(f, s), fm)
  BY ReleasedPush DEF Calls
<1> QED
  BY <1>1, <1>3, <1>5, <1>6 DEF Calls

(* The running call of the invariant. *)
LEMMA RunningCall ==
  ASSUME WindowsInv, NEW t, Dialog(t)
  PROVE  /\ stack \in Seq(Call) /\ stack # <<>> /\ Top \in Call /\ Rest \in Seq(Call)
         /\ stack = Push(Top, Rest) /\ Top = stack[1] /\ Top = Head(stack) /\ Rest = Tail(stack)
         /\ Calls(stack, t, form, Targets(queue), visible, activeModal, quit)
         /\ ~PumpCall(Top) => ~quit
         /\ \A h \in Targets(queue) : h # activeModal =>
              PumpCall(Top) \/ (ModalClose(Top, form) /\ Top.at = "start")
<1>1. stack \in Seq(Call) /\ stack # <<>>
  BY DEF WindowsInv, StackInv, Dialog, ShapeOk
<1>2. /\ Top \in Call /\ Rest \in Seq(Call) /\ stack = Push(Top, Rest)
      /\ Top = stack[1] /\ Top = Head(stack) /\ Rest = Tail(stack)
  BY <1>1, PushRest DEF Top, Rest
<1>3. Calls(stack, t, form, Targets(queue), visible, activeModal, quit)
  BY DEF Dialog, PendingInv, Calls
<1> QED
  BY <1>1, <1>2, <1>3 DEF Dialog, PendingInv

(* A step of which only the calls are of interest. *)
LEMMA CallsStep ==
  ASSUME WindowsInv, NEW t, Dialog(t), SameTable, UNCHANGED <<nameVar, mainHandle, mainActive>>,
         UNCHANGED modality, UNCHANGED screen,
         NEW s \in Seq(Call), stack' = s, Top.k # "act", s[1].k # "act",
         Calls(s, t, form', Targets(queue'), visible', activeModal', quit'),
         quit' => PumpCall(s[1]) /\ AllDiscarded',
         \A h \in Targets(queue') : h # activeModal =>
           PumpCall(s[1]) \/ (ModalClose(s[1], form') /\ s[1].at = "start")
  PROVE  Dialog(t)'
<1>1. s # <<>>
  BY DEF Calls, ShapeOk
<1>2. Head(s) = s[1]
  BY <1>1, PushRest
<1>3. activeModal' = activeModal
  BY DEF modality
<1>4. PendingInv'
  BY <1>2, <1>3 DEF PendingInv, Calls
<1>5. Head(stack).k # "act"
  BY DEF Top
<1> QED
  BY <1>2, <1>4, <1>5, StackStep DEF Calls

(* Nothing waits. *)
LEMMA NoTargets ==
  ASSUME NEW q, \A j \in DOMAIN q : q[j] = Discarded
  PROVE  Targets(q) = {}
BY DEF Targets

(* The end of an event procedure or a pump. *)
LEMMA ReturnDialog ==
  ASSUME WindowsInv, CountersInv, status = "run", NEW t, Dialog(t), Return
  PROVE  Dialog(t)'
<1> DEFINE T == Targets(queue)
<1>0. /\ stack \in Seq(Call) /\ stack # <<>> /\ Top \in Call /\ Rest \in Seq(Call)
      /\ stack = Push(Top, Rest) /\ Top = stack[1]
      /\ Calls(stack, t, form, T, visible, activeModal, quit)
      /\ ~PumpCall(Top) => ~quit
      /\ \A h \in T : h # activeModal =>
              PumpCall(Top) \/ (ModalClose(Top, form) /\ Top.at = "start")
  BY RunningCall
<1>1. Top.k = "user"
  BY DEF Return, Running, Top
<1>2. ~quit /\ \A h \in T : h = activeModal
  BY <1>0, <1>1 DEF PumpCall, ModalClose
<1>3. CASE Rest = <<>>
  BY <1>3, StopDialog DEF Return
<1>4. ASSUME Rest # <<>>, Goto(Rest) PROVE Dialog(t)'
  <2>1. ~OwnsLoop(Top) /\ \A i : ~ReleasedBy(Top, i)
    BY <1>1 DEF OwnsLoop, ReleasedBy
  <2>2. Calls(Rest, t, form, T, visible, activeModal, FALSE) /\ Rest[1].k # "act"
    BY <1>0, <1>4, <2>1, CallEnds
  <2>3. /\ stack' = Rest /\ SameTable /\ UNCHANGED <<nameVar, mainHandle, mainActive>>
        /\ UNCHANGED modality /\ UNCHANGED screen /\ queue' = queue /\ quit' = FALSE
        /\ form' = form /\ visible' = visible /\ activeModal' = activeModal
    BY <1>2, <1>4, <2>1 DEF Goto, table, message, SameTable, modality, screen
  <2> QED
    BY <1>0, <1>1, <1>2, <2>2, <2>3, CallsStep
<1>5. ASSUME Rest # <<>>, Asks(Top), Goto(Tail(Rest)) PROVE Dialog(t)'
  <2>1. ~OwnsLoop(Top) /\ \A i : ~ReleasedBy(Top, i)
    BY <1>1 DEF OwnsLoop, ReleasedBy
  <2>2. Calls(Rest, t, form, T, visible, activeModal, FALSE) /\ ~Rel(Top)
    BY <1>0, <1>5, <2>1, CallEnds DEF Rel, Asks
  <2> DEFINE c == Head(Rest)
             r == Tail(Rest)
  <2>3. c \in Call /\ r \in Seq(Call) /\ Rest = Push(c, r) /\ c = Rest[1] /\ 1 \in DOMAIN Rest
    BY <1>0, <1>5, PushRest
  <2>4. c.k = "close"
    <3>1. 1 + 1 \in DOMAIN stack /\ stack[1 + 1].k = "close"
      <4>1. 1 \in DOMAIN stack
        BY <1>0, PushRest
      <4> QED
        BY <1>0, <1>5, <4>1 DEF CountersInv, StackOk
    <3>2. Push(Top, Rest)[2] = Rest[1]
      BY <1>0, <1>5, PushPlaces
    <3> QED
      BY <1>0, <2>3, <3>1, <3>2
  <2>5. c.at # "release"
    <3>1. \A d \in DOMAIN Rest : Rest[d].k = "close" /\ Rest[d].at # "ask" =>
              d = 1 /\ Rel(Top) /\ Rest[d].at = "release"
      BY <1>0, TopShape DEF Calls
    <3> QED
      BY <2>2, <2>3, <2>4, <3>1
  <2> HIDE DEF c, r
  <2>6. r # <<>> /\ PumpCall(r[1])
    BY <2>2, <2>3, <2>4, TopShape DEF Calls
  <2>7. ~OwnsLoop(c) /\ \A i : ~ReleasedBy(c, i)
    BY <2>4, <2>5 DEF OwnsLoop, ReleasedBy
  <2>8. Calls(r, t, form, T, visible, activeModal, FALSE) /\ r[1].k # "act"
    BY <2>2, <2>3, <2>6, <2>7, CallEnds
  <2>9. /\ stack' = r /\ SameTable /\ UNCHANGED <<nameVar, mainHandle, mainActive>>
        /\ UNCHANGED modality /\ UNCHANGED screen /\ queue' = queue /\ quit' = FALSE
        /\ form' = form /\ visible' = visible /\ activeModal' = activeModal
    BY <1>2, <1>5 DEF Goto, table, message, SameTable, modality, screen, r
  <2> QED
    BY <1>1, <1>2, <2>3, <2>8, <2>9, CallsStep
<1>6. Asks(Top) <=> Top.ev = "WINDOW_ONINTERACTIVECLOSE"
  BY <1>1 DEF Asks
<1> QED
  BY <1>3, <1>4, <1>5, <1>6 DEF Return

(* DO EVENTS finds nothing more. *)
LEMMA EventsDoneDialog ==
  ASSUME WindowsInv, NEW t, Dialog(t), EventsDone
  PROVE  Dialog(t)'
<1> DEFINE T == Targets(queue)
<1>0. /\ stack \in Seq(Call) /\ stack # <<>> /\ Top \in Call /\ Rest \in Seq(Call)
      /\ stack = Push(Top, Rest) /\ Top = stack[1]
      /\ Calls(stack, t, form, T, visible, activeModal, quit)
  BY RunningCall
<1>1. Top.k = "events" /\ queue = <<>> /\ ~quit /\ Goto(Rest)
  BY DEF EventsDone, Idle, Running, Top
<1>2. T = {}
  BY <1>1, NoTargets
<1>3. Rest # <<>> /\ ~OwnsLoop(Top) /\ \A i : ~ReleasedBy(Top, i)
  <2>1. Rest # <<>>
    BY <1>0, <1>1, TopShape DEF Calls
  <2> QED
    BY <1>1, <2>1 DEF OwnsLoop, ReleasedBy
<1>4. Calls(Rest, t, form, T, visible, activeModal, FALSE) /\ Rest[1].k # "act"
  BY <1>0, <1>3, CallEnds
<1>5. /\ stack' = Rest /\ SameTable /\ UNCHANGED <<nameVar, mainHandle, mainActive>>
      /\ UNCHANGED modality /\ UNCHANGED screen /\ queue' = queue /\ quit' = FALSE
      /\ form' = form /\ visible' = visible /\ activeModal' = activeModal
  BY <1>1 DEF Goto, table, message, SameTable, modality, screen
<1> QED
  BY <1>0, <1>1, <1>2, <1>4, <1>5, CallsStep

(* A pump retrieves WM_QUIT. *)
LEMMA TakeQuitDialog ==
  ASSUME WindowsInv, NEW t, Dialog(t), TakeQuit
  PROVE  Dialog(t)'
<1> DEFINE T == Targets(queue)
<1>0. /\ stack \in Seq(Call) /\ stack # <<>> /\ Top \in Call /\ Rest \in Seq(Call)
      /\ stack = Push(Top, Rest) /\ Top = stack[1]
      /\ Calls(stack, t, form, T, visible, activeModal, quit)
  BY RunningCall
<1>1. /\ Top.k = "loop" \/ Top.k = "events"
      /\ queue = <<>> /\ quit /\ quit' = FALSE
      /\ stack' = IF Top.k = "loop" THEN Rest ELSE stack
      /\ SameTable /\ UNCHANGED <<nameVar, mainHandle, mainActive>>
      /\ UNCHANGED modality /\ UNCHANGED screen /\ queue' = queue
      /\ form' = form /\ visible' = visible /\ activeModal' = activeModal
  BY DEF TakeQuit, Pumping, Running, Top, table, modality, screen, SameTable
<1>2. T = {}
  BY <1>1, NoTargets
<1>3. CASE Top.k = "loop"
  <2>1. Rest # <<>>
    BY <1>0, <1>3, TopShape DEF Calls
  <2>2. OwnsLoop(Top) /\ \A i : ~ReleasedBy(Top, i)
    BY <1>3 DEF OwnsLoop, ReleasedBy
  <2>3. ShapeOk(Rest) /\ Rest[1].k # "act"
    <3>1. Tail(stack) = Rest
      BY DEF Rest
    <3> QED
      BY <1>0, <2>1, <3>1, ShapeTail DEF Calls
  <2>4. Markers(Push(Top, Rest), t, form, TRUE)
    <3>1. quit = TRUE
      BY <1>1 DEF WindowsInv, StateInv
    <3> QED
      BY <1>0, <3>1 DEF Calls
  <2>40. t \in Seq(Slots)
    BY DEF Dialog, ChainInv, IsChain
  <2>5. Markers(Rest, t, form, FALSE)
    BY <1>0, <2>2, <2>3, <2>4, <2>40, MarkersLeave
  <2>6. ClosesOk(Rest, form) /\ TargetsOk(T, Rest, form, visible, activeModal)
    <3>1. ClosesOk(Push(Top, Rest), form) /\ TargetsOk(T, Push(Top, Rest), form, visible, activeModal)
      BY <1>0 DEF Calls
    <3> QED
      BY <1>0, <3>1, ClosesPush, TargetsPush
  <2>7. ReleasedOk(Rest, form)
    <3>1. ReleasedOk(Push(Top, Rest), form)
      BY <1>0 DEF Calls
    <3> QED
      BY <1>0, <2>2, <3>1, ReleasedTail
  <2>8. Calls(Rest, t, form, T, visible, activeModal, FALSE)
    BY <2>3, <2>5, <2>6, <2>7 DEF Calls
  <2> QED
    BY <1>0, <1>1, <1>2, <1>3, <2>3, <2>8, CallsStep
<1>4. CASE Top.k = "events"
  <2>1. Markers(stack, t, form, FALSE)
    <3>1. ~OwnsLoop(stack[1])
      BY <1>0, <1>4 DEF OwnsLoop
    <3> QED
      BY <1>0, <3>1, MarkersQuiet DEF Calls
  <2>2. Calls(stack, t, form, T, visible, activeModal, FALSE) /\ stack[1].k # "act"
    BY <1>0, <1>4, <2>1 DEF Calls
  <2> QED
    BY <1>0, <1>1, <1>2, <1>4, <2>2, CallsStep
<1> QED
  BY <1>1, <1>3, <1>4

(* The user closes a window or triggers a control while a pump is idle. *)
LEMMA IdlePush ==
  ASSUME WindowsInv, NEW t, Dialog(t), Idle, NEW f \in Call, Goto(Push(f, stack)),
         f.k \in {"user", "close"}, ~Rel(f), CloseOk(f, form),
         ModalClose(f, form) => f.at = "start" /\ t # <<>> /\ t[1] = f.i
  PROVE  Dialog(t)'
<1> DEFINE T == Targets(queue)
<1>0. /\ stack \in Seq(Call) /\ stack # <<>> /\ Top \in Call
      /\ Top = stack[1] /\ Top = Head(stack)
      /\ Calls(stack, t, form, T, visible, activeModal, quit)
  BY RunningCall
<1>1. PumpCall(Top) /\ queue = <<>> /\ quit = FALSE
  BY DEF Idle, Pumping, Running, Top, PumpCall, WindowsInv, StateInv
<1>2. T = {}
  BY <1>1, NoTargets
<1>3. t \in Seq(Slots)
  BY DEF Dialog, ChainInv, IsChain
<1>4. ~OwnsLoop(f) /\ f.k # "init" /\ f.k # "events" /\ f.k # "act"
  BY DEF OwnsLoop
<1>5. stack[1].k \notin {"act", "close", "all"} /\ ~Rel(stack[1]) /\ PumpCall(stack[1]) /\ Top.k # "act"
  BY <1>0, <1>1 DEF PumpCall, Rel
<1>6. Push(f, stack) \in Seq(Call) /\ Push(f, stack)[1] = f
  BY <1>0, PushPlaces
<1>7. Calls(Push(f, stack), t, form, T, visible, activeModal, FALSE)
  BY <1>0, <1>1, <1>2, <1>3, <1>4, <1>5, CallStarts
<1>8. /\ stack' = Push(f, stack) /\ SameTable /\ UNCHANGED <<nameVar, mainHandle, mainActive>>
      /\ UNCHANGED modality /\ UNCHANGED screen /\ queue' = queue /\ quit' = FALSE
      /\ form' = form /\ visible' = visible /\ activeModal' = activeModal
  BY <1>1 DEF Goto, table, message, SameTable, modality, screen
<1> HIDE DEF T
<1> QED
  BY <1>2, <1>4, <1>5, <1>6, <1>7, <1>8, CallsStep DEF T

(* A window that the user can reach is the active dialog, or there is none. *)
LEMMA ReachableIsTop ==
  ASSUME DialogProgram, WindowsInv, NEW t, Dialog(t), Idle, NEW i \in Slots, Reachable(i)
  PROVE  /\ form[i].name \in Modal => t # <<>> /\ t[1] = i
         /\ form[i].name \notin Modal => t = <<>> /\ form[i].handle = mainHandle
<1>1. Unf(stack) = NoName
  BY DEF Idle, Pumping, Running, Unf
<1>2. Live(i) /\ form[i].handle \in visible /\ form[i].handle \in enabled /\ form[i].name \in Names
  BY DEF Reachable, Live, WindowsInv, TableInv, FormRecord
<1>3. ChainInv(t) /\ MainLives /\ OnlyTop(t, form, enabled, mainHandle)
  BY DEF Dialog, MainInv
<1>4. ASSUME form[i].name \in Modal PROVE t # <<>> /\ t[1] = i
  <2>1. IsOpen(i, form, visible, Unf(stack))
    BY <1>1, <1>2, <1>4, WindowsAssumption DEF IsOpen
  <2>2. PICK j \in DOMAIN t : t[j] = i
    BY <1>3, <2>1 DEF ChainInv, IsChain
  <2>3. j = 1
    BY <1>2, <1>3, <2>2 DEF OnlyTop
  <2>4. t # <<>>
    BY <1>3, <2>2, ChainFacts
  <2> QED
    BY <2>2, <2>3, <2>4
<1>5. ASSUME form[i].name \notin Modal PROVE t = <<>> /\ form[i].handle = mainHandle
  <2>1. form[i].name = Main
    BY <1>2, <1>5 DEF DialogProgram
  <2>2. form[i].handle = mainHandle
    BY <1>2, <1>3, <2>1, MainWindow
  <2> QED
    BY <1>2, <1>3, <2>2 DEF OnlyTop
<1> QED
  BY <1>4, <1>5

(* Clicks, timers and focus leave the chain as it is. *)
LEMMA UserInputDialog ==
  ASSUME DialogProgram, WindowsInv, NEW t, Dialog(t), UserInput
  PROVE  Dialog(t)'
<1>1. ASSUME NEW i \in Slots, UserClose(i) PROVE Dialog(t)'
  <2> DEFINE f == Closing("start", i, form[i].handle, 0)
  <2>1. Idle /\ Reachable(i) /\ Goto(Push(f, stack))
    BY <1>1 DEF UserClose
  <2>2. form[i].handle \in Handles
    BY <2>1, LiveHandlesTyped DEF Reachable, LiveHandles, WindowsInv
  <2>3. f \in Call /\ f.k = "close" /\ f.at = "start" /\ f.i = i /\ f.h = form[i].handle
    BY <2>2, FramesTyped DEF Closing
  <2> HIDE DEF f
  <2>4. ~Rel(f) /\ CloseOk(f, form)
    BY <2>3 DEF Rel, CloseOk
  <2>5. ModalClose(f, form) => t # <<>> /\ t[1] = f.i
    BY <2>1, <2>3, ReachableIsTop DEF ModalClose
  <2> QED
    BY <2>1, <2>3, <2>4, <2>5, IdlePush
<1>2. ASSUME NEW c \in ControlIds, Idle, Goto(Push(User("CONTROL", c), stack)) PROVE Dialog(t)'
  <2> DEFINE f == User("CONTROL", c)
  <2>1. f \in Call /\ f.k = "user" /\ f.ev = "CONTROL"
    BY FramesTyped, WindowsAssumption DEF User
  <2>2. Goto(Push(f, stack))
    BY <1>2
  <2> HIDE DEF f
  <2>3. ~Rel(f) /\ CloseOk(f, form) /\ ~ModalClose(f, form)
    BY <2>1 DEF Rel, CloseOk, ModalClose
  <2> QED
    BY <1>2, <2>1, <2>2, <2>3, IdlePush
<1>3. ASSUME NEW i \in Slots, Focus(i) PROVE Dialog(t)'
  <2>1. /\ form' = form /\ nameVar' = nameVar /\ mainHandle' = mainHandle /\ mainActive' = mainActive
        /\ visible' = visible /\ enabled' = enabled /\ queue' = queue /\ quit' = quit
        /\ stack' = stack /\ modalActive' = modalActive /\ activeModal' = activeModal
        /\ userWindow' = Focused(form[i].handle, enabled)
    BY <1>3 DEF Focus, table, screen, message
  <2>2. ChainInv(t)' /\ ActInv' /\ PendingInv'
    BY <2>1 DEF Dialog, ChainInv, ActInv, PendingInv, AllDiscarded, Active, Defined
  <2>3. ~modalActive => Focused(form[i].handle, enabled) \in {NoHandle, mainHandle}
    <3>1. ~modalActive => t = <<>>
      BY DEF Dialog, ChainInv
    <3>2. t = <<>> => form[i].handle = mainHandle
      BY <1>3, ReachableIsTop DEF Focus
    <3>3. ~modalActive => userWindow \in {NoHandle, mainHandle}
      BY DEF Dialog, MainInv
    <3> QED
      BY <3>1, <3>2, <3>3 DEF Focused
  <2>4. MainInv'
    BY <2>1, <2>3 DEF Dialog, MainInv, MainLives, Live, Active, Defined
  <2> QED
    BY <2>1, <2>2, <2>4 DEF Dialog
<1> QED
  BY <1>1, <1>2, <1>3 DEF UserInput, ControlAction, TimerEvent

(* A message of the queue is delivered. *)
LEMMA DispatchDialog ==
  ASSUME DialogProgram, WindowsInv, NEW t, Dialog(t), Dispatch
  PROVE  Dialog(t)'
<1> DEFINE T == Targets(queue)
           m == Head(queue)
<1>0. /\ stack \in Seq(Call) /\ stack # <<>> /\ Top \in Call
      /\ Top = stack[1] /\ Top = Head(stack)
      /\ Calls(stack, t, form, T, visible, activeModal, quit)
  BY RunningCall
<1>1. /\ PumpCall(Top) /\ queue # <<>>
      /\ stack' = IF m = Discarded THEN stack
                  ELSE Push(Closing("start", SlotOf(m.h), m.h, m.lp), stack)
      /\ queue' = Tail(queue) /\ quit' = quit
      /\ SameTable /\ UNCHANGED <<nameVar, mainHandle, mainActive>>
      /\ UNCHANGED modality /\ UNCHANGED screen
      /\ form' = form /\ visible' = visible /\ activeModal' = activeModal
  BY DEF Dispatch, Pumping, Running, Top, PumpCall, SameTable, table, modality, screen
<1>2. t \in Seq(Slots) /\ ChainInv(t) /\ MainLives
  BY DEF Dialog, MainInv, ChainInv, IsChain
<1>3. /\ queue \in Seq(Message) /\ 1 \in DOMAIN queue /\ m = queue[1] /\ m \in Message
      /\ \A j \in DOMAIN Tail(queue) : j + 1 \in DOMAIN queue /\ Tail(queue)[j] = queue[j + 1]
  <2>1. queue \in Seq(Message)
    BY DEF WindowsInv, QueueInv
  <2>2. Len(queue) \in Nat /\ Len(queue) # 0 /\ DOMAIN queue = 1 .. Len(queue)
    BY <1>1, <2>1, LenProperties, EmptySeq
  <2>3. /\ m \in Message /\ m = queue[1] /\ Tail(queue) \in Seq(Message)
        /\ Len(Tail(queue)) = Len(queue) - 1
        /\ \A j \in 1 .. Len(Tail(queue)) : Tail(queue)[j] = queue[j + 1]
    BY <1>1, <2>1, HeadTailProperties
  <2>4. DOMAIN Tail(queue) = 1 .. Len(queue) - 1
    BY <2>3, LenProperties
  <2> QED
    BY <2>1, <2>2, <2>3, <2>4
<1> DEFINE T2 == Targets(queue')
<1>4. T2 \subseteq T
  BY <1>1, <1>3 DEF Targets
<1>5. quit' => AllDiscarded'
  <2>1. quit => AllDiscarded
    BY DEF Dialog, PendingInv
  <2> QED
    BY <1>1, <1>3, <2>1 DEF AllDiscarded
<1>6. stack[1].k \notin {"act", "close", "all"} /\ ~Rel(stack[1]) /\ PumpCall(stack[1]) /\ Top.k # "act"
  BY <1>0, <1>1 DEF PumpCall, Rel
<1>7. Calls(stack, t, form, T2, visible, activeModal, quit)
  <2>1. TargetsOk(T, stack, form, visible, activeModal) => TargetsOk(T2, stack, form, visible, activeModal)
    BY <1>4 DEF TargetsOk
  <2> QED
    BY <1>0, <2>1 DEF Calls
<1> HIDE DEF T, T2
<1>8. CASE m = Discarded
  <2>1. stack' = stack
    BY <1>1, <1>8
  <2> QED
    BY <1>0, <1>1, <1>5, <1>6, <1>7, <2>1, CallsStep DEF T2
<1>9. CASE m # Discarded
  <2> DEFINE i == SlotOf(m.h)
             f == Closing("start", i, m.h, m.lp)
  <2>1. quit = FALSE
    <3>1. quit => m = Discarded
      BY <1>3 DEF Dialog, PendingInv, AllDiscarded
    <3> QED
      BY <1>9, <3>1 DEF WindowsInv, StateInv
  <2>2. m.h \in T /\ m.h \in LiveHandles
    BY <1>3, <1>9 DEF T, Targets, WindowsInv, QueueInv
  <2>3. i \in Slots /\ Live(i) /\ form[i].handle = m.h /\ m.h \in Handles /\ m.lp \in {0, 1}
    BY <1>3, <2>2, SlotOfFinds, LiveHandlesTyped DEF WindowsInv, Message
  <2> HIDE DEF i
  <2>4. /\ f \in Call /\ f.k = "close" /\ f.at = "start" /\ f.i = i /\ f.h = m.h
    BY <2>3, FramesTyped DEF Closing
  <2>5. stack' = Push(f, stack)
    BY <1>1, <1>9 DEF i
  <2> HIDE DEF f
  <2>6. ~Rel(f) /\ CloseOk(f, form) /\ ~OwnsLoop(f)
    BY <2>3, <2>4 DEF Rel, CloseOk, OwnsLoop
  <2>7. /\ form[i].name \in Modal
        /\ form[i].name \in Manual \/ (t # <<>> /\ t[1] = i)
    <3>1. CASE m.h = activeModal
      <4>1. t # <<>> /\ t[1] = i
        BY <1>2, <2>3, <3>1, ActiveIsTop
      <4>2. form[i].name \in Modal
        BY <1>2, <4>1, ChainFacts
      <4> QED
        BY <4>1, <4>2
    <3>2. ASSUME NEW x \in Slots, form[x].handle = m.h, form[x].name \in Manual
          PROVE  form[i].name \in Modal /\ form[i].name \in Manual
      <4>1. Live(x)
        BY <3>2, WindowsAssumption DEF Live
      <4>2. x = i
        BY <2>3, <3>2, <4>1 DEF WindowsInv, TableInv, HandlesMatch
      <4>3. Manual \subseteq Modal
        BY WindowsAssumption DEF DialogProgram
      <4> QED
        BY <3>2, <4>2, <4>3
    <3> QED
      BY <1>0, <2>2, <3>1, <3>2 DEF Calls, TargetsOk
  <2>8. ModalClose(f, form) /\ \A h \in T2 : h = f.h
    BY <1>0, <1>4, <2>2, <2>4, <2>7 DEF ModalClose, Calls, TargetsOk
  <2>9. Push(f, stack) \in Seq(Call) /\ Push(f, stack)[1] = f
    BY <1>0, <2>4, PushPlaces
  <2>90. ModalClose(f, form) => \/ f.at = "start" /\ form[f.i].name \in Manual
                                \/ t # <<>> /\ t[1] = f.i
    BY <2>4, <2>7
  <2>91. f.k \notin {"init", "events"} /\ (f.k = "close" => PumpCall(stack[1]))
    BY <1>6, <2>4
  <2>92. Calls(stack, t, form, T2, visible, activeModal, FALSE)
    BY <1>7, <2>1
  <2>10. Calls(Push(f, stack), t, form, T2, visible, activeModal, FALSE)
    BY <1>0, <1>2, <1>6, <2>4, <2>6, <2>8, <2>90, <2>91, <2>92, CallStarts
  <2>11. f.k # "act" /\ quit' = FALSE
    BY <1>1, <2>1, <2>4
  <2> QED
    BY <1>1, <1>6, <2>4, <2>5, <2>8, <2>9, <2>10, <2>11, CallsStep DEF T2
<1> QED
  BY <1>8, <1>9

(* A table with one more window, which is in no loop yet. *)
LEMMA MarkersDefine ==
  ASSUME NEW s \in Seq(Call), NEW t \in Seq(Slots), NEW fm, NEW fm2, NEW k \in Slots, NEW q,
         \A x \in Slots : x # k => /\ fm2[x].name = fm[x].name /\ fm2[x].loop = fm[x].loop
                                   /\ fm2[x].id = fm[x].id,
         fm2[k].loop = 0, \A j \in DOMAIN t : t[j] # k,
         \A d \in DOMAIN s : s[d].k = "close" => s[d].i # k,
         \A d \in DOMAIN s : OwnsLoop(s[d]) => s[d].g # 0,
         Markers(s, t, fm, q)
  PROVE  Markers(s, t, fm2, q)
<1>1. \A j \in DOMAIN t : t[j] \in Slots /\ t[j] # k
  BY ElementOfSeq
<1>2. \A d \in DOMAIN s : s[d] \in Call
  BY ElementOfSeq
<1>3. \A d \in DOMAIN s : s[d].k = "close" => s[d].i \in Slots /\ s[d].i # k
  BY <1>2, CallFields
<1>4. \A d \in DOMAIN s : ModalClose(s[d], fm2) <=> ModalClose(s[d], fm)
  BY <1>3 DEF ModalClose
<1>5. \A d, j : Level(s, d, t, fm2, j) <=> Level(s, d, t, fm, j)
  BY <1>1 DEF Level
<1>6. \A e : OverClose(s, e, fm2) <=> OverClose(s, e, fm)
  BY <1>4 DEF OverClose
<1>7. ASSUME NEW e \in DOMAIN s, OwnsLoop(s[e]), HasDialog(s, e, t, fm)
      PROVE  HasDialog(s, e, t, fm2)
  <2>1. PICK j \in DOMAIN t : /\ Level(s, e, t, fm, j) /\ fm[t[j]].id = 0
                              /\ \A i \in Slots : fm[i].loop = s[e].g <=> i = t[j]
    BY <1>7 DEF HasDialog
  <2>2. Level(s, e, t, fm2, j) /\ fm2[t[j]].id = 0
    BY <1>1, <1>5, <2>1
  <2>3. \A i \in Slots : fm2[i].loop = s[e].g <=> i = t[j]
    BY <1>1, <1>7, <2>1
  <2> QED
    BY <2>2, <2>3 DEF HasDialog
<1>8. ClosesMarked(s, t, fm2)
  <2> SUFFICES ASSUME NEW d \in DOMAIN s, ModalClose(s[d], fm2)
               PROVE  CloseMarked(s, d, t, fm2)
    BY DEF ClosesMarked
  <2>1. CloseMarked(s, d, t, fm)
    BY <1>4 DEF Markers, ClosesMarked
  <2>2. fm2[s[d].i].name = fm[s[d].i].name
    BY <1>3 DEF ModalClose
  <2> QED
    BY <1>5, <2>1, <2>2 DEF CloseMarked
<1>9. LoopsMarked(s, t, fm2, q)
  <2> SUFFICES ASSUME NEW e \in DOMAIN s, OwnsLoop(s[e]), OverClose(s, e, fm2)
               PROVE  IF e = 1 /\ Empty(s[e], q) THEN \A i \in Slots : fm2[i].loop # s[e].g
                      ELSE HasDialog(s, e, t, fm2)
    BY DEF LoopsMarked
  <2>1. IF e = 1 /\ Empty(s[e], q) THEN \A i \in Slots : fm[i].loop # s[e].g
        ELSE HasDialog(s, e, t, fm)
    BY <1>6 DEF Markers, LoopsMarked
  <2>2. s[e].g # 0
    OBVIOUS
  <2> QED
    BY <1>7, <2>1, <2>2
<1> QED
  BY <1>8, <1>9 DEF Markers

(* The loops of the calls have numbers. *)
LEMMA LoopsPositive ==
  ASSUME CountersInv, status = "run"
  PROVE  /\ \A d \in DOMAIN stack : OwnsLoop(stack[d]) => stack[d].g # 0
         /\ StackOk(stack)
BY DEF CountersInv, StackOk, CallOk

(* DEFINE WINDOW *)
LEMMA DefineDialog ==
  ASSUME DialogProgram, WindowsInv, CountersInv, status = "run", NEW t, Dialog(t),
         NEW n \in Names, Define(n)
  PROVE  Dialog(t)'
<1>0. /\ stack \in Seq(Call) /\ stack # <<>> /\ Top = stack[1] /\ Top = Head(stack)
  BY RunningCall
<1> DEFINE p == IF n \in Modal THEN mainHandle ELSE NoHandle
<1>1. PICK k \in Slots, h \in Handles \ LiveHandles :
        /\ FreeSlot(k)
        /\ form' = [form EXCEPT ![k] = [NoForm EXCEPT !.name = n, !.handle = h, !.parent = p]]
        /\ nameVar' = [nameVar EXCEPT ![n] = k]
        /\ enabled' = enabled \cup {h}
        /\ mainHandle' = IF n = Main THEN h ELSE mainHandle
  BY DEF Define
<1> DEFINE v == [NoForm EXCEPT !.name = n, !.handle = h, !.parent = p]
<1>2. /\ v.name = n /\ v.handle = h /\ v.active = FALSE /\ v.parent = p
      /\ v.id = 0 /\ v.loop = 0 /\ v.released = 0
  BY DEF NoForm
<1> HIDE DEF p
<1>3. form' = [form EXCEPT ![k] = v]
  BY <1>1
<1> HIDE DEF v
<1>4. /\ \A x \in Slots : form'[x] = IF x = k THEN v ELSE form[x]
      /\ \A m \in Names : nameVar'[m] = IF m = n THEN k ELSE nameVar[m]
  BY <1>1, <1>3 DEF WindowsInv, TableInv
<1>5. /\ Top.k = "user" /\ ~Defined(n)
      /\ IF n = Main THEN \A i \in Slots : form[i].name # Main
                     ELSE \E i \in Slots : form[i].name = Main
      /\ mainActive' = mainActive /\ modalActive' = modalActive /\ activeModal' = activeModal
      /\ userWindow' = userWindow /\ visible' = visible /\ queue' = queue /\ quit' = quit
      /\ stack' = stack
  BY DEF Define, Running, Top, modality, message
<1>6. ~Live(k) /\ h \notin visible /\ h \notin enabled /\ h # NoHandle
  BY <1>1, WindowsAssumption DEF FreeSlot, WindowsInv, ScreenInv
<1>7. /\ ChainInv(t) /\ MainLives /\ MainInv /\ OnlyTop(t, form, enabled, mainHandle)
      /\ Unf(stack) = NoName
  BY <1>0, <1>5 DEF Dialog, MainInv, Unf
<1>8. /\ t \in Seq(Slots) /\ Len(t) \in Nat /\ DOMAIN t = 1 .. Len(t)
      /\ t # <<>> => 1 \in DOMAIN t
      /\ \A j \in DOMAIN t : /\ t[j] \in Slots /\ Live(t[j]) /\ t[j] # k
                             /\ form[t[j]].handle \in LiveHandles
  BY <1>6, <1>7, ChainFacts
<1>9. ASSUME NEW x \in Slots, Live(x)
      PROVE  mainHandle' = mainHandle /\ mainHandle \in LiveHandles /\ n # Main
  <2>1. PICK m \in Slots : form[m].name = Main /\ mainHandle \in LiveHandles
    BY <1>7, <1>9, MainWindow
  <2> QED
    BY <1>1, <1>5, <2>1
<1>10. IsChain(t, form', visible', mainHandle', NoName)
  <2>1. IsChain(t, form, visible, mainHandle, NoName)
    BY <1>7 DEF ChainInv
  <2>2. ASSUME NEW i \in Slots
        PROVE  IsOpen(i, form', visible', NoName) <=> IsOpen(i, form, visible, NoName)
    <3>1. CASE i = k
      <4>1. ~IsOpen(k, form', visible', NoName)
        BY <1>2, <1>4, <1>5, <1>6 DEF IsOpen
      <4>2. ~IsOpen(k, form, visible, NoName)
        BY <1>6, WindowsAssumption DEF IsOpen, Live
      <4> QED
        BY <3>1, <4>1, <4>2
    <3>2. CASE i # k
      BY <1>4, <1>5, <3>2 DEF IsOpen
    <3> QED
      BY <3>1, <3>2
  <2>3. ASSUME NEW j \in DOMAIN t
        PROVE  form'[t[j]].parent = IF j = Len(t) THEN mainHandle' ELSE form'[t[j + 1]].handle
    <3>1. form[t[j]].parent = IF j = Len(t) THEN mainHandle ELSE form[t[j + 1]].handle
      BY <2>1 DEF IsChain
    <3>2. j # Len(t) => j + 1 \in DOMAIN t
      BY <1>8
    <3>3. mainHandle' = mainHandle
      BY <1>8, <1>9
    <3>4. j # Len(t) => form'[t[j + 1]].handle = form[t[j + 1]].handle
      BY <1>4, <1>8, <3>2
    <3>5. form'[t[j]].parent = form[t[j]].parent
      BY <1>4, <1>8
    <3> QED
      BY <3>1, <3>3, <3>4, <3>5
  <2> QED
    BY <2>1, <2>2, <2>3 DEF IsChain
<1>11. ChainInv(t)'
  <2>1. TopOf(t, form') = TopOf(t, form)
    BY <1>4, <1>8 DEF TopOf
  <2> QED
    BY <1>5, <1>7, <1>10, <2>1 DEF ChainInv
<1>12. OnlyTop(t, form', enabled', mainHandle')
  <2>1. \A j \in DOMAIN t : form'[t[j]].handle = form[t[j]].handle /\ form[t[j]].handle # h
    BY <1>4, <1>8
  <2>2. t # <<>> => mainHandle' = mainHandle /\ mainHandle # h
    BY <1>8, <1>9
  <2> QED
    BY <1>1, <1>7, <2>1, <2>2 DEF OnlyTop
<1>13. MainInv'
  <2>1. MainLives'
    <3>1. CASE n = Main
      <4>1. form'[k].name = Main /\ form'[k].handle = mainHandle' /\ form'[k].parent = NoHandle
        BY <1>1, <1>2, <1>4, <3>1, WindowsAssumption DEF p
      <4> QED
        BY <4>1 DEF MainLives
    <3>2. CASE n # Main
      <4>1. PICK m \in Slots : form[m].name = Main
        BY <1>5, <3>2
      <4>2. Live(m)
        BY <4>1, WindowsAssumption DEF Live
      <4>3. form[m].handle = mainHandle /\ form[m].parent = NoHandle /\ m # k
        BY <1>6, <1>7, <4>1, <4>2, MainWindow
      <4> QED
        BY <1>1, <1>4, <3>2, <4>1, <4>3 DEF MainLives
    <3> QED
      BY <3>1, <3>2
  <2>2. \A i \in Slots : form'[i].active => mainActive'
    BY <1>2, <1>4, <1>5, <1>7 DEF MainInv
  <2>3. ASSUME mainActive' PROVE Active(Main)'
    <3>1. Active(Main)
      BY <1>0, <1>5, <1>7, <2>3 DEF MainInv
    <3>2. Main # n /\ nameVar[Main] \in Slots /\ Live(nameVar[Main])
      BY <1>5, <3>1, DefinedIsLive, WindowsAssumption DEF Active, WindowsInv
    <3>3. nameVar'[Main] = nameVar[Main] /\ form'[nameVar[Main]] = form[nameVar[Main]]
      BY <1>4, <1>6, <3>2, WindowsAssumption
    <3> QED
      BY <3>1, <3>3 DEF Active, Defined
  <2>4. \A i \in Slots : form'[i].handle \in visible' => form'[i].active
    BY <1>2, <1>4, <1>5, <1>6, <1>7 DEF MainInv
  <2>5. ~modalActive' => userWindow' \in {NoHandle, mainHandle'}
    <3>1. ~modalActive => userWindow \in {NoHandle, mainHandle}
      BY <1>7 DEF MainInv
    <3>2. mainHandle' = mainHandle \/ mainHandle = NoHandle
      BY <1>1, <1>5, <1>7 DEF MainLives
    <3> QED
      BY <1>5, <3>1, <3>2
  <2> QED
    BY <2>1, <2>2, <2>3, <2>4, <2>5 DEF MainInv
<1>14. \A d \in DOMAIN stack : stack[d].k = "close" => stack[d].i \in Slots /\ stack[d].i # k
  <2> TAKE d \in DOMAIN stack
  <2> HAVE stack[d].k = "close"
  <2>1. form[stack[d].i].handle = stack[d].h
    BY DEF Dialog, ClosesOk, CloseOk
  <2>2. stack[d].i \in Slots /\ stack[d].h \in Handles
    BY <1>0, ElementOfSeq, CallFields
  <2>3. form[k].handle = NoHandle
    BY <1>6 DEF WindowsInv, TableInv, NamesMatch
  <2> QED
    BY <2>1, <2>2, <2>3, WindowsAssumption
<1>15. ClosesOk(stack, form')
  BY <1>4, <1>14 DEF Dialog, ClosesOk, CloseOk
<1>16. PendingInv'
  <2>1. \A d \in DOMAIN stack : ModalClose(stack[d], form') <=> ModalClose(stack[d], form)
    BY <1>4, <1>14 DEF ModalClose
  <2>2. ASSUME NEW i \in Slots, form[i].name \in Manual
        PROVE  form'[i] = form[i]
    BY <1>4, <1>6, <2>2, WindowsAssumption DEF Live
  <2>3. TargetsOk(Targets(queue), stack, form', visible, activeModal)
    <3>1. TargetsOk(Targets(queue), stack, form, visible, activeModal)
      BY DEF Dialog, PendingInv
    <3> QED
      BY <2>1, <2>2, <3>1 DEF TargetsOk
  <2>4. quit => PumpCall(Head(stack)) /\ AllDiscarded
    BY DEF Dialog, PendingInv
  <2>5. \A h2 \in Targets(queue) : h2 = activeModal
    <3>1. ~PumpCall(Head(stack)) /\ ~ModalClose(Head(stack), form)
      BY <1>0, <1>5 DEF PumpCall, ModalClose
    <3> QED
      BY <3>1 DEF Dialog, PendingInv
  <2> QED
    BY <1>5, <2>3, <2>4, <2>5 DEF PendingInv, AllDiscarded
<1>17. Markers(stack, t, form', quit)
  <2>1. Markers(stack, t, form, quit)
    BY DEF Dialog
  <2>2. \A x \in Slots : x # k => /\ form'[x].name = form[x].name /\ form'[x].loop = form[x].loop
                                  /\ form'[x].id = form[x].id
    BY <1>4
  <2>3. form'[k].loop = 0
    BY <1>2, <1>4
  <2> QED
    BY <1>0, <1>8, <1>14, <2>1, <2>2, <2>3, LoopsPositive, MarkersDefine
<1>18. ReleasedOk(stack, form')
  BY <1>2, <1>4 DEF Dialog, ReleasedOk
<1>19. ActInv'
  BY <1>0, <1>5 DEF ActInv
<1> QED
  BY <1>5, <1>11, <1>12, <1>13, <1>15, <1>16, <1>17, <1>18, <1>19 DEF Dialog

-----------------------------------------------------------------------------
(* RELEASE WINDOW and ReleaseAllWindows. *)

(* The calls, for a table with the same windows in the same loops. *)
LEMMA CallsSame ==
  ASSUME NEW s \in Seq(Call), NEW t \in Seq(Slots), NEW fm, NEW fm2, NEW T, NEW vis, NEW am, NEW q,
         \A i \in Slots : /\ fm2[i].name = fm[i].name /\ fm2[i].handle = fm[i].handle
                          /\ fm2[i].loop = fm[i].loop /\ fm2[i].id = fm[i].id,
         Calls(s, t, fm, T, vis, am, q), ReleasedOk(s, fm2)
  PROVE  /\ Calls(s, t, fm2, T, vis, am, q)
         /\ \A d \in DOMAIN s : ModalClose(s[d], fm2) <=> ModalClose(s[d], fm)
<1>1. \A d \in DOMAIN s : s[d].k = "close" => s[d].i \in Slots
  BY ElementOfSeq, CallFields
<1>2. \A d \in DOMAIN s : ModalClose(s[d], fm2) <=> ModalClose(s[d], fm)
  BY <1>1 DEF ModalClose
<1>3. ClosesOk(s, fm2)
  BY <1>1 DEF Calls, ClosesOk, CloseOk
<1>4. TargetsOk(T, s, fm2, vis, am)
  BY <1>2 DEF Calls, TargetsOk
<1>5. Markers(s, t, fm2, q)
  BY MarkersSame DEF Calls
<1> QED
  BY <1>2, <1>3, <1>4, <1>5 DEF Calls

(* A window of which no release is under way was not released before. *)
LEMMA NotReleased ==
  ASSUME NEW r \in Seq(Call), NEW f \in Call, NEW fm, ShapeOk(Push(f, r)),
         ReleasedOk(Push(f, r), fm), ~Rel(f), NEW i \in Slots, ~ReleasedBy(f, i)
  PROVE  fm[i].released = 0
<1> DEFINE p == Push(f, r)
<1>1. \A d \in DOMAIN p : \/ d = 1 /\ p[d] = f
                          \/ \E c \in DOMAIN r : d = c + 1 /\ p[d] = r[c]
  BY PushPlaces
<1>2. ReleasedOk(p, fm)
  OBVIOUS
<1>3. \A d \in DOMAIN r : r[d].k # "all" /\ (r[d].k = "close" => r[d].at = "ask")
  BY TopShape
<1> HIDE DEF p
<1>4. \A d \in DOMAIN r : ~ReleasedBy(r[d], i)
  BY <1>3 DEF ReleasedBy
<1> QED
  BY <1>1, <1>2, <1>4 DEF ReleasedOk

(* An ON RELEASE procedure starts. *)
LEMMA CallOnReleaseDialog ==
  ASSUME WindowsInv, NEW t, Dialog(t), Top.k # "act", ~quit, NEW i \in Slots,
         NEW s \in Seq(Call), CallOnRelease(i, s), form[i].released = 0,
         Calls(s, t, form, Targets(queue), visible, activeModal, FALSE),
         s[1].k = "all" \/ (s[1].k = "close" /\ s[1].at = "release"), ReleasedBy(s[1], i),
         \A h \in Targets(queue) : h = activeModal
  PROVE  Dialog(t)'
<1> DEFINE f == User("WINDOW_RELEASE", i)
           v == [form[i] EXCEPT !.released = @ + 1]
<1>1. /\ form' = [form EXCEPT ![i] = v] /\ stack' = Push(f, s)
      /\ UNCHANGED <<nameVar, mainHandle, mainActive>> /\ UNCHANGED modality
      /\ UNCHANGED screen /\ queue' = queue /\ quit' = quit
  BY DEF CallOnRelease, message
<1>2. /\ v.name = form[i].name /\ v.handle = form[i].handle /\ v.active = form[i].active
      /\ v.parent = form[i].parent /\ v.id = form[i].id /\ v.loop = form[i].loop
      /\ v.released = 1
  BY DEF WindowsInv, TableInv, FormRecord
<1> HIDE DEF v
<1>3. \A j \in Slots : form'[j] = IF j = i THEN v ELSE form[j]
  BY <1>1 DEF WindowsInv, TableInv
<1>4. SameTable
  BY <1>2, <1>3 DEF SameTable
<1>5. f \in Call /\ f.k = "user" /\ Rel(f)
  BY FramesTyped, SlotsAreNumbers DEF User, Rel
<1> HIDE DEF f
<1>6. t \in Seq(Slots)
  BY DEF Dialog, ChainInv, IsChain
<1>7. s # <<>> /\ 1 \in DOMAIN s
  <2>1. s # <<>>
    BY DEF Calls, ShapeOk
  <2> QED
    BY <2>1, PushRest
<1>8. ReleasedOk(s, form')
  BY <1>2, <1>3, <1>7 DEF Calls, ReleasedOk
<1>9. Calls(s, t, form', Targets(queue), visible, activeModal, FALSE)
  <2>1. \A j \in Slots : /\ form'[j].name = form[j].name /\ form'[j].handle = form[j].handle
                         /\ form'[j].loop = form[j].loop /\ form'[j].id = form[j].id
    BY <1>4 DEF SameTable
  <2> DEFINE q == FALSE
  <2>2. Calls(s, t, form, Targets(queue), visible, activeModal, q)
    OBVIOUS
  <2> HIDE DEF q
  <2>3. Calls(s, t, form', Targets(queue), visible, activeModal, q)
    BY <1>6, <1>8, <2>1, <2>2, CallsSame
  <2> QED
    BY <2>3 DEF q
<1>10. Calls(Push(f, s), t, form', Targets(queue), visible, activeModal, FALSE)
  BY <1>5, <1>6, <1>9, CallBack
<1>11. Push(f, s) \in Seq(Call) /\ Push(f, s)[1] = f
  BY <1>5, PushPlaces
<1>12. quit' = FALSE /\ visible' = visible /\ activeModal' = activeModal
  BY <1>1 DEF WindowsInv, StateInv, screen, modality
<1> QED
  BY <1>1, <1>4, <1>5, <1>10, <1>11, <1>12, CallsStep

(* The loop of ReleaseAllWindows. *)
LEMMA ReleaseAllStepDialog ==
  ASSUME WindowsInv, NEW t, Dialog(t), ReleaseAllStep
  PROVE  Dialog(t)'
<1> DEFINE T == Targets(queue)
<1>0. /\ stack \in Seq(Call) /\ stack # <<>> /\ Top \in Call /\ Rest \in Seq(Call)
      /\ stack = Push(Top, Rest) /\ Top = stack[1]
      /\ Calls(stack, t, form, T, visible, activeModal, quit)
      /\ ~PumpCall(Top) => ~quit
      /\ \A h \in T : h # activeModal =>
              PumpCall(Top) \/ (ModalClose(Top, form) /\ Top.at = "start")
  BY RunningCall
<1>1. Top.k = "all" /\ Top.i \in Nat
  BY <1>0, CallFields DEF ReleaseAllStep, Running, Top
<1>2. ~quit /\ \A h \in T : h = activeModal
  BY <1>0, <1>1 DEF PumpCall, ModalClose
<1> DEFINE f == ReleasingAll(Top.i + 1)
           s == Push(f, Rest)
<1>3. f \in Call /\ f.k = "all" /\ f.i = Top.i + 1
  BY <1>1, FramesTyped DEF ReleasingAll
<1>4. ReleaseAllStep => \/ UNCHANGED <<table, modality, counter, screen, message, stack>>
                        \/ Top.i \in Slots /\ CallOnRelease(Top.i, s)
                        \/ Goto(s)
  BY DEF ReleaseAllStep
<1> HIDE DEF f
<1>5. t \in Seq(Slots) /\ quit = FALSE
  BY <1>2 DEF Dialog, ChainInv, IsChain, WindowsInv, StateInv
<1>6. ~Rel(Top) /\ ~OwnsLoop(Top) /\ ~Rel(f) /\ ~OwnsLoop(f) /\ ~ModalClose(f, form)
      /\ CloseOk(f, form) /\ f.k \notin {"user", "init", "close", "events"}
  BY <1>1, <1>3 DEF Rel, OwnsLoop, ModalClose, CloseOk
<1>7. Calls(Push(Top, Rest), t, form, T, visible, activeModal, FALSE)
  BY <1>0, <1>5
<1>8. /\ Rest # <<>>
      /\ \A d \in DOMAIN Rest : Rest[d].k # "all" /\ (Rest[d].k = "close" => Rest[d].at = "ask")
  BY <1>0, <1>1, <1>6, <1>7, TopShape DEF Calls
<1>9. ShapeOk(s) /\ Rest[1].k # "act" /\ 1 \in DOMAIN Rest
  <2>1. ShapeOk(s)
    BY <1>0, <1>1, <1>3, <1>6, <1>7, ShapeSwap DEF Calls
  <2>2. Tail(s) = Rest /\ s \in Seq(Call) /\ 1 \in DOMAIN Rest
    BY <1>0, <1>3, <1>8, PushPlaces
  <2> HIDE DEF s
  <2> QED
    BY <1>8, <2>1, <2>2, ShapeTail
<1>10. ClosesOk(s, form) /\ TargetsOk(T, s, form, visible, activeModal)
  BY <1>0, <1>3, <1>6, <1>7, ClosesPush, TargetsPush DEF Calls
<1>11. Markers(s, t, form, FALSE)
  <2>1. Markers(Rest, t, form, FALSE)
    BY <1>0, <1>6, <1>7, <1>9, MarkersTail DEF Calls
  <2>2. Rest[1].k = "close" => Rest[1].at # "start"
    BY <1>8, <1>9
  <2> QED
    BY <1>0, <1>3, <1>5, <1>6, <1>9, <2>1, <2>2, MarkersPush
<1>12. ReleasedOk(s, form)
  <2>1. \A i \in Slots : form[i].released # 0 => i < Top.i
    <3> TAKE i \in Slots
    <3>1. ~ReleasedBy(Top, i) => form[i].released = 0
      BY <1>0, <1>6, <1>7, NotReleased DEF Calls
    <3>2. ReleasedBy(Top, i) => i < Top.i
      BY <1>1 DEF ReleasedBy
    <3> QED
      BY <3>1, <3>2
  <2>2. 1 \in DOMAIN s /\ s[1] = f
    BY <1>0, <1>3, PushPlaces
  <2>3. \A i \in Slots : i < Top.i => ReleasedBy(f, i)
    BY <1>1, <1>3, SlotsAreNumbers DEF ReleasedBy
  <2>4. ReleasedOk(stack, form)
    BY <1>0 DEF Calls
  <2> HIDE DEF s
  <2> QED
    BY <2>1, <2>2, <2>3, <2>4 DEF ReleasedOk
<1>13. Calls(s, t, form, T, visible, activeModal, FALSE)
  BY <1>9, <1>10, <1>11, <1>12 DEF Calls
<1>14. s \in Seq(Call) /\ s[1] = f
  BY <1>0, <1>3, PushPlaces
<1> HIDE DEF s
<1>15. CASE UNCHANGED <<table, modality, counter, screen, message, stack>>
  BY <1>15, StopDialog
<1>16. CASE Top.i \in Slots /\ CallOnRelease(Top.i, s)
  <2>1. ~ReleasedBy(Top, Top.i)
    BY <1>1 DEF ReleasedBy
  <2>2. form[Top.i].released = 0
    BY <1>0, <1>6, <1>7, <1>16, <2>1, NotReleased DEF Calls
  <2>3. ReleasedBy(s[1], Top.i) /\ s[1].k = "all" /\ Top.k # "act"
    BY <1>1, <1>3, <1>14 DEF ReleasedBy
  <2> QED
    BY <1>2, <1>13, <1>14, <1>16, <2>2, <2>3, CallOnReleaseDialog
<1>17. CASE Goto(s)
  <2>1. /\ stack' = s /\ SameTable /\ UNCHANGED <<nameVar, mainHandle, mainActive>>
        /\ UNCHANGED modality /\ UNCHANGED screen /\ queue' = queue /\ quit' = FALSE
        /\ form' = form /\ visible' = visible /\ activeModal' = activeModal
    BY <1>5, <1>17 DEF Goto, table, message, SameTable, modality, screen
  <2>2. Top.k # "act" /\ s[1].k # "act"
    BY <1>1, <1>3, <1>14
  <2> QED
    BY <1>2, <1>13, <1>14, <2>1, <2>2, CallsStep
<1> QED
  BY <1>4, <1>15, <1>16, <1>17

(* The slot of a defined window, and the active dialog by its name. *)
LEMMA DefinedDialog ==
  ASSUME WindowsInv, NEW t, ChainInv(t), MainLives, NEW n \in Names, Defined(n)
  PROVE  /\ nameVar[n] \in Slots /\ Live(nameVar[n]) /\ form[nameVar[n]].name = n
         /\ form[nameVar[n]].handle \in LiveHandles /\ form[nameVar[n]].handle # NoHandle
         /\ \A x \in Slots : form[x].handle = form[nameVar[n]].handle => x = nameVar[n]
         /\ activeModal = form[nameVar[n]].handle => t # <<>> /\ t[1] = nameVar[n]
<1> DEFINE i == nameVar[n]
<1>1. /\ i \in Slots /\ Live(i) /\ form[i].handle \in LiveHandles /\ form[i].handle \in Handles
  BY DefinedIsLive DEF WindowsInv
<1>2. form[i].name = n
  BY DEF WindowsInv, TableInv, NamesMatch
<1> HIDE DEF i
<1>3. form[i].handle # NoHandle
  BY <1>1, WindowsAssumption
<1>4. \A x \in Slots : form[x].handle = form[i].handle => x = i
  BY <1>1, <1>3 DEF WindowsInv, TableInv, NamesMatch, HandlesMatch
<1>5. activeModal = form[i].handle => t # <<>> /\ t[1] = i
  BY <1>1, ActiveIsTop
<1> QED
  BY <1>1, <1>2, <1>3, <1>4, <1>5 DEF i

(* A handler of WM_CLOSE below the running ON RELEASE procedure, if it     *)
(* closes a dialog, closes the active one.                                 *)
LEMMA ReleasesTop ==
  ASSUME NEW s \in Seq(Call), NEW t \in Seq(Slots), NEW fm, NEW q, ShapeOk(s), ClosesOk(s, fm),
         Markers(s, t, fm, q), s[1].k = "user",
         NEW d \in DOMAIN s, ModalClose(s[d], fm), s[d].at # "ask"
  PROVE  t # <<>> /\ s[d].h = fm[t[1]].handle
<1>1. s[d].k = "close" /\ s[d].at \in {"start", "release"}
  <2>1. s[d] \in Call /\ s[d].k = "close"
    BY ElementOfSeq DEF ModalClose
  <2> QED
    BY <2>1 DEF Call
<1>2. d = 2
  BY <1>1 DEF ShapeOk
<1>3. CloseMarked(s, d, t, fm)
  BY DEF Markers, ClosesMarked
<1>4. PICK j \in DOMAIN t : t[j] = s[d].i /\ Level(s, d, t, fm, j)
  BY <1>2, <1>3 DEF CloseMarked
<1>5. Len(t) \in Nat /\ DOMAIN t = 1 .. Len(t)
  BY LenProperties
<1>6. Above(s, d) = {}
  <2>1. DOMAIN s = 1 .. Len(s) /\ Len(s) \in Nat
    BY LenProperties
  <2>2. \A e \in DOMAIN s : e < d => e = 1
    BY <1>2, <2>1
  <2>3. ~OwnsLoop(s[1])
    BY DEF OwnsLoop
  <2> QED
    BY <2>2, <2>3 DEF Above
<1>7. j = 1
  <2>1. 1 \in DOMAIN t
    BY <1>5
  <2>2. ~(1 < j)
    BY <1>4, <1>6, <2>1 DEF Level
  <2> QED
    BY <1>5, <2>2
<1>8. fm[t[1]].handle = s[d].h
  BY <1>1, <1>4, <1>7 DEF ClosesOk, CloseOk
<1>9. t # <<>>
  BY <1>4, EmptySeq
<1> QED
  BY <1>8, <1>9

(* RELEASE WINDOW *)
LEMMA ReleaseDialog ==
  ASSUME DialogProgram, WindowsInv, NEW t, Dialog(t), NEW n \in Names, Release(n)
  PROVE  Dialog(t)'
<1> DEFINE T == Targets(queue)
           i == nameVar[n]
           h == form[i].handle
<1>0. /\ stack \in Seq(Call) /\ stack # <<>> /\ Top \in Call /\ Rest \in Seq(Call)
      /\ stack = Push(Top, Rest) /\ Top = stack[1] /\ Top = Head(stack)
      /\ Calls(stack, t, form, T, visible, activeModal, quit)
      /\ ~PumpCall(Top) => ~quit
      /\ \A k \in T : k # activeModal =>
              PumpCall(Top) \/ (ModalClose(Top, form) /\ Top.at = "start")
  BY RunningCall
<1>1. Top.k = "user"
  BY DEF Release, InUserCode, Running, Top
<1>2. quit = FALSE /\ \A k \in T : k = activeModal
  <2>1. ~quit
    BY <1>0, <1>1 DEF PumpCall
  <2> QED
    BY <1>0, <1>1, <2>1 DEF PumpCall, ModalClose, WindowsInv, StateInv
<1>3. ChainInv(t) /\ MainLives /\ MainInv /\ OnlyTop(t, form, enabled, mainHandle) /\ t \in Seq(Slots)
      /\ Unf(stack) = NoName
  BY <1>0, <1>1 DEF Dialog, MainInv, ChainInv, IsChain, Unf
<1>4. CASE Abort
  BY <1>4, StopDialog DEF Abort
<1>5. ASSUME Active(n), n = Main, ThisEventType # "WINDOW_RELEASE",
             stack' = Push(ReleasingAll(1), stack),
             UNCHANGED <<form, nameVar, mainHandle, mainActive, modality,
                         counter, screen, message, status>>
      PROVE  Dialog(t)'
  <2> DEFINE f == ReleasingAll(1)
             s == Push(f, stack)
  <2>1. f \in Call /\ f.k = "all"
    BY FramesTyped DEF ReleasingAll
  <2> HIDE DEF f
  <2>2. ~Rel(stack[1]) /\ stack[1].k \notin {"act", "close", "all"}
    BY <1>0, <1>1, <1>5, RelEventType
  <2>3. f.k \notin {"init", "events"} /\ ~OwnsLoop(f) /\ ~Rel(f) /\ CloseOk(f, form)
        /\ ~ModalClose(f, form)
    BY <2>1 DEF OwnsLoop, Rel, CloseOk, ModalClose
  <2>4. Calls(stack, t, form, T, visible, activeModal, FALSE)
    BY <1>0, <1>2
  <2>5. Calls(s, t, form, T, visible, activeModal, FALSE)
    BY <1>0, <1>3, <2>1, <2>2, <2>3, <2>4, CallStarts
  <2>6. s \in Seq(Call) /\ s[1] = f
    BY <1>0, <2>1, PushPlaces
  <2>7. /\ stack' = s /\ SameTable /\ UNCHANGED <<nameVar, mainHandle, mainActive>>
        /\ UNCHANGED modality /\ UNCHANGED screen /\ queue' = queue /\ quit' = FALSE
        /\ form' = form /\ visible' = visible /\ activeModal' = activeModal
    BY <1>2, <1>5 DEF message, SameTable, modality, screen, f
  <2> HIDE DEF s
  <2>8. Top.k # "act" /\ s[1].k # "act"
    BY <1>1, <2>1, <2>6
  <2> QED
    BY <1>2, <2>5, <2>6, <2>7, <2>8, CallsStep
<1>6. ASSUME Active(n), n # Main, CareRelease(i),
             queue' = Append(queue, [h |-> h, lp |-> 1]),
             enabled' = enabled \cup {h},
             form' = IF IsModal(i) /\ activeModal # h THEN form
                     ELSE [x \in Slots |->
                            IF form[x].parent = h
                              THEN [form[x] EXCEPT !.parent = mainHandle]
                              ELSE form[x]],
             UNCHANGED <<nameVar, mainHandle, mainActive, interactiveClose,
                         modality, counter, visible, quit, stack, status>>
      PROVE  Dialog(t)'
  <2>1. /\ i \in Slots /\ Live(i) /\ form[i].name = n /\ h \in LiveHandles /\ h # NoHandle
        /\ \A x \in Slots : form[x].handle = h => x = i
        /\ activeModal = h => t # <<>> /\ t[1] = i
    BY <1>3, <1>6, DefinedDialog DEF Active
  <2>2. n \in Modal /\ Careful
    BY <1>6 DEF DialogProgram
  <2>3. activeModal = h /\ t # <<>> /\ t[1] = i
    BY <1>6, <2>1, <2>2 DEF CareRelease, IsModal
  <2> HIDE DEF i
  <2>4. /\ Len(t) \in Nat /\ DOMAIN t = 1 .. Len(t) /\ 1 \in DOMAIN t
        /\ \A j \in DOMAIN t : /\ t[j] \in Slots /\ Live(t[j])
                               /\ form[t[j]].handle # mainHandle
                               /\ \A x \in Slots : form[x].handle = form[t[j]].handle => x = t[j]
    BY <1>3, <2>3, ChainFacts
  <2>5. h # mainHandle
    BY <2>3, <2>4
  <2>6. form' = [x \in Slots |-> IF form[x].parent = h
                                   THEN [form[x] EXCEPT !.parent = mainHandle]
                                   ELSE form[x]]
    BY <1>6, <2>3
  <2> HIDE DEF h
  <2>7. \A x \in Slots : /\ form'[x].name = form[x].name /\ form'[x].handle = form[x].handle
                         /\ form'[x].active = form[x].active /\ form'[x].id = form[x].id
                         /\ form'[x].loop = form[x].loop /\ form'[x].released = form[x].released
                         /\ form[x].parent # h => form'[x].parent = form[x].parent
    <3> TAKE x \in Slots
    <3> DEFINE v == [form[x] EXCEPT !.parent = mainHandle]
    <3>1. /\ v.name = form[x].name /\ v.handle = form[x].handle /\ v.active = form[x].active
          /\ v.id = form[x].id /\ v.loop = form[x].loop /\ v.released = form[x].released
      BY DEF WindowsInv, TableInv, FormRecord
    <3>2. form'[x] = IF form[x].parent = h THEN v ELSE form[x]
      BY <2>6
    <3> HIDE DEF v
    <3> QED
      BY <3>1, <3>2
  <2>8. /\ nameVar' = nameVar /\ mainHandle' = mainHandle /\ mainActive' = mainActive
        /\ modalActive' = modalActive /\ activeModal' = activeModal /\ userWindow' = userWindow
        /\ visible' = visible /\ quit' = quit /\ stack' = stack
    BY <1>6 DEF modality
  <2>9. \A j \in DOMAIN t : form'[t[j]].parent = form[t[j]].parent
    <3> TAKE j \in DOMAIN t
    <3>1. form[t[j]].parent = IF j = Len(t) THEN mainHandle ELSE form[t[j + 1]].handle
      BY <1>3 DEF ChainInv, IsChain
    <3>2. CASE j = Len(t)
      BY <2>4, <2>5, <2>7, <3>1, <3>2
    <3>3. CASE j # Len(t)
      <4>1. j + 1 \in DOMAIN t /\ j + 1 # 1
        BY <2>4, <3>3
      <4>2. form[t[j + 1]].handle # h
        <5>1. t[j + 1] # t[1]
          BY <1>3, <2>4, <4>1 DEF ChainInv, IsChain
        <5> QED
          BY <2>1, <2>3, <2>4, <4>1, <5>1
      <4> QED
        BY <2>4, <2>7, <3>1, <3>3, <4>2
    <3> QED
      BY <3>2, <3>3
  <2>10. IsChain(t, form', visible, mainHandle, NoName)
    <3>1. IsChain(t, form, visible, mainHandle, NoName)
      BY <1>3 DEF ChainInv
    <3>2. \A x \in Slots : IsOpen(x, form', visible, NoName) <=> IsOpen(x, form, visible, NoName)
      BY <2>7 DEF IsOpen
    <3>3. ASSUME NEW j \in DOMAIN t
          PROVE  form'[t[j]].parent = IF j = Len(t) THEN mainHandle ELSE form'[t[j + 1]].handle
      <4>1. form[t[j]].parent = IF j = Len(t) THEN mainHandle ELSE form[t[j + 1]].handle
        BY <3>1 DEF IsChain
      <4>2. j # Len(t) => j + 1 \in DOMAIN t
        BY <2>4
      <4>3. j # Len(t) => form'[t[j + 1]].handle = form[t[j + 1]].handle
        BY <2>4, <2>7, <4>2
      <4> QED
        BY <2>9, <4>1, <4>3
    <3> QED
      BY <3>1, <3>2, <3>3 DEF IsChain
  <2>11. ChainInv(t)'
    <3>1. TopOf(t, form') = TopOf(t, form)
      BY <2>4, <2>7 DEF TopOf
    <3>2. Unf(stack') = NoName
      BY <1>3, <2>8
    <3> QED
      BY <1>3, <2>8, <2>10, <3>1, <3>2 DEF ChainInv
  <2>12. OnlyTop(t, form', enabled', mainHandle')
    <3>1. \A j \in DOMAIN t : j # 1 => form[t[j]].handle # h
      <4> TAKE j \in DOMAIN t
      <4> HAVE j # 1
      <4>1. t[j] # t[1]
        BY <1>3, <2>4 DEF ChainInv, IsChain
      <4> QED
        BY <2>1, <2>3, <2>4, <4>1
    <3>2. \A j \in DOMAIN t : form'[t[j]].handle = form[t[j]].handle
      BY <2>4, <2>7
    <3>3. enabled' = enabled \cup {h}
      BY <1>6 DEF h
    <3> QED
      BY <1>3, <2>5, <2>8, <3>1, <3>2, <3>3 DEF OnlyTop
  <2>13. MainInv'
    <3>1. MainLives'
      <4>1. PICK m \in Slots : form[m].name = Main /\ form[m].handle = mainHandle
                               /\ form[m].parent = NoHandle
        BY <1>3, <2>1, MainWindow
      <4> QED
        BY <2>1, <2>7, <2>8, <4>1 DEF MainLives
    <3>2. Active(Main) => Active(Main)'
      <4>1. Defined(Main) => nameVar[Main] \in Slots
        BY WindowsAssumption DEF WindowsInv, TableInv, Defined
      <4> QED
        BY <2>7, <2>8, <4>1 DEF Active, Defined
    <3> QED
      BY <1>3, <2>7, <2>8, <3>1, <3>2 DEF MainInv
  <2>14. Calls(stack, t, form', T, visible, activeModal, quit)
    <3>1. ReleasedOk(stack, form')
      BY <1>0, <2>7 DEF Calls, ReleasedOk
    <3>2. \A j \in Slots : /\ form'[j].name = form[j].name /\ form'[j].handle = form[j].handle
                         /\ form'[j].loop = form[j].loop /\ form'[j].id = form[j].id
      BY <2>7
    <3> QED
      BY <1>0, <1>3, <3>1, <3>2, CallsSame
  <2>15. Targets(queue') \subseteq T \cup {h}
    <3>1. queue \in Seq(Message)
      BY DEF WindowsInv, QueueInv
    <3> DEFINE m == [h |-> h, lp |-> 1]
    <3>2. m \in Message /\ m.h = h /\ queue' = Append(queue, m)
      <4>1. h \in Handles
        BY <2>1, LiveHandlesTyped DEF WindowsInv
      <4> QED
        BY <1>6, <4>1 DEF Message, h
    <3> HIDE DEF m
    <3>3. /\ Len(queue) \in Nat /\ DOMAIN queue = 1 .. Len(queue)
          /\ DOMAIN queue' = 1 .. Len(queue) + 1
          /\ queue'[Len(queue) + 1] = m
          /\ \A j \in 1 .. Len(queue) : queue'[j] = queue[j]
      <4>1. Len(queue) \in Nat /\ DOMAIN queue = 1 .. Len(queue)
        BY <3>1, LenProperties
      <4>2. /\ queue' \in Seq(Message) /\ Len(queue') = Len(queue) + 1
            /\ \A j \in 1 .. Len(queue) : queue'[j] = queue[j]
            /\ queue'[Len(queue) + 1] = m
        BY <3>1, <3>2, AppendProperties
      <4>3. DOMAIN queue' = 1 .. Len(queue')
        BY <4>2, LenProperties
      <4> QED
        BY <4>1, <4>2, <4>3
    <3>4. ASSUME NEW j \in DOMAIN queue', queue'[j] # Discarded
          PROVE  queue'[j].h \in T \cup {h}
      <4>1. CASE j = Len(queue) + 1
        BY <3>2, <3>3, <4>1
      <4>2. CASE j \in 1 .. Len(queue)
        BY <3>3, <3>4, <4>2 DEF Targets
      <4> QED
        BY <3>3, <4>1, <4>2
    <3> QED
      BY <3>4 DEF Targets
  <2>16. PendingInv'
    <3>1. \A k \in Targets(queue') : k = activeModal
      BY <1>2, <2>3, <2>15
    <3>2. \A d \in DOMAIN stack : ModalClose(stack[d], form') /\ stack[d].at # "ask" =>
            stack[d].h = activeModal
      <4> TAKE d \in DOMAIN stack
      <4> HAVE ModalClose(stack[d], form') /\ stack[d].at # "ask"
      <4>1. stack[d].h = form'[t[1]].handle
        BY <1>0, <1>1, <1>3, <2>14, ReleasesTop DEF Calls
      <4> QED
        BY <2>1, <2>3, <2>7, <4>1 DEF h
    <3>3. TargetsOk(Targets(queue'), stack, form', visible, activeModal)
      BY <3>1, <3>2 DEF TargetsOk
    <3> QED
      BY <1>2, <2>8, <3>1, <3>3 DEF PendingInv
  <2>17. ActInv'
    BY <1>0, <1>1, <2>8 DEF ActInv
  <2> QED
    BY <2>8, <2>11, <2>12, <2>13, <2>14, <2>16, <2>17 DEF Dialog, Calls
<1> QED
  BY <1>4, <1>5, <1>6 DEF Release

-----------------------------------------------------------------------------
(* HIDE WINDOW *)

(* What _hmg_OnHideFocusManagement does for the active dialog: the dialog  *)
(* below it, or the main window, takes over.                               *)
LEMMA OnHideTop ==
  ASSUME WindowsInv, NEW t, ChainInv(t), MainInv, Head(stack).k # "act",
         OnlyTop(t, form, enabled, mainHandle), t # <<>>
  PROVE  /\ OnHide(t[1]).modal <=> Tail(t) # <<>>
         /\ OnHide(t[1]).top = TopOf(Tail(t), form)
         /\ OnlyTop(Tail(t), form, OnHide(t[1]).on, mainHandle)
         /\ ~OnHide(t[1]).modal => OnHide(t[1]).focus = mainHandle
         /\ Active(Main)
<1> DEFINE u == Tail(t)
           i == t[1]
           p == form[i].parent
           all == enabled \cup LiveHandles
<1>1. MainLives
  BY DEF MainInv
<1>2. /\ t \in Seq(Slots) /\ Len(t) \in Nat /\ DOMAIN t = 1 .. Len(t) /\ 1 \in DOMAIN t
      /\ \A j \in DOMAIN t :
           /\ t[j] \in Slots /\ Live(t[j]) /\ form[t[j]].name \in Modal
           /\ form[t[j]].handle # mainHandle /\ form[t[j]].handle \in visible
           /\ form[t[j]].handle # NoHandle /\ SlotOf(form[t[j]].handle) = t[j]
           /\ \A x \in Slots : form[x].handle = form[t[j]].handle => x = t[j]
  BY <1>1, ChainFacts
<1>3. Active(Main)
  <2>1. form[i].active
    BY <1>2 DEF MainInv
  <2> QED
    BY <1>2, <2>1 DEF MainInv
<1>4. PICK m \in Slots : /\ form[m].name = Main /\ form[m].handle = mainHandle /\ nameVar[Main] = m
                         /\ mainHandle \in LiveHandles /\ mainHandle # NoHandle
                         /\ SlotOf(mainHandle) = m
  BY <1>1, <1>2, MainWindow
<1>5. /\ u \in Seq(Slots) /\ Len(u) = Len(t) - 1 /\ DOMAIN u = 1 .. Len(t) - 1
      /\ \A j \in DOMAIN u : j \in Nat /\ j + 1 \in DOMAIN t /\ u[j] = t[j + 1]
  BY <1>2, OneLessDialog
<1>6. p = IF 1 = Len(t) THEN mainHandle ELSE form[t[1 + 1]].handle
  BY <1>2 DEF ChainInv, IsChain
<1> HIDE DEF u, i, p
<1>7. CASE Len(t) = 1
  <2>1. u = <<>> /\ DOMAIN u = {}
    BY <1>5, <1>7, EmptySeq
  <2>2. p # NoHandle /\ SlotOf(p) # 0 /\ ~IsModal(SlotOf(p)) /\ p = mainHandle
    BY <1>4, <1>6, <1>7, SlotsAreNumbers, WindowsAssumption DEF IsModal
  <2>3. OnHide(i) = [modal |-> FALSE, top |-> NoHandle, on |-> all, focus |-> Focused(p, all)]
    BY <2>2 DEF OnHide, p
  <2>4. Focused(mainHandle, all) = mainHandle
    BY <1>3, <1>4 DEF Focused, Active
  <2>5. OnlyTop(u, form, all, mainHandle) /\ TopOf(u, form) = NoHandle
    BY <2>1 DEF OnlyTop, TopOf
  <2> QED
    BY <1>3, <2>1, <2>2, <2>3, <2>4, <2>5 DEF i, u
<1>8. CASE Len(t) # 1
  <2>1. 2 \in DOMAIN t /\ 1 + 1 = 2 /\ 1 \in DOMAIN u /\ u[1] = t[2] /\ u # <<>> /\ 2 # 1
    <3>1. 2 \in DOMAIN t /\ 1 + 1 = 2 /\ 1 \in DOMAIN u
      BY <1>2, <1>5, <1>8
    <3>2. u[1] = t[1 + 1]
      BY <1>5, <3>1
    <3> QED
      BY <1>5, <3>1, <3>2, EmptySeq
  <2>2. p = form[t[2]].handle
    BY <1>2, <1>6, <1>8, <2>1
  <2>3. p # NoHandle /\ SlotOf(p) # 0 /\ IsModal(SlotOf(p)) /\ SlotOf(p) = t[2]
    BY <1>2, <2>1, <2>2, SlotsAreNumbers DEF IsModal
  <2>4. OnHide(i) = [modal |-> TRUE, top |-> p, on |-> enabled \cup {p},
                     focus |-> Focused(p, enabled \cup {p})]
    BY <2>3 DEF OnHide, p
  <2>5. TopOf(u, form) = p
    BY <2>1, <2>2 DEF TopOf
  <2>6. OnlyTop(u, form, enabled \cup {p}, mainHandle)
    <3>1. mainHandle \notin enabled \cup {p}
      BY <1>2, <2>1, <2>2 DEF OnlyTop
    <3>2. ASSUME NEW j \in DOMAIN u, j # 1 PROVE form[u[j]].handle \notin enabled \cup {p}
      <4>1. j + 1 \in DOMAIN t /\ u[j] = t[j + 1] /\ j + 1 # 1 /\ j + 1 # 2
        BY <1>2, <1>5, <3>2
      <4>2. form[t[j + 1]].handle \notin enabled
        BY <4>1 DEF OnlyTop
      <4>3. t[j + 1] # t[2]
        BY <2>1, <4>1 DEF ChainInv, IsChain
      <4> QED
        BY <1>2, <2>1, <2>2, <4>1, <4>2, <4>3
    <3> QED
      BY <3>1, <3>2 DEF OnlyTop
  <2> QED
    BY <1>3, <2>1, <2>4, <2>5, <2>6 DEF i, u
<1> QED
  BY <1>7, <1>8

(* The chain without its active dialog, which is hidden or destroyed. *)
Leaves(t, fm, fm2, vis, mh, h) ==
  /\ t # <<>> /\ IsChain(t, fm, vis, mh, NoName) /\ h = fm[t[1]].handle
  /\ \A x \in Slots : fm[x].handle = h => x = t[1]
  /\ \A x \in Slots : x # t[1] => /\ fm2[x].name = fm[x].name
                                  /\ fm2[x].handle = fm[x].handle
                                  /\ fm2[x].parent = fm[x].parent
  /\ fm2[t[1]].handle \notin vis \ {h}

(* Without its active dialog the chain is still a chain. *)
LEMMA LeaveChain ==
  ASSUME NEW t \in Seq(Slots), NEW fm, NEW fm2, NEW vis, NEW mh, NEW h,
         Leaves(t, fm, fm2, vis, mh, h)
  PROVE  /\ IsChain(Tail(t), fm2, vis \ {h}, mh, NoName)
         /\ TopOf(Tail(t), fm2) = TopOf(Tail(t), fm)
         /\ \A j \in DOMAIN Tail(t) : Tail(t)[j] \in Slots /\ Tail(t)[j] # t[1]
<1> USE DEF Leaves
<1> DEFINE u == Tail(t)
<1>1. /\ u \in Seq(Slots) /\ t[1] \in Slots /\ 1 \in DOMAIN t
      /\ Len(t) \in Nat /\ Len(t) >= 1 /\ DOMAIN t = 1 .. Len(t)
      /\ Len(u) = Len(t) - 1 /\ DOMAIN u = 1 .. Len(t) - 1
      /\ \A j \in DOMAIN u : j \in Nat /\ j + 1 \in DOMAIN t /\ u[j] = t[j + 1]
      /\ \A j \in DOMAIN t : j # 1 => j - 1 \in DOMAIN u /\ u[j - 1] = t[j]
  BY OneLessDialog
<1> HIDE DEF u
<1>2. \A j \in DOMAIN u : u[j] \in Slots /\ u[j] # t[1]
  <2> TAKE j \in DOMAIN u
  <2>1. j + 1 \in DOMAIN t /\ j + 1 # 1
    BY <1>1
  <2>2. t[j + 1] # t[1]
    BY <1>1, <2>1 DEF IsChain
  <2> QED
    BY <1>1, <2>2, ElementOfSeq
<1>3. \A j, k \in DOMAIN u : u[j] = u[k] => j = k
  <2> TAKE j, k \in DOMAIN u
  <2>1. j + 1 \in DOMAIN t /\ k + 1 \in DOMAIN t /\ u[j] = t[j + 1] /\ u[k] = t[k + 1]
    BY <1>1
  <2>2. t[j + 1] = t[k + 1] => j + 1 = k + 1
    BY <2>1 DEF IsChain
  <2> QED
    BY <1>1, <2>2
<1>4. ASSUME NEW x \in Slots
      PROVE  IsOpen(x, fm2, vis \ {h}, NoName) <=> \E j \in DOMAIN u : u[j] = x
  <2>1. CASE x = t[1]
    BY <1>2, <2>1 DEF IsOpen
  <2>2. CASE x # t[1]
    <3>1. IsOpen(x, fm2, vis \ {h}, NoName) <=> IsOpen(x, fm, vis, NoName)
      BY <2>2 DEF IsOpen
    <3>2. IsOpen(x, fm, vis, NoName) <=> \E j \in DOMAIN t : t[j] = x
      BY DEF IsChain
    <3>3. ASSUME NEW j \in DOMAIN t, t[j] = x PROVE \E k \in DOMAIN u : u[k] = x
      BY <1>1, <2>2, <3>3
    <3>4. ASSUME NEW j \in DOMAIN u, u[j] = x PROVE \E k \in DOMAIN t : t[k] = x
      BY <1>1, <3>4
    <3> QED
      BY <3>1, <3>2, <3>3, <3>4
  <2> QED
    BY <2>1, <2>2
<1>5. ASSUME NEW j \in DOMAIN u
      PROVE  fm2[u[j]].parent = IF j = Len(u) THEN mh ELSE fm2[u[j + 1]].handle
  <2>1. j + 1 \in DOMAIN t /\ u[j] = t[j + 1]
    BY <1>1
  <2>2. fm[t[j + 1]].parent = IF j + 1 = Len(t) THEN mh ELSE fm[t[(j + 1) + 1]].handle
    BY <2>1 DEF IsChain
  <2>3. fm2[u[j]].parent = fm[t[j + 1]].parent
    BY <1>2, <2>1
  <2>4. CASE j = Len(u)
    <3>1. j + 1 = Len(t)
      BY <1>1, <2>4
    <3> QED
      BY <2>2, <2>3, <2>4, <3>1
  <2>5. CASE j # Len(u)
    <3>1. j + 1 # Len(t) /\ j + 1 \in DOMAIN u
      BY <1>1, <2>5
    <3>2. u[j + 1] = t[(j + 1) + 1] /\ fm2[u[j + 1]].handle = fm[u[j + 1]].handle
      BY <1>1, <1>2, <3>1
    <3> QED
      BY <2>2, <2>3, <2>5, <3>1, <3>2
  <2> QED
    BY <2>4, <2>5
<1>6. IsChain(u, fm2, vis \ {h}, mh, NoName)
  BY <1>1, <1>3, <1>4, <1>5 DEF IsChain
<1>7. TopOf(u, fm2) = TopOf(u, fm)
  <2>1. u # <<>> => 1 \in DOMAIN u
    BY <1>1, LenProperties, EmptySeq
  <2> QED
    BY <1>2, <2>1 DEF TopOf
<1> QED
  BY <1>2, <1>6, <1>7 DEF u

(* While nothing is closing nothing is marked and nothing waits. *)
LEMMA QuietCalls ==
  ASSUME WindowsInv, NEW t, Dialog(t), NothingPending, NotClosing
  PROVE  /\ Targets(queue) = {} /\ quit = FALSE
         /\ \A d \in DOMAIN stack : \A fm : ~ModalClose(stack[d], fm)
         /\ \A d \in DOMAIN stack : stack[d].k \notin {"close", "all"} /\ ~Rel(stack[d])
         /\ \A u, fm, vis, am, q : /\ Markers(stack, u, fm, q)
                                   /\ TargetsOk({}, stack, fm, vis, am)
                                   /\ ClosesOk(stack, fm)
<1>1. Targets(queue) = {} /\ quit = FALSE
  BY NoTargets DEF NothingPending, WindowsInv, StateInv
<1>2. \A d \in DOMAIN stack : \A fm : ~ModalClose(stack[d], fm)
  BY DEF NotClosing, ModalClose
<1>3. \A d \in DOMAIN stack : ~Rel(stack[d])
  BY DEF Dialog, ShapeOk, NotClosing
<1>4. \A u, fm, q : Markers(stack, u, fm, q)
  BY <1>2, NothingMarked
<1>5. \A fm, vis, am : TargetsOk({}, stack, fm, vis, am)
  BY <1>2 DEF TargetsOk
<1>6. \A fm : ClosesOk(stack, fm)
  BY DEF NotClosing, ClosesOk, CloseOk
<1> QED
  BY <1>1, <1>2, <1>3, <1>4, <1>5, <1>6 DEF NotClosing

(* The active dialog is hidden. *)
LEMMA HideTopDialog ==
  ASSUME WindowsInv, NEW t, Dialog(t), Top.k # "act", t # <<>>, NEW s \in Seq(Call), s[1].k # "act",
         visible' = visible \ {form[t[1]].handle}, enabled' = OnHide(t[1]).on,
         SetModality(OnHide(t[1])), stack' = s, UNCHANGED <<table, counter, message>>,
         quit = FALSE,
         Calls(s, Tail(t), form, Targets(queue), visible', activeModal', FALSE),
         \A h \in Targets(queue) : h # activeModal' => PumpCall(s[1])
  PROVE  Dialog(Tail(t))'
<1> DEFINE u == Tail(t)
           h == form[t[1]].handle
<1>1. /\ form' = form /\ nameVar' = nameVar /\ mainHandle' = mainHandle /\ mainActive' = mainActive
      /\ queue' = queue /\ quit' = quit
  BY DEF table, message
<1>2. ChainInv(t) /\ MainLives /\ MainInv /\ OnlyTop(t, form, enabled, mainHandle) /\ t \in Seq(Slots)
      /\ Head(stack).k # "act" /\ Unf(stack) = NoName
  BY DEF Dialog, MainInv, ChainInv, IsChain, Unf, Top
<1>3. /\ OnHide(t[1]).modal <=> u # <<>>
      /\ OnHide(t[1]).top = TopOf(u, form)
      /\ OnlyTop(u, form, OnHide(t[1]).on, mainHandle)
      /\ ~OnHide(t[1]).modal => OnHide(t[1]).focus = mainHandle
      /\ Active(Main)
  BY <1>2, OnHideTop
<1>4. \A x \in Slots : form[x].handle = h => x = t[1]
  BY <1>2, ChainFacts
<1>5. IsChain(u, form, visible', mainHandle, NoName)
  <2>1. IsChain(t, form, visible, mainHandle, NoName)
    BY <1>2 DEF ChainInv
  <2>2. form[t[1]].handle \notin visible \ {h}
    OBVIOUS
  <2>3. Leaves(t, form, form, visible, mainHandle, h)
    BY <1>4, <2>1, <2>2 DEF Leaves
  <2> HIDE DEF h
  <2> QED
    BY <1>2, <2>3, LeaveChain DEF h
<1>6. s # <<>> /\ Head(s) = s[1]
  <2>1. s # <<>>
    BY DEF Calls, ShapeOk
  <2> QED
    BY <2>1, PushRest
<1>7. ChainInv(u)'
  <2>1. Unf(stack') = NoName
    BY <1>6 DEF Unf
  <2> QED
    BY <1>1, <1>3, <1>5, <2>1 DEF ChainInv, SetModality
<1>8. OnlyTop(u, form', enabled', mainHandle')
  BY <1>1, <1>3
<1>9. MainInv'
  <2>1. MainLives' /\ Active(Main)'
    BY <1>1, <1>2, <1>3 DEF MainLives, Live, Active, Defined
  <2>2. ~modalActive' => userWindow' = mainHandle
    BY <1>3 DEF SetModality
  <2> QED
    BY <1>1, <1>2, <2>1, <2>2 DEF MainInv
<1>10. ActInv'
  BY <1>6 DEF ActInv
<1>11. PendingInv'
  BY <1>1, <1>6 DEF PendingInv, Calls
<1> QED
  BY <1>1, <1>7, <1>8, <1>9, <1>10, <1>11 DEF Dialog, Calls

(* HIDE WINDOW *)
LEMMA HideDialog ==
  ASSUME DialogProgram, WindowsInv, NEW t, Dialog(t), NEW n \in Names, Hide(n)
  PROVE  Dialog(t)' \/ (t # <<>> /\ Dialog(Tail(t))')
<1> DEFINE i == nameVar[n]
           h == form[i].handle
<1>0. /\ stack \in Seq(Call) /\ stack # <<>> /\ Top = stack[1] /\ Top = Head(stack)
      /\ Calls(stack, t, form, Targets(queue), visible, activeModal, quit)
  BY RunningCall
<1>1. /\ Top.k = "user" /\ NothingPending /\ NotClosing /\ Defined(n)
      /\ IsModal(i) => activeModal = h
      /\ HideWindow(i, stack)
  BY DEF Hide, InUserCode, Running, Top, CareHide, DialogProgram
<1>2. /\ Targets(queue) = {} /\ quit = FALSE
      /\ \A u, fm, vis, am, q : /\ Markers(stack, u, fm, q)
                                /\ TargetsOk({}, stack, fm, vis, am)
                                /\ ClosesOk(stack, fm)
  BY <1>1, QuietCalls
<1>3. ChainInv(t) /\ MainLives /\ MainInv /\ OnlyTop(t, form, enabled, mainHandle) /\ t \in Seq(Slots)
      /\ Head(stack).k # "act" /\ Unf(stack) = NoName
  BY <1>0, <1>1 DEF Dialog, MainInv, ChainInv, IsChain, Unf
<1>4. /\ i \in Slots /\ Live(i) /\ form[i].name = n /\ h \in LiveHandles
      /\ activeModal = h => t # <<>> /\ t[1] = i
  BY <1>1, <1>3, DefinedDialog
<1>5. CASE Goto(stack) \/ Abort
  BY <1>5, StopDialog DEF Abort, Goto
<1>6. ASSUME visible' = visible \ {h}, enabled' = OnHide(i).on, SetModality(OnHide(i)),
             stack' = stack, UNCHANGED <<table, counter, message, status>>
      PROVE  Dialog(t)' \/ (t # <<>> /\ Dialog(Tail(t))')
  <2> HIDE DEF i, h
  <2>1. CASE n # Main
    <3>1. t # <<>> /\ t[1] = i /\ h = form[t[1]].handle
      BY <1>1, <1>4, <2>1 DEF IsModal, DialogProgram, h
    <3>2. Calls(stack, Tail(t), form, Targets(queue), visible', activeModal', FALSE)
      BY <1>0, <1>2 DEF Calls
    <3>3. UNCHANGED <<table, counter, message>>
      BY <1>6
    <3>4. /\ visible' = visible \ {form[t[1]].handle} /\ enabled' = OnHide(t[1]).on
          /\ SetModality(OnHide(t[1])) /\ Top.k # "act" /\ stack[1].k # "act"
      BY <1>0, <1>1, <1>6, <3>1
    <3>5. Dialog(Tail(t))'
      BY <1>0, <1>2, <1>6, <3>1, <3>2, <3>3, <3>4, HideTopDialog
    <3> QED
      BY <3>1, <3>5
  <2>2. CASE n = Main
    <3>1. form[i].parent = NoHandle /\ h = mainHandle
      BY <1>3, <1>4, <2>2, MainWindow DEF h
    <3>2. OnHide(i) = [modal |-> modalActive, top |-> activeModal, focus |-> userWindow,
                       on |-> IF modalActive THEN enabled ELSE enabled \cup LiveHandles]
      BY <3>1 DEF OnHide
    <3>3. /\ modalActive' = modalActive /\ activeModal' = activeModal /\ userWindow' = userWindow
          /\ modalActive => enabled' = enabled
          /\ form' = form /\ nameVar' = nameVar /\ mainHandle' = mainHandle
          /\ mainActive' = mainActive /\ queue' = queue /\ quit' = quit
          /\ visible' = visible \ {mainHandle} /\ stack' = stack
      BY <1>6, <3>1, <3>2 DEF SetModality, table, message
    <3>4. IsChain(t, form', visible', mainHandle', Unf(stack'))
      <4>1. IsChain(t, form, visible, mainHandle, Unf(stack))
        BY <1>3 DEF ChainInv
      <4>2. ASSUME NEW x \in Slots
            PROVE  IsOpen(x, form, visible', Unf(stack)) <=> IsOpen(x, form, visible, Unf(stack))
        <5>1. form[x].name \in Modal => form[x].handle # mainHandle
          <6>1. \A y \in Slots : form[y].handle = h => y = i
            BY <1>1, <1>3, DefinedDialog DEF i, h
          <6>2. form[i].name \notin Modal
            BY <1>4, <2>2, WindowsAssumption
          <6> QED
            BY <3>1, <6>1, <6>2
        <5> QED
          BY <3>3, <5>1 DEF IsOpen
      <4> QED
        BY <3>3, <4>1, <4>2 DEF IsChain
    <3>5. ChainInv(t)'
      BY <1>3, <3>3, <3>4 DEF ChainInv
    <3>6. OnlyTop(t, form', enabled', mainHandle')
      <4>1. t = <<>> => DOMAIN t = {}
        BY <1>3, EmptySeq
      <4> QED
        BY <1>3, <3>3, <4>1 DEF OnlyTop, ChainInv
    <3>7. MainInv'
      BY <1>3, <3>3 DEF MainInv, MainLives, Live, Active, Defined
    <3>8. ActInv' /\ PendingInv'
      BY <1>2, <1>3, <3>3 DEF ActInv, PendingInv
    <3> QED
      BY <1>0, <1>2, <3>3, <3>5, <3>6, <3>7, <3>8 DEF Dialog, Calls
  <2> QED
    BY <2>1, <2>2
<1> QED
  BY <1>1, <1>5, <1>6 DEF HideWindow

-----------------------------------------------------------------------------
(* The handler of WM_CLOSE. *)

(* It closes the active dialog, unless its first message came to a hidden  *)
(* window.                                                                 *)
LEMMA ClosesTop ==
  ASSUME WindowsInv, NEW t, Dialog(t), ModalClose(Top, form),
         ~(Top.at = "start" /\ form[Top.i].name \in Manual)
  PROVE  /\ t # <<>> /\ t[1] = Top.i /\ Top.h = form[t[1]].handle /\ Top.h = activeModal
         /\ \A k \in Targets(queue) : k = Top.h
<1>0. /\ stack \in Seq(Call) /\ stack # <<>> /\ Top \in Call /\ Rest \in Seq(Call)
      /\ stack = Push(Top, Rest) /\ Top = stack[1]
      /\ Calls(stack, t, form, Targets(queue), visible, activeModal, quit)
      /\ \A k \in Targets(queue) : k # activeModal =>
              PumpCall(Top) \/ (ModalClose(Top, form) /\ Top.at = "start")
  BY RunningCall
<1>1. Top.k = "close" /\ 1 \in DOMAIN stack /\ Top.i \in Slots
  BY <1>0, PushRest, CallFields DEF ModalClose
<1>2. PICK j \in DOMAIN t : t[j] = stack[1].i /\ Level(stack, 1, t, form, j)
  BY <1>0, <1>1 DEF Calls, Markers, ClosesMarked, CloseMarked
<1>3. Above(stack, 1) = {}
  BY <1>0, AbovePush
<1>4. t \in Seq(Slots) /\ Len(t) \in Nat /\ DOMAIN t = 1 .. Len(t)
  BY LenProperties DEF Dialog, ChainInv, IsChain
<1>5. j = 1 /\ t # <<>>
  <2>1. 1 \in DOMAIN t
    BY <1>2, <1>4
  <2>2. ~(1 < j)
    BY <1>2, <1>3, <2>1 DEF Level
  <2> QED
    BY <1>2, <1>4, <2>1, <2>2, EmptySeq
<1>6. Top.h = form[Top.i].handle
  BY <1>0, <1>1 DEF Calls, ClosesOk, CloseOk
<1>7. t[1] = Top.i /\ Top.h = form[t[1]].handle /\ Top.h = activeModal
  BY <1>0, <1>2, <1>5, <1>6 DEF Dialog, ChainInv, TopOf
<1>8. ASSUME NEW k \in Targets(queue) PROVE k = Top.h
  <2>1. CASE Top.at = "start"
    <3>1. \A d \in DOMAIN stack : ModalClose(stack[d], form) /\ stack[d].at # "ask" =>
            \A x \in Targets(queue) : x = stack[d].h
      BY <1>0 DEF Calls, TargetsOk
    <3> QED
      BY <1>0, <1>1, <2>1, <3>1
  <2>2. CASE Top.at # "start"
    BY <1>0, <1>1, <1>7, <2>2 DEF PumpCall
  <2> QED
    BY <2>1, <2>2
<1> QED
  BY <1>5, <1>7, <1>8

(* The calls below the handler, which go on when it returns.               *)
LEMMA BelowClose ==
  ASSUME WindowsInv, NEW t, Dialog(t), Top.k = "close"
  PROVE  /\ Rest \in Seq(Call) /\ Rest # <<>> /\ PumpCall(Rest[1]) /\ Head(Rest) = Rest[1]
         /\ Rest[1].k \notin {"act", "close", "all"} /\ ~Rel(Rest[1]) /\ quit = FALSE
         /\ ~OwnsLoop(Top) /\ Top.i \in Slots /\ Top.h \in Handles /\ Top.lp \in {0, 1}
         /\ Live(Top.i) /\ form[Top.i].handle = Top.h /\ form[Top.i].name \in Names
         /\ \A d \in DOMAIN Rest : Rest[d].k = "close" => Rest[d].at = "ask"
         /\ Top.at # "release" =>
              Calls(Rest, t, form, Targets(queue), visible, activeModal, FALSE)
<1>0. /\ stack \in Seq(Call) /\ stack # <<>> /\ Top \in Call /\ Rest \in Seq(Call)
      /\ stack = Push(Top, Rest) /\ Top = stack[1]
      /\ Calls(stack, t, form, Targets(queue), visible, activeModal, quit)
      /\ ~PumpCall(Top) => ~quit
  BY RunningCall
<1>1. Calls(Push(Top, Rest), t, form, Targets(queue), visible, activeModal, quit)
  BY <1>0
<1>2. /\ Rest # <<>> /\ PumpCall(Rest[1])
      /\ \A d \in DOMAIN Rest : Rest[d].k = "close" => Rest[d].at = "ask"
  <2>1. ~Rel(Top)
    BY DEF Rel
  <2> QED
    BY <1>0, <1>1, <2>1, TopShape DEF Calls
<1>3. Rest[1].k \notin {"act", "close", "all"} /\ ~Rel(Rest[1])
  BY <1>2 DEF PumpCall, Rel
<1>4. Top.i \in Slots /\ Top.h \in Handles /\ Top.lp \in {0, 1}
  BY <1>0, CallFields
<1>5. form[Top.i].handle = Top.h
  <2>1. 1 \in DOMAIN stack
    BY <1>0, PushRest
  <2> QED
    BY <1>0, <2>1 DEF Calls, ClosesOk, CloseOk
<1>6. Live(Top.i) /\ form[Top.i].name \in Names
  <2>1. Live(Top.i)
    BY <1>4, <1>5, WindowsAssumption DEF WindowsInv, TableInv, NamesMatch
  <2> QED
    BY <1>4, <2>1 DEF WindowsInv, TableInv, FormRecord, Live
<1>7. quit = FALSE /\ ~OwnsLoop(Top)
  BY <1>0 DEF PumpCall, OwnsLoop, WindowsInv, StateInv
<1>8. Top.at # "release" => Calls(Rest, t, form, Targets(queue), visible, activeModal, FALSE)
  <2>1. Top.at # "release" => \A i : ~ReleasedBy(Top, i)
    BY DEF ReleasedBy
  <2> QED
    BY <1>0, <1>1, <1>2, <1>7, <2>1, CallEnds
<1>9. Head(Rest) = Rest[1]
  BY <1>0, <1>2, PushRest
<1> QED
  BY <1>0, <1>2, <1>3, <1>4, <1>5, <1>6, <1>7, <1>8, <1>9

(* The handler returns, or calls a procedure, and the windows stay.        *)
LEMMA CloseGoto ==
  ASSUME WindowsInv, NEW t, Dialog(t), Top.k = "close", NEW s \in Seq(Call), Goto(s),
         s[1].k # "act", Calls(s, t, form, Targets(queue), visible, activeModal, FALSE),
         PumpCall(s[1]) \/ \A h \in Targets(queue) : h = activeModal
  PROVE  Dialog(t)'
<1>1. quit = FALSE /\ Top.k # "act"
  BY BelowClose
<1>2. /\ stack' = s /\ SameTable /\ UNCHANGED <<nameVar, mainHandle, mainActive>>
      /\ UNCHANGED modality /\ UNCHANGED screen /\ queue' = queue /\ quit' = FALSE
      /\ form' = form /\ visible' = visible /\ activeModal' = activeModal
  BY <1>1 DEF Goto, table, message, SameTable, modality, screen
<1> QED
  BY <1>1, <1>2, CallsStep

(* The end of the handler: the active dialog is destroyed. *)
LEMMA FinishCloseDialog ==
  ASSUME DialogProgram, WindowsInv, CountersInv, status = "run", NEW t, Dialog(t),
         Top.k = "close", form[Top.i].name \in Modal \ Manual,
         FinishClose(Top.i, Top.h, Rest)
  PROVE  t # <<>> /\ Dialog(Tail(t))'
<1> DEFINE T == Targets(queue)
           i == Top.i
           h == Top.h
           u == Tail(t)
<1>0. /\ stack \in Seq(Call) /\ stack # <<>> /\ Top \in Call /\ Rest \in Seq(Call)
      /\ stack = Push(Top, Rest) /\ Top = stack[1] /\ Top = Head(stack) /\ Rest = Tail(stack)
      /\ Calls(Push(Top, Rest), t, form, T, visible, activeModal, quit)
  BY RunningCall
<1>1. /\ Rest # <<>> /\ PumpCall(Rest[1]) /\ Head(Rest) = Rest[1]
      /\ Rest[1].k # "act" /\ quit = FALSE
      /\ ~OwnsLoop(Top) /\ i \in Slots /\ h \in Handles
      /\ Live(i) /\ form[i].handle = h
  BY BelowClose
<1>2. /\ t # <<>> /\ t[1] = i /\ h = activeModal /\ \A k \in T : k = h
  BY ClosesTop DEF ModalClose
<1>3. ChainInv(t) /\ MainLives /\ MainInv /\ OnlyTop(t, form, enabled, mainHandle) /\ t \in Seq(Slots)
      /\ Head(stack).k # "act" /\ Unf(stack) = NoName
  BY <1>0 DEF Dialog, MainInv, ChainInv, IsChain, Unf
<1>4. /\ OnHide(i).modal <=> u # <<>>
      /\ OnHide(i).top = TopOf(u, form)
      /\ OnlyTop(u, form, OnHide(i).on, mainHandle)
      /\ ~OnHide(i).modal => OnHide(i).focus = mainHandle
      /\ Active(Main)
  BY <1>2, <1>3, OnHideTop
<1>5. \A x \in Slots : form[x].handle = h => x = i
  <2>1. h \in LiveHandles /\ h # NoHandle
    BY <1>1, WindowsAssumption DEF LiveHandles
  <2> QED
    BY <1>1, <2>1 DEF WindowsInv, TableInv, NamesMatch, HandlesMatch
<1>6. SlotOf(h) = i
  <2>1. h \in LiveHandles
    BY <1>1 DEF LiveHandles
  <2> QED
    BY <1>5, <2>1, SlotOfFinds
<1> HIDE DEF i, h, u
<1>7. /\ form' = [form EXCEPT ![i] = NoForm] /\ nameVar' = Forget(form[i].name)
      /\ visible' = visible \ {h} /\ quit' = (quit \/ LastOfActivation(i))
      /\ queue' = [j \in DOMAIN queue |-> IF queue[j].h = h THEN Discarded ELSE queue[j]]
      /\ enabled' = OnHide(i).on \ {h} /\ SetModality(OnHide(i)) /\ stack' = Rest
      /\ mainHandle' = mainHandle /\ mainActive' = mainActive
  <2>1. i # 0
    BY <1>1, SlotsAreNumbers
  <2> QED
    BY <1>6, <2>1 DEF FinishClose, DestroyWindow, i, h
<1>8. /\ \A x \in Slots : form'[x] = IF x = i THEN NoForm ELSE form[x]
      /\ NoForm.name = NoName /\ NoForm.handle = NoHandle /\ ~NoForm.active
      /\ NoForm.loop = 0 /\ NoForm.released = 0 /\ NoForm.id = 0
  BY <1>7 DEF WindowsInv, TableInv, NoForm
<1> HIDE DEF i, h, u
<1>9. NoHandle \notin visible /\ NoName \notin Modal /\ NoName # Main
  BY WindowsAssumption, LiveHandlesTyped DEF WindowsInv, ScreenInv
<1>10. IsChain(u, form', visible', mainHandle', NoName) /\ TopOf(u, form') = TopOf(u, form)
       /\ \A j \in DOMAIN u : u[j] \in Slots /\ u[j] # i
  <2>1. IsChain(t, form, visible, mainHandle, NoName)
    BY <1>3 DEF ChainInv
  <2>2. h = form[t[1]].handle /\ form'[t[1]].handle \notin visible \ {h}
    BY <1>1, <1>2, <1>8, <1>9 DEF i, h
  <2>3. \A x \in Slots : x # t[1] => /\ form'[x].name = form[x].name
                                     /\ form'[x].handle = form[x].handle
                                     /\ form'[x].parent = form[x].parent
    BY <1>2, <1>8 DEF i
  <2>4. \A x \in Slots : form[x].handle = h => x = t[1]
    BY <1>2, <1>5 DEF i
  <2>5. t \in Seq(Slots) /\ t # <<>>
    BY <1>2, <1>3
  <2> DEFINE fm == form
             fm2 == form'
  <2>6. Leaves(t, fm, fm2, visible, mainHandle, h)
    BY <2>1, <2>2, <2>3, <2>4, <2>5 DEF Leaves
  <2> HIDE DEF fm, fm2
  <2>7. /\ IsChain(Tail(t), fm2, visible \ {h}, mainHandle, NoName)
        /\ TopOf(Tail(t), fm2) = TopOf(Tail(t), fm)
        /\ \A j \in DOMAIN Tail(t) : Tail(t)[j] \in Slots /\ Tail(t)[j] # t[1]
    BY <2>5, <2>6, LeaveChain
  <2> QED
    BY <1>2, <1>7, <2>7 DEF i, u, fm, fm2
<1>11. ChainInv(u)'
  <2>1. Unf(stack') = NoName
    BY <1>1, <1>7 DEF Unf
  <2>2. modalActive' = OnHide(i).modal /\ activeModal' = OnHide(i).top
    BY <1>7 DEF SetModality
  <2>3. OnHide(i).modal <=> u # <<>>
    BY <1>4 DEF u, i
  <2>4. OnHide(i).top = TopOf(u, form)
    BY <1>4 DEF u, i
  <2> QED
    BY <1>10, <2>1, <2>2, <2>3, <2>4 DEF ChainInv
<1>12. OnlyTop(u, form', enabled', mainHandle')
  <2>1. OnlyTop(u, form, OnHide(i).on, mainHandle)
    BY <1>4 DEF u, i
  <2>2. \A j \in DOMAIN u : form'[u[j]].handle = form[u[j]].handle
    BY <1>8, <1>10
  <2> QED
    BY <1>7, <2>1, <2>2 DEF OnlyTop
<1>13. MainInv'
  <2>1. PICK m \in Slots : /\ form[m].name = Main /\ form[m].handle = mainHandle
                           /\ form[m].parent = NoHandle /\ nameVar[Main] = m
    BY <1>1, <1>3, MainWindow
  <2>2. m # i /\ form[i].name # Main
    BY <2>1, WindowsAssumption DEF i
  <2>3. MainLives'
    BY <1>7, <1>8, <2>1, <2>2 DEF MainLives
  <2>4. nameVar'[Main] = m
    BY <1>7, <2>1, <2>2, WindowsAssumption DEF Forget, WindowsInv, TableInv
  <2>5. Active(Main)'
    <3>1. Active(Main)
      BY <1>4
    <3> QED
      BY <1>8, <2>1, <2>2, <2>4, <3>1 DEF Active, Defined
  <2>6. \A x \in Slots : form'[x].active => mainActive'
    BY <1>3, <1>7, <1>8 DEF MainInv
  <2>7. \A x \in Slots : form'[x].handle \in visible' => form'[x].active
    BY <1>3, <1>7, <1>8, <1>9 DEF MainInv
  <2>8. ~modalActive' => userWindow' = mainHandle'
    <3>1. ~OnHide(i).modal => OnHide(i).focus = mainHandle
      BY <1>4 DEF i
    <3> QED
      BY <1>7, <3>1 DEF SetModality
  <2> QED
    BY <2>3, <2>5, <2>6, <2>7, <2>8 DEF MainInv
<1>14. ActInv'
  BY <1>1, <1>7 DEF ActInv
<1>15. AllDiscarded'
  <2>1. ASSUME NEW j \in DOMAIN queue PROVE queue'[j] = Discarded
    <3>1. queue[j] # Discarded => queue[j].h \in T
      BY <2>1 DEF Targets
    <3>2. queue[j] # Discarded => queue[j].h = h
      BY <1>2, <3>1 DEF h
    <3> QED
      BY <1>7, <2>1, <3>2
  <2>2. DOMAIN queue' = DOMAIN queue
    BY <1>7
  <2> QED
    BY <2>1, <2>2 DEF AllDiscarded
<1>16. Targets(queue') = {}
  BY <1>15, NoTargets DEF AllDiscarded
<1>17. PendingInv'
  <2>1. \A s, fm, vis, am : TargetsOk({}, s, fm, vis, am)
    BY DEF TargetsOk
  <2> QED
    BY <1>1, <1>7, <1>15, <1>16, <2>1 DEF PendingInv
<1>18. /\ Markers(Rest, u, form', quit')
       /\ \A c \in DOMAIN Rest : ModalClose(Rest[c], form) => Rest[c].i # i
  <2>1. Markers(Push(Top, Rest), t, form, quit)
    BY <1>0 DEF Calls
  <2>2. \A d \in DOMAIN Rest : OwnsLoop(Rest[d]) => Rest[d].g # 0
    BY <1>0, LoopsPositive, TailElements
  <2>3. form[i].id = 0 => quit'
    BY <1>7 DEF LastOfActivation
  <2>4. \A j, k \in DOMAIN t : t[j] = t[k] => j = k
    BY <1>3 DEF ChainInv, IsChain
  <2>5. t[1] = i
    BY <1>2 DEF i
  <2>6. /\ form'[t[1]].name \notin Modal /\ form'[t[1]].loop = 0 /\ (form[t[1]].id = 0 => quit')
        /\ \A x \in Slots : x # t[1] => /\ form'[x].name = form[x].name /\ form'[x].loop = form[x].loop
                                        /\ form'[x].id = form[x].id
    BY <1>1, <1>8, <1>9, <2>3, <2>5 DEF i
  <2> DEFINE fm == form
             fm2 == form'
             q2 == quit'
  <2>7. /\ Top \in Call /\ Rest \in Seq(Call) /\ t \in Seq(Slots) /\ t # <<>>
        /\ ~OwnsLoop(Top) /\ PumpCall(Rest[1])
    BY <1>0, <1>1, <1>2, <1>3
  <2>8. Destroyed(Rest, Top, t, fm, fm2, quit, q2)
    BY <2>1, <2>2, <2>4, <2>6, <2>7 DEF Destroyed
  <2> HIDE DEF fm, fm2, q2
  <2>9. /\ Markers(Rest, Tail(t), fm2, q2)
        /\ \A c \in DOMAIN Rest : ModalClose(Rest[c], fm) => Rest[c].i # t[1]
    BY <2>7, <2>8, MarkersClosed
  <2> QED
    BY <2>5, <2>9 DEF u, fm, fm2, q2
<1>19. ClosesOk(Rest, form')
  <2>1. \A c \in DOMAIN Rest : Rest[c].k = "close" => Rest[c].i \in Slots /\ Rest[c].i # i
    <3> TAKE c \in DOMAIN Rest
    <3> HAVE Rest[c].k = "close"
    <3>1. Rest[c].i \in Slots
      BY <1>0, ElementOfSeq, CallFields
    <3>2. Rest[c].i # i
      BY <1>18 DEF ModalClose, i
    <3> QED
      BY <3>1, <3>2
  <2>2. ClosesOk(Rest, form)
    BY <1>0, ClosesPush DEF Calls
  <2> QED
    BY <1>8, <2>1, <2>2 DEF ClosesOk, CloseOk
<1>20. ReleasedOk(Rest, form')
  <2>1. \A d \in DOMAIN Push(Top, Rest) : \/ d = 1 /\ Push(Top, Rest)[d] = Top
                                       \/ \E c \in DOMAIN Rest : d = c + 1 /\ Push(Top, Rest)[d] = Rest[c]
    BY <1>0, PushPlaces, ZenonT(40)
  <2>2. ASSUME NEW x \in Slots, form'[x].released # 0
        PROVE  form'[x].released = 1 /\ \E c \in DOMAIN Rest : ReleasedBy(Rest[c], x)
    <3>1. x # i /\ form'[x] = form[x]
      BY <1>8, <2>2
    <3>2. ~ReleasedBy(Top, x)
      BY <3>1 DEF ReleasedBy, i
    <3>3. PICK d \in DOMAIN Push(Top, Rest) : ReleasedBy(Push(Top, Rest)[d], x) /\ form[x].released = 1
      BY <1>0, <2>2, <3>1 DEF Calls, ReleasedOk
    <3> QED
      BY <2>1, <3>1, <3>2, <3>3
  <2> QED
    BY <2>2 DEF ReleasedOk
<1>21. ShapeOk(Rest)
  <2>1. ShapeOk(stack)
    BY DEF Dialog
  <2> QED
    BY <1>0, <1>1, <2>1, ShapeTail
<1>22. Dialog(u)'
  BY <1>7, <1>11, <1>12, <1>13, <1>14, <1>17, <1>18, <1>19, <1>20, <1>21 DEF Dialog
<1> QED
  BY <1>2, <1>22 DEF u

(* The handler hides its dialog or runs ON RELEASE, ReleaseAllWindows or   *)
(* its end.                                                                *)
LEMMA HideOrReleaseDialog ==
  ASSUME DialogProgram, WindowsInv, CountersInv, status = "run", NEW t, Dialog(t),
         Top.k = "close", Top.at # "release", HideOrRelease(Top.i, Top.h, Rest)
  PROVE  Dialog(t)' \/ (t # <<>> /\ Dialog(Tail(t))')
<1> DEFINE T == Targets(queue)
           i == Top.i
           h == Top.h
<1>0. /\ stack \in Seq(Call) /\ stack # <<>> /\ Top \in Call /\ Rest \in Seq(Call)
      /\ stack = Push(Top, Rest) /\ Top = stack[1]
      /\ Calls(Push(Top, Rest), t, form, T, visible, activeModal, quit)
      /\ \A k \in T : k # activeModal => PumpCall(Top) \/ (ModalClose(Top, form) /\ Top.at = "start")
  BY RunningCall
<1>1. /\ Rest # <<>> /\ PumpCall(Rest[1]) /\ Head(Rest) = Rest[1]
      /\ Rest[1].k \notin {"act", "close", "all"} /\ ~Rel(Rest[1]) /\ quit = FALSE
      /\ ~OwnsLoop(Top) /\ i \in Slots /\ h \in Handles
      /\ Live(i) /\ form[i].handle = h /\ form[i].name \in Names
      /\ \A d \in DOMAIN Rest : Rest[d].k = "close" => Rest[d].at = "ask"
      /\ Calls(Rest, t, form, T, visible, activeModal, FALSE)
  BY BelowClose
<1>2. t \in Seq(Slots) /\ ChainInv(t) /\ MainLives
  BY DEF Dialog, MainInv, ChainInv, IsChain
<1>3. ASSUME Goto(Rest) PROVE Dialog(t)'
  BY <1>0, <1>1, <1>3, CloseGoto
<1>4. ASSUME form[i].name \in Manual, HideWindow(i, Rest)
      PROVE  Dialog(t)' \/ (t # <<>> /\ Dialog(Tail(t))')
  <2>1. IsModal(i) /\ ModalClose(Top, form)
    BY <1>4, WindowsAssumption DEF IsModal, ModalClose, DialogProgram
  <2>2. CASE Goto(Rest)
    BY <1>3, <2>2
  <2>3. CASE Abort
    BY <2>3, StopDialog DEF Abort
  <2>4. ASSUME activeModal = h, h \in visible, visible' = visible \ {h}, enabled' = OnHide(i).on,
               SetModality(OnHide(i)), stack' = Rest, UNCHANGED <<table, counter, message, status>>
        PROVE  t # <<>> /\ Dialog(Tail(t))'
    <3>1. t # <<>> /\ t[1] = i /\ h = form[t[1]].handle
      BY <1>1, <1>2, <2>4, ActiveIsTop
    <3>2. AskClose \cap Modal = {}
      BY <1>4 DEF DialogProgram
    <3>3. Top.at = "start"
      <4>1. CloseOk(Top, form)
        BY <1>0, ClosesPush DEF Calls
      <4>2. Top.at # "ask"
        BY <1>1, <2>1, <3>2, <4>1 DEF CloseOk, ModalClose
      <4>3. Top \in Call
        BY <1>0
      <4> QED
        BY <4>2, <4>3 DEF Call
    <3>4. \A k \in T : k = h
      <4>1. TargetsOk(T, Push(Top, Rest), form, visible, activeModal)
        BY <1>0 DEF Calls
      <4> QED
        BY <1>0, <2>1, <3>3, <4>1, TargetsPush
    <3>5. \A d \in DOMAIN Rest : ~ModalClose(Rest[d], form)
      <4> TAKE d \in DOMAIN Rest
      <4>1. CloseOk(Rest[d], form)
        BY <1>1 DEF Calls, ClosesOk
      <4> QED
        BY <1>1, <3>2, <4>1 DEF CloseOk, ModalClose
    <3>6. Markers(Rest, Tail(t), form, FALSE)
      BY <3>5, NothingMarked
    <3>7. TargetsOk(T, Rest, form, visible', activeModal')
      <4>1. \A k \in T : k \notin visible' /\ \E x \in Slots : form[x].handle = k /\ form[x].name \in Manual
        BY <1>1, <1>4, <2>4, <3>4
      <4> QED
        BY <3>4, <3>5, <4>1 DEF TargetsOk
    <3>8. Calls(Rest, Tail(t), form, T, visible', activeModal', FALSE)
      BY <1>1, <3>6, <3>7 DEF Calls
    <3>9. UNCHANGED <<table, counter, message>>
      BY <2>4
    <3>10. /\ visible' = visible \ {form[t[1]].handle} /\ enabled' = OnHide(t[1]).on
           /\ SetModality(OnHide(t[1])) /\ Top.k # "act" /\ stack' = Rest
      BY <2>4, <3>1
    <3> HIDE DEF T
    <3>11. Dialog(Tail(t))'
      BY <1>0, <1>1, <3>1, <3>8, <3>9, <3>10, HideTopDialog DEF T
    <3> QED
      BY <3>1, <3>11
  <2> QED
    BY <1>1, <1>4, <2>1, <2>2, <2>3, <2>4 DEF HideWindow
<1>5. ASSUME form[i].name = Main, ReleaseAllWindows(Rest) PROVE Dialog(t)'
  <2>1. CASE Abort
    BY <2>1, StopDialog DEF Abort
  <2>2. CASE Goto(Push(ReleasingAll(1), Rest))
    <3> DEFINE f == ReleasingAll(1)
               s == Push(f, Rest)
    <3>1. f \in Call /\ f.k = "all"
      BY FramesTyped DEF ReleasingAll
    <3> HIDE DEF f
    <3>2. f.k \notin {"init", "events"} /\ ~OwnsLoop(f) /\ ~Rel(f) /\ CloseOk(f, form)
          /\ ~ModalClose(f, form)
      BY <3>1 DEF OwnsLoop, Rel, CloseOk, ModalClose
    <3>3. Calls(s, t, form, T, visible, activeModal, FALSE)
      BY <1>0, <1>1, <1>2, <3>1, <3>2, CallStarts
    <3>4. s \in Seq(Call) /\ s[1] = f
      BY <1>0, <3>1, PushPlaces
    <3>5. \A k \in T : k = activeModal
      BY <1>0, <1>5, WindowsAssumption DEF PumpCall, ModalClose
    <3>6. Goto(s)
      BY <2>2 DEF f
    <3> HIDE DEF s
    <3> QED
      BY <3>1, <3>3, <3>4, <3>5, <3>6, CloseGoto
  <2> QED
    BY <1>5, <2>1, <2>2 DEF ReleaseAllWindows
<1>6. ASSUME form[i].name \in Modal \ Manual, CallOnRelease(i, Push(Closing("release", i, h, 1), Rest))
      PROVE  Dialog(t)'
  <2> DEFINE f == Closing("release", i, h, 1)
             s == Push(f, Rest)
  <2>1. /\ t # <<>> /\ t[1] = i /\ h = activeModal /\ \A k \in T : k = h
    BY <1>6, ClosesTop DEF ModalClose
  <2>2. f \in Call /\ f.k = "close" /\ f.at = "release" /\ f.i = i /\ f.h = h
    BY <1>1, FramesTyped DEF Closing
  <2> HIDE DEF f
  <2>3. /\ f.k \notin {"init", "events"} /\ ~OwnsLoop(f) /\ ~Rel(f) /\ CloseOk(f, form)
        /\ (f.k = "close" => PumpCall(Rest[1]))
        /\ (ModalClose(f, form) => \/ f.at = "start" /\ form[f.i].name \in Manual
                                   \/ t # <<>> /\ t[1] = f.i)
        /\ (ModalClose(f, form) /\ f.at # "ask" => \A k \in T : k = f.h)
    BY <1>1, <1>6, <2>1, <2>2 DEF OwnsLoop, Rel, CloseOk
  <2>4. Calls(s, t, form, T, visible, activeModal, FALSE)
    BY <1>0, <1>1, <1>2, <2>2, <2>3, CallStarts
  <2>5. s \in Seq(Call) /\ s[1] = f
    BY <1>0, <2>2, PushPlaces
  <2>6. form[i].released = 0
    <3>1. ~Rel(Top) /\ ~ReleasedBy(Top, i)
      BY DEF Rel, ReleasedBy
    <3> QED
      BY <1>0, <1>1, <3>1, NotReleased DEF Calls
  <2>7. ReleasedBy(s[1], i) /\ s[1].k = "close" /\ s[1].at = "release" /\ ~quit /\ Top.k # "act"
    BY <1>1, <2>2, <2>5 DEF ReleasedBy
  <2>8. CallOnRelease(i, s)
    BY <1>6 DEF f
  <2>9. \A k \in T : k = activeModal
    BY <2>1
  <2> HIDE DEF s, T
  <2> QED
    BY <1>1, <2>4, <2>5, <2>6, <2>7, <2>8, <2>9, CallOnReleaseDialog DEF T
<1>7. ASSUME form[i].name \in Modal \ Manual, FinishClose(i, h, Rest)
      PROVE  t # <<>> /\ Dialog(Tail(t))'
  BY <1>7, FinishCloseDialog
<1>8. \/ Goto(Rest)
      \/ form[i].name \in Manual /\ HideWindow(i, Rest)
      \/ form[i].name = Main /\ ReleaseAllWindows(Rest)
      \/ form[i].name \in Modal \ Manual /\ CallOnRelease(i, Push(Closing("release", i, h, 1), Rest))
      \/ form[i].name \in Modal \ Manual /\ FinishClose(i, h, Rest)
  BY <1>1 DEF HideOrRelease, DialogProgram
<1> HIDE DEF i, h
<1> QED
  BY <1>3, <1>4, <1>5, <1>6, <1>7, <1>8

(* What follows ON INTERACTIVECLOSE. *)
LEMMA AfterAskDialog ==
  ASSUME DialogProgram, WindowsInv, CountersInv, status = "run", NEW t, Dialog(t),
         Top.k = "close", Top.at # "release", AfterAsk(Top.i, Top.h, Top.lp, Rest)
  PROVE  Dialog(t)' \/ (t # <<>> /\ Dialog(Tail(t))')
<1>1. CASE Goto(Rest)
  <2>1. /\ Rest \in Seq(Call) /\ PumpCall(Rest[1]) /\ Rest[1].k # "act"
        /\ Calls(Rest, t, form, Targets(queue), visible, activeModal, FALSE)
    BY BelowClose
  <2> QED
    BY <1>1, <2>1, CloseGoto
<1>2. CASE HideOrRelease(Top.i, Top.h, Rest)
  BY <1>2, HideOrReleaseDialog
<1> QED
  BY <1>1, <1>2 DEF AfterAsk

(* The handler from its start. *)
LEMMA CloseStepDialog ==
  ASSUME DialogProgram, WindowsInv, CountersInv, status = "run", NEW t, Dialog(t), CloseStep
  PROVE  Dialog(t)' \/ (t # <<>> /\ Dialog(Tail(t))')
<1> DEFINE T == Targets(queue)
           i == Top.i
           h == Top.h
<1>0. /\ stack \in Seq(Call) /\ stack # <<>> /\ Top \in Call /\ Rest \in Seq(Call)
      /\ stack = Push(Top, Rest) /\ Top = stack[1]
      /\ Calls(Push(Top, Rest), t, form, T, visible, activeModal, quit)
      /\ \A k \in T : k # activeModal => PumpCall(Top) \/ (ModalClose(Top, form) /\ Top.at = "start")
  BY RunningCall
<1>1. Top.k = "close"
  BY DEF CloseStep, Running, Top
<1>2. /\ Rest # <<>> /\ PumpCall(Rest[1])
      /\ Rest[1].k \notin {"act", "close", "all"} /\ ~Rel(Rest[1])
      /\ i \in Slots /\ h \in Handles /\ Top.lp \in {0, 1}
      /\ form[i].handle = h
      /\ Top.at # "release" => Calls(Rest, t, form, T, visible, activeModal, FALSE)
  BY <1>1, BelowClose
<1>3. t \in Seq(Slots)
  BY DEF Dialog, ChainInv, IsChain
<1>4. ASSUME Top.at = "start", form[i].name \in AskClose,
             Goto(Push(User("WINDOW_ONINTERACTIVECLOSE", i),
                    Push(Closing("ask", i, h, Top.lp), Rest)))
      PROVE  Dialog(t)'
  <2> DEFINE f == Closing("ask", i, h, Top.lp)
             s == Push(f, Rest)
             g == User("WINDOW_ONINTERACTIVECLOSE", i)
  <2>1. f \in Call /\ f.k = "close" /\ f.at = "ask" /\ f.i = i /\ f.h = h
    BY <1>2, FramesTyped DEF Closing
  <2>2. g \in Call /\ g.k = "user" /\ ~Rel(g)
    BY <1>2, FramesTyped, SlotsAreNumbers DEF User, Rel
  <2> HIDE DEF f, g
  <2>3. form[i].name \in Modal => t # <<>> /\ t[1] = i /\ h = activeModal /\ \A k \in T : k = h
    <3>1. form[i].name \in Modal => form[i].name \notin Manual
      BY <1>4 DEF DialogProgram
    <3> QED
      BY <1>1, <3>1, ClosesTop DEF ModalClose
  <2>4. /\ f.k \notin {"init", "events"} /\ ~OwnsLoop(f) /\ ~Rel(f) /\ CloseOk(f, form)
        /\ (f.k = "close" => PumpCall(Rest[1]))
        /\ (ModalClose(f, form) => \/ f.at = "start" /\ form[f.i].name \in Manual
                                   \/ t # <<>> /\ t[1] = f.i)
        /\ (ModalClose(f, form) /\ f.at # "ask" => \A k \in T : k = f.h)
    BY <1>2, <1>4, <2>1, <2>3 DEF OwnsLoop, Rel, CloseOk, ModalClose
  <2>5. Calls(Rest, t, form, T, visible, activeModal, FALSE)
    BY <1>2, <1>4
  <2>6. Calls(s, t, form, T, visible, activeModal, FALSE)
    BY <1>0, <1>2, <1>3, <2>1, <2>4, <2>5, CallStarts
  <2>7. s \in Seq(Call) /\ s[1] = f
    BY <1>0, <2>1, PushPlaces
  <2>8. Goto(Push(g, s))
    BY <1>4 DEF f, g
  <2> HIDE DEF s
  <2>9. Calls(Push(g, s), t, form, T, visible, activeModal, FALSE)
    BY <1>3, <2>1, <2>2, <2>6, <2>7, CallBack
  <2>10. Push(g, s) \in Seq(Call) /\ Push(g, s)[1] = g
    BY <2>2, <2>7, PushPlaces
  <2>11. \A k \in T : k = activeModal
    <3>1. CASE form[i].name \in Modal
      BY <2>3, <3>1
    <3>2. CASE form[i].name \notin Modal
      BY <1>0, <1>1, <3>2 DEF PumpCall, ModalClose
    <3> QED
      BY <3>1, <3>2
  <2> QED
    BY <1>1, <2>2, <2>8, <2>9, <2>10, <2>11, CloseGoto
<1>5. ASSUME Top.at # "release", AfterAsk(i, h, Top.lp, Rest)
      PROVE  Dialog(t)' \/ (t # <<>> /\ Dialog(Tail(t))')
  BY <1>1, <1>5, AfterAskDialog
<1>6. ASSUME Top.at = "release", FinishClose(i, h, Rest)
      PROVE  t # <<>> /\ Dialog(Tail(t))'
  <2>1. CloseOk(Top, form)
    BY <1>0, ClosesPush DEF Calls
  <2>2. form[i].name \in Modal \ Manual
    BY <1>1, <1>6, <2>1 DEF CloseOk
  <2> QED
    BY <1>1, <1>6, <2>2, FinishCloseDialog
<1> QED
  BY <1>4, <1>5, <1>6 DEF CloseStep, StartClose

-----------------------------------------------------------------------------
(* A dialog is opened. *)

(* The chain with one more dialog: the slot i of the table fm, which        *)
(* becomes fm2.                                                            *)
Enters(t, fm, fm2, vis, mh, un, i) ==
  /\ IsChain(t, fm, vis, mh, un)
  /\ fm[i].name \in Modal /\ \A j \in DOMAIN t : t[j] # i
  /\ \A x \in Slots : fm[x].handle = fm[i].handle => x = i
  /\ \A x \in Slots : x # i /\ fm[x].name \in Modal => fm[x].name # un
  /\ \A x \in Slots : fm2[x].name = fm[x].name /\ fm2[x].handle = fm[x].handle
  /\ \A x \in Slots : x # i => fm2[x].parent = fm[x].parent
  /\ fm2[i].parent = IF t = <<>> THEN mh ELSE fm[t[1]].handle

(* With one more dialog on top the chain is still a chain. *)
LEMMA EnterChain ==
  ASSUME NEW t \in Seq(Slots), NEW i \in Slots, NEW fm, NEW fm2, NEW vis, NEW mh, NEW un,
         Enters(t, fm, fm2, vis, mh, un, i)
  PROVE  /\ IsChain(<<i>> \o t, fm2, vis \cup {fm[i].handle}, mh, NoName)
         /\ TopOf(<<i>> \o t, fm2) = fm[i].handle
<1> USE DEF Enters
<1> DEFINE u == <<i>> \o t
           h == fm[i].handle
<1>1. /\ u \in Seq(Slots) /\ u # <<>> /\ Len(t) \in Nat /\ DOMAIN t = 1 .. Len(t)
      /\ Len(u) = Len(t) + 1 /\ DOMAIN u = 1 .. Len(t) + 1 /\ u[1] = i
      /\ \A j \in DOMAIN t : j \in Nat /\ j >= 1 /\ u[j + 1] = t[j]
      /\ \A j \in 1 .. Len(t) + 1 : j # 1 => j - 1 \in DOMAIN t /\ u[j] = t[j - 1]
  BY OneMoreDialog
<1> HIDE DEF u, h
<1>2. \A j, k \in DOMAIN u : u[j] = u[k] => j = k
  <2> TAKE j, k \in DOMAIN u
  <2> HAVE u[j] = u[k]
  <2>0. \A c \in DOMAIN u : c # 1 => u[c] # i
    BY <1>1
  <2>1. CASE j = 1 \/ k = 1
    BY <1>1, <2>0, <2>1
  <2>2. CASE j # 1 /\ k # 1
    <3>1. j - 1 \in DOMAIN t /\ k - 1 \in DOMAIN t /\ t[j - 1] = t[k - 1]
      BY <1>1, <2>2
    <3>2. j - 1 = k - 1
      BY <3>1 DEF IsChain
    <3> QED
      BY <1>1, <3>2
  <2> QED
    BY <2>1, <2>2
<1>3. NoName \notin Modal
  BY WindowsAssumption
<1>4. ASSUME NEW x \in Slots
      PROVE  IsOpen(x, fm2, vis \cup {h}, NoName) <=> \E j \in DOMAIN u : u[j] = x
  <2>1. CASE x = i
    <3>1. IsOpen(x, fm2, vis \cup {h}, NoName)
      BY <1>3, <2>1 DEF IsOpen, h
    <3>2. 1 \in DOMAIN u /\ u[1] = x
      BY <1>1, <2>1
    <3> QED
      BY <3>1, <3>2
  <2>2. CASE x # i
    <3>1. IsOpen(x, fm2, vis \cup {h}, NoName) <=> IsOpen(x, fm, vis, un)
      <4>1. fm2[x].handle # h
        BY <2>2 DEF h
      <4> QED
        BY <1>3, <2>2, <4>1 DEF IsOpen
    <3>2. IsOpen(x, fm, vis, un) <=> \E j \in DOMAIN t : t[j] = x
      BY DEF IsChain
    <3>3. ASSUME NEW j \in DOMAIN t, t[j] = x PROVE \E k \in DOMAIN u : u[k] = x
      <4>1. j + 1 \in DOMAIN u /\ u[j + 1] = x
        BY <1>1, <3>3
      <4> QED
        BY <4>1
    <3>4. ASSUME NEW j \in DOMAIN u, u[j] = x PROVE \E k \in DOMAIN t : t[k] = x
      <4>1. j # 1
        BY <1>1, <2>2, <3>4
      <4> QED
        BY <1>1, <3>4, <4>1
    <3> QED
      BY <3>1, <3>2, <3>3, <3>4
  <2> QED
    BY <2>1, <2>2
<1>5. ASSUME NEW j \in DOMAIN u
      PROVE  fm2[u[j]].parent = IF j = Len(u) THEN mh ELSE fm2[u[j + 1]].handle
  <2>1. CASE j = 1
    <3>1. CASE t = <<>>
      <4>1. Len(t) = 0
        BY <1>1, <3>1, EmptySeq
      <4> QED
        BY <1>1, <2>1, <3>1, <4>1
    <3>2. CASE t # <<>>
      <4>1. 1 \in DOMAIN t /\ j # Len(u)
        BY <1>1, <2>1, <3>2, EmptySeq
      <4>2. u[j + 1] = t[1] /\ t[1] \in Slots
        BY <1>1, <2>1, <4>1, ElementOfSeq
      <4> QED
        BY <1>1, <2>1, <3>2, <4>1, <4>2
    <3> QED
      BY <3>1, <3>2
  <2>2. CASE j # 1
    <3> DEFINE k == j - 1
    <3>1. k \in DOMAIN t /\ u[j] = t[k] /\ j = k + 1
      BY <1>1, <2>2
    <3> HIDE DEF k
    <3>2. fm[t[k]].parent = IF k = Len(t) THEN mh ELSE fm[t[k + 1]].handle
      BY <3>1 DEF IsChain
    <3>3. fm2[u[j]].parent = fm[t[k]].parent
      BY <3>1, ElementOfSeq
    <3>4. j = Len(u) <=> k = Len(t)
      BY <1>1, <3>1
    <3>5. CASE k # Len(t)
      <4>1. k + 1 \in DOMAIN t
        BY <1>1, <3>1, <3>5
      <4>2. u[j + 1] = t[k + 1] /\ t[k + 1] \in Slots
        BY <1>1, <3>1, <4>1, ElementOfSeq
      <4> QED
        BY <3>2, <3>3, <3>4, <3>5, <4>2
    <3> QED
      BY <3>2, <3>3, <3>4, <3>5
  <2> QED
    BY <2>1, <2>2
<1>6. IsChain(u, fm2, vis \cup {h}, mh, NoName)
  BY <1>1, <1>2, <1>4, <1>5 DEF IsChain
<1>7. TopOf(u, fm2) = h
  BY <1>1 DEF TopOf, h
<1> QED
  BY <1>6, <1>7 DEF u, h

(* f is the table, with the flag of the window in slot i already set.      *)
SameButFlags(f, i) ==
  /\ f \in [Slots -> FormRecord]
  /\ \A x \in Slots : /\ f[x].name = form[x].name /\ f[x].handle = form[x].handle
                      /\ f[x].parent = form[x].parent /\ f[x].released = form[x].released
                      /\ x # i => f[x].active = form[x].active
  /\ f[i].active

(* _ShowWindow puts the dialog on top of the chain, and only the top takes *)
(* input then.                                                             *)
LEMMA ShowModalChain ==
  ASSUME WindowsInv, NEW t, ChainInv(t), MainLives, NEW i \in Slots, form[i].name \in Modal,
         \A j \in DOMAIN t : t[j] # i,
         NEW f, SameButFlags(f, i), ShowModal(f, i), UNCHANGED mainHandle,
         \A x \in Slots : x # i /\ form[x].name \in Modal => form[x].name # Unf(stack),
         ~modalActive => userWindow \in {NoHandle, mainHandle}
  PROVE  /\ IsChain(<<i>> \o t, form', visible', mainHandle', NoName)
         /\ activeModal' = TopOf(<<i>> \o t, form')
         /\ OnlyTop(<<i>> \o t, form', enabled', mainHandle')
         /\ \A x \in Slots : /\ form'[x].name = form[x].name /\ form'[x].handle = form[x].handle
                             /\ form'[x].active = f[x].active /\ form'[x].released = f[x].released
                             /\ form'[x].loop = f[x].loop /\ form'[x].id = f[x].id
                             /\ x # i => form'[x].parent = form[x].parent
<1> USE DEF SameButFlags
<1> DEFINE q == ModalParent
           h == form[i].handle
           u == <<i>> \o t
           v == [f[i] EXCEPT !.parent = q]
<1>1. Live(i) /\ h \in LiveHandles /\ h # NoHandle /\ \A x \in Slots : form[x].handle = h => x = i
  <2>1. Live(i)
    BY WindowsAssumption DEF Live
  <2> QED
    BY <2>1 DEF LiveHandles, WindowsInv, TableInv, NamesMatch, HandlesMatch
<1>2. /\ t \in Seq(Slots) /\ Len(t) \in Nat /\ DOMAIN t = 1 .. Len(t)
      /\ t # <<>> => 1 \in DOMAIN t
      /\ \A j \in DOMAIN t :
           /\ t[j] \in Slots /\ form[t[j]].handle # mainHandle
           /\ form[t[j]].handle # NoHandle
           /\ \A x \in Slots : form[x].handle = form[t[j]].handle => x = t[j]
  BY ChainFacts
<1>3. PICK m \in Slots : /\ form[m].name = Main /\ form[m].handle = mainHandle
                         /\ form[m].parent = NoHandle /\ mainHandle # NoHandle
  BY <1>1, MainWindow
<1>4. q = (IF t = <<>> THEN mainHandle ELSE form[t[1]].handle) /\ q # NoHandle
  <2>1. CASE t # <<>>
    BY <1>2, <2>1 DEF ModalParent, ChainInv, TopOf
  <2>2. CASE t = <<>>
    <3>1. ~modalActive /\ userWindow \in {NoHandle, mainHandle}
      BY <2>2 DEF ChainInv
    <3>2. SlotOf(userWindow) # 0 => userWindow # NoHandle
      <4> DEFINE c == SlotOf(userWindow)
      <4>1. c # 0 => c \in Slots /\ Live(c) /\ form[c].handle = userWindow
        BY SlotOfFinds
      <4> HIDE DEF c
      <4>2. c # 0 => form[c].handle # NoHandle
        BY <4>1 DEF WindowsInv, TableInv, NamesMatch
      <4> QED
        BY <4>1, <4>2 DEF c
    <3> QED
      BY <1>3, <2>2, <3>1, <3>2 DEF ModalParent
  <2> QED
    BY <2>1, <2>2
<1> HIDE DEF q
<1>5. /\ v.name = f[i].name /\ v.handle = f[i].handle /\ v.active = f[i].active
      /\ v.parent = q /\ v.released = f[i].released /\ v.loop = f[i].loop /\ v.id = f[i].id
  <2>1. f[i] \in FormRecord
    OBVIOUS
  <2> QED
    BY <2>1 DEF FormRecord
<1>6. /\ form' = [f EXCEPT ![i] = v]
      /\ enabled' = (enabled \ Others(form', i)) \cup {h}
      /\ activeModal' = h /\ visible' = visible \cup {h}
  BY DEF ShowModal, q
<1> HIDE DEF v
<1>7. \A x \in Slots : form'[x] = IF x = i THEN v ELSE f[x]
  BY <1>6
<1> HIDE DEF h, u
<1>8. Enters(t, form, form', visible, mainHandle, Unf(stack), i)
  <2>1. IsChain(t, form, visible, mainHandle, Unf(stack))
    BY DEF ChainInv
  <2>2. \A x \in Slots : form'[x].name = form[x].name /\ form'[x].handle = form[x].handle
    BY <1>5, <1>7
  <2>3. \A x \in Slots : x # i => form'[x].parent = form[x].parent
    BY <1>7
  <2>4. form'[i].parent = IF t = <<>> THEN mainHandle ELSE form[t[1]].handle
    BY <1>4, <1>5, <1>7
  <2> QED
    BY <1>1, <2>1, <2>2, <2>3, <2>4 DEF Enters, h
<1>9. IsChain(u, form', visible', mainHandle', NoName) /\ TopOf(u, form') = h
  BY <1>2, <1>6, <1>8, EnterChain DEF u, h
<1>10. OnlyTop(u, form', enabled', mainHandle')
  <2>1. ASSUME NEW x \in Slots, x # i, form[x].parent # h
        PROVE  form[x].handle \notin enabled'
    <3> DEFINE fm == form'
               D == {y \in Slots : y # i /\ fm[y].parent # fm[i].handle}
    <3>1. fm[i].handle = h /\ fm[x].parent = form[x].parent /\ fm[x].handle = form[x].handle
      BY <1>5, <1>7, <2>1 DEF h
    <3> HIDE DEF fm
    <3>2. x \in D
      BY <2>1, <3>1
    <3> HIDE DEF D
    <3>3. fm[x].handle \in {fm[z].handle : z \in D}
      BY <3>2
    <3>4. fm[x].handle \in Others(fm, i)
      BY <3>3 DEF D, Others
    <3>5. form[x].handle \in Others(form', i)
      BY <3>1, <3>4 DEF fm
    <3>6. form[x].handle # h
      BY <1>1, <2>1 DEF h
    <3> QED
      BY <1>6, <3>5, <3>6
  <2>2. m # i /\ mainHandle # h
    <3>1. m # i
      BY <1>3, WindowsAssumption
    <3> QED
      BY <1>1, <1>3, <3>1
  <2>3. mainHandle \notin enabled'
    BY <1>1, <1>3, <2>1, <2>2
  <2>4. ASSUME NEW j \in DOMAIN u, j # 1 PROVE form'[u[j]].handle \notin enabled'
    <3> DEFINE k == j - 1
    <3>1. k \in DOMAIN t /\ u[j] = t[k]
      BY <1>2, <2>4, OneMoreDialog DEF u
    <3> HIDE DEF k
    <3>2. form[t[k]].parent # h
      <4>1. form[t[k]].parent = IF k = Len(t) THEN mainHandle ELSE form[t[k + 1]].handle
        BY <3>1 DEF ChainInv, IsChain
      <4>2. CASE k = Len(t)
        BY <2>2, <4>1, <4>2
      <4>3. CASE k # Len(t)
        <5>1. k + 1 \in DOMAIN t
          BY <1>2, <3>1, <4>3
        <5>2. t[k + 1] \in Slots /\ t[k + 1] # i
          BY <1>2, <5>1
        <5> QED
          BY <1>1, <4>1, <4>3, <5>2
      <4> QED
        BY <4>2, <4>3
    <3>3. t[k] \in Slots /\ t[k] # i
      BY <1>2, <3>1
    <3>4. form'[t[k]].handle = form[t[k]].handle
      BY <1>5, <1>7, <3>3
    <3> QED
      BY <2>1, <3>1, <3>2, <3>3, <3>4
  <2> QED
    BY <2>3, <2>4 DEF OnlyTop
<1> QED
  BY <1>5, <1>6, <1>7, <1>9, <1>10 DEF u

(* What _ShowWindow leaves of the table. *)
LEMMA ShowModalFields ==
  ASSUME NEW i \in Slots, NEW f, SameButFlags(f, i), ShowModal(f, i)
  PROVE  /\ \A x \in Slots : /\ form'[x].name = form[x].name /\ form'[x].handle = form[x].handle
                             /\ form'[x].released = form[x].released
                             /\ form'[x].loop = f[x].loop /\ form'[x].id = f[x].id
         /\ visible' = visible \cup {form[i].handle}
<1> DEFINE v == [f[i] EXCEPT !.parent = ModalParent]
<1>1. f[i] \in FormRecord /\ f \in [Slots -> FormRecord]
  BY DEF SameButFlags
<1>2. /\ v.name = f[i].name /\ v.handle = f[i].handle /\ v.released = f[i].released
      /\ v.loop = f[i].loop /\ v.id = f[i].id
  BY <1>1 DEF FormRecord
<1>3. form' = [f EXCEPT ![i] = v] /\ visible' = visible \cup {f[i].handle}
  BY DEF ShowModal
<1> HIDE DEF v
<1>4. \A x \in Slots : form'[x] = IF x = i THEN v ELSE f[x]
  BY <1>1, <1>3
<1> QED
  BY <1>2, <1>3, <1>4 DEF SameButFlags

(* A dialog is opened, and the calls go on as s. *)
Opens(t, i, f, s) ==
  /\ i \in Slots /\ form[i].name \in Modal /\ \A j \in DOMAIN t : t[j] # i
  /\ SameButFlags(f, i) /\ ShowModal(f, i)
  /\ \A x \in Slots : x # i /\ form[x].name \in Modal => form[x].name # Unf(stack)
  /\ UNCHANGED <<nameVar, mainHandle, mainActive, message>> /\ stack' = s
  /\ mainActive /\ Active(Main) /\ quit = FALSE /\ Targets(queue) = {}
  /\ s \in Seq(Call) /\ Unf(s) = NoName

(* A step that opens a dialog puts it on top. *)
LEMMA OpenDialog ==
  ASSUME WindowsInv, NEW t, Dialog(t), NEW i, NEW f, NEW s, Opens(t, i, f, s), ActInv',
         Calls(s, <<i>> \o t, form', {}, visible', activeModal', FALSE)
  PROVE  Dialog(<<i>> \o t)'
<1> DEFINE u == <<i>> \o t
<1>1. ChainInv(t) /\ MainInv /\ MainLives /\ t \in Seq(Slots)
  BY DEF Dialog, MainInv, ChainInv, IsChain
<1>2. /\ i \in Slots /\ form[i].name \in Modal /\ \A j \in DOMAIN t : t[j] # i
      /\ SameButFlags(f, i) /\ ShowModal(f, i)
      /\ \A x \in Slots : x # i /\ form[x].name \in Modal => form[x].name # Unf(stack)
      /\ mainHandle' = mainHandle /\ nameVar' = nameVar /\ mainActive' = mainActive
      /\ queue' = queue /\ quit' = quit /\ stack' = s
      /\ mainActive /\ Active(Main) /\ quit = FALSE /\ Targets(queue) = {}
      /\ s \in Seq(Call) /\ Unf(s) = NoName
  BY DEF Opens, message
<1>3. ~modalActive => userWindow \in {NoHandle, mainHandle}
  BY <1>1 DEF MainInv
<1>4. /\ IsChain(u, form', visible', mainHandle', NoName)
      /\ activeModal' = TopOf(u, form')
      /\ OnlyTop(u, form', enabled', mainHandle')
      /\ \A x \in Slots : /\ form'[x].name = form[x].name /\ form'[x].handle = form[x].handle
                          /\ form'[x].active = f[x].active
                          /\ x # i => form'[x].parent = form[x].parent
  BY <1>1, <1>2, <1>3, ShowModalChain
<1>5. u # <<>>
  BY <1>1, <1>2, OneMoreDialog
<1>6. modalActive' = TRUE /\ visible' = visible \cup {form[i].handle}
  BY <1>2 DEF ShowModal, SameButFlags
<1> HIDE DEF u
<1>7. ChainInv(u)'
  BY <1>2, <1>4, <1>5, <1>6 DEF ChainInv
<1>8. Live(i) /\ \A x \in Slots : form[x].handle = form[i].handle => x = i
  <2>1. Live(i)
    BY <1>2, WindowsAssumption DEF Live
  <2>2. form[i].handle # NoHandle
    BY <1>2, <2>1 DEF WindowsInv, TableInv, NamesMatch
  <2> QED
    BY <1>2, <2>1, <2>2 DEF WindowsInv, TableInv, NamesMatch, HandlesMatch
<1>9. MainInv'
  <2>1. PICK m \in Slots : /\ form[m].name = Main /\ form[m].handle = mainHandle
                           /\ form[m].parent = NoHandle /\ nameVar[Main] = m
    BY <1>1, <1>2, <1>8, MainWindow
  <2>2. m # i
    BY <1>2, <2>1, WindowsAssumption
  <2>3. MainLives'
    BY <1>2, <1>4, <2>1, <2>2 DEF MainLives
  <2>4. f[i].active /\ \A x \in Slots : x # i => f[x].active = form[x].active
    BY <1>2 DEF SameButFlags
  <2>5. Active(Main)'
    BY <1>2, <1>4, <2>1, <2>2, <2>4 DEF Active, Defined
  <2>6. \A x \in Slots : form[x].handle \in visible => form[x].active
    BY <1>1 DEF MainInv
  <2>7. \A x \in Slots : form'[x].handle \in visible' => form'[x].active
    BY <1>4, <1>6, <1>8, <2>4, <2>6
  <2> QED
    BY <1>2, <1>6, <2>3, <2>5, <2>7 DEF MainInv
<1>10. Targets(queue') = {}
  BY <1>2
<1>11. /\ ShapeOk(stack') /\ ClosesOk(stack', form') /\ TargetsOk({}, stack', form', visible', activeModal')
       /\ Markers(stack', u, form', FALSE) /\ ReleasedOk(stack', form')
  BY <1>2 DEF Calls, u
<1>12. PendingInv'
  BY <1>2, <1>10, <1>11 DEF PendingInv
<1>13. Dialog(u)'
  <2>1. quit' = FALSE
    BY <1>2
  <2> QED
    BY <1>4, <1>7, <1>9, <1>11, <1>12, <2>1 DEF Dialog
<1> QED
  BY <1>13 DEF u

(* A call starts, or takes the place of another, while no dialog is being   *)
(* closed and no message waits.                                            *)
LEMMA QuietPush ==
  ASSUME NEW s \in Seq(Call), NEW f \in Call, NEW u, NEW fm, NEW vis, NEW am, NEW q,
         ShapeOk(s), s[1].k \notin {"act", "close", "all"}, ~Rel(s[1]),
         f.k \notin {"init", "close"}, ~Rel(f),
         \A d \in DOMAIN s : ~ModalClose(s[d], fm), ClosesOk(s, fm), ReleasedOk(s, fm)
  PROVE  Calls(Push(f, s), u, fm, {}, vis, am, q)
<1>1. ShapeOk(Push(f, s))
  BY ShapePush
<1>2. ClosesOk(Push(f, s), fm)
  BY ClosesPush DEF CloseOk
<1>3. TargetsOk({}, Push(f, s), fm, vis, am)
  BY DEF TargetsOk
<1>4. ReleasedOk(Push(f, s), fm)
  BY ReleasedPush
<1>5. Markers(Push(f, s), u, fm, q)
  <2> DEFINE p == Push(f, s)
  <2>1. ~ModalClose(f, fm)
    BY DEF ModalClose
  <2>2. \A d \in DOMAIN p : \/ d = 1 /\ p[d] = f
                            \/ \E c \in DOMAIN s : d = c + 1 /\ p[d] = s[c]
    BY PushPlaces, ZenonT(40)
  <2> HIDE DEF p
  <2>3. \A d \in DOMAIN p : ~ModalClose(p[d], fm)
    BY <2>1, <2>2
  <2>4. Markers(p, u, fm, q)
    BY <2>3, NothingMarked
  <2> QED
    BY <2>4 DEF p
<1> QED
  BY <1>1, <1>2, <1>3, <1>4, <1>5 DEF Calls

(* SHOW WINDOW *)
LEMMA ShowDialog ==
  ASSUME DialogProgram, WindowsInv, NEW t, Dialog(t), NEW n \in Names, Show(n)
  PROVE  Dialog(t)' \/ \E i \in Slots : Dialog(<<i>> \o t)'
<1>0. /\ stack \in Seq(Call) /\ stack # <<>> /\ Top \in Call
      /\ Top = stack[1] /\ Top = Head(stack) /\ 1 \in DOMAIN stack
      /\ Calls(stack, t, form, Targets(queue), visible, activeModal, quit)
  BY RunningCall, PushRest
<1>01. Defined(n) /\ ChainInv(t) /\ MainLives
  BY DEF Show, Dialog, MainInv
<1>02. PICK i \in Slots : i = nameVar[n]
  BY <1>01, DefinedDialog
<1>1. /\ Running("user") /\ Defined(n) /\ CareShow(i)
      /\ stack' = Push(Pump, stack)
      /\ UNCHANGED <<nameVar, mainHandle, mainActive, message>>
      /\ IsModal(i) => ShowModal(form, i)
      /\ ~IsModal(i) => visible' = visible \cup {form[i].handle} /\ UNCHANGED <<form, enabled, modality>>
  BY <1>02 DEF Show, InUserCode
<1>2. form[i].active /\ form[i].handle \notin visible /\ NothingPending /\ NotClosing
  BY <1>1 DEF CareShow, DialogProgram
<1>3. /\ Targets(queue) = {} /\ quit = FALSE
      /\ \A d \in DOMAIN stack : \A fm : ~ModalClose(stack[d], fm)
      /\ \A d \in DOMAIN stack : stack[d].k \notin {"close", "all"} /\ ~Rel(stack[d])
      /\ \A fm : ClosesOk(stack, fm)
  BY <1>2, QuietCalls
<1>4. ChainInv(t) /\ MainInv /\ MainLives /\ t \in Seq(Slots) /\ ReleasedOk(stack, form) /\ ShapeOk(stack)
      /\ OnlyTop(t, form, enabled, mainHandle)
  BY DEF Dialog, MainInv, ChainInv, IsChain
<1>5. /\ i \in Slots /\ Live(i) /\ form[i].name = n
      /\ form[i].handle # NoHandle
      /\ \A x \in Slots : form[x].handle = form[i].handle => x = i
  BY <1>01, <1>02, DefinedDialog
<1>6. Top.k = "user" /\ Unf(stack) = NoName
  <2>1. Head(stack).k = "user"
    BY <1>1 DEF Running
  <2> QED
    BY <1>0, <2>1 DEF Unf
<1>7. Pump \in Call /\ Pump.k = "events" /\ ~Rel(Pump) /\ Push(Pump, stack) \in Seq(Call)
      /\ Head(Push(Pump, stack)) = Pump
  <2>1. Pump \in Call /\ Pump.k = "events"
    BY DEF Pump, Call
  <2> QED
    BY <1>0, <2>1, PushPlaces DEF Rel
<1>8. ASSUME NEW u, NEW fm, NEW vis, NEW am, \A x \in Slots : fm[x].released = form[x].released
      PROVE  Calls(Push(Pump, stack), u, fm, {}, vis, am, FALSE)
  <2>1. ReleasedOk(stack, fm)
    BY <1>4, <1>8 DEF ReleasedOk
  <2>2. stack[1].k \notin {"act", "close", "all"} /\ ~Rel(stack[1])
    BY <1>0, <1>3, <1>6
  <2> DEFINE q == FALSE
  <2>3. \A d \in DOMAIN stack : ~ModalClose(stack[d], fm)
    BY <1>3
  <2>4. ClosesOk(stack, fm)
    BY <1>3
  <2> HIDE DEF q
  <2>5. Calls(Push(Pump, stack), u, fm, {}, vis, am, q)
    BY <1>0, <1>4, <1>7, <2>1, <2>2, <2>3, <2>4, QuietPush
  <2> QED
    BY <2>5 DEF q
<1>9. Active(Main) /\ mainActive
  <2>1. mainActive
    BY <1>2, <1>4, <1>5 DEF MainInv
  <2> QED
    BY <1>0, <1>4, <1>6, <2>1 DEF MainInv
<1>10. ActInv'
  BY <1>1, <1>7 DEF ActInv
<1>11. CASE IsModal(i)
  <2>1. SameButFlags(form, i)
    BY <1>2 DEF SameButFlags, WindowsInv, TableInv
  <2>2. \A j \in DOMAIN t : t[j] # i
    BY <1>2, <1>4, ChainFacts
  <2>3. \A x \in Slots : x # i /\ form[x].name \in Modal => form[x].name # Unf(stack)
    BY <1>6, WindowsAssumption
  <2>4. Unf(Push(Pump, stack)) = NoName
    BY <1>7 DEF Unf
  <2>5. Opens(t, i, form, Push(Pump, stack))
    BY <1>1, <1>3, <1>5, <1>7, <1>9, <1>11, <2>1, <2>2, <2>3, <2>4 DEF Opens, IsModal
  <2>9. ~modalActive => userWindow \in {NoHandle, mainHandle}
    BY <1>4 DEF MainInv
  <2>6. \A x \in Slots : form'[x].released = form[x].released
    BY <1>1, <1>5, <1>11, <2>1, ShowModalFields
  <2>7. Calls(Push(Pump, stack), <<i>> \o t, form', {}, visible', activeModal', FALSE)
    BY <1>8, <2>6
  <2>8. Dialog(<<i>> \o t)'
    <3> DEFINE s == Push(Pump, stack)
               f == form
    <3>1. Opens(t, i, f, s) /\ Calls(s, <<i>> \o t, form', {}, visible', activeModal', FALSE)
      BY <2>5, <2>7
    <3> HIDE DEF s, f
    <3> QED
      BY <1>10, <3>1, OpenDialog
  <2> QED
    BY <1>5, <2>8
<1>12. CASE ~IsModal(i)
  <2>1. form[i].name = Main
    BY <1>5, <1>12 DEF IsModal, DialogProgram
  <2>2. PICK m \in Slots : /\ form[m].name = Main /\ form[m].handle = mainHandle
                           /\ \A x \in Slots : form[x].handle = mainHandle \/ form[x].name = Main => x = m
    BY <1>4, <1>5, MainWindow
  <2>3. i = m /\ form[i].handle = mainHandle /\ Main \notin Modal
    BY <1>5, <2>1, <2>2, WindowsAssumption
  <2>4. /\ form' = form /\ enabled' = enabled /\ visible' = visible \cup {mainHandle}
        /\ modalActive' = modalActive /\ activeModal' = activeModal /\ userWindow' = userWindow
        /\ mainHandle' = mainHandle /\ mainActive' = mainActive /\ nameVar' = nameVar
        /\ queue' = queue /\ quit' = quit
    BY <1>1, <1>12, <2>3 DEF modality, message
  <2>5. Unf(stack') = NoName /\ Unf(stack) = NoName
    BY <1>1, <1>6, <1>7 DEF Unf
  <2>6. \A x \in Slots : IsOpen(x, form, visible', NoName) <=> IsOpen(x, form, visible, NoName)
    BY <2>2, <2>3, <2>4 DEF IsOpen
  <2>7. IsChain(t, form, visible', mainHandle, NoName)
    BY <1>4, <2>5, <2>6 DEF ChainInv, IsChain
  <2>8. ChainInv(t)'
    BY <1>4, <2>4, <2>5, <2>7 DEF ChainInv
  <2>9. MainInv'
    <3>1. MainLives'
      BY <1>4, <2>4 DEF MainLives, Live
    <3>2. Active(Main)'
      BY <1>9, <2>4 DEF Active, Defined
    <3>3. \A x \in Slots : form'[x].handle \in visible' => form'[x].active
      BY <1>2, <1>4, <2>2, <2>3, <2>4 DEF MainInv
    <3> QED
      BY <1>4, <1>9, <2>4, <3>1, <3>2, <3>3 DEF MainInv
  <2>10. Calls(Push(Pump, stack), t, form', {}, visible', activeModal', FALSE)
    BY <1>8, <2>4
  <2>11. PendingInv' /\ Targets(queue') = {}
    <3>1. Targets(queue') = {}
      BY <1>3, <2>4
    <3> QED
      BY <1>1, <1>3, <2>4, <2>10, <3>1 DEF PendingInv, Calls
  <2>12. Dialog(t)'
    <3>1. OnlyTop(t, form', enabled', mainHandle')
      BY <1>4, <2>4
    <3>2. /\ ShapeOk(stack') /\ ClosesOk(stack', form') /\ ReleasedOk(stack', form')
          /\ Markers(stack', t, form', quit')
      BY <1>1, <1>3, <2>4, <2>10 DEF Calls
    <3> QED
      BY <1>10, <2>8, <2>9, <2>11, <3>1, <3>2 DEF Dialog
  <2> QED
    BY <2>12
<1> QED
  BY <1>11, <1>12

(* ACTIVATE WINDOW *)

(* An activation starts. *)
LEMMA ActivationStarts ==
  ASSUME WindowsInv, NEW t, Dialog(t), NothingPending, Top.k = "user", ~Rel(Top),
         NEW f \in Call, f.k = "act", f.todo # <<>>, f.g = NewLoop, ~f.nowait, f.shown = NoName,
         f.several => ~modalActive,
         stack' = Push(f, stack), mainActive \/ Main \in NamesOf(f.todo), mainActive',
         UNCHANGED <<form, nameVar, mainHandle, modality, screen, message>>
  PROVE  Dialog(t)'
<1>0. /\ stack \in Seq(Call) /\ stack # <<>>
      /\ Top = stack[1] /\ Top = Head(stack)
      /\ Calls(stack, t, form, Targets(queue), visible, activeModal, quit)
  BY RunningCall
<1>1. Targets(queue) = {} /\ quit = FALSE /\ AllDiscarded
  BY NoTargets DEF NothingPending, WindowsInv, StateInv, AllDiscarded
<1>2. /\ ChainInv(t) /\ MainInv /\ MainLives /\ t \in Seq(Slots)
      /\ OnlyTop(t, form, enabled, mainHandle)
  BY DEF Dialog, MainInv, ChainInv, IsChain
<1>3. Push(f, stack) \in Seq(Call) /\ Head(stack') = f /\ stack' = Push(f, stack)
  BY <1>0, PushPlaces
<1>4. Unf(stack) = NoName /\ Unf(stack') = NoName
  BY <1>0, <1>3 DEF Unf
<1>5. /\ form' = form /\ nameVar' = nameVar /\ mainHandle' = mainHandle
      /\ modalActive' = modalActive /\ activeModal' = activeModal /\ userWindow' = userWindow
      /\ visible' = visible /\ enabled' = enabled /\ queue' = queue /\ quit' = quit
  BY DEF modality, screen, message
<1>6. ChainInv(t)'
  BY <1>2, <1>4, <1>5 DEF ChainInv
<1>7. MainInv'
  <2>1. MainLives'
    BY <1>2, <1>5 DEF MainLives, Live
  <2>2. Active(Main)' \/ (Head(stack').k = "act" /\ Main \in NamesOf(Head(stack').todo))
    <3>1. CASE mainActive
      <4>1. Active(Main)
        BY <1>0, <1>2, <3>1 DEF MainInv
      <4> QED
        BY <1>5, <4>1 DEF Active, Defined
    <3>2. CASE Main \in NamesOf(f.todo)
      BY <1>3, <3>2
    <3> QED
      BY <3>1, <3>2
  <2>3. \A i \in Slots : form'[i].handle \in visible' => form'[i].active
    BY <1>2, <1>5 DEF MainInv
  <2>4. ~modalActive' => userWindow' \in {NoHandle, mainHandle'}
    BY <1>2, <1>5 DEF MainInv
  <2> QED
    BY <2>1, <2>2, <2>3, <2>4 DEF MainInv
<1>8. ActInv'
  <2>1. AllDiscarded'
    BY <1>1, <1>5 DEF AllDiscarded
  <2> QED
    BY <1>1, <1>3, <1>5, <2>1 DEF ActInv
<1>9. f.k # "init" /\ f.k # "close" /\ ~Rel(f)
  BY DEF Rel
<1>10. ShapeOk(Push(f, stack))
  <2>1. stack[1].k \notin {"act", "close", "all"} /\ ~Rel(stack[1])
    BY <1>0
  <2>2. ShapeOk(stack)
    BY <1>0 DEF Calls
  <2> QED
    BY <1>0, <1>9, <2>1, <2>2, ShapePush
<1>11. ClosesOk(Push(f, stack), form) /\ ReleasedOk(Push(f, stack), form)
  <2>1. CloseOk(f, form) /\ ClosesOk(stack, form) /\ ReleasedOk(stack, form)
    BY <1>0, <1>9 DEF CloseOk, Calls
  <2> QED
    BY <1>0, <2>1, ClosesPush, ReleasedPush
<1>12. Markers(Push(f, stack), t, form, FALSE)
  <2>1. Markers(stack, t, form, FALSE)
    BY <1>0, <1>1 DEF Calls
  <2>2. \A i \in Slots : form[i].loop # f.g
    BY NewLoopFresh
  <2>3. stack[1].k # "act" /\ (stack[1].k = "close" => stack[1].at # "start")
    BY <1>0
  <2> QED
    BY <1>0, <1>2, <2>1, <2>2, <2>3, MarkersActivate
<1>13. PendingInv'
  <2>1. TargetsOk({}, stack', form', visible', activeModal')
    BY DEF TargetsOk
  <2>2. Targets(queue') = {} /\ ~quit'
    BY <1>1, <1>5
  <2> QED
    BY <2>1, <2>2 DEF PendingInv
<1>14. OnlyTop(t, form', enabled', mainHandle')
  BY <1>2, <1>5
<1>15. Markers(stack', t, form', quit')
  BY <1>1, <1>3, <1>5, <1>12
<1>16. ShapeOk(stack') /\ ClosesOk(stack', form') /\ ReleasedOk(stack', form')
  BY <1>3, <1>5, <1>10, <1>11
<1> QED
  BY <1>6, <1>7, <1>8, <1>13, <1>14, <1>15, <1>16 DEF Dialog

(* ACTIVATE WINDOW opens nothing before its first turn. *)
LEMMA ActivateDialog ==
  ASSUME DialogProgram, WindowsInv, NEW t, Dialog(t), NEW s \in Activations, NEW w \in BOOLEAN,
         Activate(s, w)
  PROVE  Dialog(t)'
<1>0. s \in Seq(Names) /\ Len(s) \in Nat /\ s # <<>>
  BY WindowsAssumption, LenProperties
<1>1. w = FALSE
  BY DEF Activate, InUserCode, DialogProgram
<1>2. Running("user") /\ NothingPending
  BY <1>1 DEF Activate, InUserCode, CareActivate, DialogProgram
<1>3. CASE ActivateWrongly(s)
  BY <1>3, StopDialog DEF Activate, Abort
<1>4. CASE ~ActivateWrongly(s)
  <2>0. /\ stack \in Seq(Call) /\ stack # <<>> /\ Top = stack[1] /\ Top = Head(stack)
    BY RunningCall
  <2>1. Top.k = "user" /\ ~Rel(Top)
    <3>1. Head(stack).k = "user"
      BY <1>2 DEF Running
    <3>2. ThisEventType # "WINDOW_RELEASE"
      BY <1>4 DEF ActivateWrongly
    <3>3. ~Rel(Head(stack))
      BY <2>0, <3>2, RelEventType
    <3> QED
      BY <2>0, <3>1, <3>3
  <2>2. Main \in NamesOf(s) \/ mainActive
    BY <1>4 DEF ActivateWrongly
  <2>3. Len(s) > 1 => ~modalActive
    BY <1>4 DEF ActivateWrongly
  <2>4. /\ mainActive' = (mainActive \/ Main \in NamesOf(s))
        /\ UNCHANGED <<form, nameVar, mainHandle, modality, screen, message>>
    BY <1>4 DEF Activate
  <2>5. mainActive'
    BY <2>2, <2>4
  <2>6. ASSUME NEW several \in BOOLEAN, NEW id \in Nat, several => Len(s) > 1,
               stack' = Push(Activating(s, several, id, NewLoop, w, NoName), stack)
        PROVE  Dialog(t)'
    <3> DEFINE f == Activating(s, several, id, NewLoop, w, NoName)
    <3>1. /\ f \in Call /\ f.k = "act" /\ f.g = NewLoop /\ (f.several <=> several)
          /\ f.todo = s /\ f.nowait = w /\ f.shown = NoName
      BY <1>0, <2>6, NewLoopFresh DEF Activating, Call
    <3>2. stack' = Push(f, stack)
      BY <2>6
    <3> HIDE DEF f
    <3> QED
      BY <1>0, <1>1, <1>2, <2>1, <2>2, <2>3, <2>4, <2>5, <2>6, <3>1, <3>2, ActivationStarts
  <2>7. \/ /\ Len(s) = 1
           /\ stack' = Push(Activating(s, FALSE, 0, NewLoop, w, NoName), stack)
        \/ \E id \in ActivateIds :
             /\ Len(s) > 1
             /\ stack' = Push(Activating(s, TRUE, id, NewLoop, w, NoName), stack)
    BY <1>4 DEF Activate
  <2>8. CASE stack' = Push(Activating(s, FALSE, 0, NewLoop, w, NoName), stack)
    BY <2>6, <2>8
  <2>9. ASSUME NEW id \in ActivateIds, Len(s) > 1,
               stack' = Push(Activating(s, TRUE, id, NewLoop, w, NoName), stack)
        PROVE  Dialog(t)'
    BY <2>6, <2>9, WindowsAssumption
  <2> QED
    BY <2>7, <2>8, <2>9
<1> QED
  BY <1>3, <1>4

(* One turn of _ActivateWindow: the window n of slot i is shown, its flags  *)
(* are set in the table g, and the activation goes on as c.                *)
Turn(n, i, g, c) ==
  /\ n \in Names /\ n = Head(Top.todo) /\ i \in Slots /\ i = nameVar[n]
  /\ form[i].name = n /\ ~form[i].active
  /\ SameButFlags(g, i) /\ g[i].loop = Top.g /\ g[i].id = Top.id
  /\ \A x \in Slots : x # i => g[x].loop = form[x].loop /\ g[x].id = form[x].id
  /\ c \in Call /\ c.k = "act" /\ c.several = Top.several /\ c.g = Top.g
  /\ c.todo = Tail(Top.todo) /\ c.nowait = Top.nowait
  /\ c.shown = IF Top.several /\ n \in Modal \ NoShow THEN n ELSE Top.shown
  /\ stack' = Push(c, Rest)
  /\ UNCHANGED <<nameVar, mainHandle, mainActive, message>>
  /\ IF n \in Modal /\ ~Top.several THEN ShowModal(g, i)
     ELSE /\ form' = g
          /\ visible' = IF n \in NoShow THEN visible ELSE visible \cup {form[i].handle}
          /\ UNCHANGED <<enabled, modality>>
  /\ Top.several /\ n \in Modal \ NoShow => Top.shown = NoName
  /\ ~Top.several /\ n \notin Modal => ~modalActive

(* The running call of an activation. *)
LEMMA RunningAct ==
  ASSUME WindowsInv, NEW t, Dialog(t), Running("act")
  PROVE  /\ Top.k = "act" /\ Top \in ActCall /\ Top.todo \in Seq(Names)
         /\ quit = FALSE /\ AllDiscarded /\ ~Top.nowait /\ mainActive
         /\ Top.several => ~modalActive
         /\ ~Top.several => Top.shown = NoName
         /\ Top.shown # NoName => /\ Top.shown \in Modal /\ Active(Top.shown)
                                  /\ form[nameVar[Top.shown]].handle \in visible
         /\ Unf(stack) = Top.shown
<1>1. Top \in Call /\ Top = Head(stack)
  BY RunningCall
<1>2. Top.k = "act"
  BY DEF Running, Top
<1>3. Top \in ActCall
  BY <1>1, <1>2, CallFields DEF ActCall
<1>4. ActInv /\ Head(stack) = Top
  BY <1>1 DEF Dialog
<1>5. /\ ~quit /\ AllDiscarded /\ ~Top.nowait /\ mainActive
      /\ Top.several => ~modalActive
      /\ ~Top.several => Top.shown = NoName
      /\ Top.shown # NoName => /\ Top.shown \in Modal /\ Active(Top.shown)
                               /\ form[nameVar[Top.shown]].handle \in visible
  BY <1>2, <1>4 DEF ActInv
<1>6. Unf(stack) = Top.shown
  BY <1>2, <1>4 DEF Unf
<1> QED
  BY <1>2, <1>3, <1>5, <1>6 DEF ActCall, WindowsInv, StateInv

(* An activation that does not stop with an error takes a turn. *)
LEMMA TurnStarts ==
  ASSUME DialogProgram, WindowsInv, NEW t, Dialog(t), ActivateNext,
         ~ActivateNextWrongly(Head(Top.todo))
  PROVE  Top.todo # <<>> /\ \E n, i, g, c : Turn(n, i, g, c)
<1> DEFINE shown == IF Top.several /\ Head(Top.todo) \in Modal \ NoShow THEN Head(Top.todo) ELSE Top.shown
           c == [Top EXCEPT !.todo = Tail(@), !.shown = shown]
           i == nameVar[Head(Top.todo)]
           g == [form EXCEPT ![i].active = TRUE, ![i].id = Top.id, ![i].loop = Top.g]
<1>1. /\ Top.k = "act" /\ Top \in ActCall /\ Top.todo \in Seq(Names)
      /\ ~Top.nowait /\ Running("act") /\ Top.todo # <<>>
  BY RunningAct DEF ActivateNext
<1>2. PICK n \in Names : n = Head(Top.todo)
  BY <1>1, HeadTailProperties
<1>3. /\ IF n \in Modal /\ ~Top.several THEN ShowModal(g, i)
         ELSE /\ form' = g
              /\ visible' = IF n \in NoShow THEN visible ELSE visible \cup {form[i].handle}
              /\ UNCHANGED <<enabled, modality>>
      /\ stack' = Push(c, Rest)
      /\ UNCHANGED <<nameVar, mainHandle, mainActive, message>>
  BY <1>2 DEF ActivateNext, DialogProgram
<1>4. /\ i \in Slots /\ Live(i) /\ ~form[i].active /\ form[i].name = n
      /\ i = nameVar[n]
  BY <1>2, DefinedIsLive DEF WindowsInv, ActivateNextWrongly, Active, TableInv, NamesMatch
<1>5. form \in [Slots -> FormRecord]
  BY DEF WindowsInv, TableInv
<1>6. /\ SameButFlags(g, i) /\ g[i].loop = Top.g /\ g[i].id = Top.id
      /\ \A x \in Slots : x # i => g[x].loop = form[x].loop /\ g[x].id = form[x].id
  <2>1. form[i] \in FormRecord /\ Top.id \in Nat /\ Top.g \in Nat
    BY <1>1, <1>4, <1>5 DEF ActCall
  <2> DEFINE v == [form[i] EXCEPT !.active = TRUE, !.id = Top.id, !.loop = Top.g]
  <2> HIDE DEF i
  <2>2. g = [form EXCEPT ![i] = v]
    BY <1>4, <1>5
  <2>3. /\ v \in FormRecord /\ v.id = Top.id /\ v.loop = Top.g /\ v.active
        /\ v.name = form[i].name /\ v.handle = form[i].handle
        /\ v.parent = form[i].parent /\ v.released = form[i].released
    BY <2>1 DEF FormRecord
  <2> HIDE DEF g, v
  <2> QED
    BY <1>4, <1>5, <2>2, <2>3 DEF SameButFlags
<1>7. /\ c \in Call /\ c.k = "act" /\ c.several = Top.several /\ c.g = Top.g
      /\ c.todo = Tail(Top.todo) /\ c.nowait = Top.nowait /\ c.shown = shown
  <2>1. shown \in Names \cup {NoName} /\ Tail(Top.todo) \in Seq(Names)
    BY <1>1, <1>2, HeadTailProperties DEF ActCall
  <2>2. c = [Top EXCEPT !.todo = Tail(Top.todo), !.shown = shown]
    BY <1>1 DEF ActCall
  <2> HIDE DEF shown
  <2>3. c.nowait = Top.nowait /\ c.shown = shown
    BY <1>1 DEF ActCall
  <2> DEFINE td == Tail(Top.todo)
             r == [Top EXCEPT !.todo = td, !.shown = shown]
  <2>4. c = r
    BY <2>2
  <2> HIDE DEF td
  <2>5. /\ r \in Call /\ r.k = "act" /\ r.several = Top.several
        /\ r.id = Top.id /\ r.g = Top.g /\ r.todo = td
    <3>1. td \in Seq(Names) /\ Top \in ActCall /\ shown \in Names \cup {NoName}
      BY <1>1, <2>1 DEF td
    <3> QED
      BY <3>1, ActCallEdited, ZenonT(40)
  <2> HIDE DEF r, c
  <2> QED
    BY <2>3, <2>4, <2>5 DEF td
<1>8. /\ Top.several /\ n \in Modal \ NoShow => Top.shown = NoName
      /\ ~Top.several /\ n \notin Modal => ~modalActive
  BY <1>1, <1>2 DEF ActivateNextWrongly
<1>9. shown = IF Top.several /\ n \in Modal \ NoShow THEN n ELSE Top.shown
  BY <1>2
<1> HIDE DEF g, i, c, shown
<1>10. Turn(n, i, g, c)
  BY <1>2, <1>3, <1>4, <1>6, <1>7, <1>8, <1>9 DEF Turn
<1> QED
  BY <1>1, <1>10

(* The calls below an activation, which are also those below what it       *)
(* becomes.                                                                *)
LEMMA BelowAct ==
  ASSUME WindowsInv, CountersInv, status = "run", NEW t, Dialog(t), Top.k = "act",
         NEW c \in Call, c.k \in {"act", "loop"}
  PROVE  /\ Rest \in Seq(Call) /\ ShapeOk(Push(c, Rest)) /\ Push(c, Rest) \in Seq(Call)
         /\ Head(Push(c, Rest)) = c /\ Push(c, Rest)[1] = c
         /\ \A d \in DOMAIN Rest : OwnsLoop(Rest[d]) => Rest[d].g # Top.g
         /\ \A fm : (\A x \in Slots : /\ fm[x].name = form[x].name
                                      /\ fm[x].handle = form[x].handle
                                      /\ fm[x].released = form[x].released)
              => ClosesOk(Push(c, Rest), fm) /\ ReleasedOk(Push(c, Rest), fm)
         /\ t = <<>> => \A d \in DOMAIN Push(c, Rest) : ~ModalClose(Push(c, Rest)[d], form)
<1>0. /\ stack \in Seq(Call) /\ stack # <<>> /\ Top \in Call /\ Rest \in Seq(Call)
      /\ stack = Push(Top, Rest) /\ Top = Head(stack) /\ Rest = Tail(stack)
      /\ Calls(Push(Top, Rest), t, form, Targets(queue), visible, activeModal, quit)
  BY RunningCall
<1>1. ~Rel(Top) /\ ~Rel(c) /\ \A x : ~ReleasedBy(Top, x)
  BY DEF Rel, ReleasedBy
<1>2. ShapeOk(Push(c, Rest))
  <2>1. ShapeOk(Push(Top, Rest))
    BY <1>0 DEF Calls
  <2> QED
    BY <1>0, <1>1, <2>1, ShapeSwap
<1>3. /\ Push(c, Rest) \in Seq(Call) /\ Head(Push(c, Rest)) = c /\ Push(c, Rest)[1] = c
      /\ \A d \in DOMAIN Push(c, Rest) :
               \/ d = 1 /\ Push(c, Rest)[d] = c
               \/ \E e \in DOMAIN Rest : d = e + 1 /\ Push(c, Rest)[d] = Rest[e]
  BY <1>0, PushPlaces, ZenonT(40)
<1>4. \A d \in DOMAIN Rest : OwnsLoop(Rest[d]) => Rest[d].g # Top.g
  BY <1>0, TailOk DEF CountersInv, OwnsLoop
<1>5. ClosesOk(Rest, form) /\ ReleasedOk(Rest, form)
  <2>1. ClosesOk(Push(Top, Rest), form) /\ ReleasedOk(Push(Top, Rest), form)
    BY <1>0 DEF Calls
  <2> QED
    BY <1>0, <1>1, <2>1, ClosesPush, ReleasedTail
<1>6. ASSUME NEW fm, \A x \in Slots : /\ fm[x].name = form[x].name
                                      /\ fm[x].handle = form[x].handle
                                      /\ fm[x].released = form[x].released
      PROVE  ClosesOk(Push(c, Rest), fm) /\ ReleasedOk(Push(c, Rest), fm)
  <2>1. ClosesOk(Rest, fm)
    <3>1. \A d \in DOMAIN Rest : Rest[d].k = "close" => Rest[d].i \in Slots
      BY <1>0, ElementOfSeq, CallFields
    <3> QED
      BY <1>5, <1>6, <3>1 DEF ClosesOk, CloseOk
  <2>2. ReleasedOk(Rest, fm)
    BY <1>5, <1>6 DEF ReleasedOk
  <2>3. CloseOk(c, fm)
    BY DEF CloseOk
  <2> QED
    BY <1>0, <2>1, <2>2, <2>3, ClosesPush, ReleasedPush
<1>7. ASSUME t = <<>>, NEW e \in DOMAIN Rest PROVE ~ModalClose(Rest[e], form)
  <2>1. /\ e + 1 \in DOMAIN stack /\ stack[e + 1] = Rest[e] /\ e \in Nat /\ e >= 1
    <3>1. Push(Top, Rest) = stack
      BY <1>0
    <3>2. \A d \in DOMAIN Rest : /\ d + 1 \in DOMAIN Push(Top, Rest)
                                 /\ Push(Top, Rest)[d + 1] = Rest[d] /\ d \in Nat /\ d >= 1
      BY <1>0, PushPlaces, ZenonT(40)
    <3> QED
      BY <1>7, <3>1, <3>2
  <2>2. ClosesMarked(stack, t, form)
    BY <1>0 DEF Calls, Markers
  <2>3. DOMAIN t = {}
    BY <1>7
  <2>4. ~CloseMarked(stack, e + 1, t, form)
    <3>1. e + 1 # 1
      BY <2>1
    <3> QED
      BY <2>3, <3>1 DEF CloseMarked
  <2> QED
    BY <2>1, <2>2, <2>4 DEF ClosesMarked
<1>8. ~ModalClose(c, form)
  BY DEF ModalClose
<1> QED
  BY <1>0, <1>2, <1>3, <1>4, <1>6, <1>7, <1>8

(* A simple activation opens its dialog. *)
LEMMA TurnOpens ==
  ASSUME DialogProgram, WindowsInv, CountersInv, status = "run", NEW t, Dialog(t), Running("act"),
         Top.todo # <<>>, NEW n, NEW i, NEW g, NEW c, Turn(n, i, g, c), n \in Modal, ~Top.several
  PROVE  Dialog(<<i>> \o t)'
<1> DEFINE u == <<i>> \o t
<1>1. /\ Top.k = "act" /\ Top \in ActCall /\ Top.todo \in Seq(Names)
      /\ quit = FALSE /\ AllDiscarded /\ ~Top.nowait /\ mainActive
      /\ Top.shown = NoName /\ Unf(stack) = Top.shown
  BY RunningAct
<1>2. /\ n = Head(Top.todo) /\ i \in Slots /\ form[i].name = n /\ ~form[i].active
      /\ SameButFlags(g, i) /\ g[i].loop = Top.g /\ g[i].id = Top.id
      /\ \A x \in Slots : x # i => g[x].loop = form[x].loop /\ g[x].id = form[x].id
      /\ c \in Call /\ c.k = "act" /\ c.several = Top.several /\ c.g = Top.g
      /\ c.todo = Tail(Top.todo) /\ c.nowait = Top.nowait
      /\ c.shown = NoName /\ stack' = Push(c, Rest)
      /\ nameVar' = nameVar /\ mainHandle' = mainHandle /\ mainActive' = mainActive
      /\ UNCHANGED message /\ ShowModal(g, i)
  BY <1>1 DEF Turn
<1>3. ChainInv(t) /\ MainInv /\ MainLives /\ t \in Seq(Slots)
  BY DEF Dialog, MainInv, ChainInv, IsChain
<1>4. /\ stack \in Seq(Call) /\ Top \in Call /\ Rest \in Seq(Call)
      /\ stack = Push(Top, Rest) /\ Top = Head(stack)
      /\ Calls(Push(Top, Rest), t, form, Targets(queue), visible, activeModal, quit)
  BY RunningCall
<1>5. /\ ShapeOk(Push(c, Rest)) /\ Push(c, Rest) \in Seq(Call) /\ Head(Push(c, Rest)) = c
      /\ \A d \in DOMAIN Rest : OwnsLoop(Rest[d]) => Rest[d].g # Top.g
      /\ \A fm : (\A x \in Slots : /\ fm[x].name = form[x].name
                                   /\ fm[x].handle = form[x].handle
                                   /\ fm[x].released = form[x].released)
           => ClosesOk(Push(c, Rest), fm) /\ ReleasedOk(Push(c, Rest), fm)
  BY <1>1, <1>2, BelowAct
<1>6. Top.id = 0 /\ Len(Top.todo) = 1 /\ c.todo = <<>>
  <2>1. CallOk(Top)
    <3>1. 1 \in DOMAIN stack /\ stack[1] = Top
      BY <1>4, PushPlaces
    <3> QED
      BY <3>1 DEF CountersInv, StackOk
  <2>2. Top.id = 0 /\ Len(Top.todo) <= 1
    BY <1>1, <2>1 DEF CallOk
  <2>3. Len(Top.todo) \in Nat /\ Len(Top.todo) # 0 /\ Len(Tail(Top.todo)) = Len(Top.todo) - 1
        /\ Tail(Top.todo) \in Seq(Names)
    BY <1>1, HeadTailProperties, EmptySeq
  <2> DEFINE m == Len(Top.todo)
  <2>5. m \in Nat /\ m # 0 /\ m <= 1
    BY <2>2, <2>3
  <2> HIDE DEF m
  <2>6. m = 1
    BY <2>5
  <2>4. Len(Top.todo) = 1 /\ Len(Tail(Top.todo)) = 0
    BY <2>3, <2>6 DEF m
  <2> QED
    BY <1>2, <2>2, <2>3, <2>4, EmptySeq
<1>7. Active(Main)
  <2>1. Main \notin NamesOf(Top.todo)
    <3>1. DOMAIN Top.todo = {1} /\ Top.todo[1] = n
      BY <1>1, <1>2, <1>6, LenProperties
    <3>2. n # Main
      BY WindowsAssumption
    <3> QED
      BY <3>1, <3>2 DEF NamesOf
  <2> QED
    BY <1>1, <1>3, <1>4, <2>1 DEF MainInv
<1>8. Targets(queue) = {}
  BY <1>1, NoTargets DEF AllDiscarded
<1>9. \A j \in DOMAIN t : t[j] # i
  <2>1. \A j \in DOMAIN t : form[t[j]].active
    BY <1>3, ChainFacts DEF MainInv
  <2> QED
    BY <1>2, <2>1
<1>10. Opens(t, i, g, Push(c, Rest))
  <2>1. \A x \in Slots : x # i /\ form[x].name \in Modal => form[x].name # Unf(stack)
    BY <1>1, WindowsAssumption
  <2>2. Unf(Push(c, Rest)) = NoName
    BY <1>2, <1>5 DEF Unf
  <2> QED
    BY <1>1, <1>2, <1>5, <1>7, <1>8, <1>9, <2>1, <2>2 DEF Opens
<1>11. \A x \in Slots : /\ form'[x].name = form[x].name /\ form'[x].handle = form[x].handle
                        /\ form'[x].released = form[x].released
                        /\ form'[x].loop = g[x].loop /\ form'[x].id = g[x].id
  BY <1>2, ShowModalFields
<1>12. Markers(Push(c, Rest), u, form', FALSE)
  <2> DEFINE fm == form
             fm2 == form'
  <2>1. Markers(Push(Top, Rest), t, fm, FALSE)
    BY <1>1, <1>4 DEF Calls
  <2>2. fm2[i].name = fm[i].name /\ fm2[i].loop = Top.g /\ fm2[i].id = 0
    BY <1>2, <1>6, <1>11
  <2>3. \A x \in Slots : x # i => /\ fm2[x].name = fm[x].name /\ fm2[x].loop = fm[x].loop
                                  /\ fm2[x].id = fm[x].id
    BY <1>2, <1>11
  <2> HIDE DEF fm, fm2
  <2> DEFINE r == Rest
             f == Top
  <2>5. /\ r \in Seq(Call) /\ f \in Call /\ c \in Call /\ t \in Seq(Slots) /\ i \in Slots
        /\ f.k = "act" /\ f.todo # <<>> /\ c.k = "act" /\ c.todo = <<>> /\ c.g = f.g
        /\ \A j \in DOMAIN t : t[j] # i
        /\ \A d \in DOMAIN r : OwnsLoop(r[d]) => r[d].g # f.g
        /\ fm2[i].name = fm[i].name /\ fm2[i].loop = f.g /\ fm2[i].id = 0
        /\ \A x \in Slots : x # i => /\ fm2[x].name = fm[x].name /\ fm2[x].loop = fm[x].loop
                                      /\ fm2[x].id = fm[x].id
        /\ Markers(Push(f, r), t, fm, FALSE)
    BY <1>1, <1>2, <1>3, <1>4, <1>5, <1>6, <1>9, <2>1, <2>2, <2>3
  <2> HIDE DEF r, f
  <2>6. Markers(Push(c, r), <<i>> \o t, fm2, FALSE)
    BY <2>5, MarkersOpen, ZenonT(40)
  <2>4. Markers(Push(c, Rest), <<i>> \o t, fm2, FALSE)
    BY <2>6 DEF r
  <2> QED
    BY <2>4 DEF fm2
<1>13. ActInv'
  <2>1. AllDiscarded' /\ quit' = FALSE
    BY <1>1, <1>2 DEF AllDiscarded, message
  <2> QED
    BY <1>1, <1>2, <1>5, <2>1 DEF ActInv
<1>14. Calls(Push(c, Rest), u, form', {}, visible', activeModal', FALSE)
  <2>1. ClosesOk(Push(c, Rest), form') /\ ReleasedOk(Push(c, Rest), form')
    BY <1>5, <1>11
  <2>2. TargetsOk({}, Push(c, Rest), form', visible', activeModal')
    BY DEF TargetsOk
  <2> QED
    BY <1>5, <1>12, <2>1, <2>2 DEF Calls
<1> QED
  <2> DEFINE s == Push(c, Rest)
  <2>1. Opens(t, i, g, s) /\ Calls(s, <<i>> \o t, form', {}, visible', activeModal', FALSE)
    BY <1>10, <1>14
  <2> HIDE DEF s
  <2> QED
    BY <1>13, <2>1, OpenDialog

(* The main window, or one of several: without dialogs.                    *)
LEMMA TurnShows ==
  ASSUME DialogProgram, WindowsInv, CountersInv, status = "run", NEW t, Dialog(t), Running("act"),
         Top.todo # <<>>, NEW n, NEW i, NEW g, NEW c, Turn(n, i, g, c), ~(n \in Modal /\ ~Top.several)
  PROVE  Dialog(t)'
<1>1. /\ Top.k = "act" /\ Top \in ActCall /\ Top.todo \in Seq(Names)
      /\ quit = FALSE /\ AllDiscarded /\ ~Top.nowait /\ mainActive
      /\ Top.several => ~modalActive
      /\ ~Top.several => Top.shown = NoName
      /\ Top.shown # NoName => /\ Top.shown \in Modal /\ Active(Top.shown)
                               /\ form[nameVar[Top.shown]].handle \in visible
      /\ Unf(stack) = Top.shown
  BY RunningAct
<1>2. /\ n = Head(Top.todo) /\ n \in Names /\ i \in Slots /\ form[i].name = n /\ nameVar[n] = i
      /\ SameButFlags(g, i)
      /\ c \in Call /\ c.k = "act" /\ c.several = Top.several /\ c.g = Top.g
      /\ c.todo = Tail(Top.todo) /\ c.nowait = Top.nowait
      /\ c.shown = IF Top.several /\ n \in Modal \ NoShow THEN n ELSE Top.shown
      /\ stack' = Push(c, Rest)
      /\ nameVar' = nameVar /\ mainHandle' = mainHandle /\ mainActive' = mainActive
      /\ queue' = queue /\ quit' = quit
      /\ form' = g /\ enabled' = enabled
      /\ visible' = IF n \in NoShow THEN visible ELSE visible \cup {form[i].handle}
      /\ modalActive' = modalActive /\ activeModal' = activeModal /\ userWindow' = userWindow
      /\ Top.several /\ n \in Modal \ NoShow => Top.shown = NoName
      /\ ~Top.several /\ n \notin Modal => ~modalActive
  BY DEF Turn, message, modality
<1>3. ChainInv(t) /\ MainInv /\ MainLives /\ t \in Seq(Slots)
  BY DEF Dialog, MainInv, ChainInv, IsChain
<1>4. t = <<>> /\ ~modalActive
  BY <1>1, <1>2, <1>3 DEF ChainInv
<1>5. /\ ShapeOk(Push(c, Rest)) /\ Push(c, Rest) \in Seq(Call) /\ Head(Push(c, Rest)) = c
      /\ \A fm : (\A x \in Slots : /\ fm[x].name = form[x].name
                                   /\ fm[x].handle = form[x].handle
                                   /\ fm[x].released = form[x].released)
           => ClosesOk(Push(c, Rest), fm) /\ ReleasedOk(Push(c, Rest), fm)
      /\ \A d \in DOMAIN Push(c, Rest) : ~ModalClose(Push(c, Rest)[d], form)
  BY <1>1, <1>2, <1>4, BelowAct
<1>6. /\ \A x \in Slots : /\ form'[x].name = form[x].name /\ form'[x].handle = form[x].handle
                          /\ form'[x].parent = form[x].parent /\ form'[x].released = form[x].released
                          /\ x # i => form'[x].active = form[x].active
      /\ form'[i].active
  BY <1>2 DEF SameButFlags
<1>7. /\ Live(i) /\ form[i].handle # NoHandle
      /\ \A x \in Slots : form[x].handle = form[i].handle => x = i
  <2>1. Live(i)
    BY <1>2, WindowsAssumption DEF Live
  <2>2. form[i].handle # NoHandle
    BY <1>2, <2>1 DEF WindowsInv, TableInv, NamesMatch
  <2> QED
    BY <1>2, <2>1, <2>2 DEF WindowsInv, TableInv, NamesMatch, HandlesMatch
<1>8. Unf(stack') = c.shown
  BY <1>2, <1>5 DEF Unf
<1>9. ChainInv(t)'
  <2>1. \A x \in Slots : ~IsOpen(x, form, visible, Unf(stack))
    BY <1>3, <1>4 DEF ChainInv, IsChain
  <2>2. ASSUME NEW x \in Slots PROVE ~IsOpen(x, form', visible', c.shown)
    <3>1. CASE x = i /\ n \in Modal \ NoShow
      <4>1. c.shown = n
        BY <1>2, <3>1
      <4> QED
        BY <1>2, <1>6, <3>1, <4>1 DEF IsOpen
    <3>2. CASE x = i /\ n \notin Modal
      BY <1>2, <1>6, <3>2 DEF IsOpen
    <3>3. CASE n \in NoShow
      BY <1>1, <1>2, <1>6, <2>1, <3>3 DEF IsOpen
    <3>4. CASE x # i /\ n \notin NoShow
      <4>1. form[x].handle \in visible' => form[x].handle \in visible
        BY <1>2, <1>7, <3>4
      <4>2. form[x].name # n
        <5>1. Live(x) => nameVar[form[x].name] = x
          BY DEF WindowsInv, TableInv, NamesMatch
        <5> QED
          BY <1>2, <3>4, <5>1, WindowsAssumption DEF Live
      <4>3. CASE c.shown = Top.shown
        BY <1>1, <1>6, <2>1, <4>1, <4>3 DEF IsOpen
      <4>4. CASE c.shown # Top.shown
        <5>1. Top.shown = NoName
          BY <1>2, <4>4
        <5>2. ~IsOpen(x, form, visible, NoName)
          BY <1>1, <2>1, <5>1
        <5> QED
          BY <1>6, <4>1, <5>2, WindowsAssumption DEF IsOpen
      <4> QED
        BY <4>3, <4>4
    <3> QED
      BY <3>1, <3>2, <3>3, <3>4
  <2>3. DOMAIN t = {}
    BY <1>4
  <2>4. IsChain(t, form', visible', mainHandle', c.shown)
    BY <1>3, <2>2, <2>3 DEF IsChain
  <2>5. activeModal = NoHandle
    BY <1>3, <1>4 DEF ChainInv, TopOf
  <2> QED
    BY <1>2, <1>4, <1>8, <2>4, <2>5 DEF ChainInv, TopOf
<1>10. MainInv'
  <2>1. MainLives'
    <3>1. \E x \in Slots : form[x].name = Main /\ form[x].handle = mainHandle
                           /\ form[x].parent = NoHandle
      BY <1>2, <1>3, <1>7 DEF MainLives
    <3> QED
      BY <1>2, <1>6, <3>1 DEF MainLives
  <2>2. Active(Main)' \/ (Head(stack').k = "act" /\ Main \in NamesOf(Head(stack').todo))
    <3>1. CASE Active(Main)
      <4>1. nameVar[Main] \in Slots
        BY <3>1, WindowsAssumption, DefinedIsLive DEF WindowsInv, Active
      <4> QED
        BY <1>2, <1>6, <3>1, <4>1 DEF Active, Defined
    <3>2. CASE n = Main
      BY <1>2, <1>6, <3>2, SlotsAreNumbers DEF Active, Defined
    <3>3. CASE ~Active(Main) /\ n # Main
      <4>1. Main \in NamesOf(Top.todo)
        <5>1. Head(stack) = Top
          BY DEF Top
        <5> QED
          BY <1>1, <1>3, <3>3, <5>1 DEF MainInv
      <4>2. PICK j \in DOMAIN Top.todo : Top.todo[j] = Main
        BY <4>1 DEF NamesOf
      <4>3. /\ Len(Top.todo) \in Nat /\ DOMAIN Top.todo = 1 .. Len(Top.todo)
            /\ DOMAIN Tail(Top.todo) = 1 .. Len(Top.todo) - 1
            /\ \A e \in 1 .. Len(Top.todo) - 1 : Tail(Top.todo)[e] = Top.todo[e + 1]
            /\ Head(Top.todo) = Top.todo[1]
        BY <1>1, HeadTailProperties, LenProperties
      <4>4. j # 1
        BY <1>2, <3>3, <4>2, <4>3
      <4>5. j - 1 \in DOMAIN Tail(Top.todo) /\ Tail(Top.todo)[j - 1] = Main
        BY <4>2, <4>3, <4>4
      <4>6. Main \in NamesOf(c.todo)
        BY <1>2, <4>5 DEF NamesOf
      <4> QED
        BY <1>2, <1>5, <4>6
    <3> QED
      BY <3>1, <3>2, <3>3
  <2>3. \A x \in Slots : form[x].handle \in visible => form[x].active
    BY <1>3 DEF MainInv
  <2>4. \A x \in Slots : form'[x].handle \in visible' => form'[x].active
    BY <1>2, <1>6, <1>7, <2>3
  <2>5. ~modalActive' => userWindow' \in {NoHandle, mainHandle'}
    BY <1>2, <1>3 DEF MainInv
  <2> QED
    BY <1>1, <1>2, <2>1, <2>2, <2>4, <2>5 DEF MainInv
<1>11. ActInv'
  <2>1. AllDiscarded' /\ quit' = FALSE
    BY <1>1, <1>2 DEF AllDiscarded
  <2>2. c.shown # NoName => /\ c.shown \in Modal /\ Active(c.shown)'
                            /\ form'[nameVar'[c.shown]].handle \in visible'
    <3>1. CASE c.shown = n /\ n \in Modal \ NoShow
      BY <1>2, <1>6, <3>1, SlotsAreNumbers DEF Active, Defined
    <3>2. CASE c.shown = Top.shown /\ Top.shown # NoName
      <4>1. Top.shown \in Names /\ Top.shown \in Modal /\ Active(Top.shown)
            /\ form[nameVar[Top.shown]].handle \in visible
        BY <1>1, <3>2, WindowsAssumption
      <4>2. nameVar[Top.shown] \in Slots
        BY <4>1, DefinedIsLive DEF WindowsInv, Active
      <4> QED
        BY <1>2, <1>6, <3>2, <4>1, <4>2 DEF Active, Defined
    <3> QED
      BY <1>2, <3>1, <3>2
  <2>3. c.several => ~modalActive'
    BY <1>2, <1>4
  <2>4. ~c.several => c.shown = NoName
    BY <1>1, <1>2
  <2>5. ~c.nowait /\ mainActive'
    BY <1>1, <1>2
  <2>6. Head(stack') = c
    BY <1>2, <1>5
  <2> QED
    BY <2>1, <2>2, <2>3, <2>4, <2>5, <2>6 DEF ActInv
<1>12. /\ ClosesOk(stack', form') /\ ReleasedOk(stack', form') /\ ShapeOk(stack')
       /\ Markers(stack', t, form', quit')
  <2>1. ClosesOk(stack', form') /\ ReleasedOk(stack', form') /\ ShapeOk(stack')
    BY <1>2, <1>5, <1>6
  <2> DEFINE s == Push(c, Rest)
             fm2 == form'
             q2 == quit'
  <2>2. \A d \in DOMAIN s : ~ModalClose(s[d], fm2)
    <3>1. \A d \in DOMAIN s : s[d].k = "close" => s[d].i \in Slots
      BY <1>5, ElementOfSeq, CallFields
    <3> QED
      BY <1>5, <1>6, <3>1 DEF ModalClose
  <2>3. stack' = s
    BY <1>2
  <2> HIDE DEF s, fm2, q2
  <2>4. Markers(s, t, fm2, q2)
    BY <2>2, NothingMarked
  <2> QED
    BY <2>1, <2>3, <2>4 DEF fm2, q2
<1>13. PendingInv'
  <2>1. TargetsOk({}, stack', form', visible', activeModal')
    BY DEF TargetsOk
  <2>2. Targets(queue') = {} /\ ~quit'
    BY <1>1, <1>2, NoTargets DEF AllDiscarded
  <2> QED
    BY <2>1, <2>2 DEF PendingInv
<1>14. OnlyTop(t, form', enabled', mainHandle')
  BY <1>4 DEF OnlyTop
<1> QED
  BY <1>9, <1>10, <1>11, <1>12, <1>13, <1>14 DEF Dialog

(* One window of ACTIVATE WINDOW. *)
LEMMA ActivateNextDialog ==
  ASSUME DialogProgram, WindowsInv, CountersInv, status = "run", NEW t, Dialog(t), ActivateNext
  PROVE  Dialog(t)' \/ \E i \in Slots : Dialog(<<i>> \o t)'
<1>1. CASE ActivateNextWrongly(Head(Top.todo))
  <2>1. Abort
    BY <1>1 DEF ActivateNext
  <2> QED
    BY <2>1, StopDialog DEF Abort
<1>2. CASE ~ActivateNextWrongly(Head(Top.todo))
  <2>1. Running("act") /\ Top.todo # <<>>
    BY DEF ActivateNext
  <2>2. PICK n, i, g, c : Turn(n, i, g, c)
    BY <1>2, TurnStarts
  <2>3. CASE n \in Modal /\ ~Top.several
    <3>1. Dialog(<<i>> \o t)'
      BY <2>1, <2>2, <2>3, TurnOpens
    <3>2. i \in Slots
      BY <2>2 DEF Turn
    <3> QED
      BY <3>1, <3>2
  <2>4. CASE ~(n \in Modal /\ ~Top.several)
    BY <2>1, <2>2, <2>4, TurnShows
  <2> QED
    BY <2>3, <2>4
<1> QED
  BY <1>1, <1>2

(* All windows are activated: the message loop starts. *)
LEMMA ActivateDoneDialog ==
  ASSUME DialogProgram, WindowsInv, CountersInv, status = "run", NEW t, Dialog(t), ActivateDone
  PROVE  Dialog(t)' \/ \E i \in Slots : Dialog(<<i>> \o t)'
<1> DEFINE l == Loop(Top.g)
           s == Push(l, Rest)
<1>1. /\ Top.k = "act" /\ Top \in ActCall /\ Top.todo \in Seq(Names)
      /\ quit = FALSE /\ AllDiscarded /\ ~Top.nowait /\ mainActive
      /\ Top.several => ~modalActive
      /\ ~Top.several => Top.shown = NoName
      /\ Top.shown # NoName => /\ Top.shown \in Modal /\ Active(Top.shown)
                               /\ form[nameVar[Top.shown]].handle \in visible
      /\ Unf(stack) = Top.shown
  BY RunningAct DEF ActivateDone
<1>2. /\ Top.todo = <<>>
      /\ IF Top.shown = NoName THEN Goto(s)
         ELSE IF ~Defined(Top.shown) THEN Abort
         ELSE /\ ShowModal(form, nameVar[Top.shown])
              /\ stack' = Push(Pump, s)
              /\ UNCHANGED <<nameVar, mainHandle, mainActive, message>>
  BY <1>1 DEF ActivateDone
<1>3. l \in Call /\ l.k = "loop" /\ l.g = Top.g
  <2>1. Top.g \in Nat
    BY <1>1 DEF ActCall
  <2> QED
    BY <2>1, FramesTyped DEF Loop
<1> HIDE DEF l
<1>4. /\ Rest \in Seq(Call) /\ ShapeOk(s) /\ s \in Seq(Call) /\ Head(s) = l /\ s[1] = l
      /\ \A fm : (\A x \in Slots : /\ fm[x].name = form[x].name
                                   /\ fm[x].handle = form[x].handle
                                   /\ fm[x].released = form[x].released)
           => ClosesOk(s, fm) /\ ReleasedOk(s, fm)
      /\ t = <<>> => \A d \in DOMAIN s : ~ModalClose(s[d], form)
  BY <1>1, <1>3, BelowAct
<1>5. /\ ChainInv(t) /\ MainInv /\ MainLives /\ t \in Seq(Slots)
      /\ OnlyTop(t, form, enabled, mainHandle)
  BY DEF Dialog, MainInv, ChainInv, IsChain
<1>6. /\ Top \in Call /\ stack = Push(Top, Rest) /\ Top = Head(stack)
      /\ Calls(Push(Top, Rest), t, form, Targets(queue), visible, activeModal, quit)
  BY RunningCall
<1>7. Active(Main)
  <2>1. Main \notin NamesOf(Top.todo)
    BY <1>2 DEF NamesOf
  <2> QED
    BY <1>1, <1>5, <1>6, <2>1 DEF MainInv
<1>8. Targets(queue) = {}
  BY <1>1, NoTargets DEF AllDiscarded
<1>9. ~Rel(l) /\ l.k \notin {"act", "close", "all"}
  BY <1>3 DEF Rel
<1>10. CASE Top.shown = NoName
  <2>1. /\ stack' = s /\ form' = form /\ nameVar' = nameVar /\ mainHandle' = mainHandle
        /\ mainActive' = mainActive
        /\ modalActive' = modalActive /\ activeModal' = activeModal /\ userWindow' = userWindow
        /\ visible' = visible /\ enabled' = enabled /\ queue' = queue /\ quit' = quit
    BY <1>2, <1>10 DEF Goto, table, modality, screen, message
  <2>2. Unf(stack') = NoName /\ Unf(stack) = NoName
    BY <1>1, <1>4, <1>9, <1>10, <2>1 DEF Unf
  <2>3. ChainInv(t)'
    BY <1>5, <2>1, <2>2 DEF ChainInv
  <2>4. MainInv'
    <3>1. MainLives'
      BY <1>5, <2>1 DEF MainLives, Live
    <3>2. Active(Main)'
      BY <1>7, <2>1 DEF Active, Defined
    <3>3. \A i \in Slots : form'[i].handle \in visible' => form'[i].active
      BY <1>5, <2>1 DEF MainInv
    <3>4. ~modalActive' => userWindow' \in {NoHandle, mainHandle'}
      BY <1>5, <2>1 DEF MainInv
    <3> QED
      BY <1>1, <2>1, <3>1, <3>2, <3>3, <3>4 DEF MainInv
  <2>5. ActInv'
    BY <1>4, <1>9, <2>1 DEF ActInv
  <2>6. PendingInv'
    <3>1. TargetsOk({}, stack', form', visible', activeModal')
      BY DEF TargetsOk
    <3>2. Targets(queue') = {} /\ ~quit'
      BY <1>1, <1>8, <2>1
    <3> QED
      BY <3>1, <3>2 DEF PendingInv
  <2>7. Markers(s, t, form, FALSE)
    <3>1. Markers(Push(Top, Rest), t, form, FALSE)
      BY <1>1, <1>6 DEF Calls
    <3> HIDE DEF s
    <3>2. Markers(Push(l, Rest), t, form, FALSE)
      BY <1>1, <1>2, <1>3, <1>4, <1>6, <3>1, MarkersLoop
    <3> QED
      BY <3>2 DEF s
  <2>8. OnlyTop(t, form', enabled', mainHandle') /\ Markers(stack', t, form', quit')
    BY <1>1, <1>5, <2>1, <2>7
  <2>9. ShapeOk(stack') /\ ClosesOk(stack', form') /\ ReleasedOk(stack', form')
    BY <1>4, <2>1
  <2> QED
    BY <2>3, <2>4, <2>5, <2>6, <2>8, <2>9 DEF Dialog
<1>11. CASE Top.shown # NoName
  <2>1. /\ Top.shown \in Names /\ Top.shown \in Modal /\ Active(Top.shown) /\ Defined(Top.shown)
        /\ form[nameVar[Top.shown]].handle \in visible /\ Top.several
    BY <1>1, <1>11, WindowsAssumption DEF Active
  <2>2. t = <<>>
    BY <1>1, <1>5, <2>1 DEF ChainInv
  <2>3. PICK i \in Slots : i = nameVar[Top.shown] /\ Live(i) /\ form[i].name = Top.shown
    BY <1>5, <2>1, DefinedDialog
  <2>4. /\ ShowModal(form, i) /\ stack' = Push(Pump, s)
        /\ UNCHANGED <<nameVar, mainHandle, mainActive, message>>
    BY <1>2, <1>11, <2>1, <2>3
  <2>5. SameButFlags(form, i)
    BY <2>1, <2>3 DEF Active, SameButFlags, WindowsInv, TableInv
  <2>6. Pump \in Call /\ Pump.k = "events" /\ Push(Pump, s) \in Seq(Call) /\ ~Rel(Pump)
        /\ Head(Push(Pump, s)) = Pump
    <3>1. Pump \in Call /\ Pump.k = "events"
      BY DEF Pump, Call
    <3> HIDE DEF s
    <3> QED
      BY <1>4, <3>1, PushPlaces DEF Rel
  <2>7. \A x \in Slots : x # i /\ form[x].name \in Modal => form[x].name # Unf(stack)
    <3>1. \A x \in Slots : Live(x) => nameVar[form[x].name] = x
      BY DEF WindowsInv, TableInv, NamesMatch
    <3> QED
      BY <1>1, <2>3, <3>1, WindowsAssumption DEF Live
  <2> HIDE DEF s
  <2>8. Unf(Push(Pump, s)) = NoName
    BY <2>6 DEF Unf
  <2>9. Opens(t, i, form, Push(Pump, s))
    BY <1>1, <1>7, <1>8, <2>1, <2>2, <2>3, <2>4, <2>5, <2>6, <2>7, <2>8 DEF Opens
  <2>10. \A x \in Slots : /\ form'[x].name = form[x].name /\ form'[x].handle = form[x].handle
                          /\ form'[x].released = form[x].released
    BY <2>4, <2>5, ShowModalFields
  <2> DEFINE u == <<i>> \o t
  <2> HIDE DEF u
  <2>11. Calls(Push(Pump, s), u, form', {}, visible', activeModal', FALSE)
    <3> DEFINE fm == form'
               vis == visible'
               am == activeModal'
               q == FALSE
               p == Pump
    <3>1. ClosesOk(s, fm) /\ ReleasedOk(s, fm)
      BY <1>4, <2>10
    <3>2. \A d \in DOMAIN s : ~ModalClose(s[d], fm)
      <4>1. \A d \in DOMAIN s : s[d].k = "close" => s[d].i \in Slots
        BY <1>4, ElementOfSeq, CallFields
      <4> QED
        BY <1>4, <2>2, <2>10, <4>1 DEF ModalClose
    <3>3. s[1].k \notin {"act", "close", "all"} /\ ~Rel(s[1])
      BY <1>4, <1>9
    <3>4. p \in Call /\ p.k \notin {"init", "close"} /\ ~Rel(p)
      BY <2>6
    <3> HIDE DEF fm, vis, am, q, p
    <3>5. Calls(Push(p, s), u, fm, {}, vis, am, q)
      BY <1>4, <3>1, <3>2, <3>3, <3>4, QuietPush
    <3> QED
      BY <3>5 DEF fm, vis, am, q, p
  <2>12. ActInv'
    BY <2>4, <2>6 DEF ActInv
  <2>13. Dialog(<<i>> \o t)'
    <3> DEFINE v == Push(Pump, s)
               f == form
    <3>1. Opens(t, i, f, v) /\ Calls(v, <<i>> \o t, form', {}, visible', activeModal', FALSE)
      BY <2>9, <2>11 DEF u
    <3> HIDE DEF v, f
    <3> QED
      BY <2>12, <3>1, OpenDialog
  <2> QED
    BY <2>13
<1> QED
  BY <1>10, <1>11

-----------------------------------------------------------------------------
(* All steps. *)

(* There are neither dialogs nor windows at the start. *)
LEMMA InitDialog ==
  ASSUME Init
  PROVE  Dialog(<<>>)
<1> DEFINE t == <<>>
<1>1. /\ \A i \in Slots : form[i] = NoForm
      /\ NoForm.name = NoName /\ NoForm.handle = NoHandle /\ ~NoForm.active /\ NoForm.released = 0
      /\ NoForm.name \notin Modal
  BY WindowsAssumption DEF Init, NoForm
<1>2. /\ DOMAIN stack = {1} /\ stack[1].k = "user" /\ stack[1].ev = "MAIN" /\ stack # <<>>
      /\ Head(stack) = stack[1] /\ visible = {} /\ modalActive = FALSE /\ activeModal = NoHandle
      /\ userWindow = NoHandle /\ mainHandle = NoHandle /\ mainActive = FALSE
      /\ queue = <<>> /\ quit = FALSE
  BY DEF Init, User
<1>3. t \in Seq(Slots) /\ DOMAIN t = {}
  BY EmptySeq
<1> HIDE DEF t
<1>4. ChainInv(t)
  <2>1. Unf(stack) = NoName
    BY <1>2 DEF Unf
  <2>2. IsChain(t, form, visible, mainHandle, NoName)
    BY <1>2, <1>3 DEF IsChain, IsOpen
  <2> QED
    BY <1>2, <2>1, <2>2 DEF ChainInv, TopOf, t
<1>5. OnlyTop(t, form, enabled, mainHandle)
  BY <1>3 DEF OnlyTop, t
<1>6. MainInv
  BY <1>1, <1>2 DEF MainInv, MainLives, Live
<1>7. ActInv
  BY <1>2 DEF ActInv
<1>8. ShapeOk(stack)
  BY <1>2 DEF ShapeOk, Rel
<1>9. ClosesOk(stack, form)
  BY <1>2 DEF ClosesOk, CloseOk
<1>10. PendingInv
  <2>1. Targets(queue) = {}
    BY <1>2 DEF Targets
  <2> QED
    BY <1>2, <2>1 DEF PendingInv, TargetsOk
<1>11. Markers(stack, t, form, quit)
  BY <1>2, NothingMarked DEF ModalClose
<1>12. ReleasedOk(stack, form)
  BY <1>1 DEF ReleasedOk
<1>13. Dialog(t)
  BY <1>4, <1>5, <1>6, <1>7, <1>8, <1>9, <1>10, <1>11, <1>12 DEF Dialog
<1> QED
  BY <1>13 DEF t

(* A command of the user code. *)
LEMMA CommandDialog ==
  ASSUME DialogProgram, WindowsInv, CountersInv, status = "run", NEW t, Dialog(t), Command
  PROVE  \/ Dialog(t)'
         \/ t # <<>> /\ Dialog(Tail(t))'
         \/ \E i \in Slots : Dialog(<<i>> \o t)'
<1>1. ASSUME NEW n \in Names, Define(n) PROVE Dialog(t)'
  BY <1>1, DefineDialog
<1>2. ASSUME NEW n \in Names, DefineWrongly(n) PROVE Dialog(t)'
  BY <1>2, StopDialog DEF DefineWrongly, Abort
<1>3. ASSUME NEW s \in Activations, NEW w \in BOOLEAN, Activate(s, w) PROVE Dialog(t)'
  BY <1>3, ActivateDialog
<1>4. ASSUME NEW n \in Names, Release(n) PROVE Dialog(t)'
  BY <1>4, ReleaseDialog
<1>5. ASSUME NEW n \in Names, Show(n) PROVE Dialog(t)' \/ \E i \in Slots : Dialog(<<i>> \o t)'
  BY <1>5, ShowDialog
<1>6. ASSUME NEW n \in Names, Hide(n) PROVE Dialog(t)' \/ (t # <<>> /\ Dialog(Tail(t))')
  BY <1>6, HideDialog
<1>7. ~DoEvents /\ ~DoMessageLoop
  BY DEF DialogProgram, DoEvents, DoMessageLoop, InUserCode
<1> QED
  BY <1>1, <1>2, <1>3, <1>4, <1>5, <1>6, <1>7 DEF Command

(* A step leaves the chain, or one dialog more or less on top of it.        *)
LEMMA NextDialog ==
  ASSUME DialogProgram, WindowsInv, CountersInv, NEW t, Dialog(t), Next
  PROVE  \/ Dialog(t)'
         \/ t # <<>> /\ Dialog(Tail(t))'
         \/ \E i \in Slots : Dialog(<<i>> \o t)'
<1>0. status = "run"
  BY StepsRun
<1>1. ~CallOnInit
  <2>1. stack # <<>> /\ Top = stack[1] /\ 1 \in DOMAIN stack /\ Top = Head(stack)
    BY RunningCall, PushRest
  <2>2. stack[1].k # "init"
    BY <2>1 DEF Dialog, ShapeOk
  <2> QED
    BY <2>1, <2>2 DEF CallOnInit, Running
<1>2. CASE Command
  BY <1>0, <1>2, CommandDialog
<1>3. CASE Return
  BY <1>0, <1>3, ReturnDialog
<1>4. CASE UserInput
  BY <1>4, UserInputDialog
<1>5. CASE ActivateNext
  BY <1>0, <1>5, ActivateNextDialog
<1>6. CASE ActivateDone
  BY <1>0, <1>6, ActivateDoneDialog
<1>7. CASE CloseStep
  BY <1>0, <1>7, CloseStepDialog
<1>8. CASE Dispatch \/ TakeQuit \/ EventsDone \/ ReleaseAllStep
  BY <1>8, DispatchDialog, TakeQuitDialog, EventsDoneDialog, ReleaseAllStepDialog
<1> QED
  BY <1>1, <1>2, <1>3, <1>4, <1>5, <1>6, <1>7, <1>8 DEF Next, Library

(* The inductive invariant. *)
DialogInv == \E t \in Seq(Slots) : Dialog(t)

(* A chain is a sequence of slots. *)
LEMMA ChainTyped ==
  ASSUME NEW t, Dialog(t)
  PROVE  t \in Seq(Slots)
BY DEF Dialog, ChainInv, IsChain

(* The inductive invariant holds at the start ... *)
LEMMA InitDialogInv == Init => DialogInv
BY InitDialog, ChainTyped DEF DialogInv

(* A step of something else changes nothing. *)
LEMMA StutterDialog ==
  ASSUME NEW t, Dialog(t), UNCHANGED vars
  PROVE  Dialog(t)'
BY StopDialog DEF vars

(* ... and every step of the program preserves it. *)
LEMMA NextDialogInv ==
  DialogProgram => (WindowsInv /\ CountersInv /\ DialogInv /\ [Next]_vars => DialogInv')
<1> SUFFICES ASSUME DialogProgram, WindowsInv, CountersInv, DialogInv, [Next]_vars
             PROVE  DialogInv'
  OBVIOUS
<1>1. PICK t \in Seq(Slots) : Dialog(t)
  BY DEF DialogInv
<1>2. ASSUME NEW u \in Seq(Slots), Dialog(u)' PROVE DialogInv'
  BY <1>2 DEF DialogInv
<1>3. CASE UNCHANGED vars
  BY <1>1, <1>2, <1>3, StutterDialog
<1>4. CASE Next
  <2>1. \/ Dialog(t)'
        \/ t # <<>> /\ Dialog(Tail(t))'
        \/ \E i \in Slots : Dialog(<<i>> \o t)'
    BY <1>1, <1>4, NextDialog
  <2>2. t # <<>> => Tail(t) \in Seq(Slots)
    BY <1>1, OneLessDialog
  <2>3. \A i \in Slots : <<i>> \o t \in Seq(Slots)
    BY <1>1, OneMoreDialog
  <2> QED
    BY <1>1, <1>2, <2>1, <2>2, <2>3
<1> QED
  BY <1>3, <1>4

(* In a program of dialogs the invariants hold in every state.              *)
LEMMA DialogSpecInv ==
  ASSUME DialogProgram
  PROVE  Spec => [](WindowsInv /\ CountersInv /\ DialogInv)
<1>1. Init => WindowsInv /\ CountersInv /\ DialogInv
  BY InitWindowsInv, InitCountersInv, InitDialogInv
<1>2. (WindowsInv /\ CountersInv /\ DialogInv) /\ [Next]_vars => (WindowsInv /\ CountersInv /\ DialogInv)'
  BY NextWindowsInv, NextCountersInv, NextDialogInv
<1> QED
  BY <1>1, <1>2, PTL DEF Spec

-----------------------------------------------------------------------------
(* The parent handles lead from the active dialog down the chain.          *)

(* A set of natural numbers that is not empty has a least element. *)
LEMMA LeastNat ==
  ASSUME NEW T, T \subseteq Nat, T # {}
  PROVE  \E x \in T : \A y \in T : x <= y
<1>1. PICK k \in T : \A j \in T : ~ (<<j, k>> \in OpToRel(<, Nat))
  BY WFMin, NatLessThanWellFounded
<1>2. \A j \in T : ~ (<<j, k>> \in {ss \in Nat \X Nat : ss[1] < ss[2]})
  BY ONLY <1>1, Zenon DEF OpToRel
<1>3. \A j \in T : ~ (j < k)
  BY <1>2
<1>4. \A j \in T : k <= j
  BY <1>3
<1> QED
  BY <1>4

(* A set that holds 0 and with each number the next one holds them all. *)
LEMMA NatSetInduction ==
  ASSUME NEW S, 0 \in S, \A n \in Nat : n \in S => n + 1 \in S
  PROVE  Nat \subseteq S
<1> SUFFICES ASSUME Nat \ S # {} PROVE FALSE
  OBVIOUS
<1>1. PICK x \in Nat \ S : \A y \in Nat \ S : x <= y
  <2>1. Nat \ S \subseteq Nat
    OBVIOUS
  <2> QED
    BY <2>1, LeastNat
<1>2. x - 1 \in Nat /\ x - 1 \notin Nat \ S
  BY <1>1
<1> QED
  BY <1>1, <1>2

(* The parent of a window by its handle, and the functions that follow the *)
(* parents down from the active window.                                    *)
Parent(h) == IF SlotOf(h) = 0 THEN NoHandle ELSE form[SlotOf(h)].parent
Descends(f) == f = [d \in Nat |-> IF d = 0 THEN activeModal ELSE Parent(f[d - 1])]

(* Two functions on the natural numbers that begin alike and go on alike   *)
(* are the same.                                                           *)
LEMMA DescendsOnce ==
  ASSUME NEW f, NEW g, Descends(f), Descends(g)
  PROVE  f = g
<1> DEFINE S == {d \in Nat : f[d] = g[d]}
<1>1. f[0] = activeModal /\ \A d \in Nat : f[d + 1] = Parent(f[d])
  <2>1. \A d \in Nat : f[d] = IF d = 0 THEN activeModal ELSE Parent(f[d - 1])
    BY Zenon DEF Descends
  <2>2. \A d \in Nat : d + 1 \in Nat /\ d + 1 # 0 /\ (d + 1) - 1 = d
    OBVIOUS
  <2> QED
    BY <2>1, <2>2
<1>2. g[0] = activeModal /\ \A d \in Nat : g[d + 1] = Parent(g[d])
  <2>1. \A d \in Nat : g[d] = IF d = 0 THEN activeModal ELSE Parent(g[d - 1])
    BY Zenon DEF Descends
  <2>2. \A d \in Nat : d + 1 \in Nat /\ d + 1 # 0 /\ (d + 1) - 1 = d
    OBVIOUS
  <2> QED
    BY <2>1, <2>2
<1>3. 0 \in S
  BY <1>1, <1>2
<1>4. \A n \in Nat : n \in S => n + 1 \in S
  BY <1>1, <1>2
<1> HIDE DEF S
<1>5. Nat \subseteq S
  BY <1>3, <1>4, NatSetInduction
<1>6. \A d \in Nat : f[d] = g[d]
  BY <1>5 DEF S
<1>7. f = [d \in Nat |-> f[d]] /\ g = [d \in Nat |-> g[d]]
  BY Zenon DEF Descends
<1> QED
  BY <1>6, <1>7

(* Below is the one function that follows the parents from the active      *)
(* window.                                                                 *)
LEMMA BelowDescends ==
  ASSUME NEW f, Descends(f)
  PROVE  Below = f
<1>1. Below = CHOOSE b : Descends(b)
  BY Zenon DEF Below, Descends, Parent
<1>2. Descends(Below)
  BY <1>1, Zenon
<1> QED
  BY <1>2, DescendsOnce

(* From the active dialog down the chain, and then to the main window.     *)
LEMMA BelowIs ==
  ASSUME WindowsInv, NEW t, Dialog(t)
  PROVE  /\ \A j \in DOMAIN t : Below[j - 1] = form[t[j]].handle
         /\ Below[Len(t)] = IF t = <<>> THEN NoHandle ELSE mainHandle
<1>1. ChainInv(t) /\ MainLives /\ t \in Seq(Slots)
  BY DEF Dialog, MainInv, ChainInv, IsChain
<1>2. /\ Len(t) \in Nat /\ DOMAIN t = 1 .. Len(t)
      /\ t # <<>> => 1 \in DOMAIN t
      /\ \A j \in DOMAIN t :
           /\ t[j] \in Slots /\ Live(t[j]) /\ SlotOf(form[t[j]].handle) = t[j]
      /\ t # <<>> => activeModal = form[t[1]].handle
      /\ t = <<>> => activeModal = NoHandle
  BY <1>1, ChainFacts
<1>3. PICK n \in Nat : n = Len(t) /\ DOMAIN t = 1 .. n /\ (t = <<>> <=> n = 0)
  BY <1>1, <1>2, EmptySeq
<1>4. Parent(NoHandle) = NoHandle
  <2>1. NoHandle \notin LiveHandles
    BY WindowsAssumption, LiveHandlesTyped DEF WindowsInv
  <2> QED
    BY <2>1, SlotOfFinds DEF Parent
<1>5. t # <<>> => Parent(mainHandle) = NoHandle
  <2> HAVE t # <<>>
  <2>1. PICK m \in Slots : form[m].parent = NoHandle /\ SlotOf(mainHandle) = m
    BY <1>1, <1>2, MainWindow
  <2> QED
    BY <2>1, SlotsAreNumbers DEF Parent
<1>6. ASSUME NEW j \in DOMAIN t
      PROVE  Parent(form[t[j]].handle) = IF j = n THEN mainHandle ELSE form[t[j + 1]].handle
  <2>1. form[t[j]].parent = IF j = n THEN mainHandle ELSE form[t[j + 1]].handle
    BY <1>1, <1>3 DEF ChainInv, IsChain
  <2>2. t[j] # 0 /\ SlotOf(form[t[j]].handle) = t[j]
    BY <1>2, SlotsAreNumbers
  <2> QED
    BY <2>1, <2>2 DEF Parent
<1> DEFINE f == [d \in Nat |-> IF d < n THEN form[t[d + 1]].handle
                               ELSE IF d = n /\ t # <<>> THEN mainHandle ELSE NoHandle]
<1>7. \A d \in Nat : f[d] = IF d < n THEN form[t[d + 1]].handle
                            ELSE IF d = n /\ t # <<>> THEN mainHandle ELSE NoHandle
  OBVIOUS
<1>8. f = [d \in Nat |-> f[d]]
  OBVIOUS
<1> HIDE DEF f
<1>9. ASSUME NEW d \in Nat PROVE f[d] = IF d = 0 THEN activeModal ELSE Parent(f[d - 1])
  <2>1. CASE d = 0
    <3>1. CASE t = <<>>
      BY <1>2, <1>3, <1>7, <2>1, <3>1
    <3>2. CASE t # <<>>
      <4>1. 0 < n /\ 0 + 1 = 1
        BY <1>2, <1>3, <3>2
      <4>2. f[0] = form[t[1]].handle
        BY <1>7, <4>1
      <4> QED
        BY <1>2, <2>1, <3>2, <4>2
    <3> QED
      BY <3>1, <3>2
  <2>2. CASE d # 0
    <3> DEFINE e == d - 1
    <3>1. e \in Nat /\ d = e + 1
      BY <2>2
    <3> HIDE DEF e
    <3>2. CASE e < n
      <4>1. d \in DOMAIN t /\ f[e] = form[t[d]].handle
        <5>1. f[e] = form[t[e + 1]].handle
          BY <1>7, <3>1, <3>2
        <5>2. d \in DOMAIN t
          BY <1>3, <3>1, <3>2
        <5> QED
          BY <3>1, <5>1, <5>2
      <4>2. Parent(f[e]) = IF d = n THEN mainHandle ELSE form[t[d + 1]].handle
        BY <1>6, <4>1
      <4>3. d = n \/ d < n
        BY <1>3, <4>1
      <4>4. t # <<>>
        BY <1>2, <1>3, <4>1
      <4>5. f[d] = IF d = n THEN mainHandle ELSE form[t[d + 1]].handle
        <5>1. f[d] = IF d < n THEN form[t[d + 1]].handle
                     ELSE IF d = n /\ t # <<>> THEN mainHandle ELSE NoHandle
          BY <1>7
        <5>2. d = n => ~(d < n)
          OBVIOUS
        <5> QED
          BY <4>3, <4>4, <5>1, <5>2
      <4> QED
        BY <2>2, <4>2, <4>5 DEF e
    <3>3. CASE ~(e < n)
      <4>1. f[d] = NoHandle
        <5>1. f[d] = IF d < n THEN form[t[d + 1]].handle
                     ELSE IF d = n /\ t # <<>> THEN mainHandle ELSE NoHandle
          BY <1>7
        <5>2. ~(d < n) /\ d # n
          BY <1>3, <3>1, <3>3
        <5> QED
          BY <5>1, <5>2
      <4>2. f[e] = NoHandle \/ (t # <<>> /\ f[e] = mainHandle)
        BY <1>7, <3>1, <3>3
      <4>3. Parent(f[e]) = NoHandle
        BY <1>4, <1>5, <4>2
      <4> QED
        BY <2>2, <4>1, <4>3 DEF e
    <3> QED
      BY <3>2, <3>3
  <2> QED
    BY <2>1, <2>2
<1>10. Descends(f)
  <2>1. [d \in Nat |-> f[d]] = [d \in Nat |-> IF d = 0 THEN activeModal ELSE Parent(f[d - 1])]
    BY <1>9
  <2> QED
    BY <1>8, <2>1, Zenon DEF Descends
<1>11. Below = f
  BY <1>10, BelowDescends
<1>12. ASSUME NEW j \in DOMAIN t PROVE f[j - 1] = form[t[j]].handle
  <2>1. j - 1 \in Nat /\ j - 1 < n /\ (j - 1) + 1 = j
    BY <1>3
  <2> QED
    BY <1>7, <2>1
<1>13. f[n] = IF t = <<>> THEN NoHandle ELSE mainHandle
  <2>1. n \in Nat /\ ~(n < n)
    BY <1>3
  <2>2. f[n] = IF n < n THEN form[t[n + 1]].handle
               ELSE IF n = n /\ t # <<>> THEN mainHandle ELSE NoHandle
    BY <1>7, <2>1
  <2> QED
    BY <2>1, <2>2
<1> QED
  BY <1>3, <1>11, <1>12, <1>13

(* The dialogs of the chain are those that the properties are about. *)
LEMMA ShownIs ==
  ASSUME WindowsInv, NEW t, Dialog(t)
  PROVE  /\ Shown = {t[j] : j \in DOMAIN t} /\ Cardinality(Shown) = Len(t)
         /\ Len(t) \in Nat /\ DOMAIN t = 1 .. Len(t)
         /\ Chain = [j \in 1 .. Len(t) |-> form[t[j]].handle]
<1>1. ChainInv(t) /\ MainLives /\ t \in Seq(Slots) /\ ShapeOk(stack)
  BY DEF Dialog, MainInv, ChainInv, IsChain
<1>2. Len(t) \in Nat /\ DOMAIN t = 1 .. Len(t) /\ t \in [1 .. Len(t) -> Slots]
  BY <1>1, LenProperties
<1>3. \A n \in Modal : n \notin Unfinished <=> n # Unf(stack)
  <2>1. stack # <<>> /\ 1 \in DOMAIN stack /\ Head(stack) = stack[1]
    BY RunningCall, PushRest
  <2>2. \A d \in DOMAIN stack : stack[d].k = "act" => d = 1
    BY <1>1 DEF ShapeOk
  <2>3. NoName \notin Modal
    BY WindowsAssumption
  <2> QED
    BY <2>1, <2>2, <2>3 DEF Unfinished, Unf
<1>4. \A i \in Slots : i \in Shown <=> IsOpen(i, form, visible, Unf(stack))
  <2>1. \A i \in Slots : form[i].name \in Modal => Live(i)
    BY WindowsAssumption DEF Live
  <2> QED
    BY <1>3, <2>1 DEF Shown, IsOpen, IsModal
<1>5. \A i \in Slots : i \in Shown <=> \E j \in DOMAIN t : t[j] = i
  BY <1>1, <1>4 DEF ChainInv, IsChain
<1>6. Shown = {t[j] : j \in DOMAIN t}
  <2>1. Shown \subseteq Slots
    BY DEF Shown
  <2>2. \A j \in DOMAIN t : t[j] \in Slots
    BY <1>2
  <2> QED
    BY <1>5, <2>1, <2>2
<1>7. Cardinality(Shown) = Len(t)
  <2> DEFINE D == 1 .. Len(t)
             T == Shown
  <2>1. IsFiniteSet(D) /\ Cardinality(D) = Len(t)
    BY <1>2, FS_Interval, SMTT(30)
  <2>2. t \in [D -> T] /\ \A j, k \in D : t[j] = t[k] => j = k
    BY <1>1, <1>2, <1>6 DEF ChainInv, IsChain
  <2>3. \A x \in T : \E j \in D : t[j] = x
    BY <1>2, <1>6
  <2> HIDE DEF D, T
  <2>4. t \in Surjection(D, T) /\ t \in Injection(D, T)
    BY <2>2, <2>3 DEF Surjection, Injection, IsInjective
  <2>5. Cardinality(T) = Cardinality(D)
    BY <2>1, <2>4, FS_Bijection DEF ExistsBijection, Bijection
  <2> QED
    BY <2>1, <2>5 DEF T
<1>8. Chain = [j \in 1 .. Len(t) |-> form[t[j]].handle]
  <2>1. \A j \in 1 .. Len(t) : Below[j - 1] = form[t[j]].handle
    BY <1>2, BelowIs
  <2>2. Chain = [j \in 1 .. Len(t) |-> Below[j - 1]]
    BY <1>7 DEF Chain
  <2> QED
    BY <2>1, <2>2
<1> QED
  BY <1>2, <1>6, <1>7, <1>8

(* The invariant implies each of the properties. *)
LEMMA DialogModalChain ==
  ASSUME WindowsInv, NEW t, Dialog(t)
  PROVE  ModalChain
<1>1. ChainInv(t) /\ MainLives /\ t \in Seq(Slots)
  BY DEF Dialog, MainInv, ChainInv, IsChain
<1>2. /\ Shown = {t[j] : j \in DOMAIN t} /\ Cardinality(Shown) = Len(t)
      /\ Len(t) \in Nat /\ DOMAIN t = 1 .. Len(t)
      /\ Chain = [j \in 1 .. Len(t) |-> form[t[j]].handle]
  BY ShownIs
<1>3. /\ t # <<>> => 1 \in DOMAIN t
      /\ t = <<>> => DOMAIN t = {}
      /\ \A j \in DOMAIN t : t[j] \in Slots /\ Live(t[j]) /\ form[t[j]].name # Main
  BY <1>1, ChainFacts
<1>4. modalActive <=> Shown # {}
  BY <1>1, <1>2, <1>3 DEF ChainInv
<1>5. {Chain[d] : d \in DOMAIN Chain} = {form[i].handle : i \in Shown}
  <2>1. DOMAIN Chain = DOMAIN t /\ \A j \in DOMAIN t : Chain[j] = form[t[j]].handle
    BY <1>2
  <2>2. {Chain[d] : d \in DOMAIN Chain} = {form[t[d]].handle : d \in DOMAIN t}
    BY <2>1
  <2>3. {form[i].handle : i \in Shown} = {form[t[d]].handle : d \in DOMAIN t}
    BY <1>2
  <2> QED
    BY <2>2, <2>3
<1>6. modalActive => SlotOf(Below[Cardinality(Shown)]) \notin {0} \cup Shown
  <2> HAVE modalActive
  <2>1. t # <<>>
    BY <1>1 DEF ChainInv
  <2>2. Below[Cardinality(Shown)] = mainHandle
    BY <1>2, <2>1, BelowIs
  <2>3. PICK m \in Slots : form[m].name = Main /\ SlotOf(mainHandle) = m
    BY <1>1, <1>3, <2>1, MainWindow
  <2>4. m # 0 /\ m \notin Shown
    BY <1>2, <1>3, <2>3, SlotsAreNumbers
  <2> QED
    BY <2>2, <2>3, <2>4
<1> QED
  BY <1>4, <1>5, <1>6 DEF ModalChain

(* Only the top of the chain takes input: the main window and the dialogs  *)
(* below it are disabled.                                                  *)
LEMMA DialogOnlyTop ==
  ASSUME DialogProgram, WindowsInv, NEW t, Dialog(t)
  PROVE  OnlyTopTakesInput
<1> SUFFICES ASSUME NEW i \in Slots, modalActive, Reachable(i)
             PROVE  form[i].handle = activeModal
  BY DEF OnlyTopTakesInput
<1>1. ChainInv(t) /\ MainLives /\ t \in Seq(Slots) /\ OnlyTop(t, form, enabled, mainHandle) /\ ActInv
  BY DEF Dialog, MainInv, ChainInv, IsChain
<1>2. t # <<>> /\ activeModal = form[t[1]].handle
  BY <1>1 DEF ChainInv, TopOf
<1>3. Live(i) /\ form[i].handle \in visible /\ form[i].handle \in enabled
  BY DEF Reachable
<1>4. Unf(stack) = NoName
  BY <1>1 DEF ActInv, Unf
<1>5. form[i].name \in Modal
  <2>1. form[i].name \in Modal \cup {Main}
    BY <1>3 DEF DialogProgram, WindowsInv, TableInv, Live, FormRecord
  <2>2. mainHandle \notin enabled
    BY <1>1, <1>2 DEF OnlyTop
  <2>3. form[i].name = Main => form[i].handle = mainHandle
    <3>1. PICK m \in Slots : /\ form[m].handle = mainHandle
                             /\ \A x \in Slots : form[x].handle = mainHandle \/ form[x].name = Main => x = m
      BY <1>1, <1>3, MainWindow
    <3> QED
      BY <3>1
  <2> QED
    BY <1>3, <2>1, <2>2, <2>3
<1>6. PICK j \in DOMAIN t : t[j] = i
  <2>1. IsOpen(i, form, visible, NoName)
    BY <1>3, <1>5, WindowsAssumption DEF IsOpen
  <2> QED
    BY <1>1, <1>4, <2>1 DEF ChainInv, IsChain
<1>7. j = 1
  BY <1>1, <1>3, <1>6 DEF OnlyTop
<1> QED
  BY <1>2, <1>6, <1>7

(* A handler of WM_CLOSE finds its window again, and no ON RELEASE         *)
(* procedure runs twice.                                                   *)
LEMMA DialogCloses ==
  ASSUME WindowsInv, NEW t, Dialog(t)
  PROVE  CloseKeepsItsSlot /\ ReleasedOnce
<1>1. ClosesOk(stack, form) /\ ReleasedOk(stack, form)
  BY DEF Dialog
<1>2. \A i \in Slots : form[i].released \in Nat
  BY DEF WindowsInv, TableInv, FormRecord
<1>3. ASSUME NEW i \in Slots PROVE form[i].released <= 1
  <2>1. form[i].released = 0 \/ form[i].released = 1
    BY <1>1 DEF ReleasedOk
  <2> QED
    BY <2>1
<1> QED
  BY <1>1, <1>3 DEF CloseKeepsItsSlot, ReleasedOnce, ClosesOk, CloseOk

-----------------------------------------------------------------------------
(* The handles of the dialogs, as a stack. *)

(* A window keeps its handle. *)
HandlesStay ==
  \A x \in Slots : Live(x) /\ form'[x].name # NoName => form'[x].handle = form[x].handle

(* An edited field that is not the handle. *)
LEMMA FieldEdited ==
  ASSUME NEW f, f \in [Slots -> FormRecord], NEW i, NEW g,
         \/ \E p : g = [f EXCEPT ![i].parent = p]
         \/ g = [f EXCEPT ![i].released = @ + 1]
  PROVE  \A x \in Slots : g[x].handle = f[x].handle
<1> SUFFICES ASSUME NEW x \in Slots PROVE g[x].handle = f[x].handle
  OBVIOUS
<1>1. f[x] \in FormRecord
  OBVIOUS
<1>2. ASSUME NEW p, g = [f EXCEPT ![i].parent = p] PROVE g[x].handle = f[x].handle
  <2> DEFINE v == [f[i] EXCEPT !.parent = p]
  <2>1. g = [f EXCEPT ![i] = v]
    BY <1>2
  <2>2. i = x => v.handle = f[x].handle
    BY <1>1 DEF FormRecord
  <2> HIDE DEF v
  <2> QED
    BY <2>1, <2>2
<1>3. ASSUME g = [f EXCEPT ![i].released = @ + 1] PROVE g[x].handle = f[x].handle
  <2> DEFINE v == [f[i] EXCEPT !.released = @ + 1]
  <2>1. g = [f EXCEPT ![i] = v]
    BY <1>3
  <2>2. i = x => v.handle = f[x].handle
    BY <1>1 DEF FormRecord
  <2> HIDE DEF v
  <2> QED
    BY <2>1, <2>2
<1> QED
  BY <1>2, <1>3

(* The handler of WM_CLOSE. *)
LEMMA CloseHandles ==
  ASSUME WindowsInv, NEW i, NEW h, NEW s,
         \/ UNCHANGED form
         \/ FinishClose(i, h, s)
         \/ CallOnRelease(i, s)
  PROVE  HandlesStay
<1>0. form \in [Slots -> FormRecord]
  BY DEF WindowsInv, TableInv
<1>1. CASE UNCHANGED form
  BY <1>1 DEF HandlesStay
<1>2. CASE FinishClose(i, h, s)
  <2>1. UNCHANGED form \/ \E d : form' = [form EXCEPT ![d] = NoForm]
    BY <1>2 DEF FinishClose, DestroyWindow
  <2>2. ASSUME NEW d, form' = [form EXCEPT ![d] = NoForm] PROVE HandlesStay
    <3>1. \A x \in Slots : form'[x] = IF x = d THEN NoForm ELSE form[x]
      BY <1>0, <2>2
    <3>2. NoForm.name = NoName
      BY DEF NoForm
    <3> QED
      BY <3>1, <3>2 DEF HandlesStay
  <2> QED
    BY <1>1, <2>1, <2>2
<1>3. CASE CallOnRelease(i, s)
  <2>1. form' = [form EXCEPT ![i].released = @ + 1]
    BY <1>3 DEF CallOnRelease
  <2> DEFINE f == form
             g == form'
  <2>2. f \in [Slots -> FormRecord] /\ g = [f EXCEPT ![i].released = @ + 1]
    BY <1>0, <2>1
  <2> HIDE DEF f, g
  <2>3. \A x \in Slots : g[x].handle = f[x].handle
    BY <2>2, FieldEdited
  <2> QED
    BY <2>3 DEF HandlesStay, f, g
<1> QED
  BY <1>1, <1>2, <1>3

(* Every step of the handler of WM_CLOSE. *)
LEMMA CloseStepHandles ==
  ASSUME WindowsInv, CloseStep
  PROVE  HandlesStay
<1>1. ASSUME NEW i, NEW s, HideWindow(i, s) PROVE UNCHANGED form
  BY <1>1 DEF HideWindow, Goto, Abort, table
<1>2. ASSUME NEW i, NEW h, NEW s, HideOrRelease(i, h, s) PROVE HandlesStay
  <2>1. CASE UNCHANGED form
    BY <2>1, CloseHandles
  <2>2. \/ UNCHANGED form \/ FinishClose(i, h, s)
        \/ CallOnRelease(i, Push(Closing("release", i, h, 1), s))
    BY <1>1, <1>2 DEF HideOrRelease, Goto, ReleaseAllWindows, Abort, table
  <2> QED
    BY <2>2, CloseHandles
<1>3. ASSUME NEW i, NEW h, NEW lp, NEW s, AfterAsk(i, h, lp, s) PROVE HandlesStay
  <2>1. UNCHANGED form \/ HideOrRelease(i, h, s)
    BY <1>3 DEF AfterAsk, Goto, table
  <2> QED
    BY <1>2, <2>1, CloseHandles
<1>4. \/ UNCHANGED form \/ AfterAsk(Top.i, Top.h, Top.lp, Rest)
      \/ FinishClose(Top.i, Top.h, Rest)
  BY DEF CloseStep, StartClose, Goto, table
<1> QED
  BY <1>3, <1>4, CloseHandles

(* Commands and activation. *)
LEMMA ShowModalHandles ==
  ASSUME NEW f, f \in [Slots -> FormRecord], NEW i, ShowModal(f, i)
  PROVE  \A x \in Slots : form'[x].handle = f[x].handle
<1> DEFINE g == form'
<1>1. \E p : g = [f EXCEPT ![i].parent = p]
  BY DEF ShowModal
<1> HIDE DEF g
<1>2. \A x \in Slots : g[x].handle = f[x].handle
  BY <1>1, FieldEdited
<1> QED
  BY <1>2 DEF g

(* Commands of the user code: DEFINE WINDOW takes a slot that was free. *)
LEMMA CommandHandles ==
  ASSUME WindowsInv, Command
  PROVE  HandlesStay
<1>0. form \in [Slots -> FormRecord]
  BY DEF WindowsInv, TableInv
<1>1. CASE UNCHANGED form
  BY <1>1 DEF HandlesStay
<1>2. ASSUME NEW n \in Names, Define(n) PROVE HandlesStay
  <2>1. PICK k \in Slots : ~Live(k) /\ \E r : form' = [form EXCEPT ![k] = r]
    BY <1>2 DEF Define, FreeSlot
  <2>2. \A x \in Slots : x # k => form'[x] = form[x]
    BY <1>0, <2>1
  <2> QED
    BY <2>1, <2>2 DEF HandlesStay
<1>3. ASSUME NEW n \in Names, Release(n) PROVE HandlesStay
  <2>1. UNCHANGED form \/ \E h : form' = [x \in Slots |->
                                   IF form[x].parent = h
                                     THEN [form[x] EXCEPT !.parent = mainHandle]
                                     ELSE form[x]]
    BY <1>3 DEF Release, Abort, table
  <2>2. ASSUME NEW h, form' = [x \in Slots |->
                                   IF form[x].parent = h
                                     THEN [form[x] EXCEPT !.parent = mainHandle]
                                     ELSE form[x]]
        PROVE  HandlesStay
    <3>1. ASSUME NEW x \in Slots PROVE form'[x].handle = form[x].handle
      <4> DEFINE v == [form[x] EXCEPT !.parent = mainHandle]
      <4>1. v.handle = form[x].handle
        BY <1>0 DEF FormRecord
      <4>2. form'[x] = v \/ form'[x] = form[x]
        BY <2>2
      <4> HIDE DEF v
      <4> QED
        BY <4>1, <4>2
    <3> QED
      BY <3>1 DEF HandlesStay
  <2> QED
    BY <1>1, <2>1, <2>2
<1>4. ASSUME NEW n \in Names, Show(n) PROVE HandlesStay
  <2>1. UNCHANGED form \/ ShowModal(form, nameVar[n])
    BY <1>4 DEF Show
  <2>2. CASE ShowModal(form, nameVar[n])
    <3> DEFINE f == form
               i == nameVar[n]
    <3>1. f \in [Slots -> FormRecord] /\ ShowModal(f, i)
      BY <1>0, <2>2
    <3> HIDE DEF f, i
    <3>2. \A x \in Slots : form'[x].handle = f[x].handle
      BY <3>1, ShowModalHandles
    <3> QED
      BY <3>2 DEF HandlesStay, f
  <2> QED
    BY <1>1, <2>1, <2>2
<1>5. ASSUME NEW n \in Names, Hide(n) PROVE UNCHANGED form
  BY <1>5 DEF Hide, HideWindow, Goto, Abort, table
<1>6. ASSUME NEW n \in Names, DefineWrongly(n) PROVE UNCHANGED form
  BY <1>6 DEF DefineWrongly, Abort, table
<1>7. ASSUME NEW s \in Activations, NEW w \in BOOLEAN, Activate(s, w) PROVE UNCHANGED form
  BY <1>7 DEF Activate, Abort, table
<1>8. ASSUME DoEvents \/ DoMessageLoop PROVE UNCHANGED form
  BY <1>8 DEF DoEvents, DoMessageLoop, Goto, table
<1> QED
  BY <1>1, <1>2, <1>3, <1>4, <1>5, <1>6, <1>7, <1>8 DEF Command

(* The turns of ACTIVATE WINDOW and its end. *)
LEMMA ActivationHandles ==
  ASSUME DialogProgram, WindowsInv, NEW t, Dialog(t), ActivateNext \/ ActivateDone
  PROVE  HandlesStay
<1>0. form \in [Slots -> FormRecord]
  BY DEF WindowsInv, TableInv
<1>1. CASE UNCHANGED form
  BY <1>1 DEF HandlesStay
<1>2. CASE ActivateDone
  <2>1. UNCHANGED form \/ ShowModal(form, nameVar[Top.shown])
    BY <1>2 DEF ActivateDone, Goto, Abort, table
  <2>2. CASE ShowModal(form, nameVar[Top.shown])
    <3> DEFINE f == form
               i == nameVar[Top.shown]
    <3>1. f \in [Slots -> FormRecord] /\ ShowModal(f, i)
      BY <1>0, <2>2
    <3> HIDE DEF f, i
    <3>2. \A x \in Slots : form'[x].handle = f[x].handle
      BY <3>1, ShowModalHandles
    <3> QED
      BY <3>2 DEF HandlesStay, f
  <2> QED
    BY <1>1, <2>1, <2>2
<1>3. CASE ActivateNext
  <2>1. CASE ActivateNextWrongly(Head(Top.todo))
    BY <1>1, <1>3, <2>1 DEF ActivateNext, Abort, table
  <2>2. CASE ~ActivateNextWrongly(Head(Top.todo))
    <3>1. PICK n, i, g, c : Turn(n, i, g, c)
      BY <1>3, <2>2, TurnStarts
    <3>2. /\ g \in [Slots -> FormRecord] /\ \A x \in Slots : g[x].handle = form[x].handle
          /\ ShowModal(g, i) \/ form' = g
      BY <3>1 DEF Turn, SameButFlags
    <3> HIDE <3>1
    <3>3. CASE ShowModal(g, i)
      <4>1. \A x \in Slots : form'[x].handle = g[x].handle
        BY <3>2, <3>3, ShowModalHandles
      <4> QED
        BY <3>2, <4>1 DEF HandlesStay
    <3>4. CASE form' = g
      BY <3>2, <3>4 DEF HandlesStay
    <3> QED
      BY <3>2, <3>3, <3>4
  <2> QED
    BY <2>1, <2>2
<1> QED
  BY <1>2, <1>3

(* No step gives a window another handle. *)
LEMMA HandlesKept ==
  ASSUME DialogProgram, WindowsInv, NEW t, Dialog(t), Next
  PROVE  HandlesStay
<1>0. form \in [Slots -> FormRecord]
  BY DEF WindowsInv, TableInv
<1>1. CASE UNCHANGED form
  BY <1>1 DEF HandlesStay
<1>2. CASE Return \/ UserInput
  <2>1. UNCHANGED form
    BY <1>2 DEF Return, UserInput, UserClose, ControlAction, TimerEvent, Focus, Goto, table
  <2> QED
    BY <1>1, <2>1
<1>3. CASE Dispatch \/ TakeQuit \/ EventsDone \/ CallOnInit
  <2>1. UNCHANGED form
    BY <1>3 DEF Dispatch, TakeQuit, EventsDone, CallOnInit, Goto, table
  <2> QED
    BY <1>1, <2>1
<1>4. CASE ReleaseAllStep
  <2>1. UNCHANGED form \/ \E i, s : CallOnRelease(i, s)
    BY <1>4 DEF ReleaseAllStep, Goto, table
  <2>2. ASSUME NEW i, NEW s, CallOnRelease(i, s) PROVE HandlesStay
    BY <2>2, CloseHandles
  <2> QED
    BY <1>1, <2>1, <2>2
<1> QED
  BY <1>2, <1>3, <1>4, CommandHandles, CloseStepHandles, ActivationHandles DEF Next, Library

-----------------------------------------------------------------------------
(* The refinement of the stack. *)

(* The chain of handles of t. *)
HandlesOf(t, f) == [j \in 1 .. Len(t) |-> f[t[j]].handle]

(* The chain of the properties is the chain of handles. *)
ChainIsHandles == \A t : WindowsInv /\ Dialog(t) => Chain = HandlesOf(t, form)

(* It is, in the states of the invariant ... *)
LEMMA ChainIs == ChainIsHandles
BY ShownIs DEF ChainIsHandles, HandlesOf

(* ... so in the next state too ... *)
LEMMA ChainIsNext == ChainIsHandles'
BY ChainIs, PTL

(* ... where the invariant holds of a chain u. *)
LEMMA ChainAfter ==
  ASSUME WindowsInv', NEW u, Dialog(u)'
  PROVE  Chain' = HandlesOf(u, form')
BY ChainIsNext DEF ChainIsHandles

(* The windows of the chain are live dialogs with handles of their own. *)
WindowsDiffer ==
  \A t : WindowsInv /\ Dialog(t) =>
    /\ t \in Seq(Slots) /\ Len(t) \in Nat /\ DOMAIN t = 1 .. Len(t)
    /\ \A j \in DOMAIN t : /\ t[j] \in Slots /\ Live(t[j])
                           /\ form[t[j]].name # NoName /\ form[t[j]].handle \in Handles
    /\ \A j, k \in DOMAIN t : form[t[j]].handle = form[t[k]].handle => j = k

(* They are, in the states of the invariant ... *)
LEMMA ChainDiffers == WindowsDiffer
<1> SUFFICES ASSUME NEW t, WindowsInv, Dialog(t)
             PROVE  /\ t \in Seq(Slots) /\ Len(t) \in Nat /\ DOMAIN t = 1 .. Len(t)
                    /\ \A j \in DOMAIN t : /\ t[j] \in Slots /\ Live(t[j])
                           /\ form[t[j]].name # NoName /\ form[t[j]].handle \in Handles
                    /\ \A j, k \in DOMAIN t : form[t[j]].handle = form[t[k]].handle => j = k
  BY DEF WindowsDiffer
<1>1. ChainInv(t) /\ MainLives
  BY DEF Dialog, MainInv
<1>2. /\ t \in Seq(Slots) /\ Len(t) \in Nat /\ DOMAIN t = 1 .. Len(t)
      /\ \A j \in DOMAIN t :
           /\ t[j] \in Slots /\ Live(t[j]) /\ form[t[j]].handle \in LiveHandles
           /\ \A i \in Slots : form[i].handle = form[t[j]].handle => i = t[j]
  BY <1>1, ChainFacts
<1>3. LiveHandles \subseteq Handles
  BY LiveHandlesTyped DEF WindowsInv
<1>4. \A j, k \in DOMAIN t : t[j] = t[k] => j = k
  BY <1>1 DEF ChainInv, IsChain
<1>5. \A j, k \in DOMAIN t : form[t[j]].handle = form[t[k]].handle => j = k
  BY <1>2, <1>4
<1> QED
  BY <1>2, <1>3, <1>5 DEF Live

(* ... so in the next state too ... *)
LEMMA ChainDiffersNext == WindowsDiffer'
BY ChainDiffers, PTL

(* ... where the invariant holds of a chain u. *)
LEMMA DiffersAfter ==
  ASSUME WindowsInv', NEW u, Dialog(u)'
  PROVE  /\ u \in Seq(Slots) /\ Len(u) \in Nat /\ DOMAIN u = 1 .. Len(u)
         /\ \A j \in DOMAIN u : /\ u[j] \in Slots
                                /\ form'[u[j]].name # NoName /\ form'[u[j]].handle \in Handles
         /\ \A j, k \in DOMAIN u : form'[u[j]].handle = form'[u[k]].handle => j = k
BY ChainDiffersNext DEF WindowsDiffer

(* A step of the program is a step of the stack. *)
LEMMA StepOfTheStack ==
  ASSUME DialogProgram, WindowsInv, WindowsInv', CountersInv, NEW t, Dialog(t), Next
  PROVE  Dialogs!Next \/ UNCHANGED Chain
<1> DEFINE c == Chain
           d == Chain'
<1>0. HandlesStay
  BY HandlesKept
<1>1. /\ c = HandlesOf(t, form) /\ t \in Seq(Slots) /\ Len(t) \in Nat /\ DOMAIN t = 1 .. Len(t)
      /\ \A j \in DOMAIN t : t[j] \in Slots /\ Live(t[j])
  BY ChainIs, ChainDiffers DEF ChainIsHandles, WindowsDiffer
<1>2. ASSUME NEW u, Dialog(u)'
      PROVE  /\ u \in Seq(Slots) /\ Len(u) \in Nat /\ DOMAIN u = 1 .. Len(u)
             /\ d = HandlesOf(u, form')
             /\ \A j \in DOMAIN u : u[j] \in Slots /\ form'[u[j]].name # NoName
                                    /\ form'[u[j]].handle \in Handles
             /\ \A j, k \in DOMAIN u : form'[u[j]].handle = form'[u[k]].handle => j = k
  BY <1>2, ChainAfter, DiffersAfter
<1> HIDE DEF c, d
<1>3. CASE Dialog(t)'
  <2>1. /\ d = HandlesOf(t, form')
        /\ \A j \in DOMAIN t : form'[t[j]].name # NoName
    BY <1>2, <1>3
  <2>2. \A j \in 1 .. Len(t) : form'[t[j]].handle = form[t[j]].handle
    BY <1>0, <1>1, <2>1 DEF HandlesStay
  <2>3. d = c
    BY <1>1, <2>1, <2>2 DEF HandlesOf
  <2> QED
    BY <2>3 DEF c, d
<1>4. CASE t # <<>> /\ Dialog(Tail(t))'
  <2> DEFINE u == Tail(t)
  <2>1. /\ t # <<>> /\ Len(u) = Len(t) - 1 /\ Len(t) >= 1
        /\ \A j \in 1 .. Len(t) - 1 : u[j] = t[j + 1]
    BY <1>1, <1>4, OneLessDialog
  <2>2. /\ d = HandlesOf(u, form') /\ DOMAIN u = 1 .. Len(u)
        /\ \A j \in DOMAIN u : form'[u[j]].name # NoName
    BY <1>2, <1>4
  <2> HIDE DEF u
  <2>3. \A j \in 1 .. Len(u) : form'[u[j]].handle = form[t[j + 1]].handle
    BY <1>0, <1>1, <2>1, <2>2 DEF HandlesStay
  <2>4. d = Tail(c) /\ c # <<>>
    BY <1>1, <2>1, <2>2, <2>3 DEF HandlesOf
  <2> QED
    BY <2>4 DEF Dialogs!Next, Dialogs!CloseTop, c, d
<1>5. ASSUME NEW i \in Slots, Dialog(<<i>> \o t)' PROVE Dialogs!Next
  <2> DEFINE u == <<i>> \o t
             h == form'[i].handle
  <2>1. /\ Len(u) = Len(t) + 1 /\ u[1] = i
        /\ \A j \in 1 .. Len(t) : u[j + 1] = t[j]
    BY <1>1, OneMoreDialog
  <2>2. /\ d = HandlesOf(u, form') /\ DOMAIN u = 1 .. Len(u)
        /\ \A j \in DOMAIN u : form'[u[j]].name # NoName /\ form'[u[j]].handle \in Handles
        /\ \A j, k \in DOMAIN u : form'[u[j]].handle = form'[u[k]].handle => j = k
    BY <1>2, <1>5
  <2> HIDE DEF u
  <2>3. \A j \in 1 .. Len(t) : j + 1 \in DOMAIN u /\ form'[u[j + 1]].handle = form[t[j]].handle
    BY <1>0, <1>1, <2>1, <2>2 DEF HandlesStay
  <2>4. 1 \in DOMAIN u /\ h \in Handles
    BY <1>1, <2>1, <2>2
  <2>5. \A j \in 1 .. Len(t) : form[t[j]].handle # h
    BY <1>1, <2>1, <2>2, <2>3, <2>4
  <2> HIDE DEF h
  <2>6. h \in Handles \ {c[j] : j \in DOMAIN c}
    BY <1>1, <2>4, <2>5 DEF HandlesOf
  <2>7. d = <<h>> \o c
    BY <1>1, <2>1, <2>2, <2>3 DEF HandlesOf, h
  <2> QED
    BY <2>6, <2>7 DEF Dialogs!Next, Dialogs!Open, Dialogs!OpenDialogs, c, d
<1> QED
  BY <1>3, <1>4, <1>5, NextDialog

-----------------------------------------------------------------------------
(* Theorems about every program of dialogs.                                *)

(* No dialog is open at the start. *)
LEMMA InitStack ==
  ASSUME Init
  PROVE  Dialogs!Init
<1> DEFINE t == <<>>
           c == Chain
<1>1. WindowsInv /\ Dialog(t)
  BY InitWindowsInv, InitDialog
<1>2. Len(t) = 0
  OBVIOUS
<1> HIDE DEF t
<1>3. c = HandlesOf(t, form)
  BY <1>1, ChainIs DEF ChainIsHandles
<1> HIDE DEF c
<1>4. c = <<>>
  BY <1>2, <1>3 DEF HandlesOf
<1> QED
  BY <1>4 DEF Dialogs!Init, c

(* A step of something else leaves the stack of dialogs alone. *)
LEMMA StutterStack ==
  ASSUME UNCHANGED vars
  PROVE  UNCHANGED Chain
<1>1. form' = form /\ stack' = stack /\ visible' = visible /\ activeModal' = activeModal
  BY DEF vars, table, screen, message, modality
<1>2. Shown' = Shown
  BY <1>1 DEF Shown, Unfinished, Live, IsModal
<1>3. Below' = Below
  BY <1>1 DEF Below, SlotOf, Live
<1> QED
  BY <1>2, <1>3 DEF Chain

(* While a modal window is active it is on the screen, and the parent      *)
(* handles, to which _hmg_OnHideFocusManagement returns, lead from it      *)
(* through every other dialog on the screen to a window that is not modal. *)
THEOREM ModalWindowsChain == DialogProgram => (Spec => []ModalChain)
<1> SUFFICES ASSUME DialogProgram PROVE Spec => []ModalChain
  OBVIOUS
<1>1. WindowsInv /\ DialogInv => ModalChain
  BY DialogModalChain DEF DialogInv
<1> QED
  BY <1>1, DialogSpecInv, PTL

(* Only the active modal window takes input. *)
THEOREM OnlyTopDialogTakesInput == DialogProgram => (Spec => []OnlyTopTakesInput)
<1> SUFFICES ASSUME DialogProgram PROVE Spec => []OnlyTopTakesInput
  OBVIOUS
<1>1. WindowsInv /\ DialogInv => OnlyTopTakesInput
  BY DialogOnlyTop DEF DialogInv
<1> QED
  BY <1>1, DialogSpecInv, PTL

(* The slot that a handler of WM_CLOSE found still holds its window after  *)
(* ON INTERACTIVECLOSE and ON RELEASE, whatever these procedures did.      *)
THEOREM ClosingKeepsItsSlot == DialogProgram => (Spec => []CloseKeepsItsSlot)
<1> SUFFICES ASSUME DialogProgram PROVE Spec => []CloseKeepsItsSlot
  OBVIOUS
<1>1. WindowsInv /\ DialogInv => CloseKeepsItsSlot
  BY DialogCloses DEF DialogInv
<1> QED
  BY <1>1, DialogSpecInv, PTL

(* The ON RELEASE procedure of a window runs at most once. *)
THEOREM WindowsReleasedOnce == DialogProgram => (Spec => []ReleasedOnce)
<1> SUFFICES ASSUME DialogProgram PROVE Spec => []ReleasedOnce
  OBVIOUS
<1>1. WindowsInv /\ DialogInv => ReleasedOnce
  BY DialogCloses DEF DialogInv
<1> QED
  BY <1>1, DialogSpecInv, PTL

(* The dialogs implement the stack of module DialogStack: only the top is  *)
(* ever closed or hidden, and a window that is opened becomes the top.     *)
THEOREM DialogsFormAStack == DialogProgram => (Spec => DialogsAreAStack)
<1> SUFFICES ASSUME DialogProgram PROVE Spec => DialogsAreAStack
  OBVIOUS
<1>1. Init => Dialogs!Init
  BY InitStack
<1>2. /\ WindowsInv /\ CountersInv /\ DialogInv
      /\ (WindowsInv /\ CountersInv /\ DialogInv)'
      /\ [Next]_vars
      => [Dialogs!Next]_Chain
  <2> SUFFICES ASSUME WindowsInv, CountersInv, DialogInv, WindowsInv', [Next]_vars
               PROVE  Dialogs!Next \/ UNCHANGED Chain
    OBVIOUS
  <2>1. PICK t \in Seq(Slots) : Dialog(t)
    BY DEF DialogInv
  <2> QED
    BY <2>1, StepOfTheStack, StutterStack
<1> QED
  BY <1>1, <1>2, DialogSpecInv, PTL DEF Spec, DialogsAreAStack, Dialogs!Spec
=============================================================================

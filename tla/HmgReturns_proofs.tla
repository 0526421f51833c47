------------------------- MODULE HmgReturns_proofs -------------------------
(***************************************************************************)
(* In a program that only closes its dialogs, ACTIVATE WINDOW returns only *)
(* after the windows activated with it are destroyed: the open dialogs     *)
(* and the activations that opened them are nested alike.                  *)
(***************************************************************************)
EXTENDS HmgModal_proofs

(* Programs that only ever close their dialogs: none is hidden, shown again *)
(* or kept when closed.                                                    *)
ClosingProgram ==
  /\ DialogProgram
  /\ Manual = {}
  /\ Uses \cap {"show", "hide"} = {}
  /\ 0 \notin ActivateIds

(* The call e of the stack s is the activation that opened the window i of *)
(* the table fm.  The running call has no dialog yet, or no longer, while  *)
(* it has a window to activate or WM_QUIT is posted.                       *)
Opened(s, e, fm, i) == OwnsLoop(s[e]) /\ s[e].g = fm[i].loop
Vacant(s, e, q)     == e = 1 /\ Empty(s[1], q)

(* The open dialogs t were opened by the topmost activations of the stack, *)
(* one each and in the same order.                                         *)
HasActivation(t, s, fm, q) ==
  \A j \in DOMAIN t : \E e \in DOMAIN s : Opened(s, e, fm, t[j]) /\ ~Vacant(s, e, q)
SameOrder(t, s, fm) ==
  \A j, k \in DOMAIN t, e, f \in DOMAIN s :
    j < k /\ Opened(s, e, fm, t[j]) /\ Opened(s, f, fm, t[k]) => e < f
NoGaps(t, s, fm, q) ==
  \A k \in DOMAIN t, e, f \in DOMAIN s :
    OwnsLoop(s[e]) /\ ~Vacant(s, e, q) /\ e < f /\ Opened(s, f, fm, t[k])
      => \E j \in DOMAIN t : Opened(s, e, fm, t[j])

(* Only the lowest of them is one of several windows activated together,   *)
(* and only above the pump that shows it there are others.                 *)
Alone(t, fm) == \A j \in DOMAIN t : j < Len(t) => fm[t[j]].id = 0
PumpsLow(t, s, fm) ==
  \A k \in DOMAIN t, d, f \in DOMAIN s :
    s[d].k = "events" /\ d < f /\ Opened(s, f, fm, t[k]) => k = Len(t)

Nested(t, s, fm, q) ==
  /\ HasActivation(t, s, fm, q)
  /\ SameOrder(t, s, fm)
  /\ NoGaps(t, s, fm, q)
  /\ Alone(t, fm)
  /\ PumpsLow(t, s, fm)

(* What _ShowWindow is still to make modal belongs to the running          *)
(* activation; when WM_QUIT is posted its windows are destroyed.           *)
ShownInv ==
  Head(stack).k = "act" /\ Head(stack).shown # NoName =>
    form[nameVar[Head(stack).shown]].loop = Head(stack).g
QuitInv == quit /\ Head(stack).k = "loop" => OpenIn(Head(stack).g) = {}
Returns(t) == Nested(t, stack, form, quit) /\ ShownInv /\ QuitInv

-----------------------------------------------------------------------------
(* The nesting of dialogs and activations from one stack to the next. *)

(* Without dialogs there is nothing to nest. *)
LEMMA NestedNone ==
  ASSUME NEW s, NEW fm, NEW q
  PROVE  Nested(<<>>, s, fm, q)
<1> DEFINE t == <<>>
<1>1. DOMAIN t = {}
  OBVIOUS
<1> HIDE DEF t
<1>2. Nested(t, s, fm, q)
  BY <1>1 DEF Nested, HasActivation, SameOrder, NoGaps, Alone, PumpsLow
<1> QED
  BY <1>2 DEF t

(* The table matters only as far as the dialogs' activations. *)
LEMMA NestedSame ==
  ASSUME NEW t, NEW s, NEW fm, NEW fm2, NEW q, Nested(t, s, fm, q),
         \A j \in DOMAIN t : fm2[t[j]].loop = fm[t[j]].loop /\ fm2[t[j]].id = fm[t[j]].id
  PROVE  Nested(t, s, fm2, q)
<1>1. \A j \in DOMAIN t : \A e : Opened(s, e, fm2, t[j]) <=> Opened(s, e, fm, t[j])
  BY DEF Opened
<1>2. HasActivation(t, s, fm2, q)
  BY <1>1 DEF Nested, HasActivation
<1>3. SameOrder(t, s, fm2)
  BY <1>1 DEF Nested, SameOrder
<1>4. NoGaps(t, s, fm2, q)
  BY <1>1 DEF Nested, NoGaps
<1>5. Alone(t, fm2) /\ PumpsLow(t, s, fm2)
  BY <1>1 DEF Nested, Alone, PumpsLow
<1> QED
  BY <1>2, <1>3, <1>4, <1>5 DEF Nested

(* A call that starts is not one of those that opened a dialog. *)
LEMMA NestedPush ==
  ASSUME NEW t, NEW s \in Seq(Call), NEW f \in Call, NEW fm, NEW q, NEW q2, Nested(t, s, fm, q),
         f.k # "events", ~(OwnsLoop(s[1]) /\ Empty(s[1], q)),
         \/ ~OwnsLoop(f)
         \/ Empty(f, q2) /\ \A j \in DOMAIN t : fm[t[j]].loop # f.g
  PROVE  Nested(t, Push(f, s), fm, q2)
<1> DEFINE p == Push(f, s)
<1>0. /\ Len(s) \in Nat /\ DOMAIN s = 1 .. Len(s)
      /\ DOMAIN p = 1 .. Len(s) + 1 /\ p[1] = f
      /\ \A d \in 1 .. Len(s) : p[d + 1] = s[d]
      /\ \A d \in 2 .. Len(s) + 1 : p[d] = s[d - 1] /\ d - 1 \in 1 .. Len(s)
  BY PushElements
<1> HIDE DEF p
<1>1. \A j \in DOMAIN t : ~Opened(p, 1, fm, t[j])
  BY <1>0 DEF Opened
<1>2. \A i : \A e \in DOMAIN s : Opened(p, e + 1, fm, i) <=> Opened(s, e, fm, i)
  BY <1>0 DEF Opened
<1>3. \A e \in DOMAIN p : e # 1 => /\ e - 1 \in DOMAIN s /\ p[e] = s[e - 1]
                                   /\ \A i : Opened(p, e, fm, i) <=> Opened(s, e - 1, fm, i)
  BY <1>0 DEF Opened
<1>4. \A e \in DOMAIN s : e + 1 \in DOMAIN p /\ ~Vacant(p, e + 1, q2)
  BY <1>0 DEF Vacant
<1>5. \A e \in DOMAIN s : OwnsLoop(s[e]) => ~Vacant(s, e, q)
  BY DEF Vacant
<1>6. HasActivation(t, p, fm, q2)
  BY <1>2, <1>4 DEF Nested, HasActivation
<1>7. SameOrder(t, p, fm)
  <2> SUFFICES ASSUME NEW j \in DOMAIN t, NEW k \in DOMAIN t, NEW e \in DOMAIN p, NEW g \in DOMAIN p,
                      j < k, Opened(p, e, fm, t[j]), Opened(p, g, fm, t[k])
               PROVE  e < g
    BY DEF SameOrder
  <2>1. e # 1 /\ g # 1
    BY <1>1
  <2>2. e - 1 < g - 1
    BY <1>3, <2>1 DEF Nested, SameOrder
  <2> QED
    BY <1>0, <2>2
<1>8. NoGaps(t, p, fm, q2)
  <2> SUFFICES ASSUME NEW k \in DOMAIN t, NEW e \in DOMAIN p, NEW g \in DOMAIN p,
                      OwnsLoop(p[e]), ~Vacant(p, e, q2), e < g, Opened(p, g, fm, t[k])
               PROVE  \E j \in DOMAIN t : Opened(p, e, fm, t[j])
    BY DEF NoGaps
  <2>1. g # 1
    BY <1>1
  <2>2. e # 1
    BY <1>0 DEF Vacant
  <2>3. /\ e - 1 \in DOMAIN s /\ g - 1 \in DOMAIN s /\ e - 1 < g - 1
        /\ OwnsLoop(s[e - 1]) /\ Opened(s, g - 1, fm, t[k])
    BY <1>0, <1>3, <2>1, <2>2
  <2>4. \E j \in DOMAIN t : Opened(s, e - 1, fm, t[j])
    BY <1>5, <2>3 DEF Nested, NoGaps
  <2> QED
    BY <1>3, <2>2, <2>4
<1>9. PumpsLow(t, p, fm)
  <2> SUFFICES ASSUME NEW k \in DOMAIN t, NEW d \in DOMAIN p, NEW g \in DOMAIN p,
                      p[d].k = "events", d < g, Opened(p, g, fm, t[k])
               PROVE  k = Len(t)
    BY DEF PumpsLow
  <2>1. g # 1 /\ d # 1
    BY <1>0, <1>1
  <2>2. /\ d - 1 \in DOMAIN s /\ g - 1 \in DOMAIN s /\ d - 1 < g - 1
        /\ s[d - 1].k = "events" /\ Opened(s, g - 1, fm, t[k])
    BY <1>0, <1>3, <2>1
  <2> QED
    BY <2>2 DEF Nested, PumpsLow
<1>10. Nested(t, p, fm, q2)
  BY <1>6, <1>7, <1>8, <1>9 DEF Nested
<1> QED
  BY <1>10 DEF p

(* The same for a call that ends: a pump, an event procedure, or a message *)
(* loop whose window is destroyed.                                         *)
LEMMA NestedPop ==
  ASSUME NEW t, NEW s \in Seq(Call), NEW f \in Call, NEW fm, NEW q, NEW q2,
         Nested(t, Push(f, s), fm, q),
         ~(OwnsLoop(s[1]) /\ Empty(s[1], q2)),
         ~OwnsLoop(f) \/ Empty(f, q),
         \A d, e \in DOMAIN Push(f, s) : OwnsLoop(Push(f, s)[d]) /\ OwnsLoop(Push(f, s)[e])
           /\ Push(f, s)[d].g = Push(f, s)[e].g => d = e
  PROVE  Nested(t, s, fm, q2)
<1> DEFINE p == Push(f, s)
<1>0. /\ Len(s) \in Nat /\ DOMAIN s = 1 .. Len(s)
      /\ DOMAIN p = 1 .. Len(s) + 1 /\ p[1] = f
      /\ \A d \in 1 .. Len(s) : p[d + 1] = s[d]
      /\ \A d \in 2 .. Len(s) + 1 : p[d] = s[d - 1] /\ d - 1 \in 1 .. Len(s)
  BY PushElements
<1>00. /\ Nested(t, p, fm, q)
       /\ \A d, e \in DOMAIN p : OwnsLoop(p[d]) /\ OwnsLoop(p[e]) /\ p[d].g = p[e].g => d = e
  OBVIOUS
<1> HIDE DEF p
<1>1. \A j \in DOMAIN t : ~Opened(p, 1, fm, t[j])
  <2> SUFFICES ASSUME NEW j \in DOMAIN t, Opened(p, 1, fm, t[j]) PROVE FALSE
    OBVIOUS
  <2>1. PICK e \in DOMAIN p : Opened(p, e, fm, t[j]) /\ ~Vacant(p, e, q)
    BY <1>00 DEF Nested, HasActivation
  <2>2. e = 1
    BY SMTT(30), <1>0, <1>00, <2>1 DEF Opened
  <2> QED
    BY <1>0, <2>1, <2>2 DEF Vacant, Opened
<1>2. \A i : \A e \in DOMAIN s : Opened(p, e + 1, fm, i) <=> Opened(s, e, fm, i)
  BY <1>0 DEF Opened
<1>3. \A e \in DOMAIN s : e + 1 \in DOMAIN p /\ p[e + 1] = s[e] /\ ~Vacant(p, e + 1, q)
  BY <1>0 DEF Vacant
<1>4. \A e \in DOMAIN s : OwnsLoop(s[e]) => ~Vacant(s, e, q2)
  BY DEF Vacant
<1>5. \A e \in DOMAIN p : e # 1 => e - 1 \in DOMAIN s /\ \A i : Opened(p, e, fm, i) <=> Opened(s, e - 1, fm, i)
  BY <1>0 DEF Opened
<1>6. HasActivation(t, s, fm, q2)
  <2> SUFFICES ASSUME NEW j \in DOMAIN t
               PROVE  \E e \in DOMAIN s : Opened(s, e, fm, t[j]) /\ ~Vacant(s, e, q2)
    BY DEF HasActivation
  <2>1. PICK e \in DOMAIN p : Opened(p, e, fm, t[j])
    BY <1>00 DEF Nested, HasActivation
  <2>2. e - 1 \in DOMAIN s /\ Opened(s, e - 1, fm, t[j])
    BY <1>1, <1>5, <2>1
  <2> QED
    BY <1>4, <2>2 DEF Opened
<1>7. SameOrder(t, s, fm)
  <2> SUFFICES ASSUME NEW j \in DOMAIN t, NEW k \in DOMAIN t, NEW e \in DOMAIN s, NEW g \in DOMAIN s,
                      j < k, Opened(s, e, fm, t[j]), Opened(s, g, fm, t[k])
               PROVE  e < g
    BY DEF SameOrder
  <2>1. e + 1 < g + 1
    BY <1>00, <1>2, <1>3 DEF Nested, SameOrder
  <2> QED
    BY <1>0, <2>1
<1>8. NoGaps(t, s, fm, q2)
  <2> SUFFICES ASSUME NEW k \in DOMAIN t, NEW e \in DOMAIN s, NEW g \in DOMAIN s,
                      OwnsLoop(s[e]), e < g, Opened(s, g, fm, t[k])
               PROVE  \E j \in DOMAIN t : Opened(s, e, fm, t[j])
    BY DEF NoGaps
  <2>1. e + 1 \in DOMAIN p /\ g + 1 \in DOMAIN p /\ e + 1 < g + 1 /\ OwnsLoop(p[e + 1])
        /\ ~Vacant(p, e + 1, q) /\ Opened(p, g + 1, fm, t[k])
    BY <1>0, <1>2, <1>3
  <2>2. \E j \in DOMAIN t : Opened(p, e + 1, fm, t[j])
    BY <1>00, <2>1 DEF Nested, NoGaps
  <2> QED
    BY <1>2, <2>2
<1>9. PumpsLow(t, s, fm)
  <2> SUFFICES ASSUME NEW k \in DOMAIN t, NEW d \in DOMAIN s, NEW g \in DOMAIN s,
                      s[d].k = "events", d < g, Opened(s, g, fm, t[k])
               PROVE  k = Len(t)
    BY DEF PumpsLow
  <2>1. d + 1 \in DOMAIN p /\ g + 1 \in DOMAIN p /\ d + 1 < g + 1 /\ p[d + 1].k = "events"
        /\ Opened(p, g + 1, fm, t[k])
    BY <1>0, <1>2, <1>3
  <2> QED
    BY <1>00, <2>1 DEF Nested, PumpsLow
<1> QED
  BY <1>00, <1>6, <1>7, <1>8, <1>9 DEF Nested

(* Each activation has a number of its own. *)
LoopsApart(s) ==
  \A d, e \in DOMAIN s : OwnsLoop(s[d]) /\ OwnsLoop(s[e]) /\ s[d].g = s[e].g => d = e

(* The running activation goes on as a message loop. *)
LEMMA NestedTop ==
  ASSUME NEW t, NEW s \in Seq(Call), NEW a \in Call, NEW l \in Call, NEW fm, NEW q, NEW q2,
         Nested(t, Push(a, s), fm, q), OwnsLoop(a), OwnsLoop(l), l.g = a.g,
         ~Empty(a, q), ~Empty(l, q2)
  PROVE  Nested(t, Push(l, s), fm, q2)
<1> DEFINE p == Push(a, s)
           r == Push(l, s)
<1>0. /\ Len(s) \in Nat /\ DOMAIN r = 1 .. Len(s) + 1
      /\ DOMAIN p = 1 .. Len(s) + 1 /\ p[1] = a /\ r[1] = l
      /\ \A d \in 2 .. Len(s) + 1 : p[d] = s[d - 1] /\ r[d] = s[d - 1]
  BY PushElements
<1>00. Nested(t, p, fm, q)
  OBVIOUS
<1> HIDE DEF p, r
<1>1. \A e \in DOMAIN p : e = 1 \/ e \in 2 .. Len(s) + 1
  BY <1>0
<1>2. /\ DOMAIN r = DOMAIN p
      /\ \A e \in DOMAIN p : /\ OwnsLoop(r[e]) <=> OwnsLoop(p[e])
                             /\ \A i : Opened(r, e, fm, i) <=> Opened(p, e, fm, i)
                             /\ r[e].k = "events" <=> p[e].k = "events"
  BY <1>0, <1>1 DEF Opened, OwnsLoop
<1>3. \A e \in DOMAIN p : ~Vacant(p, e, q) /\ ~Vacant(r, e, q2)
  BY <1>0 DEF Vacant
<1>4. HasActivation(t, r, fm, q2)
  BY <1>00, <1>2, <1>3 DEF Nested, HasActivation
<1>5. SameOrder(t, r, fm)
  BY <1>00, <1>2 DEF Nested, SameOrder
<1>6. NoGaps(t, r, fm, q2)
  BY <1>00, <1>2, <1>3 DEF Nested, NoGaps
<1>7. PumpsLow(t, r, fm)
  BY <1>00, <1>2 DEF Nested, PumpsLow
<1>8. Nested(t, r, fm, q2)
  BY <1>00, <1>4, <1>5, <1>6, <1>7 DEF Nested
<1> QED
  BY <1>8 DEF r

(* The running activation opens its only dialog. *)
LEMMA NestedOpen ==
  ASSUME NEW t \in Seq(Slots), NEW i \in Slots, NEW s \in Seq(Call), NEW a \in Call, NEW c \in Call,
         NEW fm, NEW fm2, NEW q, NEW q2,
         Nested(t, Push(a, s), fm, q), OwnsLoop(a), OwnsLoop(c), c.g = a.g,
         Empty(a, q), ~Empty(c, q2), LoopsApart(Push(c, s)),
         fm2[i].loop = a.g, fm2[i].id = 0,
         \A j \in DOMAIN t : fm2[t[j]].loop = fm[t[j]].loop /\ fm2[t[j]].id = fm[t[j]].id
  PROVE  Nested(<<i>> \o t, Push(c, s), fm2, q2)
<1> DEFINE p == Push(a, s)
           r == Push(c, s)
           u == <<i>> \o t
<1>0. /\ Len(s) \in Nat /\ DOMAIN r = 1 .. Len(s) + 1
      /\ DOMAIN p = 1 .. Len(s) + 1 /\ p[1] = a /\ r[1] = c
      /\ \A d \in 2 .. Len(s) + 1 : p[d] = s[d - 1] /\ r[d] = s[d - 1]
  BY PushElements
<1>00. /\ Len(t) \in Nat /\ DOMAIN t = 1 .. Len(t)
       /\ Len(u) = Len(t) + 1 /\ DOMAIN u = 1 .. Len(t) + 1
       /\ u[1] = i
       /\ \A j \in DOMAIN t : j \in Nat /\ j >= 1 /\ u[j + 1] = t[j]
       /\ \A j \in 1 .. Len(t) + 1 : j # 1 => j - 1 \in DOMAIN t /\ u[j] = t[j - 1]
  BY OneMoreDialog
<1>000. Nested(t, p, fm, q) /\ LoopsApart(r)
  OBVIOUS
<1> HIDE DEF p, r, u
<1>1. 1 \in DOMAIN r /\ Opened(r, 1, fm2, i) /\ ~Vacant(r, 1, q2)
  BY <1>0 DEF Opened, Vacant
<1>2. \A e \in DOMAIN r : Opened(r, e, fm2, i) => e = 1
  BY <1>0, <1>000, <1>1 DEF LoopsApart, Opened
<1>3. \A e \in DOMAIN p : e = 1 \/ e \in 2 .. Len(s) + 1
  BY <1>0
<1>4. /\ DOMAIN r = DOMAIN p
      /\ \A e \in DOMAIN p : /\ OwnsLoop(r[e]) <=> OwnsLoop(p[e])
                             /\ \A j \in DOMAIN t : Opened(r, e, fm2, t[j]) <=> Opened(p, e, fm, t[j])
                             /\ e # 1 => (r[e].k = "events" <=> p[e].k = "events")
  BY <1>0, <1>3 DEF Opened
<1>5. \A j \in DOMAIN t, e \in DOMAIN r : Opened(r, e, fm2, t[j]) => e # 1
  <2> SUFFICES ASSUME NEW j \in DOMAIN t, Opened(r, 1, fm2, t[j]) PROVE FALSE
    OBVIOUS
  <2>1. PICK e \in DOMAIN p : Opened(p, e, fm, t[j]) /\ ~Vacant(p, e, q)
    BY <1>000 DEF Nested, HasActivation
  <2>2. e # 1
    BY <1>0, <2>1 DEF Vacant
  <2>3. Opened(r, e, fm2, t[j])
    BY <1>4, <2>1
  <2>4. e = 1
    BY <1>000, <1>1, <1>4, <2>3 DEF LoopsApart, Opened
  <2> QED
    BY <2>2, <2>4
<1>6. \A e \in DOMAIN r : e # 1 => ~Vacant(p, e, q) /\ ~Vacant(r, e, q2)
  BY DEF Vacant
<1>7. HasActivation(u, r, fm2, q2)
  <2> SUFFICES ASSUME NEW j \in DOMAIN u
               PROVE  \E e \in DOMAIN r : Opened(r, e, fm2, u[j]) /\ ~Vacant(r, e, q2)
    BY DEF HasActivation
  <2>1. CASE j = 1
    BY <1>00, <1>1, <2>1
  <2>2. CASE j # 1
    <3>1. j - 1 \in DOMAIN t /\ u[j] = t[j - 1]
      BY <1>00, <2>2
    <3>2. PICK e \in DOMAIN p : Opened(p, e, fm, t[j - 1])
      BY <1>000, <3>1 DEF Nested, HasActivation
    <3>3. Opened(r, e, fm2, u[j]) /\ e \in DOMAIN r
      BY <1>4, <3>1, <3>2
    <3> QED
      BY <1>5, <1>6, <3>1, <3>3
  <2> QED
    BY <2>1, <2>2
<1>8. SameOrder(u, r, fm2)
  <2> SUFFICES ASSUME NEW j \in DOMAIN u, NEW k \in DOMAIN u, NEW e \in DOMAIN r, NEW g \in DOMAIN r,
                      j < k, Opened(r, e, fm2, u[j]), Opened(r, g, fm2, u[k])
               PROVE  e < g
    BY DEF SameOrder
  <2>1. k # 1 /\ k - 1 \in DOMAIN t /\ u[k] = t[k - 1]
    BY <1>00
  <2>2. g # 1
    BY <1>5, <2>1
  <2>3. CASE j = 1
    BY <1>0, <1>00, <1>2, <2>2, <2>3
  <2>4. CASE j # 1
    <3>1. j - 1 \in DOMAIN t /\ u[j] = t[j - 1] /\ j - 1 < k - 1
      BY <1>00, <2>4
    <3>2. Opened(p, e, fm, t[j - 1]) /\ Opened(p, g, fm, t[k - 1])
      BY <1>4, <2>1, <3>1
    <3> QED
      BY <1>000, <1>4, <2>1, <3>1, <3>2 DEF Nested, SameOrder
  <2> QED
    BY <2>3, <2>4
<1>9. NoGaps(u, r, fm2, q2)
  <2> SUFFICES ASSUME NEW k \in DOMAIN u, NEW e \in DOMAIN r, NEW g \in DOMAIN r,
                      OwnsLoop(r[e]), e < g, Opened(r, g, fm2, u[k])
               PROVE  \E j \in DOMAIN u : Opened(r, e, fm2, u[j])
    BY DEF NoGaps
  <2>1. CASE e = 1
    <3>1. 1 \in DOMAIN u /\ Opened(r, e, fm2, u[1])
      BY <1>00, <1>1, <2>1
    <3> QED
      BY <3>1
  <2>2. CASE e # 1
    <3>1. g # 1
      BY <1>0, <2>2
    <3>2. k # 1
      BY <1>00, <1>2, <3>1
    <3>3. k - 1 \in DOMAIN t /\ u[k] = t[k - 1]
      BY <1>00, <3>2
    <3>4. OwnsLoop(p[e]) /\ ~Vacant(p, e, q) /\ Opened(p, g, fm, t[k - 1])
      BY <1>4, <1>6, <2>2, <3>3
    <3>5. PICK j \in DOMAIN t : Opened(p, e, fm, t[j])
      BY <1>000, <1>4, <3>3, <3>4 DEF Nested, NoGaps
    <3>6. j + 1 \in DOMAIN u /\ u[j + 1] = t[j]
      BY <1>00
    <3> QED
      BY <1>4, <3>5, <3>6
  <2> QED
    BY <2>1, <2>2
<1>10. Alone(u, fm2)
  <2> SUFFICES ASSUME NEW j \in DOMAIN u, j < Len(u) PROVE fm2[u[j]].id = 0
    BY DEF Alone
  <2>1. CASE j = 1
    BY <1>00, <2>1
  <2>2. CASE j # 1
    <3>1. j - 1 \in DOMAIN t /\ u[j] = t[j - 1] /\ j - 1 < Len(t)
      BY <1>00, <2>2
    <3> QED
      BY <1>000, <3>1 DEF Nested, Alone
  <2> QED
    BY <2>1, <2>2
<1>11. PumpsLow(u, r, fm2)
  <2> SUFFICES ASSUME NEW k \in DOMAIN u, NEW d \in DOMAIN r, NEW g \in DOMAIN r,
                      r[d].k = "events", d < g, Opened(r, g, fm2, u[k])
               PROVE  k = Len(u)
    BY DEF PumpsLow
  <2>1. d # 1 /\ g # 1
    BY <1>0 DEF OwnsLoop
  <2>2. k # 1
    BY <1>00, <1>2, <2>1
  <2>3. k - 1 \in DOMAIN t /\ u[k] = t[k - 1]
    BY <1>00, <2>2
  <2>4. p[d].k = "events" /\ Opened(p, g, fm, t[k - 1])
    BY <1>4, <2>1, <2>3
  <2>5. k - 1 = Len(t)
    BY <1>000, <1>4, <2>3, <2>4 DEF Nested, PumpsLow
  <2> QED
    BY <1>00, <2>5
<1>12. Nested(u, r, fm2, q2)
  BY <1>7, <1>8, <1>9, <1>10, <1>11 DEF Nested
<1> QED
  BY <1>12 DEF u, r

(* The dialog a handler closes was opened by the message loop that called  *)
(* the handler.                                                            *)
LEMMA InnermostOpened ==
  ASSUME NEW t \in Seq(Slots), t # <<>>, NEW s \in Seq(Call), NEW c \in Call, s # <<>>,
         NEW fm, NEW q, Nested(t, Push(c, s), fm, q), c.k = "close", LoopsApart(Push(c, s)),
         OwnsLoop(s[1])
  PROVE  Opened(Push(c, s), 2, fm, t[1])
<1> DEFINE p == Push(c, s)
<1>0. /\ 1 \in DOMAIN p /\ p[1] = c /\ 2 \in DOMAIN p /\ p[2] = s[1]
      /\ Len(s) \in Nat /\ DOMAIN p = 1 .. Len(s) + 1
  BY PushPlaces, PushElements
<1>00. 1 \in DOMAIN t /\ Len(t) \in Nat /\ DOMAIN t = 1 .. Len(t)
  BY OneLessDialog
<1>000. Nested(t, p, fm, q) /\ LoopsApart(p)
  OBVIOUS
<1> HIDE DEF p
<1>1. PICK f \in DOMAIN p : Opened(p, f, fm, t[1])
  BY <1>00, <1>000 DEF Nested, HasActivation
<1>2. f # 1
  BY <1>0, <1>1 DEF Opened, OwnsLoop
<1>3. ASSUME f # 2 PROVE FALSE
  <2>1. 2 < f
    BY <1>0, <1>2, <1>3
  <2>2. OwnsLoop(p[2]) /\ ~Vacant(p, 2, q)
    BY <1>0 DEF Vacant
  <2>3. PICK j \in DOMAIN t : Opened(p, 2, fm, t[j])
    BY <1>0, <1>00, <1>000, <1>1, <2>1, <2>2 DEF Nested, NoGaps
  <2>4. j # 1
    BY <1>0, <1>000, <1>1, <2>1, <2>3 DEF LoopsApart, Opened
  <2>5. 1 < j
    BY <1>00, <2>4
  <2>6. f < 2
    BY <1>0, <1>00, <1>000, <1>1, <2>3, <2>5 DEF Nested, SameOrder
  <2> QED
    BY <1>0, <2>1, <2>6
<1>4. Opened(p, 2, fm, t[1])
  BY <1>1, <1>3
<1> QED
  BY <1>4 DEF p

(* The handler of WM_CLOSE ends: the active dialog is destroyed, and       *)
(* WM_QUIT is posted unless it was one of several.                         *)
LEMMA NestedClose ==
  ASSUME NEW t \in Seq(Slots), t # <<>>, NEW s \in Seq(Call), NEW c \in Call, s # <<>>,
         NEW fm, NEW fm2, NEW q, NEW q2,
         Nested(t, Push(c, s), fm, q), c.k = "close", PumpCall(s[1]), LoopsApart(Push(c, s)),
         fm[t[1]].id = 0 => q2,
         \A j \in DOMAIN t : j # 1 => fm2[t[j]].loop = fm[t[j]].loop /\ fm2[t[j]].id = fm[t[j]].id
  PROVE  Nested(Tail(t), s, fm2, q2)
<1> DEFINE p == Push(c, s)
           u == Tail(t)
<1>0. /\ Len(s) \in Nat /\ DOMAIN s = 1 .. Len(s)
      /\ DOMAIN p = 1 .. Len(s) + 1 /\ p[1] = c
      /\ \A d \in 1 .. Len(s) : p[d + 1] = s[d]
      /\ \A d \in 2 .. Len(s) + 1 : p[d] = s[d - 1] /\ d - 1 \in 1 .. Len(s)
  BY PushElements
<1>00. /\ 1 \in DOMAIN t
       /\ Len(t) \in Nat /\ Len(t) >= 1 /\ DOMAIN t = 1 .. Len(t)
       /\ Len(u) = Len(t) - 1 /\ DOMAIN u = 1 .. Len(t) - 1
       /\ \A j \in DOMAIN u : j \in Nat /\ j + 1 \in DOMAIN t /\ u[j] = t[j + 1]
       /\ \A j \in DOMAIN t : j # 1 => j - 1 \in DOMAIN u /\ u[j - 1] = t[j]
  BY OneLessDialog
<1>000. Nested(t, p, fm, q) /\ LoopsApart(p) /\ 1 \in DOMAIN s
  BY EmptySeq, <1>0
<1>01. CASE Len(t) = 1
  <2>1. DOMAIN u = {}
    BY <1>00, <1>01
  <2> HIDE DEF u
  <2>2. Nested(u, s, fm2, q2)
    BY <2>1 DEF Nested, HasActivation, SameOrder, NoGaps, Alone, PumpsLow
  <2> QED
    BY <2>2 DEF u
<1>02. CASE Len(t) # 1
  <2>0. 1 < Len(t) /\ Len(t) # 1
    BY <1>00, <1>02
  <2> HIDE DEF p, u
  <2>1. p[1].k = "close" /\ 2 \in DOMAIN p /\ p[2] = s[1]
    BY <1>0, <1>000
  <2>2. q2
    BY <1>00, <1>000, <2>0 DEF Nested, Alone
  <2>3. PICK f \in DOMAIN p : Opened(p, f, fm, t[1])
    BY <1>00, <1>000 DEF Nested, HasActivation
  <2>4. f # 1
    BY <2>1, <2>3 DEF Opened, OwnsLoop
  <2>5. \A e \in DOMAIN p : ~Vacant(p, e, q) \/ ~OwnsLoop(p[e])
    BY <2>1 DEF Vacant, OwnsLoop
  <2>6. f = 2
    <3> SUFFICES ASSUME f # 2 PROVE FALSE
      OBVIOUS
    <3>1. 2 < f
      BY <1>0, <2>4
    <3>2. p[2].k # "events"
      BY <1>00, <1>000, <2>0, <2>1, <2>3, <3>1 DEF Nested, PumpsLow
    <3>3. OwnsLoop(p[2])
      BY <2>1, <3>2 DEF PumpCall, OwnsLoop
    <3>4. Opened(p, 2, fm, t[1])
      BY <2>1, <3>3, InnermostOpened DEF p
    <3> QED
      BY <1>000, <2>1, <2>3, <3>1, <3>4 DEF LoopsApart, Opened
  <2>7. \A e \in DOMAIN p : Opened(p, e, fm, t[1]) => e = 2
    BY <1>000, <2>1, <2>3, <2>6 DEF LoopsApart, Opened
  <2>8. \A j \in DOMAIN u, e \in DOMAIN s : Opened(s, e, fm2, u[j]) <=> Opened(p, e + 1, fm, t[j + 1])
    <3> TAKE j \in DOMAIN u, e \in DOMAIN s
    <3>1. j + 1 \in DOMAIN t /\ j + 1 # 1 /\ u[j] = t[j + 1] /\ p[e + 1] = s[e]
      BY <1>0, <1>00
    <3> QED
      BY <3>1 DEF Opened
  <2>9. \A j \in DOMAIN t, e \in DOMAIN p : j # 1 /\ Opened(p, e, fm, t[j]) => 2 < e
    <3> SUFFICES ASSUME NEW j \in DOMAIN t, NEW e \in DOMAIN p, j # 1, Opened(p, e, fm, t[j])
                 PROVE  2 < e
      OBVIOUS
    <3>1. 1 < j
      BY <1>00
    <3> QED
      BY <1>00, <1>000, <2>3, <2>6, <3>1 DEF Nested, SameOrder
  <2>10. HasActivation(u, s, fm2, q2)
    <3> SUFFICES ASSUME NEW j \in DOMAIN u
                 PROVE  \E e \in DOMAIN s : Opened(s, e, fm2, u[j]) /\ ~Vacant(s, e, q2)
      BY DEF HasActivation
    <3>1. j + 1 \in DOMAIN t /\ j + 1 # 1
      BY <1>00
    <3>2. PICK e \in DOMAIN p : Opened(p, e, fm, t[j + 1])
      BY <1>000, <3>1 DEF Nested, HasActivation
    <3>3. 2 < e
      BY <2>9, <3>1, <3>2
    <3>4. e - 1 \in DOMAIN s /\ e - 1 # 1 /\ (e - 1) + 1 = e
      BY <1>0, <3>3
    <3>5. Opened(s, e - 1, fm2, u[j])
      BY <2>8, <3>2, <3>4
    <3> QED
      BY <3>4, <3>5 DEF Vacant
  <2>11. SameOrder(u, s, fm2)
    <3> SUFFICES ASSUME NEW j \in DOMAIN u, NEW k \in DOMAIN u, NEW e \in DOMAIN s, NEW g \in DOMAIN s,
                        j < k, Opened(s, e, fm2, u[j]), Opened(s, g, fm2, u[k])
                 PROVE  e < g
      BY DEF SameOrder
    <3>1. /\ j + 1 \in DOMAIN t /\ k + 1 \in DOMAIN t /\ j + 1 < k + 1
          /\ e + 1 \in DOMAIN p /\ g + 1 \in DOMAIN p
      <4>1. j + 1 \in DOMAIN t /\ k + 1 \in DOMAIN t /\ j + 1 < k + 1
        BY <1>00
      <4>2. e + 1 \in DOMAIN p /\ g + 1 \in DOMAIN p
        BY <1>0
      <4> QED
        BY <4>1, <4>2
    <3>2. Opened(p, e + 1, fm, t[j + 1]) /\ Opened(p, g + 1, fm, t[k + 1])
      BY <2>8
    <3>3. e + 1 < g + 1
      BY <1>000, <3>1, <3>2 DEF Nested, SameOrder
    <3> QED
      BY <1>0, <3>3
  <2>12. NoGaps(u, s, fm2, q2)
    <3> SUFFICES ASSUME NEW k \in DOMAIN u, NEW e \in DOMAIN s, NEW g \in DOMAIN s,
                        OwnsLoop(s[e]), ~Vacant(s, e, q2), e < g, Opened(s, g, fm2, u[k])
                 PROVE  \E j \in DOMAIN u : Opened(s, e, fm2, u[j])
      BY DEF NoGaps
    <3>1. e # 1
      BY <2>2 DEF Vacant, Empty
    <3>2. /\ k + 1 \in DOMAIN t /\ e + 1 \in DOMAIN p /\ g + 1 \in DOMAIN p /\ e + 1 < g + 1
          /\ e + 1 # 1 /\ e + 1 # 2 /\ p[e + 1] = s[e]
      BY SMTT(30), <1>0, <1>00, <3>1
    <3>3. Opened(p, g + 1, fm, t[k + 1]) /\ OwnsLoop(p[e + 1]) /\ ~Vacant(p, e + 1, q)
      BY <2>8, <3>2 DEF Vacant
    <3>4. PICK j \in DOMAIN t : Opened(p, e + 1, fm, t[j])
      BY <1>000, <3>2, <3>3 DEF Nested, NoGaps
    <3>5. j # 1
      BY <2>7, <3>2, <3>4
    <3>6. j - 1 \in DOMAIN u /\ (j - 1) + 1 = j
      BY <1>00, <3>5
    <3> QED
      BY <2>8, <3>4, <3>6
  <2>13. Alone(u, fm2)
    <3> SUFFICES ASSUME NEW j \in DOMAIN u, j < Len(u) PROVE fm2[u[j]].id = 0
      BY DEF Alone
    <3>1. j + 1 \in DOMAIN t /\ j + 1 < Len(t) /\ j + 1 # 1 /\ u[j] = t[j + 1]
      BY <1>00
    <3> QED
      BY <1>000, <3>1 DEF Nested, Alone
  <2>14. PumpsLow(u, s, fm2)
    <3> SUFFICES ASSUME NEW k \in DOMAIN u, NEW d \in DOMAIN s, NEW g \in DOMAIN s,
                        s[d].k = "events", d < g, Opened(s, g, fm2, u[k])
                 PROVE  k = Len(u)
      BY DEF PumpsLow
    <3>1. /\ k + 1 \in DOMAIN t /\ d + 1 \in DOMAIN p /\ g + 1 \in DOMAIN p /\ d + 1 < g + 1
          /\ p[d + 1].k = "events" /\ Opened(p, g + 1, fm, t[k + 1])
      BY <1>0, <1>00, <2>8
    <3>2. k + 1 = Len(t)
      BY <1>000, <3>1 DEF Nested, PumpsLow
    <3> QED
      BY <1>00, <3>2
  <2>15. Nested(u, s, fm2, q2)
    BY <2>10, <2>11, <2>12, <2>13, <2>14 DEF Nested
  <2> QED
    BY <2>15 DEF u
<1> QED
  BY <1>01, <1>02

(* The first dialog of several windows, shown above its message loop. *)
LEMMA NestedFirst ==
  ASSUME NEW i \in Slots, NEW s \in Seq(Call), NEW l \in Call, NEW fm, NEW q,
         l.k = "loop", fm[i].loop = l.g, LoopsApart(Push(l, s)), Pump \in Call
  PROVE  Nested(<<i>>, Push(Pump, Push(l, s)), fm, q)
<1> DEFINE u == <<i>>
           r == Push(l, s)
           p == Push(Pump, r)
<1>0. /\ r \in Seq(Call) /\ Len(s) \in Nat /\ DOMAIN r = 1 .. Len(s) + 1 /\ r[1] = l
  BY PushElements
<1>1. /\ Len(r) \in Nat /\ DOMAIN r = 1 .. Len(r)
      /\ DOMAIN p = 1 .. Len(r) + 1 /\ p[1] = Pump
      /\ \A d \in 1 .. Len(r) : p[d + 1] = r[d]
      /\ \A d \in 2 .. Len(r) + 1 : p[d] = r[d - 1] /\ d - 1 \in 1 .. Len(r)
  BY <1>0, PushElements
<1>2. DOMAIN u = {1} /\ u[1] = i /\ Len(u) = 1
  OBVIOUS
<1>3. LoopsApart(r)
  OBVIOUS
<1>4. Pump.k = "events"
  BY DEF Pump
<1> HIDE DEF u, r, p
<1>5. 2 \in DOMAIN p /\ p[2] = l /\ 1 \in DOMAIN r
  BY <1>0, <1>1
<1>6. OwnsLoop(l) /\ ~OwnsLoop(Pump)
  BY <1>4 DEF OwnsLoop
<1>7. \A e \in DOMAIN p : Opened(p, e, fm, i) => e = 2
  <2> SUFFICES ASSUME NEW e \in DOMAIN p, Opened(p, e, fm, i) PROVE e = 2
    OBVIOUS
  <2>1. e # 1
    BY <1>1, <1>6 DEF Opened
  <2>2. p[e] = r[e - 1] /\ e - 1 \in DOMAIN r
    BY <1>1, <2>1
  <2>3. e - 1 = 1
    BY <1>0, <1>3, <1>5, <1>6, <2>2 DEF Opened, LoopsApart
  <2> QED
    BY <1>1, <2>3
<1>8. Opened(p, 2, fm, i) /\ ~Vacant(p, 2, q)
  BY <1>5, <1>6 DEF Opened, Vacant
<1>9. \A e \in DOMAIN p : e < 2 => ~OwnsLoop(p[e])
  BY <1>1, <1>6
<1>10. HasActivation(u, p, fm, q) /\ SameOrder(u, p, fm)
  BY <1>2, <1>5, <1>8 DEF HasActivation, SameOrder
<1>11. NoGaps(u, p, fm, q)
  <2> SUFFICES ASSUME NEW e \in DOMAIN p, NEW f \in DOMAIN p, OwnsLoop(p[e]), e < f, Opened(p, f, fm, i)
               PROVE  FALSE
    BY <1>2 DEF NoGaps
  <2> QED
    BY <1>7, <1>9
<1>12. Alone(u, fm) /\ PumpsLow(u, p, fm)
  BY <1>2 DEF Alone, PumpsLow
<1>13. Nested(u, p, fm, q)
  BY <1>10, <1>11, <1>12 DEF Nested
<1> QED
  BY <1>13 DEF u, r, p

-----------------------------------------------------------------------------
(* The steps of a program that only closes its dialogs. *)

(* The calls below the first one have numbers of their own, too. *)
LEMMA ApartBelow ==
  ASSUME NEW s \in Seq(Call), NEW f \in Call, LoopsApart(Push(f, s))
  PROVE  LoopsApart(s)
<1> DEFINE p == Push(f, s)
<1>0. /\ Len(s) \in Nat /\ DOMAIN s = 1 .. Len(s) /\ DOMAIN p = 1 .. Len(s) + 1
      /\ \A d \in 1 .. Len(s) : p[d + 1] = s[d]
  BY PushElements
<1>1. LoopsApart(p)
  OBVIOUS
<1> HIDE DEF p
<1> SUFFICES ASSUME NEW d \in DOMAIN s, NEW e \in DOMAIN s, OwnsLoop(s[d]), OwnsLoop(s[e]), s[d].g = s[e].g
             PROVE  d = e
  BY DEF LoopsApart
<1>2. d + 1 \in DOMAIN p /\ e + 1 \in DOMAIN p /\ p[d + 1] = s[d] /\ p[e + 1] = s[e]
  BY <1>0
<1>3. d + 1 = e + 1
  BY <1>1, <1>2 DEF LoopsApart
<1> QED
  BY <1>0, <1>3

(* What the steps start from. *)
LEMMA RunningNested ==
  ASSUME WindowsInv, CountersInv, status = "run", NEW t, Dialog(t), Returns(t)
  PROVE  /\ stack \in Seq(Call) /\ stack # <<>> /\ Top \in Call /\ Rest \in Seq(Call)
         /\ stack = Push(Top, Rest) /\ Top = stack[1] /\ Top = Head(stack) /\ Rest = Tail(stack)
         /\ t \in Seq(Slots) /\ \A j \in DOMAIN t : t[j] \in Slots
         /\ Nested(t, stack, form, quit) /\ LoopsApart(stack)
         /\ ~PumpCall(Top) => quit = FALSE
         /\ Top.k = "user" => ~PumpCall(Top) /\ ~OwnsLoop(Top) /\ quit = FALSE
<1>0. quit \in BOOLEAN
  BY DEF WindowsInv, StateInv
<1>00. Top.k = "user" => ~PumpCall(Top) /\ ~OwnsLoop(Top)
  BY DEF PumpCall, OwnsLoop
<1>1. LoopsApart(stack)
  BY DEF CountersInv, StackOk, LoopsApart
<1>2. t \in Seq(Slots)
  BY ChainTyped
<1>3. \A j \in DOMAIN t : t[j] \in Slots
  BY <1>2, ElementOfSeq
<1> QED
  BY <1>0, <1>00, <1>1, <1>2, <1>3, RunningCall DEF Returns

(* The running call ends. *)
LEMMA EndNested ==
  ASSUME WindowsInv, CountersInv, status = "run", NEW t, Dialog(t), Returns(t), Rest # <<>>,
         ~OwnsLoop(Top) \/ Empty(Top, quit)
  PROVE  /\ Nested(t, Rest, form, FALSE) /\ LoopsApart(Rest)
         /\ Rest[1].k # "act" /\ Head(Rest) = Rest[1] /\ 1 \in DOMAIN Rest
<1>0. /\ Top \in Call /\ Rest \in Seq(Call) /\ stack = Push(Top, Rest) /\ Rest = Tail(stack)
      /\ stack \in Seq(Call) /\ Nested(t, Push(Top, Rest), form, quit) /\ LoopsApart(Push(Top, Rest))
  BY RunningNested
<1>1. Rest[1].k # "act"
  BY <1>0, ShapeTail DEF Dialog
<1>2. ~Empty(Rest[1], FALSE)
  BY <1>1 DEF Empty
<1>3. Nested(t, Rest, form, FALSE)
  BY <1>0, <1>2, NestedPop DEF LoopsApart
<1>4. LoopsApart(Rest)
  BY <1>0, ApartBelow
<1> QED
  BY <1>0, <1>1, <1>3, <1>4, PushRest

(* A call that opens nothing starts. *)
LEMMA StartNested ==
  ASSUME NEW t, NEW s \in Seq(Call), NEW f \in Call, Nested(t, s, form, FALSE),
         s[1].k # "act", ~OwnsLoop(f), f.k # "events", NEW q
  PROVE  Nested(t, Push(f, s), form, q)
<1>1. ~Empty(s[1], FALSE)
  BY DEF Empty
<1> QED
  BY <1>1, NestedPush

(* What decides which activation opened a window stays as it is. *)
SameLoops == \A i \in Slots : form'[i].loop = form[i].loop /\ form'[i].id = form[i].id

(* A step after which neither an activation runs nor WM_QUIT is posted     *)
(* over a message loop only has to keep the nesting.                       *)
LEMMA NestedStep ==
  ASSUME NEW t, \A j \in DOMAIN t : t[j] \in Slots, NEW s \in Seq(Call), s # <<>>,
         Nested(t, s, form, quit'), SameLoops,
         stack' = s, s[1].k # "act", ~quit' \/ s[1].k # "loop"
  PROVE  Returns(t)' /\ Head(stack').k # "act"
<1>1. Head(s) = s[1]
  BY PushRest
<1>2. Nested(t, stack', form', quit')
  BY NestedSame DEF SameLoops
<1>3. ShownInv'
  BY <1>1 DEF ShownInv
<1>4. QuitInv'
  BY <1>1 DEF QuitInv
<1> QED
  BY <1>2, <1>3, <1>4 DEF Returns

(* A step that changes neither the calls nor the table. *)
LEMMA StopReturns ==
  ASSUME NEW t, Returns(t), form' = form, stack' = stack, quit' = quit, nameVar' = nameVar
  PROVE  Returns(t)'
<1>1. Nested(t, stack', form', quit')
  BY DEF Returns
<1>2. ShownInv'
  BY DEF Returns, ShownInv
<1>3. QuitInv'
  BY DEF Returns, QuitInv, OpenIn, Live
<1> QED
  BY <1>1, <1>2, <1>3 DEF Returns

(* DEFINE WINDOW *)
LEMMA DefineReturns ==
  ASSUME WindowsInv, CountersInv, status = "run", NEW t, Dialog(t), Returns(t),
         NEW n \in Names, Define(n)
  PROVE  Returns(t)'
<1>0. /\ stack \in Seq(Call) /\ stack # <<>> /\ Top = stack[1] /\ Top = Head(stack)
      /\ t \in Seq(Slots) /\ \A j \in DOMAIN t : t[j] \in Slots
      /\ Nested(t, stack, form, quit)
  BY RunningNested
<1>1. Top.k = "user" /\ stack' = stack /\ quit' = quit
  BY DEF Define, Running, Top, message
<1>2. PICK k \in Slots : FreeSlot(k) /\ \E v : form' = [form EXCEPT ![k] = v]
  BY DEF Define
<1>3. \A j \in DOMAIN t : t[j] # k
  <2> SUFFICES ASSUME NEW j \in DOMAIN t, t[j] = k PROVE FALSE
    OBVIOUS
  <2>1. form[k].name \in Modal
    BY <1>0 DEF Dialog, ChainInv, IsChain, IsOpen
  <2>2. form[k].name = NoName
    BY <1>2 DEF FreeSlot, Live
  <2> QED
    BY <2>1, <2>2, WindowsAssumption
<1>4. form \in [Slots -> FormRecord]
  BY DEF WindowsInv, TableInv
<1>5. \A j \in DOMAIN t : form'[t[j]] = form[t[j]]
  BY <1>0, <1>2, <1>3, <1>4
<1>6. Nested(t, stack', form', quit')
  BY <1>0, <1>1, <1>5, NestedSame
<1>7. ShownInv' /\ QuitInv'
  BY <1>0, <1>1 DEF ShownInv, QuitInv
<1> QED
  BY <1>6, <1>7 DEF Returns

(* RELEASE WINDOW *)
LEMMA ReleaseReturns ==
  ASSUME WindowsInv, CountersInv, status = "run", NEW t, Dialog(t), Returns(t),
         NEW n \in Names, Release(n)
  PROVE  Returns(t)'
<1>0. /\ stack \in Seq(Call) /\ stack # <<>> /\ Top = stack[1] /\ Top = Head(stack)
      /\ t \in Seq(Slots) /\ \A j \in DOMAIN t : t[j] \in Slots
      /\ Nested(t, stack, form, quit)
      /\ Top.k = "user" => quit = FALSE
  BY RunningNested
<1>1. Top.k = "user"
  BY DEF Release, InUserCode, Running, Top
<1>2. quit = FALSE /\ stack[1].k # "act" /\ stack[1].k # "loop" /\ Nested(t, stack, form, FALSE)
  BY <1>0, <1>1
<1>3. CASE Abort
  BY <1>3, StopReturns DEF Abort, table, message
<1>4. CASE stack' = Push(ReleasingAll(1), stack) /\ UNCHANGED <<form, message>>
  <2> DEFINE f == ReleasingAll(1)
             s == Push(f, stack)
  <2>1. f \in Call /\ f.k = "all"
    BY FramesTyped DEF ReleasingAll
  <2>2. stack' = s /\ quit' = FALSE /\ SameLoops
    BY <1>2, <1>4 DEF message, SameLoops
  <2> HIDE DEF f
  <2>3. ~OwnsLoop(f)
    BY <2>1 DEF OwnsLoop
  <2>4. Nested(t, s, form, quit')
    <3>1. f.k # "events"
      BY <2>1
    <3> QED
      BY <1>0, <1>2, <2>1, <2>3, <3>1, StartNested
  <2>5. s \in Seq(Call) /\ s # <<>> /\ s[1] = f
    BY <1>0, <2>1, PushPlaces
  <2> HIDE DEF s
  <2> QED
    BY <1>0, <2>1, <2>2, <2>4, <2>5, NestedStep
<1>5. CASE stack' = stack /\ quit' = quit /\ SameLoops
  <2>1. Nested(t, stack, form, quit') /\ ~quit'
    BY <1>2, <1>5
  <2> QED
    BY <1>0, <1>2, <1>5, <2>1, NestedStep
<1>6. \/ Abort
      \/ stack' = Push(ReleasingAll(1), stack) /\ UNCHANGED <<form, message>>
      \/ /\ stack' = stack /\ quit' = quit
         /\ \E h, b : form' = IF b THEN form
                              ELSE [x \in Slots |->
                                     IF form[x].parent = h
                                       THEN [form[x] EXCEPT !.parent = mainHandle]
                                       ELSE form[x]]
  BY DEF Release, message
<1>7. ASSUME NEW h, NEW b, form' = IF b THEN form
                                   ELSE [x \in Slots |->
                                          IF form[x].parent = h
                                            THEN [form[x] EXCEPT !.parent = mainHandle]
                                            ELSE form[x]]
      PROVE  SameLoops
  <2>1. form \in [Slots -> FormRecord]
    BY DEF WindowsInv, TableInv
  <2>2. \A x \in Slots : /\ [form[x] EXCEPT !.parent = mainHandle].loop = form[x].loop
                         /\ [form[x] EXCEPT !.parent = mainHandle].id = form[x].id
    BY <2>1 DEF FormRecord
  <2> QED
    BY <1>7, <2>2 DEF SameLoops
<1> QED
  BY <1>3, <1>4, <1>5, <1>6, <1>7

(* ACTIVATE WINDOW starts: its loop has a number no other has. *)
LEMMA ActivateNested ==
  ASSUME WindowsInv, CountersInv, status = "run", NEW t, Dialog(t), Returns(t),
         NEW s \in Activations, NEW w \in BOOLEAN, Activate(s, w)
  PROVE  Returns(t)'
<1>0. /\ stack \in Seq(Call) /\ stack # <<>> /\ Top = stack[1] /\ Top = Head(stack)
      /\ t \in Seq(Slots) /\ \A j \in DOMAIN t : t[j] \in Slots
      /\ Nested(t, stack, form, quit)
      /\ Top.k = "user" => quit = FALSE
  BY RunningNested
<1>1. Top.k = "user"
  BY DEF Activate, InUserCode, Running, Top
<1>2. quit = FALSE /\ stack[1].k # "act" /\ Nested(t, stack, form, FALSE)
  BY <1>0, <1>1
<1>3. CASE Abort
  BY <1>3, StopReturns DEF Abort, table, message
<1>4. s \in Seq(Names) /\ s # <<>>
  BY WindowsAssumption
<1>5. ASSUME NEW several \in BOOLEAN, NEW id \in Nat,
             stack' = Push(Activating(s, several, id, NewLoop, w, NoName), stack),
             form' = form, quit' = quit
      PROVE  Returns(t)'
  <2> DEFINE f == Activating(s, several, id, NewLoop, w, NoName)
  <2>1. f \in Call /\ f.k = "act" /\ f.g = NewLoop /\ f.todo = s /\ f.shown = NoName
    BY <1>4, NewLoopFresh DEF Activating, Call
  <2>2. stack' = Push(f, stack)
    BY <1>5
  <2> HIDE DEF f
  <2>3. Head(stack') = f
    BY <1>0, <2>1, <2>2, PushPlaces
  <2>4. Empty(f, FALSE) /\ f.k # "events"
    BY <1>4, <2>1 DEF Empty
  <2>5. \A j \in DOMAIN t : form[t[j]].loop # f.g
    BY <1>0, <2>1, NewLoopFresh
  <2>6. ~Empty(stack[1], FALSE)
    BY <1>2 DEF Empty
  <2>7. Nested(t, Push(f, stack), form, FALSE)
    BY <1>0, <1>2, <2>1, <2>4, <2>5, <2>6, NestedPush
  <2>8. Nested(t, stack', form', quit')
    BY <1>2, <1>5, <2>2, <2>7
  <2>9. ShownInv' /\ QuitInv'
    BY <1>2, <1>5, <2>1, <2>3 DEF ShownInv, QuitInv
  <2> QED
    BY <2>8, <2>9 DEF Returns
<1>6. CASE ~Abort
  <2>1. /\ form' = form /\ quit' = quit
        /\ \/ stack' = Push(Activating(s, FALSE, 0, NewLoop, w, NoName), stack)
           \/ \E id \in ActivateIds : stack' = Push(Activating(s, TRUE, id, NewLoop, w, NoName), stack)
    BY <1>6 DEF Activate, message
  <2> QED
    BY <1>5, <2>1, WindowsAssumption
<1> QED
  BY <1>3, <1>6

(* An event procedure or a pump ends, or both a procedure and the handler  *)
(* that asked it.                                                          *)
LEMMA EndReturns ==
  ASSUME WindowsInv, CountersInv, status = "run", NEW t, Dialog(t), Returns(t), Rest # <<>>,
         ~OwnsLoop(Top) \/ Empty(Top, quit), stack' = Rest, form' = form, quit' = FALSE
  PROVE  Returns(t)' /\ Head(stack').k # "act"
<1>1. /\ Nested(t, Rest, form, FALSE) /\ Rest[1].k # "act"
  BY EndNested
<1>2. Rest \in Seq(Call) /\ \A j \in DOMAIN t : t[j] \in Slots
  BY RunningNested
<1>3. SameLoops
  BY DEF SameLoops
<1> QED
  BY <1>1, <1>2, <1>3, NestedStep

(* The end of an event procedure, or of the program. *)
LEMMA ReturnReturns ==
  ASSUME WindowsInv, CountersInv, status = "run", NEW t, Dialog(t), Returns(t), Return
  PROVE  Returns(t)'
<1>0. /\ stack \in Seq(Call) /\ stack # <<>> /\ Top \in Call /\ Rest \in Seq(Call)
      /\ stack = Push(Top, Rest) /\ Top = stack[1]
      /\ \A j \in DOMAIN t : t[j] \in Slots
      /\ Top.k = "user" => ~OwnsLoop(Top) /\ quit = FALSE
  BY RunningNested
<1>1. Top.k = "user"
  BY DEF Return, Running, Top
<1>2. CASE Rest = <<>>
  BY <1>2, StopReturns DEF Return, table, message
<1>3. ASSUME Rest # <<>>, Goto(Rest) PROVE Returns(t)'
  BY <1>0, <1>1, <1>3, EndReturns DEF Goto, table, message
<1>4. ASSUME Rest # <<>>, Asks(Top), Goto(Tail(Rest)) PROVE Returns(t)'
  <2> DEFINE c == Head(Rest)
             r == Tail(Rest)
  <2>1. Nested(t, Rest, form, FALSE) /\ LoopsApart(Rest)
    BY <1>0, <1>1, <1>4, EndNested
  <2>2. c \in Call /\ r \in Seq(Call) /\ Rest = Push(c, r) /\ c = Rest[1]
    BY <1>0, <1>4, PushRest
  <2>3. c.k = "close"
    <3>1. 1 \in DOMAIN stack
      BY <1>0, PushRest
    <3>2. 1 + 1 \in DOMAIN stack /\ stack[1 + 1].k = "close"
      BY <1>0, <1>4, <3>1 DEF CountersInv, StackOk
    <3>3. Push(Top, Rest)[2] = Rest[1]
      BY <1>0, <1>4, PushPlaces
    <3> QED
      BY <1>0, <2>2, <3>2, <3>3
  <2>4. ShapeOk(Rest)
    BY <1>0, <1>4, ShapeTail, RunningNested DEF Dialog
  <2>5. stack' = r /\ quit' = FALSE /\ SameLoops
    BY <1>0, <1>1, <1>4 DEF Goto, table, message, SameLoops
  <2>6. ShapeOk(Push(c, r)) /\ Nested(t, Push(c, r), form, FALSE) /\ LoopsApart(Push(c, r))
    BY <2>1, <2>2, <2>4
  <2>7. Tail(Rest) = r
    OBVIOUS
  <2> HIDE DEF c, r
  <2>8. r # <<>>
    BY <2>2, <2>3, <2>6, TopShape
  <2>9. r[1].k # "act"
    BY <1>0, <2>4, <2>7, <2>8, ShapeTail
  <2>10. ~Empty(r[1], FALSE) /\ ~OwnsLoop(c)
    BY <2>3, <2>9 DEF Empty, OwnsLoop
  <2>11. Nested(t, r, form, FALSE)
    BY <2>2, <2>6, <2>10, NestedPop DEF LoopsApart
  <2> QED
    BY <1>0, <2>2, <2>5, <2>8, <2>9, <2>11, NestedStep
<1> QED
  BY <1>1, <1>2, <1>3, <1>4 DEF Return, Asks

(* A pump without messages returns. *)
LEMMA EventsDoneReturns ==
  ASSUME WindowsInv, CountersInv, status = "run", NEW t, Dialog(t), Returns(t), EventsDone
  PROVE  Returns(t)'
<1>0. /\ Top \in Call /\ Rest \in Seq(Call) /\ stack = Push(Top, Rest)
  BY RunningNested
<1>1. Top.k = "events" /\ ~quit /\ Goto(Rest)
  BY DEF EventsDone, Idle, Running, Top
<1>2. ShapeOk(Push(Top, Rest))
  BY <1>0 DEF Dialog
<1>3. Rest # <<>>
  BY <1>0, <1>1, <1>2, TopShape
<1>4. ~OwnsLoop(Top)
  BY <1>1 DEF OwnsLoop
<1>5. quit \in BOOLEAN
  BY DEF WindowsInv, StateInv
<1> QED
  BY <1>1, <1>3, <1>4, <1>5, EndReturns DEF Goto, table, message

(* Over a pump WM_QUIT says nothing of the activations. *)
LEMMA NestedQuit ==
  ASSUME NEW t, NEW s, NEW fm, NEW q, NEW q2, Nested(t, s, fm, q), ~OwnsLoop(s[1])
  PROVE  Nested(t, s, fm, q2)
<1>1. \A e \in DOMAIN s : OwnsLoop(s[e]) => ~Vacant(s, e, q) /\ ~Vacant(s, e, q2)
  BY DEF Vacant
<1>2. HasActivation(t, s, fm, q2)
  BY <1>1 DEF Nested, HasActivation, Opened
<1>3. NoGaps(t, s, fm, q2)
  BY <1>1 DEF Nested, NoGaps
<1> QED
  BY <1>2, <1>3 DEF Nested

(* GetMessage returns WM_QUIT: the loop that ends has no window any more. *)
LEMMA TakeQuitReturns ==
  ASSUME WindowsInv, CountersInv, status = "run", NEW t, Dialog(t), Returns(t), TakeQuit
  PROVE  Returns(t)'
<1>0. /\ Top \in Call /\ Rest \in Seq(Call) /\ stack = Push(Top, Rest)
      /\ stack # <<>> /\ stack \in Seq(Call) /\ Top = stack[1]
      /\ Nested(t, stack, form, quit) /\ \A j \in DOMAIN t : t[j] \in Slots
  BY RunningNested
<1>1. /\ PumpCall(Top) /\ quit /\ quit' = FALSE /\ form' = form
      /\ stack' = IF Top.k = "loop" THEN Rest ELSE stack
  BY DEF TakeQuit, Pumping, Running, PumpCall, Top, table
<1>2. SameLoops
  BY <1>1 DEF SameLoops
<1>3. CASE Top.k = "loop"
  <2>1. ShapeOk(Push(Top, Rest))
    BY <1>0 DEF Dialog
  <2>2. Rest # <<>>
    BY <1>0, <1>3, <2>1, TopShape
  <2>3. Empty(Top, quit)
    BY <1>1 DEF Empty
  <2> QED
    BY <1>1, <1>3, <2>2, <2>3, EndReturns
<1>4. CASE Top.k # "loop"
  <2>1. Top.k = "events"
    BY <1>1, <1>4 DEF PumpCall
  <2>2. ~OwnsLoop(stack[1])
    BY <1>0, <2>1 DEF OwnsLoop
  <2>3. Nested(t, stack, form, FALSE)
    BY <1>0, <2>2, NestedQuit
  <2>4. stack' = stack /\ stack[1].k # "act" /\ Nested(t, stack, form, quit') /\ ~quit'
    BY <1>0, <1>1, <1>4, <2>1, <2>3
  <2> QED
    BY <1>0, <1>2, <2>4, NestedStep
<1> QED
  BY <1>3, <1>4

(* A handler or an event procedure starts. *)
LEMMA StartReturns ==
  ASSUME NEW t, \A j \in DOMAIN t : t[j] \in Slots, NEW s \in Seq(Call), s # <<>>,
         Nested(t, s, form, FALSE), s[1].k # "act", SameLoops, quit' = FALSE,
         NEW f \in Call, ~OwnsLoop(f), f.k # "events", stack' = Push(f, s)
  PROVE  Returns(t)' /\ Head(stack').k # "act"
<1>1. Nested(t, Push(f, s), form, quit')
  BY StartNested
<1>2. Push(f, s) \in Seq(Call) /\ Push(f, s) # <<>> /\ Push(f, s)[1] = f
  BY PushPlaces
<1>3. f.k # "act"
  BY DEF OwnsLoop
<1> DEFINE p == Push(f, s)
<1> HIDE DEF p
<1>4. p \in Seq(Call) /\ p # <<>> /\ p[1].k # "act" /\ Nested(t, p, form, quit') /\ stack' = p /\ ~quit'
  BY <1>1, <1>2, <1>3 DEF p
<1> QED
  BY <1>4, NestedStep

(* The system calls the window procedure, or the user triggers something. *)
LEMMA PumpedReturns ==
  ASSUME WindowsInv, CountersInv, status = "run", NEW t, Dialog(t), Returns(t), PumpCall(Top), ~quit,
         NEW f \in Call, f.k \in {"close", "user"}, stack' = Push(f, stack),
         form' = form, quit' = quit
  PROVE  Returns(t)'
<1>0. /\ stack \in Seq(Call) /\ stack # <<>> /\ Top = stack[1]
      /\ Nested(t, stack, form, quit) /\ \A j \in DOMAIN t : t[j] \in Slots
  BY RunningNested
<1>1. quit = FALSE
  BY DEF WindowsInv, StateInv
<1>2. stack[1].k # "act" /\ ~OwnsLoop(f) /\ f.k # "events" /\ SameLoops
  BY <1>0 DEF PumpCall, OwnsLoop, SameLoops
<1> QED
  BY <1>0, <1>1, <1>2, StartReturns

(* The user closes a window, triggers a control or moves the focus. *)
LEMMA UserInputReturns ==
  ASSUME WindowsInv, CountersInv, status = "run", NEW t, Dialog(t), Returns(t), UserInput
  PROVE  Returns(t)'
<1>1. ASSUME Idle PROVE PumpCall(Top) /\ ~quit
  BY <1>1 DEF Idle, Pumping, Running, PumpCall, Top
<1>2. ASSUME NEW i \in Slots, UserClose(i) PROVE Returns(t)'
  <2> DEFINE f == Closing("start", i, form[i].handle, 0)
  <2>1. Idle /\ Reachable(i) /\ Goto(Push(f, stack))
    BY <1>2 DEF UserClose
  <2>2. form[i].handle \in Handles
    BY <2>1, LiveHandlesTyped DEF Reachable, LiveHandles, WindowsInv
  <2>3. f \in Call /\ f.k = "close"
    BY <2>2, FramesTyped DEF Closing
  <2>4. stack' = Push(f, stack) /\ form' = form /\ quit' = quit
    BY <2>1 DEF Goto, table, message
  <2> HIDE DEF f
  <2> QED
    BY <1>1, <2>1, <2>3, <2>4, PumpedReturns
<1>3. ASSUME NEW i \in Slots, Focus(i) PROVE Returns(t)'
  BY <1>3, StopReturns DEF Focus, table, message
<1>4. ASSUME NEW i \in Slots, NEW c \in ControlIds, ControlAction(i, c) \/ TimerEvent(i, c)
      PROVE  Returns(t)'
  <2> DEFINE f == User("CONTROL", c)
  <2>1. Idle /\ Goto(Push(f, stack))
    BY <1>4 DEF ControlAction, TimerEvent
  <2>2. f \in Call /\ f.k = "user"
    BY WindowsAssumption, FramesTyped DEF User
  <2>3. stack' = Push(f, stack) /\ form' = form /\ quit' = quit
    BY <2>1 DEF Goto, table, message
  <2> HIDE DEF f
  <2> QED
    BY <1>1, <2>1, <2>2, <2>3, PumpedReturns
<1> QED
  BY <1>2, <1>3, <1>4 DEF UserInput

(* A pump calls the window procedure with the first message. *)
LEMMA DispatchReturns ==
  ASSUME WindowsInv, CountersInv, status = "run", NEW t, Dialog(t), Returns(t), Dispatch
  PROVE  Returns(t)'
<1> DEFINE m == Head(queue)
           f == Closing("start", SlotOf(m.h), m.h, m.lp)
<1>1. /\ PumpCall(Top) /\ queue # <<>> /\ form' = form /\ quit' = quit /\ nameVar' = nameVar
      /\ stack' = IF m = Discarded THEN stack ELSE Push(f, stack)
  BY DEF Dispatch, Pumping, Running, PumpCall, Top, table
<1>2. CASE m = Discarded
  BY <1>1, <1>2, StopReturns
<1>3. CASE m # Discarded
  <2>1. /\ 1 \in DOMAIN queue /\ m = queue[1] /\ m \in Message
    <3>1. queue \in Seq(Message)
      BY DEF WindowsInv, QueueInv
    <3> QED
      BY <1>1, <3>1, HeadTailProperties
  <2>2. ~quit
    BY <1>3, <2>1 DEF Dialog, PendingInv, AllDiscarded
  <2>3. m.h \in LiveHandles
    BY <1>3, <2>1 DEF WindowsInv, QueueInv
  <2>4. SlotOf(m.h) \in Slots /\ m.h \in Handles
    BY <2>3, SlotOfFinds, LiveHandlesTyped DEF WindowsInv
  <2>5. f \in Call /\ f.k = "close"
    BY <2>1, <2>4, FramesTyped DEF Closing, Message
  <2> HIDE DEF f
  <2> QED
    BY <1>1, <1>3, <2>2, <2>5, PumpedReturns
<1> QED
  BY <1>2, <1>3

(* The mark of ON RELEASE is not that of an activation. *)
LEMMA ReleasedSameLoops ==
  ASSUME WindowsInv, NEW i, NEW s, CallOnRelease(i, s)
  PROVE  /\ SameLoops
         /\ \A x \in Slots : form'[x].name = form[x].name /\ form'[x].handle = form[x].handle
<1>1. form \in [Slots -> FormRecord]
  BY DEF WindowsInv, TableInv
<1>2. form' = [form EXCEPT ![i].released = @ + 1]
  BY DEF CallOnRelease
<1> SUFFICES ASSUME NEW x \in Slots
             PROVE  /\ form'[x].loop = form[x].loop /\ form'[x].id = form[x].id
                    /\ form'[x].name = form[x].name /\ form'[x].handle = form[x].handle
  BY DEF SameLoops
<1>3. CASE x = i
  <2>1. form'[x] = [form[x] EXCEPT !.released = @ + 1] /\ form[x] \in FormRecord
    BY <1>1, <1>2, <1>3
  <2> QED
    BY <2>1 DEF FormRecord
<1>4. CASE x # i
  BY <1>1, <1>2, <1>4
<1> QED
  BY <1>3, <1>4

(* The loop of ReleaseAllWindows. *)
LEMMA ReleaseAllStepReturns ==
  ASSUME WindowsInv, CountersInv, status = "run", NEW t, Dialog(t), Returns(t), ReleaseAllStep
  PROVE  Returns(t)'
<1>0. /\ stack \in Seq(Call) /\ Top \in Call /\ Rest \in Seq(Call) /\ stack = Push(Top, Rest)
      /\ \A j \in DOMAIN t : t[j] \in Slots
      /\ ~PumpCall(Top) => quit = FALSE
  BY RunningNested
<1>1. Top.k = "all" /\ Top.i \in Nat
  BY <1>0, CallFields DEF ReleaseAllStep, Running, Top
<1>2. quit = FALSE /\ ~OwnsLoop(Top)
  BY <1>0, <1>1 DEF PumpCall, OwnsLoop
<1>3. ShapeOk(Push(Top, Rest))
  BY <1>0 DEF Dialog
<1>4. Rest # <<>>
  BY <1>0, <1>1, <1>3, TopShape
<1>5. Nested(t, Rest, form, FALSE) /\ Rest[1].k # "act"
  BY <1>2, <1>4, EndNested
<1> DEFINE f == ReleasingAll(Top.i + 1)
           g == User("WINDOW_RELEASE", Top.i)
<1>6. f \in Call /\ f.k = "all" /\ g \in Call /\ g.k = "user"
  <2>1. f \in Call /\ f.k = "all"
    BY <1>1, FramesTyped DEF ReleasingAll
  <2>2. g \in Call /\ g.k = "user"
    BY <1>1, FramesTyped DEF User
  <2> QED
    BY <2>1, <2>2
<1>7. CASE UNCHANGED <<table, modality, counter, screen, message, stack>>
  BY <1>7, StopReturns DEF table, message
<1>8. CASE Goto(Push(f, Rest))
  <2>1. stack' = Push(f, Rest) /\ quit' = FALSE /\ SameLoops
    BY <1>2, <1>8 DEF Goto, table, message, SameLoops
  <2> HIDE DEF f, g
  <2>2. ~OwnsLoop(f) /\ f.k # "events"
    BY <1>6 DEF OwnsLoop
  <2> QED
    BY <1>0, <1>4, <1>5, <1>6, <2>1, <2>2, StartReturns
<1>9. CASE Top.i \in Slots /\ CallOnRelease(Top.i, Push(f, Rest))
  <2>1. stack' = Push(g, Push(f, Rest)) /\ quit' = FALSE
    BY <1>2, <1>9 DEF CallOnRelease, message
  <2>2. SameLoops
    BY <1>9, ReleasedSameLoops
  <2> HIDE DEF f, g
  <2>3. ~OwnsLoop(f) /\ f.k \notin {"events", "act"} /\ ~OwnsLoop(g) /\ g.k # "events"
    BY <1>6 DEF OwnsLoop
  <2>4. Nested(t, Push(f, Rest), form, FALSE)
    BY <1>0, <1>5, <1>6, <2>3, StartNested
  <2>5. Push(f, Rest) \in Seq(Call) /\ Push(f, Rest) # <<>> /\ Push(f, Rest)[1] = f
    BY <1>0, <1>6, PushPlaces
  <2> DEFINE s == Push(f, Rest)
  <2>6. s \in Seq(Call) /\ s # <<>> /\ s[1].k # "act" /\ Nested(t, s, form, FALSE) /\ stack' = Push(g, s)
    BY <2>1, <2>3, <2>4, <2>5
  <2> HIDE DEF s
  <2> QED
    BY <1>0, <1>6, <2>1, <2>2, <2>3, <2>6, StartReturns
<1> QED
  BY <1>7, <1>8, <1>9 DEF ReleaseAllStep

(* A handler of WM_CLOSE goes on, unless it comes to its end. *)
LEMMA CloseGoesOn ==
  ASSUME ClosingProgram, WindowsInv, NEW t, Dialog(t), CloseStep
  PROVE  \/ UNCHANGED <<table, modality, counter, screen, message, stack>>
         \/ Goto(Rest)
         \/ Goto(Push(ReleasingAll(1), Rest))
         \/ Goto(Push(User("WINDOW_ONINTERACTIVECLOSE", Top.i),
                   Push(Closing("ask", Top.i, Top.h, Top.lp), Rest)))
         \/ CallOnRelease(Top.i, Push(Closing("release", Top.i, Top.h, 1), Rest))
         \/ form[Top.i].name \in Modal /\ FinishClose(Top.i, Top.h, Rest)
<1>0. Top.k = "close" /\ Manual = {} /\ Names = Modal \cup {Main} /\ Careful
  BY DEF CloseStep, Running, Top, ClosingProgram, DialogProgram
<1>1. form[Top.i].handle = Top.h /\ Live(Top.i) /\ form[Top.i].name \in Names
  BY <1>0, BelowClose
<1>2. ASSUME HideOrRelease(Top.i, Top.h, Rest)
      PROVE  \/ UNCHANGED <<table, modality, counter, screen, message, stack>>
             \/ Goto(Push(ReleasingAll(1), Rest))
             \/ CallOnRelease(Top.i, Push(Closing("release", Top.i, Top.h, 1), Rest))
             \/ form[Top.i].name \in Modal /\ FinishClose(Top.i, Top.h, Rest)
  BY <1>0, <1>1, <1>2 DEF HideOrRelease, ReleaseAllWindows, Abort
<1>3. ASSUME AfterAsk(Top.i, Top.h, Top.lp, Rest)
      PROVE  Goto(Rest) \/ HideOrRelease(Top.i, Top.h, Rest)
  BY <1>3 DEF AfterAsk
<1>4. ASSUME StartClose(Top.i, Top.h, Top.lp, Rest)
      PROVE  \/ Goto(Push(User("WINDOW_ONINTERACTIVECLOSE", Top.i),
                        Push(Closing("ask", Top.i, Top.h, Top.lp), Rest)))
             \/ AfterAsk(Top.i, Top.h, Top.lp, Rest)
  BY <1>4 DEF StartClose
<1>5. ASSUME Top.at = "release", FinishClose(Top.i, Top.h, Rest)
      PROVE  form[Top.i].name \in Modal
  <2>1. 1 \in DOMAIN stack /\ Top = stack[1]
    BY RunningCall, PushRest
  <2>2. CloseOk(stack[1], form)
    BY <2>1 DEF Dialog, ClosesOk
  <2> QED
    BY <1>0, <1>5, <2>1, <2>2 DEF CloseOk
<1> QED
  BY <1>2, <1>3, <1>4, <1>5 DEF CloseStep

(* The active dialog is destroyed.  Its message loop, if it runs, was the  *)
(* innermost one: WM_QUIT is for it, and it has no other window.           *)
LEMMA FinishReturns ==
  ASSUME ClosingProgram, WindowsInv, CountersInv, status = "run", NEW t, Dialog(t), Returns(t),
         Top.k = "close", form[Top.i].name \in Modal, FinishClose(Top.i, Top.h, Rest)
  PROVE  t # <<>> /\ Returns(Tail(t))'
<1> DEFINE i == Top.i
           h == Top.h
           u == Tail(t)
<1>0. /\ stack \in Seq(Call) /\ Top \in Call /\ Rest \in Seq(Call) /\ stack = Push(Top, Rest)
      /\ t \in Seq(Slots) /\ \A j \in DOMAIN t : t[j] \in Slots
      /\ Nested(t, Push(Top, Rest), form, quit) /\ LoopsApart(Push(Top, Rest))
  BY RunningNested
<1>1. DialogProgram /\ Manual = {} /\ 0 \notin ActivateIds
  BY DEF ClosingProgram
<1>2. /\ Rest # <<>> /\ PumpCall(Rest[1]) /\ Head(Rest) = Rest[1] /\ quit = FALSE
      /\ i \in Slots /\ h \in Handles /\ Live(i) /\ form[i].handle = h
  BY BelowClose
<1>3. t # <<>> /\ t[1] = i
  BY <1>1, ClosesTop DEF ModalClose
<1>4. SlotOf(h) = i
  <2>1. h \in LiveHandles
    BY <1>2 DEF LiveHandles
  <2>2. SlotOf(h) \in Slots /\ Live(SlotOf(h)) /\ form[SlotOf(h)].handle = h
    BY <2>1, SlotOfFinds
  <2> QED
    BY <1>2, <2>2 DEF WindowsInv, TableInv, HandlesMatch
<1> HIDE DEF i, h
<1>5. /\ form' = [form EXCEPT ![i] = NoForm] /\ stack' = Rest
      /\ quit' = (quit \/ LastOfActivation(i)) /\ DestroyWindow(h)
  <2>1. i # 0
    BY <1>2, SlotsAreNumbers
  <2> QED
    BY <1>4, <2>1 DEF FinishClose, DestroyWindow, i, h
<1>6. form \in [Slots -> FormRecord]
  BY DEF WindowsInv, TableInv
<1>7. \A x \in Slots : form'[x] = IF x = i THEN NoForm ELSE form[x]
  BY <1>2, <1>5, <1>6
<1>8. \A j \in DOMAIN t : j # 1 => t[j] # i
  <2>1. \A j, k \in DOMAIN t : t[j] = t[k] => j = k
    BY DEF Dialog, ChainInv, IsChain
  <2>2. 1 \in DOMAIN t
    BY <1>0, <1>3, OneLessDialog
  <2> QED
    BY <1>3, <2>1, <2>2
<1>9. Nested(u, Rest, form', quit')
  <2>1. \A j \in DOMAIN t : j # 1 => form'[t[j]].loop = form[t[j]].loop /\ form'[t[j]].id = form[t[j]].id
    BY <1>0, <1>7, <1>8
  <2>2. form[t[1]].id = 0 => quit'
    BY <1>3, <1>5 DEF LastOfActivation
  <2> DEFINE fm2 == form'
             q2 == quit'
             s == Rest
             c == Top
             fm == form
             q == quit
  <2>3. /\ Nested(t, Push(c, s), fm, q) /\ c.k = "close" /\ PumpCall(s[1]) /\ LoopsApart(Push(c, s))
        /\ t # <<>> /\ s # <<>> /\ s \in Seq(Call) /\ c \in Call /\ t \in Seq(Slots)
        /\ fm[t[1]].id = 0 => q2
    BY <1>0, <1>2, <1>3, <2>2
  <2>4. \A j \in DOMAIN t : j # 1 => fm2[t[j]].loop = fm[t[j]].loop /\ fm2[t[j]].id = fm[t[j]].id
    BY <2>1
  <2> HIDE DEF fm2, q2, s, c, fm, q
  <2>5. Nested(Tail(t), s, fm2, q2)
    BY <2>3, <2>4, NestedClose
  <2> QED
    BY <2>5 DEF fm2, q2, s, c, fm, q
<1>10. Head(stack').k # "act" /\ Head(stack') = Rest[1]
  BY <1>2, <1>5 DEF PumpCall
<1>11. QuitInv'
  <2> SUFFICES ASSUME quit', Rest[1].k = "loop" PROVE {x \in Slots : Live(x)' /\ form'[x].loop = Rest[1].g} = {}
    BY <1>10 DEF QuitInv, OpenIn
  <2>1. LastOfActivation(i)
    BY <1>2, <1>5
  <2>2. PICK d \in Slots : Live(d) /\ ~Live(d)' /\ LastOfLoop(d)
    BY <1>1, <1>2, <1>5, DestroyQuitsAtLast
  <2>3. d = i
    BY <1>7, <2>2 DEF Live
  <2>4. form[i].loop = Rest[1].g /\ Rest[1].g # 0
    <3>1. /\ Push(Top, Rest)[2] = Rest[1] /\ 2 \in DOMAIN Push(Top, Rest)
          /\ Push(Top, Rest)[1] = Top
      BY <1>0, <1>2, PushPlaces
    <3>2. OwnsLoop(Rest[1])
      BY DEF OwnsLoop
    <3>3. Rest[1].g # 0
      BY <1>0, <3>1, <3>2 DEF CountersInv, StackOk, CallOk
    <3>4. Opened(Push(Top, Rest), 2, form, t[1])
      BY <1>0, <1>2, <1>3, <3>2, InnermostOpened
    <3> QED
      BY <1>3, <3>1, <3>3, <3>4 DEF Opened
  <2> QED
    BY <1>7, <2>2, <2>3, <2>4 DEF LastOfLoop, Live, NoForm
<1>12. ShownInv'
  BY <1>10 DEF ShownInv
<1> QED
  BY <1>3, <1>5, <1>9, <1>11, <1>12 DEF Returns

(* A step that opens and closes nothing leaves the chain as it is. *)
LEMMA ChainStays ==
  ASSUME NEW t, Dialog(t), Unf(stack) = NoName, Unf(stack') = NoName,
         \A x \in Slots : form'[x].name = form[x].name /\ form'[x].handle = form[x].handle,
         visible' = visible
  PROVE  /\ t # <<>> => ~Dialog(Tail(t))'
         /\ \A i \in Slots : ~Dialog(<<i>> \o t)'
<1>2. /\ t \in Seq(Slots)
      /\ \A j, k \in DOMAIN t : t[j] = t[k] => j = k
      /\ \A i \in Slots : IsOpen(i, form, visible, NoName) <=> \E j \in DOMAIN t : t[j] = i
  BY DEF Dialog, ChainInv, IsChain
<1>3. \A i \in Slots : IsOpen(i, form', visible', NoName) <=> IsOpen(i, form, visible, NoName)
  BY DEF IsOpen
<1>4. ASSUME NEW u, Dialog(u)'
      PROVE  /\ \A j, k \in DOMAIN u : u[j] = u[k] => j = k
             /\ \A i \in Slots : IsOpen(i, form', visible', NoName) <=> \E j \in DOMAIN u : u[j] = i
  BY <1>4 DEF Dialog, ChainInv, IsChain
<1>5. ASSUME t # <<>>, Dialog(Tail(t))' PROVE FALSE
  <2> DEFINE u == Tail(t)
  <2>1. /\ t[1] \in Slots /\ 1 \in DOMAIN t /\ Len(t) \in Nat /\ DOMAIN t = 1 .. Len(t)
        /\ \A j \in DOMAIN u : j \in Nat /\ j + 1 \in DOMAIN t /\ u[j] = t[j + 1]
        /\ DOMAIN u = 1 .. Len(t) - 1
    BY <1>2, <1>5, OneLessDialog
  <2>2. Dialog(u)'
    BY <1>5
  <2> HIDE DEF u
  <2>3. PICK j \in DOMAIN u : u[j] = t[1]
    BY <1>2, <1>3, <1>4, <2>1, <2>2
  <2>4. j + 1 = 1
    BY <1>2, <2>1, <2>3
  <2> QED
    BY <2>1, <2>4
<1>6. ASSUME NEW i \in Slots, Dialog(<<i>> \o t)' PROVE FALSE
  <2> DEFINE u == <<i>> \o t
  <2>1. /\ Len(t) \in Nat /\ DOMAIN t = 1 .. Len(t) /\ DOMAIN u = 1 .. Len(t) + 1 /\ u[1] = i
        /\ \A j \in DOMAIN t : j \in Nat /\ j >= 1 /\ u[j + 1] = t[j]
    BY <1>2, OneMoreDialog
  <2>2. Dialog(u)'
    BY <1>6
  <2> HIDE DEF u
  <2>3. IsOpen(i, form', visible', NoName)
    BY <1>4, <2>1, <2>2
  <2>4. PICK j \in DOMAIN t : t[j] = i
    BY <1>2, <1>3, <2>3
  <2>5. j + 1 \in DOMAIN u /\ 1 \in DOMAIN u /\ u[j + 1] = u[1]
    BY <2>1, <2>4
  <2>6. j + 1 = 1
    BY <1>4, <2>2, <2>5
  <2> QED
    BY <2>1, <2>6
<1> QED
  BY <1>5, <1>6

(* The handler of WM_CLOSE. *)
LEMMA CloseStepReturns ==
  ASSUME ClosingProgram, WindowsInv, CountersInv, status = "run", NEW t, Dialog(t), Returns(t),
         CloseStep
  PROVE  \/ Dialog(t)' /\ Returns(t)'
         \/ t # <<>> /\ Dialog(Tail(t))' /\ Returns(Tail(t))'
<1>0. /\ stack \in Seq(Call) /\ Top \in Call /\ Rest \in Seq(Call) /\ stack = Push(Top, Rest)
      /\ \A j \in DOMAIN t : t[j] \in Slots
  BY RunningNested
<1>1. DialogProgram /\ Manual = {} /\ Top.k = "close"
  BY DEF ClosingProgram, CloseStep, Running, Top
<1>2. /\ Rest # <<>> /\ quit = FALSE /\ Top.i \in Slots /\ Top.h \in Handles /\ Top.lp \in {0, 1}
      /\ ~OwnsLoop(Top)
  BY <1>1, BelowClose
<1>3. Nested(t, Rest, form, FALSE) /\ Rest[1].k # "act"
  BY <1>2, EndNested
<1>4. ASSUME form[Top.i].name \in Modal, FinishClose(Top.i, Top.h, Rest)
      PROVE  t # <<>> /\ Dialog(Tail(t))' /\ Returns(Tail(t))'
  BY <1>1, <1>4, FinishReturns, FinishCloseDialog
<1> DEFINE Quiet == /\ Returns(t)' /\ Head(stack').k # "act" /\ visible' = visible
                    /\ \A x \in Slots : form'[x].name = form[x].name /\ form'[x].handle = form[x].handle
<1>5. ASSUME Quiet PROVE Dialog(t)' /\ Returns(t)'
  <2>1. Unf(stack) = NoName /\ Unf(stack') = NoName
    BY <1>1, <1>5 DEF Top, Unf
  <2>2. t # <<>> => ~Dialog(Tail(t))'
    BY <1>5, <2>1, ChainStays
  <2> QED
    BY <1>1, <1>5, <2>2, CloseStepDialog
<1>6. Quiet \/ (form[Top.i].name \in Modal /\ FinishClose(Top.i, Top.h, Rest))
  <2>1. CASE UNCHANGED <<table, modality, counter, screen, message, stack>>
    <3>1. form' = form /\ stack' = stack /\ quit' = quit /\ nameVar' = nameVar /\ visible' = visible
      BY <2>1 DEF table, message, screen
    <3>2. Head(stack').k # "act"
      BY <1>1, <3>1 DEF Top
    <3> QED
      BY <3>1, <3>2, StopReturns
  <2>2. CASE Goto(Rest)
    BY <1>2, <2>2, EndReturns DEF Goto, table, message, screen
  <2>3. CASE Goto(Push(ReleasingAll(1), Rest))
    <3> DEFINE f == ReleasingAll(1)
    <3>1. f \in Call /\ f.k = "all"
      BY FramesTyped DEF ReleasingAll
    <3>2. stack' = Push(f, Rest) /\ quit' = FALSE /\ SameLoops /\ form' = form /\ visible' = visible
      BY <1>2, <2>3 DEF Goto, table, message, screen, SameLoops
    <3> HIDE DEF f
    <3>3. ~OwnsLoop(f) /\ f.k # "events"
      BY <3>1 DEF OwnsLoop
    <3> QED
      BY <1>0, <1>2, <1>3, <3>1, <3>2, <3>3, StartReturns
  <2>4. ASSUME NEW f \in Call, NEW g \in Call, f.k = "close", g.k = "user",
               stack' = Push(g, Push(f, Rest)), quit' = FALSE, SameLoops
        PROVE  Returns(t)' /\ Head(stack').k # "act"
    <3>1. ~OwnsLoop(f) /\ f.k \notin {"events", "act"} /\ ~OwnsLoop(g) /\ g.k # "events"
      BY <2>4 DEF OwnsLoop
    <3> DEFINE s == Push(f, Rest)
    <3>2. Nested(t, s, form, FALSE)
      BY <1>0, <1>3, <3>1, StartNested
    <3>3. s \in Seq(Call) /\ s # <<>> /\ s[1].k # "act"
      <4> DEFINE r == Rest
      <4>1. f \in Call /\ r \in Seq(Call) /\ f.k # "act"
        BY <1>0, <3>1
      <4> HIDE DEF r
      <4>2. Push(f, r) \in Seq(Call) /\ Push(f, r) # <<>> /\ Push(f, r)[1] = f
        BY <4>1, PushPlaces
      <4> QED
        BY <4>1, <4>2 DEF r
    <3>4. stack' = Push(g, s)
      BY <2>4
    <3> HIDE DEF s
    <3> QED
      BY <1>0, <2>4, <3>1, <3>2, <3>3, <3>4, StartReturns
  <2>5. CASE Goto(Push(User("WINDOW_ONINTERACTIVECLOSE", Top.i),
                    Push(Closing("ask", Top.i, Top.h, Top.lp), Rest)))
    <3> DEFINE f == Closing("ask", Top.i, Top.h, Top.lp)
               g == User("WINDOW_ONINTERACTIVECLOSE", Top.i)
    <3>1. f \in Call /\ f.k = "close"
      BY <1>2, FramesTyped DEF Closing
    <3>2. g \in Call /\ g.k = "user"
      BY <1>2, FramesTyped, SlotsAreNumbers DEF User
    <3>3. /\ stack' = Push(g, Push(f, Rest)) /\ quit' = FALSE /\ SameLoops
          /\ form' = form /\ visible' = visible
      BY <1>2, <2>5 DEF Goto, table, message, screen, SameLoops
    <3> HIDE DEF f, g
    <3> QED
      BY <2>4, <3>1, <3>2, <3>3
  <2>6. CASE CallOnRelease(Top.i, Push(Closing("release", Top.i, Top.h, 1), Rest))
    <3> DEFINE f == Closing("release", Top.i, Top.h, 1)
               g == User("WINDOW_RELEASE", Top.i)
    <3>1. f \in Call /\ f.k = "close"
      BY <1>2, FramesTyped DEF Closing
    <3>2. g \in Call /\ g.k = "user"
      BY <1>2, FramesTyped, SlotsAreNumbers DEF User
    <3>3. stack' = Push(g, Push(f, Rest)) /\ quit' = FALSE
      BY <1>2, <2>6 DEF CallOnRelease, message
    <3>4. /\ SameLoops /\ visible' = visible
          /\ \A x \in Slots : form'[x].name = form[x].name /\ form'[x].handle = form[x].handle
      BY <2>6, ReleasedSameLoops DEF CallOnRelease, screen
    <3> HIDE DEF f, g
    <3> QED
      BY <2>4, <3>1, <3>2, <3>3, <3>4
  <2> QED
    BY <2>1, <2>2, <2>3, <2>5, <2>6, CloseGoesOn
<1> QED
  BY <1>4, <1>5, <1>6

(* The running activation is replaced by one with the same number. *)
LEMMA ApartTop ==
  ASSUME NEW s \in Seq(Call), NEW a \in Call, NEW c \in Call, LoopsApart(Push(a, s)),
         OwnsLoop(a), OwnsLoop(c), c.g = a.g
  PROVE  LoopsApart(Push(c, s))
<1> DEFINE p == Push(a, s)
           r == Push(c, s)
<1>0. /\ Len(s) \in Nat /\ DOMAIN r = 1 .. Len(s) + 1
      /\ DOMAIN p = 1 .. Len(s) + 1 /\ p[1] = a /\ r[1] = c
      /\ \A d \in 2 .. Len(s) + 1 : p[d] = s[d - 1] /\ r[d] = s[d - 1]
  BY PushElements
<1>00. LoopsApart(p)
  OBVIOUS
<1> HIDE DEF p, r
<1>1. \A e \in DOMAIN p : e = 1 \/ e \in 2 .. Len(s) + 1
  BY <1>0
<1>2. \A e \in DOMAIN p : (OwnsLoop(r[e]) <=> OwnsLoop(p[e])) /\ (OwnsLoop(r[e]) => r[e].g = p[e].g)
  BY <1>0, <1>1
<1>3. LoopsApart(r)
  BY <1>0, <1>00, <1>2 DEF LoopsApart
<1> QED
  BY <1>3 DEF r

(* One turn of an activation. *)
LEMMA ActivateNextReturns ==
  ASSUME DialogProgram, WindowsInv, CountersInv, status = "run", NEW t, Dialog(t), Returns(t),
         ActivateNext
  PROVE  \/ Dialog(t)' /\ Returns(t)'
         \/ \E i \in Slots : Dialog(<<i>> \o t)' /\ Returns(<<i>> \o t)'
<1>0. /\ stack \in Seq(Call) /\ stack # <<>> /\ Top \in Call /\ Rest \in Seq(Call)
      /\ stack = Push(Top, Rest) /\ Top = stack[1]
      /\ t \in Seq(Slots) /\ \A j \in DOMAIN t : t[j] \in Slots
      /\ Nested(t, Push(Top, Rest), form, quit) /\ LoopsApart(Push(Top, Rest))
  BY RunningNested
<1>1. CASE ActivateNextWrongly(Head(Top.todo))
  <2>1. Abort
    BY <1>1 DEF ActivateNext
  <2> QED
    BY <2>1, StopDialog, StopReturns DEF Abort, table, message
<1>2. CASE ~ActivateNextWrongly(Head(Top.todo))
  <2>1. Running("act") /\ Top.todo # <<>>
    BY DEF ActivateNext
  <2>2. /\ Top.k = "act" /\ Top \in ActCall /\ Top.todo \in Seq(Names)
        /\ quit = FALSE
        /\ Top.several => ~modalActive
        /\ ~Top.several => Top.shown = NoName
        /\ Top.shown # NoName => Active(Top.shown) /\ Top.shown \in Modal
    BY <2>1, RunningAct
  <2>3. PICK n, i, g, c : Turn(n, i, g, c)
    BY <1>2, TurnStarts
  <2>4. /\ n \in Names /\ n = Head(Top.todo) /\ i \in Slots /\ i = nameVar[n]
        /\ SameButFlags(g, i) /\ g[i].loop = Top.g /\ g[i].id = Top.id
        /\ \A x \in Slots : x # i => g[x].loop = form[x].loop /\ g[x].id = form[x].id
        /\ c \in Call /\ c.k = "act" /\ c.g = Top.g /\ c.todo = Tail(Top.todo)
        /\ c.shown = IF Top.several /\ n \in Modal \ NoShow THEN n ELSE Top.shown
        /\ stack' = Push(c, Rest)
        /\ nameVar' = nameVar /\ quit' = quit
        /\ IF n \in Modal /\ ~Top.several THEN ShowModal(g, i) ELSE form' = g
        /\ ~Top.several /\ n \notin Modal => ~modalActive
    BY <2>3 DEF Turn, message
  <2>5. /\ form'[i].loop = Top.g /\ form'[i].id = Top.id
        /\ \A x \in Slots : x # i => form'[x].loop = form[x].loop /\ form'[x].id = form[x].id
    BY <2>4, ShowModalFields
  <2>6. Head(stack') = c
    BY SMTT(30), <1>0, <2>4, PushPlaces
  <2>7. CASE n \in Modal /\ ~Top.several
    <3>1. Dialog(<<i>> \o t)'
      BY <2>1, <2>3, <2>7, TurnOpens
    <3>2. Top.id = 0 /\ c.todo = <<>>
      <4>1. CallOk(Top)
        <5>1. 1 \in DOMAIN stack
          BY <1>0, PushRest
        <5> QED
          BY <1>0, <5>1 DEF CountersInv, StackOk
      <4>2. Top.id = 0 /\ Len(Top.todo) <= 1
        BY <2>2, <2>7, <4>1 DEF CallOk
      <4>3. Len(Tail(Top.todo)) = Len(Top.todo) - 1 /\ Len(Top.todo) \in Nat /\ Len(Top.todo) # 0
            /\ Tail(Top.todo) \in Seq(Names)
        BY <2>1, <2>2, LenProperties, HeadTailProperties, EmptySeq
      <4> DEFINE k == Len(Top.todo)
                 l == Len(Tail(Top.todo))
      <4>40. k <= 1 /\ k \in Nat /\ k # 0 /\ l = k - 1
        BY <4>2, <4>3
      <4> HIDE DEF k, l
      <4>41. l = 0
        BY <4>40
      <4>4. Len(Tail(Top.todo)) = 0
        BY <4>41 DEF l
      <4>5. Tail(Top.todo) = <<>>
        BY <4>3, <4>4, EmptySeq
      <4> QED
        BY <2>4, <4>2, <4>5
    <3>3. \A j \in DOMAIN t : t[j] # i
      <4> SUFFICES ASSUME NEW j \in DOMAIN t, t[j] = i PROVE FALSE
        OBVIOUS
      <4> DEFINE u == <<i>> \o t
      <4>1. /\ Len(t) \in Nat /\ DOMAIN t = 1 .. Len(t) /\ DOMAIN u = 1 .. Len(t) + 1 /\ u[1] = i
            /\ \A x \in DOMAIN t : x \in Nat /\ x >= 1 /\ u[x + 1] = t[x]
        BY <1>0, <2>4, OneMoreDialog
      <4>2. Dialog(u)'
        BY <3>1
      <4> HIDE DEF u
      <4>3. \A x, y \in DOMAIN u : u[x] = u[y] => x = y
        BY <4>2 DEF Dialog, ChainInv, IsChain
      <4> QED
        BY <4>1, <4>3
    <3>4. LoopsApart(Push(c, Rest))
      BY <1>0, <2>2, <2>4, ApartTop DEF OwnsLoop
    <3> DEFINE a == Top
               s == Rest
               fm == form
               fm2 == form'
               q == quit
               q2 == quit'
               r == c
    <3>5. /\ a \in Call /\ s \in Seq(Call) /\ r \in Call
          /\ Nested(t, Push(a, s), fm, q) /\ LoopsApart(Push(r, s)) /\ OwnsLoop(a) /\ OwnsLoop(r)
          /\ r.g = a.g /\ Empty(a, q) /\ ~Empty(r, q2)
          /\ fm2[i].loop = a.g /\ fm2[i].id = 0
      BY <1>0, <2>1, <2>2, <2>4, <2>5, <3>2, <3>4 DEF OwnsLoop, Empty
    <3>6. \A j \in DOMAIN t : fm2[t[j]].loop = fm[t[j]].loop /\ fm2[t[j]].id = fm[t[j]].id
      BY <1>0, <2>5, <3>3
    <3> HIDE DEF a, s, fm, fm2, q, q2, r
    <3>61. /\ t \in Seq(Slots) /\ i \in Slots
           /\ a \in Call /\ s \in Seq(Call) /\ r \in Call
           /\ Nested(t, Push(a, s), fm, q) /\ LoopsApart(Push(r, s)) /\ OwnsLoop(a) /\ OwnsLoop(r)
           /\ r.g = a.g /\ Empty(a, q) /\ ~Empty(r, q2)
           /\ fm2[i].loop = a.g /\ fm2[i].id = 0
           /\ \A j \in DOMAIN t : fm2[t[j]].loop = fm[t[j]].loop /\ fm2[t[j]].id = fm[t[j]].id
      BY <1>0, <2>4, <3>5, <3>6
    <3>7. Nested(<<i>> \o t, Push(r, s), fm2, q2)
      BY ONLY <3>61, NestedOpen
    <3>8. Nested(<<i>> \o t, stack', form', quit')
      BY <2>4, <3>7 DEF r, s, fm2, q2
    <3>9. ShownInv' /\ QuitInv'
      BY <2>2, <2>4, <2>6, <2>7 DEF ShownInv, QuitInv
    <3>10. Returns(<<i>> \o t)'
      BY <3>8, <3>9 DEF Returns
    <3> QED
      BY <2>4, <3>1, <3>10
  <2>8. CASE ~(n \in Modal /\ ~Top.several)
    <3>1. Dialog(t)'
      BY <2>1, <2>3, <2>8, TurnShows
    <3>2. t = <<>>
      BY <2>2, <2>4, <2>8 DEF Dialog, ChainInv
    <3>3. Nested(t, stack', form', quit')
      BY <3>2, NestedNone
    <3>4. QuitInv'
      BY <2>2, <2>4, <2>6 DEF QuitInv
    <3>5. ShownInv'
      <4> SUFFICES ASSUME c.shown # NoName PROVE form'[nameVar[c.shown]].loop = Top.g
        BY <2>4, <2>6 DEF ShownInv
      <4>1. CASE c.shown = n
        BY <2>4, <2>5, <4>1
      <4>2. CASE c.shown # n
        <5>1. c.shown = Top.shown
          BY <2>4, <4>2
        <5>2. form[nameVar[Top.shown]].loop = Top.g
          BY <1>0, <2>2, <5>1 DEF Returns, ShownInv, Top
        <5>3. nameVar[Top.shown] \in Slots
          BY <2>2, <5>1, DefinedIsLive, WindowsAssumption DEF Active, WindowsInv
        <5> QED
          BY <2>5, <5>1, <5>2, <5>3
      <4> QED
        BY <4>1, <4>2
    <3>6. Returns(t)'
      BY <3>3, <3>4, <3>5 DEF Returns
    <3> QED
      BY <3>1, <3>6
  <2> QED
    BY <2>7, <2>8
<1> QED
  BY <1>1, <1>2

(* All windows are activated. *)
LEMMA ActivateDoneReturns ==
  ASSUME DialogProgram, WindowsInv, CountersInv, status = "run", NEW t, Dialog(t), Returns(t),
         ActivateDone
  PROVE  \/ Dialog(t)' /\ Returns(t)'
         \/ \E i \in Slots : Dialog(<<i>> \o t)' /\ Returns(<<i>> \o t)'
<1> DEFINE l == Loop(Top.g)
           s == Push(l, Rest)
<1>0. /\ stack \in Seq(Call) /\ stack # <<>> /\ Top \in Call /\ Rest \in Seq(Call)
      /\ stack = Push(Top, Rest) /\ Top = stack[1] /\ Top = Head(stack)
      /\ t \in Seq(Slots) /\ \A j \in DOMAIN t : t[j] \in Slots
      /\ Nested(t, Push(Top, Rest), form, quit) /\ LoopsApart(Push(Top, Rest))
  BY RunningNested
<1>1. /\ Top.k = "act" /\ Top \in ActCall /\ quit = FALSE /\ Top.todo = <<>>
      /\ Top.several => ~modalActive
      /\ ~Top.several => Top.shown = NoName /\ ~Top.nowait
      /\ ~Top.nowait
      /\ Top.shown # NoName => Active(Top.shown) /\ Top.shown \in Modal
      /\ Unf(stack) = Top.shown
  BY RunningAct DEF ActivateDone
<1>2. l \in Call /\ l.k = "loop" /\ l.g = Top.g
  <2>1. Top.g \in Nat
    BY <1>1 DEF ActCall
  <2> QED
    BY <2>1, FramesTyped DEF Loop
<1>3. IF Top.shown = NoName THEN Goto(s)
      ELSE IF ~Defined(Top.shown) THEN Abort
      ELSE /\ ShowModal(form, nameVar[Top.shown])
           /\ stack' = Push(Pump, s)
           /\ UNCHANGED <<nameVar, message>>
  BY <1>1 DEF ActivateDone
<1> HIDE DEF l
<1>4. s \in Seq(Call) /\ Head(s) = l /\ s[1] = l /\ s # <<>>
  BY <1>0, <1>2, PushPlaces
<1>5. OwnsLoop(Top) /\ OwnsLoop(l)
  BY <1>1, <1>2 DEF OwnsLoop
<1>6. LoopsApart(s)
  BY <1>0, <1>2, <1>5, ApartTop
<1>7. CASE Top.shown = NoName
  <2>1. stack' = s /\ form' = form /\ quit' = FALSE /\ visible' = visible
    BY <1>1, <1>3, <1>7 DEF Goto, table, message, screen
  <2>2. ~Empty(Top, quit) /\ ~Empty(l, FALSE)
    BY <1>1, <1>2 DEF Empty
  <2>3. Nested(t, s, form, FALSE)
    BY <1>0, <1>2, <1>5, <2>2, NestedTop
  <2> HIDE DEF s
  <2>4. ShownInv' /\ QuitInv'
    BY <1>2, <1>4, <2>1 DEF ShownInv, QuitInv
  <2>5. Returns(t)'
    BY <2>1, <2>3, <2>4 DEF Returns
  <2>6. Unf(stack) = NoName /\ Unf(stack') = NoName
    BY <1>1, <1>2, <1>4, <1>7, <2>1 DEF Unf
  <2>7. \A i \in Slots : ~Dialog(<<i>> \o t)'
    BY <2>1, <2>6, ChainStays
  <2> QED
    BY <2>5, <2>7, ActivateDoneDialog
<1>8. CASE Top.shown # NoName
  <2>1. Active(Top.shown) /\ Top.shown \in Modal /\ Top.shown \in Names /\ t = <<>>
    BY <1>1, <1>8, WindowsAssumption DEF Dialog, ChainInv
  <2> DEFINE i == nameVar[Top.shown]
  <2>2. i \in Slots /\ Live(i) /\ form[i].name = Top.shown
    BY <2>1, DefinedIsLive DEF Active, WindowsInv, TableInv, NamesMatch
  <2>3. /\ ShowModal(form, i) /\ stack' = Push(Pump, s) /\ nameVar' = nameVar /\ quit' = FALSE
    BY <1>1, <1>3, <1>8, <2>1 DEF Active, message
  <2>4. form[i].loop = Top.g
    BY <1>0, <1>1, <1>8 DEF Returns, ShownInv
  <2> HIDE DEF i
  <2>5. SameButFlags(form, i)
    BY <2>1, <2>2 DEF Active, SameButFlags, WindowsInv, TableInv, i
  <2>6. /\ \A x \in Slots : /\ form'[x].name = form[x].name /\ form'[x].handle = form[x].handle
                            /\ form'[x].loop = form[x].loop
        /\ visible' = visible \cup {form[i].handle}
    BY <2>2, <2>3, <2>5, ShowModalFields
  <2>7. Pump \in Call /\ Pump.k = "events"
    BY FramesTyped DEF Pump
  <2> HIDE DEF s
  <2>8. Head(stack') = Pump
    BY <1>4, <2>3, <2>7, PushPlaces
  <2>9. ShownInv' /\ QuitInv' /\ Unf(stack') = NoName
    BY <2>7, <2>8 DEF ShownInv, QuitInv, Unf
  <2>10. CASE Dialog(t)'
    <3>1. Nested(t, stack', form', quit')
      BY <2>1, NestedNone
    <3>2. Returns(t)'
      BY <2>9, <3>1 DEF Returns
    <3> QED
      BY <2>10, <3>2
  <2>11. ASSUME NEW x \in Slots, Dialog(<<x>> \o t)'
         PROVE  Dialog(<<x>> \o t)' /\ Returns(<<x>> \o t)'
    <3>1. <<x>> \o t = <<x>>
      BY <2>1
    <3>2. x = i
      <4> SUFFICES ASSUME x # i PROVE FALSE
        OBVIOUS
      <4> DEFINE u == <<x>>
      <4>10. 1 \in DOMAIN u /\ u[1] = x
        OBVIOUS
      <4>11. u = <<x>> \o t
        BY <3>1
      <4> HIDE DEF u
      <4>12. Dialog(u)'
        BY <2>11, <4>11
      <4>1. Dialog(u)' /\ 1 \in DOMAIN u /\ u[1] = x
        BY <4>10, <4>12
      <4> HIDE DEF u
      <4>2. IsOpen(x, form', visible', NoName)
        BY <2>9, <4>1 DEF Dialog, ChainInv, IsChain
      <4>3. form[x].name \in Modal /\ form[x].handle \in visible \cup {form[i].handle}
        BY <2>6, <4>2 DEF IsOpen
      <4>4. Live(x)
        BY <4>3, WindowsAssumption DEF Live
      <4>5. form[x].handle # form[i].handle
        BY <2>2, <4>4 DEF WindowsInv, TableInv, HandlesMatch
      <4>6. form[x].name # form[i].name
        BY <2>2, <4>4 DEF WindowsInv, TableInv, NamesMatch
      <4>7. IsOpen(x, form, visible, Unf(stack))
        BY <1>1, <2>2, <4>3, <4>5, <4>6 DEF IsOpen
      <4>8. \E j \in DOMAIN t : t[j] = x
        BY <4>7 DEF Dialog, ChainInv, IsChain
      <4>9. DOMAIN t = {}
        BY <2>1
      <4> QED
        BY <4>8, <4>9
    <3>3. Nested(<<x>>, stack', form', quit')
      <4> DEFINE fm == form'
                 q == quit'
      <4>1. fm[x].loop = l.g
        BY <1>2, <2>4, <2>6, <3>2
      <4>2. LoopsApart(Push(l, Rest))
        BY <1>6 DEF s
      <4> HIDE DEF fm, q
      <4>3. Nested(<<x>>, Push(Pump, Push(l, Rest)), fm, q)
        BY <1>0, <1>2, <2>7, <4>1, <4>2, NestedFirst
      <4> QED
        BY <2>3, <4>3 DEF fm, q, s
    <3>4. Returns(<<x>>)'
      BY <2>9, <3>3 DEF Returns
    <3> QED
      BY <2>11, <3>1, <3>4
  <2> QED
    BY <2>10, <2>11, ActivateDoneDialog
<1> QED
  BY <1>7, <1>8

(* A command of the user's program. *)
LEMMA CommandReturns ==
  ASSUME ClosingProgram, WindowsInv, CountersInv, status = "run", NEW t, Dialog(t), Returns(t),
         Command
  PROVE  Dialog(t)' /\ Returns(t)'
<1>0. DialogProgram /\ "show" \notin Uses /\ "hide" \notin Uses
      /\ "events" \notin Uses /\ "loop" \notin Uses
  BY DEF ClosingProgram, DialogProgram
<1>1. ASSUME NEW n \in Names, Define(n) PROVE Dialog(t)' /\ Returns(t)'
  BY <1>0, <1>1, DefineDialog, DefineReturns
<1>2. ASSUME NEW n \in Names, DefineWrongly(n) PROVE Dialog(t)' /\ Returns(t)'
  <2>1. Abort
    BY <1>2 DEF DefineWrongly
  <2> QED
    BY <2>1, StopDialog, StopReturns DEF Abort, table, message
<1>3. ASSUME NEW s \in Activations, NEW w \in BOOLEAN, Activate(s, w)
      PROVE  Dialog(t)' /\ Returns(t)'
  BY <1>0, <1>3, ActivateDialog, ActivateNested
<1>4. ASSUME NEW n \in Names, Release(n) PROVE Dialog(t)' /\ Returns(t)'
  BY <1>0, <1>4, ReleaseDialog, ReleaseReturns
<1>5. ~DoEvents /\ ~DoMessageLoop /\ \A n \in Names : ~Show(n) /\ ~Hide(n)
  BY <1>0 DEF DoEvents, DoMessageLoop, Show, Hide, InUserCode
<1> QED
  BY <1>1, <1>2, <1>3, <1>4, <1>5 DEF Command

(* A step of the program. *)
LEMMA NextReturns ==
  ASSUME ClosingProgram, WindowsInv, CountersInv, NEW t, Dialog(t), Returns(t), Next
  PROVE  \/ Dialog(t)' /\ Returns(t)'
         \/ t # <<>> /\ Dialog(Tail(t))' /\ Returns(Tail(t))'
         \/ \E i \in Slots : Dialog(<<i>> \o t)' /\ Returns(<<i>> \o t)'
<1>0. status = "run" /\ DialogProgram
  BY StepsRun DEF ClosingProgram
<1>1. ~CallOnInit
  <2>1. stack # <<>> /\ Top = stack[1] /\ 1 \in DOMAIN stack /\ Top = Head(stack)
    BY RunningCall, PushRest
  <2>2. stack[1].k # "init"
    BY <2>1 DEF Dialog, ShapeOk
  <2> QED
    BY <2>1, <2>2 DEF CallOnInit, Running
<1>2. CASE Command
  BY <1>0, <1>2, CommandReturns
<1>3. CASE Return
  BY <1>0, <1>3, ReturnDialog, ReturnReturns
<1>4. CASE UserInput
  BY <1>0, <1>4, UserInputDialog, UserInputReturns
<1>5. CASE ActivateNext
  BY <1>0, <1>5, ActivateNextReturns
<1>6. CASE ActivateDone
  BY <1>0, <1>6, ActivateDoneReturns
<1>7. CASE CloseStep
  BY <1>0, <1>7, CloseStepReturns
<1>8. CASE Dispatch
  BY <1>0, <1>8, DispatchDialog, DispatchReturns
<1>9. CASE TakeQuit
  BY <1>0, <1>9, TakeQuitDialog, TakeQuitReturns
<1>10. CASE EventsDone
  BY <1>0, <1>10, EventsDoneDialog, EventsDoneReturns
<1>11. CASE ReleaseAllStep
  BY <1>0, <1>11, ReleaseAllStepDialog, ReleaseAllStepReturns
<1> QED
  BY <1>1, <1>2, <1>3, <1>4, <1>5, <1>6, <1>7, <1>8, <1>9, <1>10, <1>11 DEF Next, Library

(* The inductive invariant. *)
ReturnInv == \E t \in Seq(Slots) : Dialog(t) /\ Returns(t)

(* It holds at the start, without dialogs and without a loop ... *)
LEMMA InitReturnInv == Init => ReturnInv
<1> SUFFICES ASSUME Init PROVE ReturnInv
  OBVIOUS
<1> DEFINE t == <<>>
<1>1. Dialog(t) /\ t \in Seq(Slots)
  BY InitDialog, ChainTyped
<1>2. Nested(t, stack, form, quit)
  BY NestedNone
<1>3. Head(stack).k = "user"
  BY DEF Init, User
<1>4. ShownInv /\ QuitInv
  BY <1>3 DEF ShownInv, QuitInv
<1> HIDE DEF t
<1>5. Returns(t)
  BY <1>2, <1>4 DEF Returns
<1> QED
  BY <1>1, <1>5 DEF ReturnInv

(* ... and every step of the program preserves it. *)
LEMMA NextReturnInv ==
  ClosingProgram => (WindowsInv /\ CountersInv /\ ReturnInv /\ [Next]_vars => ReturnInv')
<1> SUFFICES ASSUME ClosingProgram, WindowsInv, CountersInv, ReturnInv, [Next]_vars
             PROVE  ReturnInv'
  OBVIOUS
<1>1. PICK t \in Seq(Slots) : Dialog(t) /\ Returns(t)
  BY DEF ReturnInv
<1>2. ASSUME NEW u \in Seq(Slots), Dialog(u)', Returns(u)' PROVE ReturnInv'
  BY <1>2 DEF ReturnInv
<1>3. CASE UNCHANGED vars
  <2>1. form' = form /\ stack' = stack /\ quit' = quit /\ nameVar' = nameVar
    BY <1>3 DEF vars, table, message
  <2>2. Dialog(t)' /\ Returns(t)'
    BY <1>1, <1>3, <2>1, StutterDialog, StopReturns
  <2> QED
    BY <1>1, <1>2, <2>2
<1>4. CASE Next
  <2>1. \/ Dialog(t)' /\ Returns(t)'
        \/ t # <<>> /\ Dialog(Tail(t))' /\ Returns(Tail(t))'
        \/ \E i \in Slots : Dialog(<<i>> \o t)' /\ Returns(<<i>> \o t)'
    BY <1>1, <1>4, NextReturns
  <2>2. t # <<>> => Tail(t) \in Seq(Slots)
    BY <1>1, OneLessDialog
  <2>3. \A i \in Slots : <<i>> \o t \in Seq(Slots)
    BY <1>1, OneMoreDialog
  <2> QED
    BY <1>1, <1>2, <2>1, <2>2, <2>3
<1> QED
  BY <1>3, <1>4

(* Only WM_QUIT ends a message loop. *)
LEMMA LoopEndsByQuit ==
  ASSUME WindowsInv, Running("loop"), [Next]_vars, stack' = Rest
  PROVE  quit
<1>1. stack # <<>> /\ Head(stack).k = "loop" /\ stack \in Seq(Call)
  BY DEF Running, WindowsInv, StackInv
<1>2. /\ stack' # stack
      /\ \A f : stack' # Push(f, stack)
  <2> DEFINE n == Len(stack)
             m == Len(Rest)
  <2>1. n \in Nat /\ m = n - 1 /\ Rest \in Seq(Call)
    BY <1>1, HeadTailProperties, LenProperties DEF Rest
  <2>2. \A f : Len(Push(f, stack)) = n + 1
    BY <1>1 DEF Push
  <2> HIDE DEF n, m
  <2>3. m # n /\ m # n + 1
    BY <2>1
  <2> QED
    BY <2>2, <2>3 DEF n, m
<1>3. ~Command
  BY <1>1 DEF Command, Define, DefineWrongly, Activate, Release, Show, Hide, DoEvents, DoMessageLoop,
              InUserCode, Running
<1>4. ~Return /\ ~ActivateNext /\ ~CallOnInit /\ ~ActivateDone /\ ~EventsDone
      /\ ~CloseStep /\ ~ReleaseAllStep
  BY <1>1 DEF Return, ActivateNext, CallOnInit, ActivateDone, EventsDone, CloseStep, ReleaseAllStep,
              Running
<1>5. ~Dispatch
  BY <1>2 DEF Dispatch
<1>6. ~UserInput
  BY <1>2 DEF UserInput, UserClose, Focus, ControlAction, TimerEvent, Goto
<1>7. ~UNCHANGED vars
  BY <1>2 DEF vars
<1>8. CASE TakeQuit
  BY <1>8 DEF TakeQuit
<1> QED
  BY <1>3, <1>4, <1>5, <1>6, <1>7, <1>8 DEF Next, Library

-----------------------------------------------------------------------------
(* In a program that only closes its dialogs, the message loop of          *)
(* ACTIVATE WINDOW ends only when the windows activated with it are        *)
(* destroyed: WM_QUIT ends the loop it was posted for.                     *)
THEOREM LoopsEndAfterTheirWindows == ClosingProgram => (Spec => ReturnsAfterClose)
<1> SUFFICES ASSUME ClosingProgram PROVE Spec => ReturnsAfterClose
  OBVIOUS
<1>1. Init => WindowsInv /\ CountersInv /\ ReturnInv
  BY InitWindowsInv, InitCountersInv, InitReturnInv
<1>2. (WindowsInv /\ CountersInv /\ ReturnInv) /\ [Next]_vars => (WindowsInv /\ CountersInv /\ ReturnInv)'
  BY NextWindowsInv, NextCountersInv, NextReturnInv
<1>3. (WindowsInv /\ CountersInv /\ ReturnInv) /\ [Next]_vars
        => [Running("loop") /\ stack' = Rest => OpenIn(Top.g) = {}]_vars
  <2> SUFFICES ASSUME WindowsInv, ReturnInv, [Next]_vars, Running("loop"), stack' = Rest
               PROVE  OpenIn(Top.g) = {}
    OBVIOUS
  <2>1. quit
    BY LoopEndsByQuit
  <2>2. QuitInv
    BY DEF ReturnInv, Returns
  <2> QED
    BY <2>1, <2>2 DEF QuitInv, Running, Top
<1> QED
  BY <1>1, <1>2, <1>3, PTL DEF Spec, ReturnsAfterClose
=============================================================================

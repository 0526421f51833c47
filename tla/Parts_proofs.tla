---------------------------- MODULE Parts_proofs ----------------------------
(***************************************************************************)
(* The invariants of the event holders, that they implement registries,    *)
(* and what becomes of their handlers, for holders of any size, any set of *)
(* events and any nesting of dispatches; and that the menu of recent files *)
(* keeps their promise, for any files and any length of the list.          *)
(***************************************************************************)
EXTENDS AppEventsProps, MruListProps, FiniteSetTheorems, SequenceTheorems, WellFoundedInduction, TLAPS

(* AppEventScan finds a slot with the event exactly when there is one. *)
LEMMA ScanFinds ==
  ASSUME NEW h \in Holder, NEW m \in Nat
  PROVE  /\ AppEventScan(h, m) \in Slots \cup {0}
         /\ AppEventScan(h, m) # 0 => h.events[AppEventScan(h, m)].message = m
         /\ AppEventScan(h, m) = 0 => \A k \in Slots : h.events[k].message # m
<1> DEFINE T == {k \in Slots : h.events[k].message = m}
           P(k) == k \in Slots /\ h.events[k].message = m
                     /\ \A j \in 1 .. k - 1 : h.events[j].message # m
<1>1. CASE T = {}
  BY <1>1, AppEventsAssumption DEF AppEventScan, Slots
<1>2. CASE T # {}
  <2>1. PICK k \in T : \A j \in T : ~ (<<j, k>> \in OpToRel(<, Nat))
    <3>1. T \subseteq Nat
      BY AppEventsAssumption DEF Slots
    <3> QED
      BY <1>2, <3>1, WFMin, NatLessThanWellFounded
  <2>2. \A j \in T : ~ (j < k)
    <3>1. \A j \in T : ~ (<<j, k>> \in {ss \in Nat \X Nat : ss[1] < ss[2]})
      BY ONLY <2>1, Zenon DEF OpToRel
    <3>2. T \subseteq Nat
      BY AppEventsAssumption DEF Slots
    <3> QED
      BY <3>1, <3>2
  <2>3. P(k)
    BY <2>2, AppEventsAssumption DEF Slots
  <2>4. AppEventScan(h, m) = CHOOSE i \in Slots :
           h.events[i].message = m /\ \A j \in 1 .. i - 1 : h.events[j].message # m
    BY <1>2 DEF AppEventScan
  <2> QED
    BY <2>3, <2>4, AppEventsAssumption DEF Slots
<1> QED
  BY <1>1, <1>2

(* The slots of a holder are finitely many. *)
LEMMA OccupiedFinite ==
  ASSUME NEW h
  PROVE  IsFiniteSet(Occupied(h)) /\ Cardinality(Occupied(h)) \in Nat
<1>1. IsFiniteSet(Slots)
  BY FS_Interval, AppEventsAssumption DEF Slots
<1>2. Occupied(h) \in SUBSET Slots
  BY DEF Occupied
<1>3. IsFiniteSet(Occupied(h))
  BY <1>1, <1>2, FS_Subset
<1> QED
  BY <1>3, FS_CardinalityType

(* Writing a slot of a holder, with its counter or without. *)
LEMMA SlotWritten ==
  ASSUME NEW h \in Holder, NEW k \in Slots, NEW e \in Event
  PROVE  /\ [h EXCEPT !.events[k] = e] \in Holder
         /\ [h EXCEPT !.events[k] = e].used = h.used
         /\ \A j \in Slots :
              [h EXCEPT !.events[k] = e].events[j] = IF j = k THEN e ELSE h.events[j]
<1>1. [h.events EXCEPT ![k] = e] \in [Slots -> Event]
  BY DEF Holder
<1> QED
  BY <1>1 DEF Holder

(* The same, with the counter of the holder. *)
LEMMA SlotCounted ==
  ASSUME NEW h \in Holder, NEW k \in Slots, NEW e \in Event, NEW n \in Nat
  PROVE  /\ [h EXCEPT !.events[k] = e, !.used = n] \in Holder
         /\ [h EXCEPT !.events[k] = e, !.used = n].used = n
         /\ \A j \in Slots :
              [h EXCEPT !.events[k] = e, !.used = n].events[j] = IF j = k THEN e ELSE h.events[j]
<1>1. [h.events EXCEPT ![k] = e] \in [Slots -> Event]
  BY DEF Holder
<1> QED
  BY <1>1 DEF Holder

(* Counting a run of a handler leaves it a handler of the same event. *)
LEMMA RunCounted ==
  ASSUME NEW v \in Event
  PROVE  [v EXCEPT !.runs = @ + 1] \in Event /\ [v EXCEPT !.runs = @ + 1].message = v.message
<1>1. v.runs + 1 \in Nat
  BY DEF Event
<1>2. \A n \in Nat : [v EXCEPT !.runs = n] \in Event /\ [v EXCEPT !.runs = n].message = v.message
  BY DEF Event
<1> QED
  BY <1>1, <1>2

(* A holder that is consistent in itself. *)
Consistent(h) ==
  /\ h \in Holder
  /\ h.used = Cardinality(Occupied(h))
  /\ \A j, k \in Occupied(h) : h.events[j].message = h.events[k].message => j = k

(* A holder just allocated, and none at all, are consistent. *)
LEMMA NoHolderConsistent ==
  \A on \in BOOLEAN : Consistent(NoHolder) /\ Consistent(NewHolder(on))
<1> TAKE on \in BOOLEAN
<1>1. EmptySlot \in Event
  BY DEF EmptySlot, Event
<1>2. NoHolder \in Holder /\ NewHolder(on) \in Holder
  BY <1>1 DEF NoHolder, NewHolder, Holder
<1>3. Occupied(NoHolder) = {} /\ Occupied(NewHolder(on)) = {}
  BY DEF Occupied, NoHolder, NewHolder, EmptySlot
<1>4. NoHolder.used = 0 /\ NewHolder(on).used = 0
  BY DEF NoHolder, NewHolder
<1> QED
  BY <1>2, <1>3, <1>4, FS_EmptySet DEF Consistent

(* AppEventRemove keeps a holder consistent: it counts down exactly when it *)
(* empties a slot.                                                         *)
LEMMA RemoveConsistent ==
  ASSUME NEW h, Consistent(h), NEW m \in Nat
  PROVE  Consistent(AppEventRemove(h, m))
<1> DEFINE k == AppEventScan(h, m)
           g == [h EXCEPT !.events[k] = EmptySlot, !.used = @ - 1]
<1>0. h \in Holder
  BY DEF Consistent
<1>1. CASE m = 0
  BY <1>1, NoHolderConsistent DEF AppEventRemove, Holder, Consistent
<1>2. CASE m # 0 /\ k = 0
  <2>1. AppEventRemove(h, m) \in {h, NoHolder}
    BY <1>2 DEF AppEventRemove
  <2> QED
    BY <2>1, NoHolderConsistent
<1>3. CASE m # 0 /\ k # 0
  <2>1. k \in Occupied(h) /\ k \in Slots /\ h.events[k].message = m
    BY <1>0, <1>3, ScanFinds DEF Occupied
  <2>2. Occupied(g) = Occupied(h) \ {k}
    BY <1>0, <2>1 DEF Occupied, Holder, Event, EmptySlot
  <2>3. Cardinality(Occupied(g)) = Cardinality(Occupied(h)) - 1
    BY <2>1, <2>2, OccupiedFinite, FS_RemoveElement
  <2>4. g.used = Cardinality(Occupied(g))
    BY <1>0, <2>3 DEF Consistent, Holder
  <2>5. g \in Holder
    <3>1. EmptySlot \in Event
      BY DEF EmptySlot, Event
    <3>2. g.used \in Nat
      BY <2>4, OccupiedFinite
    <3> QED
      BY <1>0, <2>1, <3>1, <3>2 DEF Holder
  <2>6. \A i, j \in Occupied(g) : g.events[i].message = g.events[j].message => i = j
    <3>1. \A i \in Occupied(g) : i \in Occupied(h) /\ g.events[i] = h.events[i]
      BY <1>0, <2>1, <2>2 DEF Holder, Occupied
    <3> QED
      BY <3>1 DEF Consistent
  <2>7. Consistent(g)
    BY <2>4, <2>5, <2>6 DEF Consistent
  <2>8. AppEventRemove(h, m) = IF g.used = 0 THEN NoHolder ELSE g
    BY <1>3 DEF AppEventRemove
  <2> QED
    BY <2>7, <2>8, NoHolderConsistent
<1> QED
  BY <1>1, <1>2, <1>3

(* Registering keeps a holder consistent: it counts up exactly when it     *)
(* fills an empty slot, and event 0 always has a slot already.             *)
LEMMA RegisterConsistent ==
  ASSUME NEW p \in Props, NEW h, NEW m \in Nat, NEW a \in Actions, NEW on \in BOOLEAN,
         m \in Ids, Consistent(h),
         ~holder[p].there => h = NewHolder(on),
         SlotFor(p, h, m) > 0
  PROVE  LET e == [message |-> m, action |-> a, active |-> on, runs |-> 0]
         IN  Consistent([h EXCEPT !.events[SlotFor(p, h, m)] = e,
                           !.used = IF AppEventScan(h, m) > 0 THEN @ ELSE @ + 1])
<1> DEFINE e == [message |-> m, action |-> a, active |-> on, runs |-> 0]
           found == AppEventScan(h, m)
           k == SlotFor(p, h, m)
           n == IF found > 0 THEN h.used ELSE h.used + 1
           g == [h EXCEPT !.events[k] = e, !.used = n]
<1>0. h \in Holder /\ e \in Event
  BY DEF Consistent, Event
<1>1. found \in Slots \cup {0} /\ AppEventScan(h, 0) \in Slots \cup {0}
  BY <1>0, ScanFinds
<1>2. h.used \in Nat /\ n \in Nat
  BY <1>0 DEF Holder
<1>3. k \in Slots
  BY <1>1, AppEventsAssumption DEF SlotFor, Slots
<1>9. /\ g \in Holder
      /\ g.used = n
      /\ \A j \in Slots : g.events[j] = IF j = k THEN e ELSE h.events[j]
  <2> HIDE DEF k, e, n
  <2>1. h \in Holder /\ k \in Slots /\ e \in Event /\ n \in Nat
    BY <1>0, <1>2, <1>3
  <2>2. g.used = n
    BY <2>1 DEF Holder
  <2>3. g \in Holder
    BY <2>1, [h.events EXCEPT ![k] = e] \in [Slots -> Event] DEF Holder
  <2> QED
    BY <2>1, <2>2, <2>3 DEF Holder
<1>4. g.used = n
  BY <1>9
<1>5. g \in Holder
  BY <1>9
<1>6. \A j \in Slots : g.events[j] = IF j = k THEN e ELSE h.events[j]
  BY <1>9
<1>7. CASE found > 0
  <2>1. k = found /\ h.events[k].message = m
    BY <1>0, <1>7, <1>1, ScanFinds DEF SlotFor
  <2>2. \A j \in Slots : g.events[j].message = h.events[j].message
    BY <1>6, <2>1
  <2>3. Occupied(g) = Occupied(h) /\ g.used = h.used
    BY <1>4, <1>7, <2>2 DEF Occupied
  <2>4. \A i, j \in Occupied(g) : g.events[i].message = g.events[j].message => i = j
    BY <2>2, <2>3 DEF Consistent, Occupied
  <2> QED
    BY <1>5, <2>3, <2>4 DEF Consistent
<1>8. CASE found = 0
  <2>1. \A j \in Slots : h.events[j].message # m
    BY <1>0, <1>8, ScanFinds
  <2>2. h.events[k].message = 0
    <3>1. CASE holder[p].there
      BY <1>0, <1>1, <1>3, <1>8, <3>1, ScanFinds DEF SlotFor, Slots
    <3>2. CASE ~holder[p].there
      <4>1. h.events = [j \in Slots |-> EmptySlot]
        BY <3>2 DEF NewHolder, NoHolder
      <4> QED
        BY <1>3, <4>1 DEF EmptySlot
    <3> QED
      BY <3>1, <3>2
  <2>3. m # 0
    BY <1>3, <2>1, <2>2
  <2>4. Occupied(g) = Occupied(h) \cup {k} /\ k \notin Occupied(h)
    BY <1>3, <1>6, <2>2, <2>3 DEF Occupied
  <2>5. g.used = Cardinality(Occupied(g))
    <3>1. Cardinality(Occupied(g)) = Cardinality(Occupied(h)) + 1
      BY <2>4, OccupiedFinite, FS_AddElement
    <3> QED
      BY <1>4, <1>8, <3>1 DEF Consistent
  <2>6. \A i, j \in Occupied(g) : g.events[i].message = g.events[j].message => i = j
    <3>1. \A i \in Occupied(h) : i \in Slots /\ g.events[i] = h.events[i]
      BY <1>6, <2>4 DEF Occupied
    <3>2. g.events[k].message = m
      BY <1>3, <1>6
    <3> QED
      BY <2>1, <2>4, <3>1, <3>2 DEF Consistent
  <2> QED
    BY <1>5, <2>5, <2>6 DEF Consistent
<1> QED
  BY <1>1, <1>7, <1>8 DEF Slots

(* Steps that leave the messages of a holder alone keep it consistent. *)
LEMMA SameMessagesConsistent ==
  ASSUME NEW h, Consistent(h), NEW g \in Holder, g.used = h.used,
         \A k \in Slots : g.events[k].message = h.events[k].message
  PROVE  Consistent(g)
<1>1. Occupied(g) = Occupied(h)
  BY DEF Occupied
<1> QED
  BY <1>1 DEF Consistent, Occupied

-----------------------------------------------------------------------------
(* The inductive invariant. *)
CallRecord == [m : Ids, at : {"ONCE", "inONCE", "ON", "inON"}]
EventsInv ==
  /\ alive \in BOOLEAN
  /\ calls \in Seq(CallRecord)
  /\ holder \in [Props -> Holder]
  /\ \A p \in Props : Consistent(holder[p])

(* The invariant holds at the start. *)
LEMMA InitEventsInv == Init => EventsInv
<1>1. Consistent(NoHolder) /\ NoHolder \in Holder
  BY NoHolderConsistent DEF Consistent
<1> QED
  BY <1>1 DEF Init, EventsInv

(* Replacing one holder by a consistent one keeps the invariant. *)
LEMMA ReplaceHolder ==
  ASSUME EventsInv, NEW p \in Props, NEW h, Consistent(h),
         holder' = [holder EXCEPT ![p] = h],
         alive' \in BOOLEAN, calls' \in Seq(CallRecord)
  PROVE  EventsInv'
<1>1. h \in Holder
  BY DEF Consistent
<1>2. holder' \in [Props -> Holder]
  BY <1>1 DEF EventsInv
<1>3. \A q \in Props : holder'[q] = IF q = p THEN h ELSE holder[q]
  BY DEF EventsInv
<1>4. \A q \in Props : Consistent(holder'[q])
  BY <1>3 DEF EventsInv
<1> QED
  BY <1>2, <1>4 DEF EventsInv, Consistent, Occupied

(* The event of the running dispatch is a number of the program. *)
LEMMA HeadTyped ==
  ASSUME calls \in Seq(CallRecord), calls # <<>>
  PROVE  Head(calls).m \in Ids /\ Head(calls).m \in Nat
<1>1. Head(calls) \in CallRecord
  OBVIOUS
<1> QED
  BY <1>1, AppEventsAssumption DEF CallRecord

(* A dispatch that goes on stays a dispatch. *)
LEMMA GoesTyped ==
  ASSUME calls \in Seq(CallRecord), calls # <<>>,
         NEW at \in {"ONCE", "inONCE", "ON", "inON"}, Goes(at)
  PROVE  calls' \in Seq(CallRecord)
<1>1. calls' = [calls EXCEPT ![1] = [calls[1] EXCEPT !.at = at]]
  BY DEF Goes
<1>2. 1 \in 1 .. Len(calls) /\ calls[1] \in CallRecord
  <2>1. Len(calls) \in Nat \ {0}
    BY EmptySeq
  <2>2. 1 \in 1 .. Len(calls)
    <3>1. \A l \in Nat \ {0} : 1 \in 1 .. l
      BY ONLY SMT
    <3> QED
      BY ONLY <2>1, <3>1, Zenon
  <2> QED
    BY <2>2, ElementOfSeq
<1>3. \A c \in CallRecord : [c EXCEPT !.at = at] \in CallRecord
  BY DEF CallRecord
<1>4. \A c \in CallRecord : [calls EXCEPT ![1] = c] \in Seq(CallRecord)
  BY <1>2, ExceptSeq
<1> QED
  BY <1>1, <1>2, <1>3, <1>4

(* A step that leaves the holders alone keeps the invariant. *)
LEMMA SameHolders ==
  ASSUME EventsInv, UNCHANGED holder, alive' \in BOOLEAN, calls' \in Seq(CallRecord)
  PROVE  EventsInv'
<1>1. \A p \in Props : Consistent(holder[p])'
  BY DEF EventsInv, Consistent, Occupied
<1> QED
  BY <1>1 DEF EventsInv

(* Every step keeps the invariant, one case per action. *)
LEMMA NextEventsInv == EventsInv /\ [Next]_vars => EventsInv'
<1> SUFFICES ASSUME EventsInv, [Next]_vars PROVE EventsInv'
  OBVIOUS
<1> USE DEF EventsInv
<1>1. ASSUME NEW p \in Kinds, NEW m \in Ids, NEW a \in Actions, NEW on \in BOOLEAN,
             Register(p, m, a, on)
      PROVE  EventsInv'
  <2> DEFINE h == IF holder[p].there THEN holder[p] ELSE NewHolder(on)
  <2>1. p \in Props /\ m \in Nat
    BY AppEventsAssumption DEF Props
  <2>2. Consistent(h)
    BY <2>1, NoHolderConsistent
  <2>3. SlotFor(p, h, m) > 0
    BY <1>1 DEF Register
  <2>4. alive' \in BOOLEAN /\ calls' \in Seq(CallRecord)
    BY <1>1 DEF Register
  <2> QED
    BY <1>1, <2>1, <2>2, <2>3, <2>4, RegisterConsistent, ReplaceHolder DEF Register
<1>2. ASSUME NEW p \in Kinds, NEW m \in Ids \cup {0}, RemoveEvent(p, m)
      PROVE  EventsInv'
  <2>1. p \in Props /\ m \in Nat
    BY AppEventsAssumption DEF Props
  <2>2. Consistent(AppEventRemove(holder[p], m))
    BY <2>1, RemoveConsistent
  <2> QED
    BY <1>2, <2>1, <2>2, ReplaceHolder DEF RemoveEvent
<1>3. ASSUME NEW p \in Kinds, NEW m \in Ids \cup {0}, NEW a \in Actions \cup {NoAction},
             NEW on \in BOOLEAN, UpdateEvent(p, m, a, on)
      PROVE  EventsInv'
  <2> DEFINE h == holder[p]
             k == AppEventScan(h, m)
             e == [h.events[k] EXCEPT !.action = IF a = NoAction THEN h.events[k].action ELSE a,
                                      !.active = on]
             f == [h EXCEPT !.active = on]
             g == [h EXCEPT !.events[k] = e]
  <2>1. p \in Props /\ m \in Nat /\ h \in Holder
    BY AppEventsAssumption DEF Props
  <2>2. Consistent(f)
    <3>1. f \in Holder /\ f.used = h.used /\ f.events = h.events
      BY <2>1 DEF Holder
    <3> QED
      BY <2>1, <3>1, SameMessagesConsistent
  <2>3. ASSUME k \in Slots PROVE Consistent(g)
    <3>1. h.events[k] \in Event
      BY <2>1, <2>3 DEF Holder
    <3>2. \A v \in Event :
            LET w == [v EXCEPT !.action = IF a = NoAction THEN v.action ELSE a, !.active = on]
            IN  w \in Event /\ w.message = v.message
      BY DEF Event
    <3>3. e \in Event /\ e.message = h.events[k].message
      BY <3>1, <3>2
    <3> HIDE DEF e, h, k
    <3>4. /\ g \in Holder /\ g.used = h.used
          /\ \A j \in Slots : g.events[j] = IF j = k THEN e ELSE h.events[j]
      BY <2>1, <2>3, <3>3, SlotWritten
    <3>5. \A j \in Slots : g.events[j].message = h.events[j].message
      BY <3>3, <3>4
    <3>6. Consistent(h)
      BY <2>1 DEF h
    <3> HIDE DEF g
    <3> QED
      BY <3>4, <3>5, <3>6, SameMessagesConsistent
  <2>4. k \in Slots \cup {0}
    BY <2>1, ScanFinds
  <2>5. holder' = [holder EXCEPT ![p] = f] \/ (k > 0 /\ holder' = [holder EXCEPT ![p] = g])
    <3>1. CASE m = 0 /\ Window = "app"
      BY <1>3, <3>1 DEF UpdateEvent
    <3>2. CASE ~(m = 0 /\ Window = "app")
      BY <1>3, <3>2 DEF UpdateEvent
    <3> QED
      BY <3>1, <3>2
  <2>6. alive' \in BOOLEAN /\ calls' \in Seq(CallRecord)
    BY <1>3 DEF UpdateEvent
  <2> QED
    BY <2>1, <2>2, <2>3, <2>4, <2>5, <2>6, ReplaceHolder
<1>4. ASSUME NEW m \in Ids, Emit(m)
      PROVE  EventsInv'
  <2>1. [m |-> m, at |-> "ONCE"] \in CallRecord
    BY DEF CallRecord
  <2>2. <<[m |-> m, at |-> "ONCE"]>> \in Seq(CallRecord)
    BY <2>1
  <2>3. calls' \in Seq(CallRecord)
    BY <1>4, <2>2, ConcatProperties DEF Emit
  <2> QED
    BY <1>4, <2>3, SameHolders DEF Emit
<1>5. ASSUME Destroy
      PROVE  EventsInv'
  <2>1. \A p \in Props : holder'[p] = NoHolder
    BY <1>5 DEF Destroy, AppEventRemove
  <2>2. holder' \in [Props -> Holder]
    BY <1>5, <2>1, NoHolderConsistent DEF Destroy, Consistent
  <2>3. \A p \in Props : Consistent(holder'[p])
    BY <2>1, NoHolderConsistent
  <2> QED
    BY <1>5, <2>2, <2>3 DEF Destroy, Consistent, Occupied
<1>6. ASSUME Create
      PROVE  EventsInv'
  BY <1>6, SameHolders DEF Create
<1>7. ASSUME DoOnce \/ DoOn
      PROVE  EventsInv'
  <2>1. PICK p \in Props, inside \in {"inONCE", "inON"} :
          /\ calls # <<>> /\ UNCHANGED alive
          /\ \/ /\ Runs(holder[p], AppEventScan(holder[p], Head(calls).m))
                /\ Goes(inside)
                /\ holder' = IF p = "ONCE"
                     THEN [holder EXCEPT
                            ![p].events[AppEventScan(holder[p], Head(calls).m)].runs = @ + 1]
                     ELSE holder
             \/ /\ Goes("ON") \/ calls' = Tail(calls)
                /\ UNCHANGED holder
    BY <1>7 DEF DoOnce, DoOn, AppEventDo, Dispatching, Props
  <2>2. calls' \in Seq(CallRecord)
    <3>1. CASE calls' = Tail(calls)
      BY <2>1, <3>1, HeadTailProperties
    <3>2. CASE Goes("ON")
      BY <2>1, <3>2, GoesTyped
    <3>3. CASE Goes(inside)
      BY <2>1, <3>3, GoesTyped
    <3> QED
      BY <2>1, <3>1, <3>2, <3>3
  <2>3. CASE UNCHANGED holder
    BY <2>1, <2>2, <2>3, SameHolders
  <2>4. CASE ~UNCHANGED holder
    <3> DEFINE h == holder[p]
               k == AppEventScan(h, Head(calls).m)
               e == [h.events[k] EXCEPT !.runs = @ + 1]
               g == [h EXCEPT !.events[k] = e]
    <3>1. Head(calls).m \in Nat
      BY <2>1, HeadTyped
    <3>2. k \in Slots /\ h \in Holder
      <4>1. h \in Holder
        OBVIOUS
      <4>2. k \in Slots \cup {0}
        BY <3>1, <4>1, ScanFinds
      <4>3. k > 0
        BY <2>1, <2>4 DEF Runs
      <4>4. k \in Slots
        <5> HIDE DEF k
        <5> QED
          BY <4>2, <4>3
      <4> QED
        BY <4>1, <4>4
    <3>3. h.events[k] \in Event
      BY <3>2 DEF Holder
    <3>4. e \in Event /\ e.message = h.events[k].message
      BY <3>3, RunCounted
    <3>5. Consistent(h)
      OBVIOUS
    <3> HIDE DEF e, h, k
    <3>6. /\ g \in Holder /\ g.used = h.used
          /\ \A j \in Slots : g.events[j] = IF j = k THEN e ELSE h.events[j]
      BY <3>2, <3>4, SlotWritten
    <3>7. \A j \in Slots : g.events[j].message = h.events[j].message
      BY <3>4, <3>6
    <3>8. Consistent(g)
      <4> HIDE DEF g
      <4> QED
        BY <3>5, <3>6, <3>7, SameMessagesConsistent
    <3> USE DEF e, h, k
    <3>9. holder' = [holder EXCEPT ![p] = g]
      BY <2>1, <2>4
    <3> QED
      BY <2>1, <2>2, <3>8, <3>9, ReplaceHolder
  <2> QED
    BY <2>3, <2>4
<1>8. ASSUME OnceReturns
      PROVE  EventsInv'
  <2>1. calls # <<>> /\ Goes("ON") /\ UNCHANGED alive
    BY <1>8 DEF OnceReturns, Dispatching
  <2>2. calls' \in Seq(CallRecord)
    BY <2>1, GoesTyped
  <2>3. Head(calls).m \in Nat
    BY <2>1, HeadTyped
  <2>4. Consistent(AppEventRemove(holder["ONCE"], Head(calls).m))
    BY <2>3, RemoveConsistent DEF Props
  <2>5. CASE holder["ONCE"].there
    BY <1>8, <2>1, <2>2, <2>4, <2>5, ReplaceHolder DEF OnceReturns, Props
  <2>6. CASE ~holder["ONCE"].there
    BY <1>8, <2>1, <2>2, <2>6, SameHolders DEF OnceReturns
  <2> QED
    BY <2>5, <2>6
<1>9. ASSUME OnReturns
      PROVE  EventsInv'
  <2>1. calls' \in Seq(CallRecord)
    BY <1>9, HeadTailProperties DEF OnReturns, Dispatching
  <2> QED
    BY <1>9, <2>1, SameHolders DEF OnReturns
<1>10. CASE UNCHANGED vars
  BY <1>10, SameHolders DEF vars
<1> QED
  BY <1>1, <1>2, <1>3, <1>4, <1>5, <1>6, <1>7, <1>8, <1>9, <1>10 DEF Next

(* Holders and dispatches keep their types: in particular the counter of a *)
(* holder never goes below zero (c_windows.c, AppEventRemove).             *)
THEOREM EventsTypeCorrect == Spec => []EventsTypeOK
<1>1. EventsInv => EventsTypeOK
  BY DEF EventsInv, EventsTypeOK, CallRecord
<1> QED
  BY <1>1, InitEventsInv, NextEventsInv, PTL DEF Spec

(* The counter that decides when a holder is freed is exact, however the   *)
(* handlers register, remove, emit and destroy while they run (c_windows.c, *)
(* APPEVENTS, AppEventRemove and AppEventDo).                              *)
THEOREM UsedAlwaysExact == Spec => []UsedIsExact
<1>1. EventsInv => UsedIsExact
  BY DEF EventsInv, UsedIsExact, Consistent
<1> QED
  BY <1>1, InitEventsInv, NextEventsInv, PTL DEF Spec

(* An event never has two handlers in one holder, so that its removal      *)
(* leaves none behind (c_windows.c, APPEVENTS).                            *)
THEOREM OneSlotPerEventAlways == Spec => []OneSlotPerEvent
<1>1. EventsInv => OneSlotPerEvent
  BY DEF EventsInv, OneSlotPerEvent, Consistent
<1> QED
  BY <1>1, InitEventsInv, NextEventsInv, PTL DEF Spec

-----------------------------------------------------------------------------
(* A holder is allocated only while its counter is not zero, and only for a *)
(* living window.                                                          *)
Allocated == \A p \in Props : holder[p].there => alive /\ holder[p].used # 0

(* AppEventRemove returns no holder, or one with a counter above zero.     *)
LEMMA RemoveAllocates ==
  ASSUME NEW h, NEW m \in Nat
  PROVE  AppEventRemove(h, m).there => AppEventRemove(h, m).used # 0
BY DEF AppEventRemove, NoHolder

(* With AppEvents ids, which exclude 0, every step keeps it so.            *)
LEMMA NextAllocated ==
  ASSUME Window = "app", EventsInv, Allocated, [Next]_vars
  PROVE  Allocated'
<1> USE DEF EventsInv, Allocated
<1>0. \A p \in Props : holder[p] \in Holder
  OBVIOUS
<1>1. ASSUME NEW p \in Kinds, NEW m \in Ids, NEW a \in Actions, NEW on \in BOOLEAN,
             Register(p, m, a, on)
      PROVE  Allocated'
  <2> DEFINE h == IF holder[p].there THEN holder[p] ELSE NewHolder(on)
             found == AppEventScan(h, m)
             n == IF found > 0 THEN h.used ELSE h.used + 1
             e == [message |-> m, action |-> a, active |-> on, runs |-> 0]
             g == [h EXCEPT !.events[SlotFor(p, h, m)] = e, !.used = n]
  <2>1. p \in Props /\ m \in Nat /\ m # 0
    BY <1>1, AppEventsAssumption DEF Props, Register, Accepted
  <2>2. Consistent(h) /\ h \in Holder
    BY <2>1, NoHolderConsistent DEF Consistent
  <2>3. found > 0 => holder[p].there
    <3>1. ASSUME ~holder[p].there PROVE \A k \in Slots : h.events[k].message = 0
      BY <3>1 DEF NewHolder, NoHolder, EmptySlot
    <3>2. found \in Slots \cup {0} /\ (found # 0 => h.events[found].message = m)
      BY <2>1, <2>2, ScanFinds
    <3> HIDE DEF h, found
    <3> QED
      BY <2>1, <3>1, <3>2
  <2>4. n # 0
    <3>1. h.used \in Nat
      BY <2>2 DEF Holder
    <3>2. found > 0 => h.used # 0
      BY <2>1, <2>3
    <3> HIDE DEF h, found
    <3> QED
      BY <3>1, <3>2
  <2>5. holder' = [holder EXCEPT ![p] = g] /\ alive' = alive /\ alive
    BY <1>1 DEF Register
  <2>6. g.used = n
    <3> HIDE DEF n, e
    <3> QED
      BY <2>2 DEF Holder
  <2> HIDE DEF g, n
  <2> QED
    BY <2>1, <2>4, <2>5, <2>6
<1>2. ASSUME NEW p \in Kinds, NEW m \in Ids \cup {0}, RemoveEvent(p, m)
      PROVE  Allocated'
  <2>1. p \in Props /\ m \in Nat
    BY AppEventsAssumption DEF Props
  <2>2. holder' = [holder EXCEPT ![p] = AppEventRemove(holder[p], m)] /\ alive' = alive /\ alive
    BY <1>2 DEF RemoveEvent
  <2> QED
    BY <2>1, <2>2, RemoveAllocates
<1>3. ASSUME NEW p \in Kinds, NEW m \in Ids \cup {0}, NEW a \in Actions \cup {NoAction},
             NEW on \in BOOLEAN, UpdateEvent(p, m, a, on)
      PROVE  Allocated'
  <2>1. \A q \in Props : holder'[q].there = holder[q].there /\ holder'[q].used = holder[q].used
    <3>1. CASE m = 0 /\ Window = "app"
      BY <1>0, <1>3, <3>1 DEF UpdateEvent, Holder
    <3>2. CASE ~(m = 0 /\ Window = "app")
      BY <1>0, <1>3, <3>2 DEF UpdateEvent, Holder
    <3> QED
      BY <3>1, <3>2
  <2> QED
    BY <1>3, <2>1 DEF UpdateEvent
<1>4. ASSUME Destroy
      PROVE  Allocated'
  BY <1>4 DEF Destroy, AppEventRemove, NoHolder
<1>5. ASSUME DoOnce \/ DoOn
      PROVE  Allocated'
  <2>1. alive' = alive
    BY <1>5 DEF DoOnce, DoOn, AppEventDo
  <2>2. \A q \in Props : holder'[q].there = holder[q].there /\ holder'[q].used = holder[q].used
    BY <1>0, <1>5 DEF DoOnce, DoOn, AppEventDo, Holder, Props
  <2> QED
    BY <2>1, <2>2
<1>6. ASSUME OnceReturns
      PROVE  Allocated'
  <2>1. calls # <<>> /\ alive' = alive
    BY <1>6 DEF OnceReturns, Dispatching
  <2>2. Head(calls).m \in Nat
    BY <2>1, HeadTyped
  <2>3. CASE holder["ONCE"].there
    <3>1. holder' = [holder EXCEPT !["ONCE"] = AppEventRemove(holder["ONCE"], Head(calls).m)]
      BY <1>6, <2>3 DEF OnceReturns
    <3> QED
      BY <2>1, <2>2, <2>3, <3>1, RemoveAllocates DEF Props
  <2>4. CASE ~holder["ONCE"].there
    BY <1>6, <2>1, <2>4 DEF OnceReturns
  <2> QED
    BY <2>3, <2>4
<1>7. ASSUME UNCHANGED <<holder, alive>>
      PROVE  Allocated'
  BY <1>7
<1>8. CASE Create
  BY <1>8 DEF Create
<1> QED
  BY <1>1, <1>2, <1>3, <1>4, <1>5, <1>6, <1>7, <1>8 DEF Next, Emit, OnReturns, vars

(* With AppEvents ids, a holder without handlers never stays allocated and  *)
(* no holder outlives its window (c_windows.c, AppEventRemove, WM_DESTROY). *)
THEOREM NoEmptyHolderAlways ==
  ASSUME Window = "app"
  PROVE  Spec => []NoEmptyHolder
<1>1. Init => EventsInv /\ Allocated
  BY InitEventsInv DEF Init, Allocated, NoHolder
<1>2. EventsInv /\ Allocated /\ [Next]_vars => EventsInv' /\ Allocated'
  BY NextEventsInv, NextAllocated
<1>3. EventsInv /\ Allocated => NoEmptyHolder
  <2> SUFFICES ASSUME EventsInv, Allocated, NEW p \in Props, holder[p].there
               PROVE  alive /\ Occupied(holder[p]) # {}
    BY DEF NoEmptyHolder
  <2>1. alive /\ Cardinality(Occupied(holder[p])) # 0
    BY DEF EventsInv, Allocated, Consistent
  <2> QED
    BY <2>1, FS_EmptySet
<1> QED
  BY <1>1, <1>2, <1>3, PTL DEF Spec

-----------------------------------------------------------------------------
(* The holders implement the tables of EventRegistry.                      *)

(* The tables a holder stands for.                                         *)
ActionsOf(h) ==
  [m \in Ids \ {0} |->
     IF AppEventScan(h, m) = 0 THEN NoAction ELSE h.events[AppEventScan(h, m)].action]
ActiveOf(h) ==
  {m \in Ids \ {0} : AppEventScan(h, m) # 0 /\ h.events[AppEventScan(h, m)].active}

(* A holder that is not allocated is empty; a handler in a slot has a code *)
(* block.                                                                  *)
Faithful(h) ==
  /\ Consistent(h)
  /\ ~h.there => h = NoHolder
  /\ \A k \in Occupied(h) : h.events[k].action \in Actions /\ h.events[k].message \in Ids

(* AppEventScan finds the one slot of an event.                            *)
LEMMA ScanUnique ==
  ASSUME NEW h, Consistent(h), NEW m \in Nat \ {0}, NEW k \in Slots, h.events[k].message = m
  PROVE  AppEventScan(h, m) = k
<1>1. h \in Holder
  BY DEF Consistent
<1>2. AppEventScan(h, m) # 0
  BY <1>1, ScanFinds
<1>3. AppEventScan(h, m) \in Slots /\ h.events[AppEventScan(h, m)].message = m
  BY <1>1, <1>2, ScanFinds
<1> QED
  BY <1>3 DEF Consistent, Occupied

(* What a table says of an event, by the slots of its holder.              *)
LEMMA TableOfSlots ==
  ASSUME NEW h, Consistent(h), NEW m \in Ids \ {0}
  PROVE  /\ \A k \in Slots : h.events[k].message = m =>
              /\ ActionsOf(h)[m] = h.events[k].action
              /\ m \in ActiveOf(h) <=> h.events[k].active
         /\ (\A k \in Slots : h.events[k].message # m) =>
              ActionsOf(h)[m] = NoAction /\ m \notin ActiveOf(h)
<1>1. m \in Nat \ {0}
  BY AppEventsAssumption
<1>2. ASSUME NEW k \in Slots, h.events[k].message = m
      PROVE  /\ ActionsOf(h)[m] = h.events[k].action
             /\ m \in ActiveOf(h) <=> h.events[k].active
  <2>1. AppEventScan(h, m) = k /\ k # 0
    BY <1>1, <1>2, ScanUnique, AppEventsAssumption DEF Slots
  <2> QED
    BY <2>1 DEF ActionsOf, ActiveOf
<1>3. ASSUME \A k \in Slots : h.events[k].message # m
      PROVE  ActionsOf(h)[m] = NoAction /\ m \notin ActiveOf(h)
  <2>1. AppEventScan(h, m) = 0
    BY <1>3 DEF AppEventScan
  <2> QED
    BY <2>1 DEF ActionsOf, ActiveOf
<1> QED
  BY <1>2, <1>3

(* An empty holder stands for an empty table.                              *)
LEMMA EmptyTable ==
  ASSUME NEW h, Consistent(h), Occupied(h) = {}
  PROVE  ActionsOf(h) = [m \in Ids \ {0} |-> NoAction] /\ ActiveOf(h) = {}
<1>1. \A m \in Ids \ {0} : \A k \in Slots : h.events[k].message # m
  BY DEF Occupied
<1>2. \A m \in Ids \ {0} : ActionsOf(h)[m] = NoAction /\ m \notin ActiveOf(h)
  BY <1>1, TableOfSlots
<1>3. ActiveOf(h) \subseteq Ids \ {0}
  BY DEF ActiveOf
<1>4. ActionsOf(h) = [m \in Ids \ {0} |-> ActionsOf(h)[m]]
  BY DEF ActionsOf
<1> QED
  BY <1>2, <1>3, <1>4

(* Two holders with the same handlers stand for the same table.            *)
LEMMA SameTable ==
  ASSUME NEW h, Consistent(h), NEW g, Consistent(g),
         \A k \in Slots : /\ g.events[k].message = h.events[k].message
                          /\ h.events[k].message # 0 =>
                               /\ g.events[k].action = h.events[k].action
                               /\ g.events[k].active = h.events[k].active
  PROVE  ActionsOf(g) = ActionsOf(h) /\ ActiveOf(g) = ActiveOf(h)
<1>1. ASSUME NEW m \in Ids \ {0}
      PROVE  ActionsOf(g)[m] = ActionsOf(h)[m] /\ (m \in ActiveOf(g) <=> m \in ActiveOf(h))
  <2>1. CASE \A k \in Slots : h.events[k].message # m
    BY <2>1, TableOfSlots
  <2>2. ASSUME NEW k \in Slots, h.events[k].message = m
        PROVE  ActionsOf(g)[m] = ActionsOf(h)[m] /\ (m \in ActiveOf(g) <=> m \in ActiveOf(h))
    BY <2>2, TableOfSlots
  <2> QED
    BY <2>1, <2>2
<1>2. ActiveOf(g) \subseteq Ids \ {0} /\ ActiveOf(h) \subseteq Ids \ {0}
  BY DEF ActiveOf
<1>3. /\ ActionsOf(h) = [m \in Ids \ {0} |-> ActionsOf(h)[m]]
      /\ ActionsOf(g) = [m \in Ids \ {0} |-> ActionsOf(g)[m]]
  BY DEF ActionsOf
<1> QED
  BY <1>1, <1>2, <1>3

(* Writing the slot of an event, or an empty slot, changes the entry of    *)
(* that event and no other.                                                *)
LEMMA TableWritten ==
  ASSUME NEW h, Consistent(h), NEW g, Consistent(g), NEW m \in Ids \ {0},
         NEW k \in Slots, NEW e \in Event, e.message = m,
         h.events[k].message \in {0, m},
         \A j \in Slots : g.events[j] = IF j = k THEN e ELSE h.events[j]
  PROVE  /\ ActionsOf(g) = [ActionsOf(h) EXCEPT ![m] = e.action]
         /\ ActiveOf(g) = IF e.active THEN ActiveOf(h) \cup {m} ELSE ActiveOf(h) \ {m}
<1>1. ActionsOf(g)[m] = e.action /\ (m \in ActiveOf(g) <=> e.active)
  BY TableOfSlots
<1>2. ASSUME NEW x \in Ids \ {0}, x # m
      PROVE  ActionsOf(g)[x] = ActionsOf(h)[x] /\ (x \in ActiveOf(g) <=> x \in ActiveOf(h))
  <2>1. CASE \A j \in Slots : h.events[j].message # x
    <3>1. \A j \in Slots : g.events[j].message # x
      BY <1>2, <2>1
    <3> QED
      BY <2>1, <3>1, TableOfSlots
  <2>2. ASSUME NEW j \in Slots, h.events[j].message = x
        PROVE  ActionsOf(g)[x] = ActionsOf(h)[x] /\ (x \in ActiveOf(g) <=> x \in ActiveOf(h))
    <3>1. j # k
      BY <1>2, <2>2
    <3>2. g.events[j] = h.events[j]
      BY <3>1
    <3> QED
      BY <2>2, <3>2, TableOfSlots
  <2> QED
    BY <2>1, <2>2
<1>3. ActiveOf(g) \subseteq Ids \ {0} /\ ActiveOf(h) \subseteq Ids \ {0}
  BY DEF ActiveOf
<1>4. /\ ActionsOf(h) = [x \in Ids \ {0} |-> ActionsOf(h)[x]]
      /\ ActionsOf(g) = [x \in Ids \ {0} |-> ActionsOf(g)[x]]
  BY DEF ActionsOf
<1> QED
  BY <1>1, <1>2, <1>3, <1>4

(* Emptying the slot of an event deletes its entry and no other.           *)
LEMMA TableErased ==
  ASSUME NEW h, Consistent(h), NEW g, Consistent(g), NEW m \in Ids \ {0},
         NEW k \in Slots, h.events[k].message = m,
         \A j \in Slots : g.events[j] = IF j = k THEN EmptySlot ELSE h.events[j]
  PROVE  /\ ActionsOf(g) = [ActionsOf(h) EXCEPT ![m] = NoAction]
         /\ ActiveOf(g) = ActiveOf(h) \ {m}
<1>0. EmptySlot.message = 0
  BY DEF EmptySlot
<1>1. ActionsOf(g)[m] = NoAction /\ m \notin ActiveOf(g)
  <2>1. ASSUME NEW j \in Slots PROVE g.events[j].message # m
    <3>1. CASE j = k
      BY <1>0, <3>1
    <3>2. CASE j # k
      BY <3>2 DEF Consistent, Occupied
    <3> QED
      BY <3>1, <3>2
  <2> QED
    BY <2>1, TableOfSlots
<1>2. ASSUME NEW x \in Ids \ {0}, x # m
      PROVE  ActionsOf(g)[x] = ActionsOf(h)[x] /\ (x \in ActiveOf(g) <=> x \in ActiveOf(h))
  <2>1. CASE \A j \in Slots : h.events[j].message # x
    <3>1. \A j \in Slots : g.events[j].message # x
      BY <1>0, <1>2, <2>1
    <3> QED
      BY <2>1, <3>1, TableOfSlots
  <2>2. ASSUME NEW j \in Slots, h.events[j].message = x
        PROVE  ActionsOf(g)[x] = ActionsOf(h)[x] /\ (x \in ActiveOf(g) <=> x \in ActiveOf(h))
    <3>1. g.events[j] = h.events[j]
      BY <1>2, <2>2
    <3> QED
      BY <2>2, <3>1, TableOfSlots
  <2> QED
    BY <2>1, <2>2
<1>3. ActiveOf(g) \subseteq Ids \ {0} /\ ActiveOf(h) \subseteq Ids \ {0}
  BY DEF ActiveOf
<1>4. /\ ActionsOf(h) = [x \in Ids \ {0} |-> ActionsOf(h)[x]]
      /\ ActionsOf(g) = [x \in Ids \ {0} |-> ActionsOf(g)[x]]
  BY DEF ActionsOf
<1> QED
  BY <1>1, <1>2, <1>3, <1>4

(* A holder whose counter is zero is empty.                                *)
LEMMA UnusedIsEmpty ==
  ASSUME NEW h, Consistent(h), h.used = 0
  PROVE  Occupied(h) = {}
<1>1. Cardinality(Occupied(h)) = 0
  BY DEF Consistent
<1> QED
  BY <1>1, OccupiedFinite, FS_EmptySet

(* No holder stands for an empty table.                                    *)
LEMMA NoHolderFaithful ==
  /\ Faithful(NoHolder) /\ Occupied(NoHolder) = {}
  /\ \A on \in BOOLEAN : /\ Faithful(NewHolder(on)) /\ Occupied(NewHolder(on)) = {}
                        /\ NewHolder(on).there
  /\ ActionsOf(NoHolder) = [m \in Ids \ {0} |-> NoAction] /\ ActiveOf(NoHolder) = {}
<1>1. ASSUME NEW on \in BOOLEAN
      PROVE  /\ Occupied(NoHolder) = {} /\ Occupied(NewHolder(on)) = {}
             /\ NewHolder(on).there
  BY DEF Occupied, NoHolder, NewHolder, EmptySlot
<1> QED
  BY <1>1, NoHolderConsistent, EmptyTable DEF Faithful

(* AppEventRemove of an event deletes its entry, whether or not it frees   *)
(* the holder, and of 0 it clears the table.                               *)
LEMMA RemoveTable ==
  ASSUME NEW h, Faithful(h), NEW m \in Ids \ {0}
  PROVE  /\ Faithful(AppEventRemove(h, m))
         /\ ActionsOf(AppEventRemove(h, m)) = [ActionsOf(h) EXCEPT ![m] = NoAction]
         /\ ActiveOf(AppEventRemove(h, m)) = ActiveOf(h) \ {m}
         /\ \A k \in Slots : h.events[k].message # m =>
              AppEventRemove(h, m).events[k].message = h.events[k].message
<1> DEFINE k == AppEventScan(h, m)
           g == [h EXCEPT !.events[k] = EmptySlot, !.used = @ - 1]
           r == AppEventRemove(h, m)
<1>0. h \in Holder /\ m \in Nat /\ Consistent(h)
  BY AppEventsAssumption DEF Faithful, Consistent
<1>1. Consistent(r)
  BY <1>0, RemoveConsistent
<1>2. CASE k = 0
  <2>1. \A j \in Slots : h.events[j].message # m
    BY <1>0, <1>2, ScanFinds
  <2>2. ActionsOf(h)[m] = NoAction /\ m \notin ActiveOf(h)
    BY <1>0, <2>1, TableOfSlots
  <2>3. ActionsOf(h) = [ActionsOf(h) EXCEPT ![m] = NoAction] /\ ActiveOf(h) = ActiveOf(h) \ {m}
    BY <2>2 DEF ActionsOf
  <2>4. r = IF h.used = 0 THEN NoHolder ELSE h
    BY <1>2 DEF AppEventRemove
  <2>5. CASE h.used = 0
    <3>1. Occupied(h) = {}
      BY <1>0, <2>5, UnusedIsEmpty
    <3>2. ActionsOf(h) = ActionsOf(NoHolder) /\ ActiveOf(h) = ActiveOf(NoHolder)
      BY <1>0, <3>1, EmptyTable, NoHolderFaithful
    <3>3. \A j \in Slots : NoHolder.events[j].message = h.events[j].message
      BY <3>1 DEF Occupied, NoHolder, EmptySlot
    <3> QED
      BY <2>3, <2>4, <2>5, <3>2, <3>3, NoHolderFaithful
  <2>6. CASE h.used # 0
    BY <2>3, <2>4, <2>6
  <2> QED
    BY <2>5, <2>6
<1>3. CASE k # 0
  <2>1. k \in Slots /\ h.events[k].message = m /\ m # 0
    BY <1>0, <1>3, ScanFinds
  <2>2. \A j \in Slots : g.events[j] = IF j = k THEN EmptySlot ELSE h.events[j]
    <3> HIDE DEF k
    <3> QED
      BY <1>0, <2>1 DEF Holder
  <2>3. g.there = h.there
    BY <1>0 DEF Holder
  <2>4. r = IF g.used = 0 THEN NoHolder ELSE g
    BY <1>3, <2>1 DEF AppEventRemove
  <2>5. Consistent(g)
    <3>1. CASE g.used # 0
      BY <1>1, <2>4, <3>1
    <3>2. CASE g.used = 0
      <4>1. Occupied(g) = Occupied(h) \ {k} /\ k \in Occupied(h)
        <5> HIDE DEF g, k
        <5> QED
          BY <2>1, <2>2 DEF Occupied, EmptySlot
      <4>2. Cardinality(Occupied(g)) = Cardinality(Occupied(h)) - 1
        BY <4>1, OccupiedFinite, FS_RemoveElement
      <4>3. g.used = h.used - 1 /\ h.used \in Nat
        BY <1>0 DEF Holder
      <4>4. g.used = Cardinality(Occupied(g)) /\ g.used \in Nat
        BY <1>0, <4>2, <4>3, OccupiedFinite DEF Consistent
      <4>5. EmptySlot \in Event
        BY DEF EmptySlot, Event
      <4>6. g \in Holder
        <5> HIDE DEF k
        <5>1. [h.events EXCEPT ![k] = EmptySlot] \in [Slots -> Event]
          BY <1>0, <4>5 DEF Holder
        <5> QED
          BY <1>0, <4>4, <5>1 DEF Holder
      <4>7. \A i \in Occupied(g) : i \in Occupied(h) /\ g.events[i] = h.events[i]
        <5> HIDE DEF g, k
        <5> QED
          BY <2>2, <4>1 DEF Occupied
      <4>8. \A i, j \in Occupied(g) : g.events[i].message = g.events[j].message => i = j
        <5> HIDE DEF g, k
        <5> QED
          BY <1>0, <4>7 DEF Consistent
      <4> HIDE DEF g
      <4> QED
        BY <4>4, <4>6, <4>8 DEF Consistent
    <3> QED
      BY <3>1, <3>2
  <2>6. /\ ActionsOf(g) = [ActionsOf(h) EXCEPT ![m] = NoAction]
        /\ ActiveOf(g) = ActiveOf(h) \ {m}
    <3> HIDE DEF g, k
    <3> QED
      BY <1>0, <2>1, <2>2, <2>5, TableErased
  <2>7. CASE g.used = 0
    <3>1. Occupied(g) = {}
      BY <2>5, <2>7, UnusedIsEmpty
    <3>2. ActionsOf(g) = ActionsOf(NoHolder) /\ ActiveOf(g) = ActiveOf(NoHolder)
      BY <2>5, <3>1, EmptyTable, NoHolderFaithful
    <3>3. ASSUME NEW j \in Slots, h.events[j].message # m
          PROVE  NoHolder.events[j].message = h.events[j].message
      <4>1. g.events[j] = h.events[j]
        <5> HIDE DEF g, k
        <5> QED
          BY <2>1, <2>2, <3>3
      <4>2. g.events[j].message = 0
        BY <3>1 DEF Occupied
      <4> QED
        BY <4>1, <4>2 DEF NoHolder, EmptySlot
    <3>4. r = NoHolder
      BY <2>4, <2>7
    <3> HIDE DEF g, r, k
    <3> QED
      BY <2>6, <3>2, <3>3, <3>4, NoHolderFaithful DEF r
  <2>8. CASE g.used # 0
    <3>1. r = g
      BY <2>4, <2>8
    <3>2. h.there
      <4>1. h.used # 0
        <5>1. k \in Occupied(h)
          BY <2>1 DEF Occupied
        <5> QED
          BY <1>0, <5>1, UnusedIsEmpty
      <4> QED
        BY <4>1 DEF Faithful, NoHolder
    <3>3. \A j \in Occupied(g) : j \in Occupied(h) /\ g.events[j] = h.events[j]
      <4> HIDE DEF g, k
      <4> QED
        BY <2>2 DEF Occupied, EmptySlot
    <3>4. Faithful(g)
      <4> HIDE DEF g, k
      <4> QED
        BY <2>3, <2>5, <3>2, <3>3 DEF Faithful
    <3>5. ASSUME NEW j \in Slots, h.events[j].message # m
          PROVE  g.events[j].message = h.events[j].message
      <4> HIDE DEF g, k
      <4> QED
        BY <2>1, <2>2, <3>5
    <3> HIDE DEF g, r, k
    <3> QED
      BY <2>6, <3>1, <3>4, <3>5 DEF r
  <2> QED
    BY <2>7, <2>8
<1> QED
  BY <1>2, <1>3

(* APPEVENTSREMOVE for the whole holder frees it. *)
LEMMA RemoveAllTable ==
  ASSUME NEW h
  PROVE  AppEventRemove(h, 0) = NoHolder
BY DEF AppEventRemove

-----------------------------------------------------------------------------
(* The refinement.                                                         *)

RegistryInv == EventsInv /\ \A p \in Props : Faithful(holder[p])

Table == [p \in Props |-> ActionsOf(holder[p])]
Activity == [p \in Props |-> ActiveOf(holder[p])]

(* These are the tables that the refinement mapping shows.                 *)
LEMMA MappingIsTable ==
  /\ [p \in Props |-> [m \in Ids \ {0} |->
        IF SlotOf(p, m) = 0 THEN NoAction ELSE holder[p].events[SlotOf(p, m)].action]] = Table
  /\ [p \in Props |-> {m \in Ids \ {0} :
        SlotOf(p, m) # 0 /\ holder[p].events[SlotOf(p, m)].active}] = Activity
BY DEF SlotOf, Table, Activity, ActionsOf, ActiveOf

(* ... also after a step.                                                  *)
LEMMA MappingIsTableNext ==
  /\ [p \in Props |-> [m \in Ids \ {0} |->
        IF SlotOf(p, m) = 0 THEN NoAction ELSE holder[p].events[SlotOf(p, m)].action]]' = Table'
  /\ [p \in Props |-> {m \in Ids \ {0} :
        SlotOf(p, m) # 0 /\ holder[p].events[SlotOf(p, m)].active}]' = Activity'
BY DEF SlotOf, Table, Activity, ActionsOf, ActiveOf

(* The cardinalities of both modules are the same.                         *)
LEMMA SameCardinality == \A S : Registry!Cardinality(S) = Cardinality(S)
BY DEF Registry!Cardinality, Cardinality

(* A step that replaces one holder changes one table.                      *)
LEMMA OneTable ==
  ASSUME holder \in [Props -> Holder], NEW p \in Props, NEW h,
         holder' = [holder EXCEPT ![p] = h]
  PROVE  /\ Table' = [Table EXCEPT ![p] = ActionsOf(h)]
         /\ Activity' = [Activity EXCEPT ![p] = ActiveOf(h)]
<1>1. \A q \in Props : holder'[q] = IF q = p THEN h ELSE holder[q]
  OBVIOUS
<1>2. /\ Table' = [q \in Props |-> ActionsOf(holder'[q])]
      /\ Activity' = [q \in Props |-> ActiveOf(holder'[q])]
  BY DEF Table, Activity, ActionsOf, ActiveOf, AppEventScan
<1>3. \A q \in Props : /\ Table'[q] = IF q = p THEN ActionsOf(h) ELSE ActionsOf(holder[q])
                       /\ Activity'[q] = IF q = p THEN ActiveOf(h) ELSE ActiveOf(holder[q])
  BY <1>1, <1>2
<1> QED
  BY <1>2, <1>3 DEF Table, Activity

(* There is an empty slot only while the table has room.                   *)
LEMMA RoomInTable ==
  ASSUME NEW p \in Props, Faithful(holder[p]), NEW k \in Slots, holder[p].events[k].message = 0
  PROVE  Cardinality(Registry!Used(p)) < MaxEvents
<1> DEFINE h == holder[p]
           U == Registry!Used(p)
           f == [j \in Occupied(h) |-> h.events[j].message]
<1>1. U = {m \in Ids \ {0} : ActionsOf(h)[m] # NoAction}
  BY DEF Registry!Used, ActionsOf, SlotOf
<1>2. \A m \in U : \E j \in Occupied(h) : h.events[j].message = m
  <2> SUFFICES ASSUME NEW m \in U PROVE \E j \in Occupied(h) : h.events[j].message = m
    OBVIOUS
  <2>1. m \in Ids \ {0} /\ ActionsOf(h)[m] # NoAction
    BY <1>1
  <2>2. PICK j \in Slots : h.events[j].message = m
    BY <2>1, TableOfSlots DEF Faithful
  <2> QED
    BY <2>1, <2>2 DEF Occupied
<1>3. U \subseteq {f[j] : j \in Occupied(h)}
  BY <1>2
<1>4. /\ IsFiniteSet({f[j] : j \in Occupied(h)})
      /\ Cardinality({f[j] : j \in Occupied(h)}) <= Cardinality(Occupied(h))
  <2> DEFINE T == {f[j] : j \in Occupied(h)}
  <2>1. f \in Surjection(Occupied(h), T)
    BY DEF Surjection
  <2> HIDE DEF f, T
  <2> QED
    BY <2>1, OccupiedFinite, FS_Surjection DEF T
<1>5. IsFiniteSet(Slots) /\ Cardinality(Slots) = MaxEvents
  <2>1. 1 \in Int /\ MaxEvents \in Int /\ ~(1 > MaxEvents) /\ MaxEvents - 1 + 1 = MaxEvents
    BY AppEventsAssumption
  <2> QED
    BY <2>1, FS_Interval DEF Slots
<1>6. Occupied(h) \subseteq Slots \ {k}
  BY DEF Occupied
<1>7. IsFiniteSet(Slots \ {k}) /\ Cardinality(Slots \ {k}) = MaxEvents - 1
  BY <1>5, FS_RemoveElement
<1>8. Cardinality(Occupied(h)) <= MaxEvents - 1
  BY <1>6, <1>7, FS_Subset
<1>9. Cardinality(U) <= Cardinality({f[j] : j \in Occupied(h)}) /\ IsFiniteSet(U)
  BY <1>3, <1>4, FS_Subset
<1>10. Cardinality(U) \in Nat /\ Cardinality({f[j] : j \in Occupied(h)}) \in Nat
       /\ Cardinality(Occupied(h)) \in Nat
  BY <1>4, <1>9, OccupiedFinite, FS_CardinalityType
<1> HIDE DEF f
<1> QED
  BY <1>4, <1>8, <1>9, <1>10, AppEventsAssumption

(* One entry changes, or goes.                                             *)
LEMMA EntryPut ==
  ASSUME RegistryInv, NEW p \in Props, NEW h, holder' = [holder EXCEPT ![p] = h],
         NEW m \in Ids \ {0}, NEW a \in Actions, NEW on \in BOOLEAN,
         ActionsOf(h) = [ActionsOf(holder[p]) EXCEPT ![m] = a],
         ActiveOf(h) = IF on THEN ActiveOf(holder[p]) \cup {m} ELSE ActiveOf(holder[p]) \ {m},
         \/ \E k \in Slots : holder[p].events[k].message = m
         \/ \E k \in Slots : holder[p].events[k].message = 0
  PROVE  Registry!Next
<1>1. /\ Table' = [Table EXCEPT ![p] = ActionsOf(h)]
      /\ Activity' = [Activity EXCEPT ![p] = ActiveOf(h)]
  BY OneTable DEF RegistryInv, EventsInv
<1>2. Table[p] = ActionsOf(holder[p]) /\ Activity[p] = ActiveOf(holder[p])
  BY DEF Table, Activity
<1>3. Table' = [Table EXCEPT ![p][m] = a]
  BY <1>1, <1>2
<1>4. Activity' = [Activity EXCEPT ![p] = IF on THEN @ \cup {m} ELSE @ \ {m}]
  BY <1>1, <1>2
<1>5. m \in Registry!Used(p) \/ Cardinality(Registry!Used(p)) < MaxEvents
  <2>1. ASSUME NEW k \in Slots, holder[p].events[k].message = m
        PROVE  m \in Registry!Used(p)
    <3>1. Consistent(holder[p]) /\ k \in Occupied(holder[p])
      BY <2>1 DEF RegistryInv, Faithful, Occupied
    <3>2. ActionsOf(holder[p])[m] = holder[p].events[k].action
      BY <2>1, <3>1, TableOfSlots
    <3>3. holder[p].events[k].action \in Actions
      BY <3>1 DEF RegistryInv, Faithful
    <3>4. ActionsOf(holder[p])[m] # NoAction
      BY <3>2, <3>3, AppEventsAssumption
    <3> QED
      BY <3>4 DEF Registry!Used, ActionsOf, SlotOf
  <2>2. ASSUME NEW k \in Slots, holder[p].events[k].message = 0
        PROVE  Cardinality(Registry!Used(p)) < MaxEvents
    BY <2>2, RoomInTable DEF RegistryInv
  <2> QED
    BY <2>1, <2>2
<1>6. Registry!Put(p, m, a, on)
  BY <1>3, <1>4, <1>5, MappingIsTable, MappingIsTableNext, SameCardinality DEF Registry!Put
<1> QED
  BY <1>6 DEF Registry!Next

(* An entry goes.                                                          *)
LEMMA EntryDelete ==
  ASSUME RegistryInv, NEW p \in Props, NEW h, holder' = [holder EXCEPT ![p] = h],
         NEW m \in Ids \ {0},
         ActionsOf(h) = [ActionsOf(holder[p]) EXCEPT ![m] = NoAction],
         ActiveOf(h) = ActiveOf(holder[p]) \ {m}
  PROVE  Registry!Next
<1>1. /\ Table' = [Table EXCEPT ![p] = ActionsOf(h)]
      /\ Activity' = [Activity EXCEPT ![p] = ActiveOf(h)]
  BY OneTable DEF RegistryInv, EventsInv
<1>2. Table[p] = ActionsOf(holder[p]) /\ Activity[p] = ActiveOf(holder[p])
  BY DEF Table, Activity
<1>3. /\ Table' = [Table EXCEPT ![p][m] = NoAction]
      /\ Activity' = [Activity EXCEPT ![p] = @ \ {m}]
  BY <1>1, <1>2
<1>4. Registry!Delete(p, m)
  BY <1>3, MappingIsTable, MappingIsTableNext DEF Registry!Delete
<1> QED
  BY <1>4 DEF Registry!Next

(* Whole tables go.                                                        *)
LEMMA TablesClear ==
  ASSUME NEW ts \in SUBSET Props,
         \A p \in Props : holder'[p] = IF p \in ts THEN NoHolder ELSE holder[p]
  PROVE  Registry!Next
<1>1. /\ Table' = [p \in Props |-> ActionsOf(holder'[p])]
      /\ Activity' = [p \in Props |-> ActiveOf(holder'[p])]
  BY DEF Table, Activity, ActionsOf, ActiveOf, AppEventScan
<1>2. /\ Table' = [p \in Props |-> IF p \in ts THEN [m \in Ids \ {0} |-> NoAction] ELSE Table[p]]
      /\ Activity' = [p \in Props |-> IF p \in ts THEN {} ELSE Activity[p]]
  BY <1>1, NoHolderFaithful DEF Table, Activity
<1>3. Registry!Clear(ts)
  BY <1>2, MappingIsTable, MappingIsTableNext DEF Registry!Clear
<1> QED
  BY <1>3 DEF Registry!Next

(* No table changes.                                                       *)
TablesStay == Table' = Table /\ Activity' = Activity
RegistryStep == Registry!Next \/ TablesStay

(* A call that leaves the handlers and the switch of the holder it writes  *)
(* is no step of the registry.                                             *)
LEMMA TableStays ==
  ASSUME RegistryInv, NEW p \in Props, NEW h, holder' = [holder EXCEPT ![p] = h],
         ActionsOf(h) = ActionsOf(holder[p]), ActiveOf(h) = ActiveOf(holder[p])
  PROVE  TablesStay
<1>1. /\ Table' = [Table EXCEPT ![p] = ActionsOf(h)]
      /\ Activity' = [Activity EXCEPT ![p] = ActiveOf(h)]
  BY OneTable DEF RegistryInv, EventsInv
<1> QED
  BY <1>1 DEF Table, Activity, TablesStay

(* Nor is one that leaves both holders. *)
LEMMA HoldersStay == UNCHANGED holder => TablesStay
BY DEF TablesStay, Table, Activity, ActionsOf, ActiveOf, AppEventScan

(* Registering a handler puts its entry in the table.                      *)
LEMMA RegisterRefines ==
  ASSUME RegistryInv, NEW p \in Props, NEW m \in Ids, NEW a \in Actions, NEW on \in BOOLEAN,
         Register(p, m, a, on)
  PROVE  RegistryStep /\ \A q \in Props : Faithful(holder'[q])
<1> DEFINE h == IF holder[p].there THEN holder[p] ELSE NewHolder(on)
           found == AppEventScan(h, m)
           k == SlotFor(p, h, m)
           n == IF found > 0 THEN h.used ELSE h.used + 1
           e == [message |-> m, action |-> a, active |-> on, runs |-> 0]
           g == [h EXCEPT !.events[k] = e, !.used = n]
<1>1. /\ k > 0
      /\ holder' = [holder EXCEPT ![p] = g]
  BY DEF Register
<1>2. Faithful(h) /\ Consistent(h) /\ h \in Holder /\ h.there
  <2>1. Faithful(h) /\ h.there
    BY NoHolderFaithful DEF RegistryInv
  <2> HIDE DEF h
  <2> QED
    BY <2>1 DEF Faithful, Consistent
<1>3. e \in Event /\ m \in Nat
  BY AppEventsAssumption DEF Event
<1>4. /\ found \in Slots \cup {0} /\ (found # 0 => h.events[found].message = m)
      /\ AppEventScan(h, 0) \in Slots \cup {0}
      /\ AppEventScan(h, 0) # 0 => h.events[AppEventScan(h, 0)].message = 0
  BY <1>2, <1>3, ScanFinds
<1>5. ~holder[p].there => /\ holder[p] = NoHolder
                          /\ \A j \in Slots : h.events[j].message = 0
                          /\ \A j \in Slots : holder[p].events[j].message = 0
  <2>1. \A j \in Slots : NoHolder.events[j].message = 0 /\ NewHolder(on).events[j].message = 0
    BY DEF NewHolder, NoHolder, EmptySlot
  <2>2. ~holder[p].there => holder[p] = NoHolder
    BY DEF RegistryInv, Faithful
  <2> QED
    BY <2>1, <2>2
<1>6. k \in Slots /\ h.events[k].message \in {0, m}
  <2>1. CASE found > 0
    BY <1>4, <2>1 DEF SlotFor, Slots
  <2>2. CASE ~(found > 0) /\ ~holder[p].there
    BY <1>5, <2>2, AppEventsAssumption DEF SlotFor, Slots
  <2>3. CASE ~(found > 0) /\ holder[p].there
    BY <1>1, <1>4, <2>3 DEF SlotFor, Slots
  <2> QED
    BY <2>1, <2>2, <2>3
<1>7. Consistent(g)
  BY <1>1, <1>2, <1>3, RegisterConsistent
<1>8. /\ \A j \in Slots : g.events[j] = IF j = k THEN e ELSE h.events[j]
      /\ g.there
  <2> HIDE DEF k, e, n, h
  <2> QED
    BY <1>2, <1>6 DEF Holder
<1>9. /\ ActionsOf(h) = ActionsOf(holder[p]) /\ ActiveOf(h) = ActiveOf(holder[p])
      /\ h.events[k].message = holder[p].events[k].message
  <2>1. CASE holder[p].there
    BY <2>1
  <2>2. CASE ~holder[p].there
    <3>1. ActionsOf(h) = ActionsOf(NoHolder) /\ ActiveOf(h) = ActiveOf(NoHolder)
      BY <1>2, <2>2, NoHolderFaithful, EmptyTable
    <3> HIDE DEF k
    <3> QED
      BY <1>5, <1>6, <2>2, <3>1
  <2> QED
    BY <2>1, <2>2
<1>10. Faithful(g)
  <2>1. ASSUME NEW j \in Occupied(g)
        PROVE  g.events[j].action \in Actions /\ g.events[j].message \in Ids
    <3>1. j \in Slots /\ g.events[j] = IF j = k THEN e ELSE h.events[j]
      BY <1>8 DEF Occupied
    <3>2. CASE j = k
      BY <3>1, <3>2
    <3>3. CASE j # k
      <4>1. g.events[j] = h.events[j] /\ j \in Occupied(h)
        BY <3>1, <3>3 DEF Occupied
      <4> QED
        BY <1>2, <4>1 DEF Faithful
    <3> QED
      BY <3>2, <3>3
  <2> HIDE DEF g
  <2> QED
    BY <1>7, <1>8, <2>1 DEF Faithful
<1>11. RegistryStep
  <2>1. CASE m = 0
    <3>1. ActionsOf(g) = ActionsOf(h) /\ ActiveOf(g) = ActiveOf(h)
      <4> HIDE DEF g, k, h
      <4> QED
        BY <1>2, <1>6, <1>7, <1>8, <2>1, SameTable
    <3> HIDE DEF g, k, h
    <3> QED
      BY <1>1, <1>9, <3>1, TableStays DEF RegistryStep
  <2>2. CASE m # 0
    <3>1. /\ ActionsOf(g) = [ActionsOf(h) EXCEPT ![m] = a]
          /\ ActiveOf(g) = IF on THEN ActiveOf(h) \cup {m} ELSE ActiveOf(h) \ {m}
      <4>1. e.message = m /\ e.action = a /\ e.active = on
        OBVIOUS
      <4> HIDE DEF g, k, h, e
      <4> QED
        BY <1>2, <1>3, <1>6, <1>7, <1>8, <2>2, <4>1, TableWritten
    <3>2. /\ ActionsOf(g) = [ActionsOf(holder[p]) EXCEPT ![m] = a]
          /\ ActiveOf(g) = IF on THEN ActiveOf(holder[p]) \cup {m} ELSE ActiveOf(holder[p]) \ {m}
      <4> HIDE DEF g, k, h
      <4> QED
        BY <1>9, <3>1
    <3>3. \/ \E j \in Slots : holder[p].events[j].message = m
          \/ \E j \in Slots : holder[p].events[j].message = 0
      <4> HIDE DEF k, h
      <4> QED
        BY <1>6, <1>9
    <3>4. m \in Ids \ {0} /\ holder' = [holder EXCEPT ![p] = g]
      BY <1>1, <2>2
    <3> HIDE DEF g
    <3>5. Registry!Next
      BY <3>2, <3>3, <3>4, EntryPut
    <3> QED
      BY <3>5 DEF RegistryStep
  <2> QED
    BY <2>1, <2>2
<1> HIDE DEF g
<1> QED
  BY <1>1, <1>10, <1>11 DEF RegistryInv, EventsInv

(* Removing a handler deletes its entry, removing all clears the table.    *)
LEMMA RemoveRefines ==
  ASSUME RegistryInv, NEW p \in Props, NEW m \in Ids \cup {0},
         holder' = [holder EXCEPT ![p] = AppEventRemove(@, m)]
  PROVE  RegistryStep /\ \A q \in Props : Faithful(holder'[q])
<1>1. Faithful(holder[p]) /\ holder \in [Props -> Holder]
  BY DEF RegistryInv, EventsInv
<1>2. CASE m = 0
  <2>1. \A q \in Props : holder'[q] = IF q \in {p} THEN NoHolder ELSE holder[q]
    BY <1>1, <1>2, RemoveAllTable
  <2> QED
    BY <2>1, TablesClear, NoHolderFaithful DEF RegistryStep, RegistryInv
<1>3. CASE m # 0
  <2> DEFINE g == AppEventRemove(holder[p], m)
  <2>1. /\ holder' = [holder EXCEPT ![p] = g] /\ m \in Ids \ {0}
        /\ Faithful(g)
        /\ ActionsOf(g) = [ActionsOf(holder[p]) EXCEPT ![m] = NoAction]
        /\ ActiveOf(g) = ActiveOf(holder[p]) \ {m}
    BY <1>1, <1>3, RemoveTable
  <2> HIDE DEF g
  <2>2. Registry!Next
    BY <2>1, EntryDelete
  <2>3. \A q \in Props : holder'[q] = IF q = p THEN g ELSE holder[q]
    BY <1>1, <2>1
  <2>4. \A q \in Props : Faithful(holder'[q])
    BY <2>1, <2>3 DEF RegistryInv
  <2> QED
    BY <2>2, <2>4 DEF RegistryStep
<1> QED
  BY <1>2, <1>3

(* Updating a handler puts its new entry in the table; the activity of the *)
(* holder and an empty slot are in no table.                               *)
LEMMA UpdateRefines ==
  ASSUME RegistryInv, EventsInv', NEW p \in Props, NEW m \in Ids \cup {0},
         NEW a \in Actions \cup {NoAction}, NEW on \in BOOLEAN, UpdateEvent(p, m, a, on)
  PROVE  RegistryStep /\ \A q \in Props : Faithful(holder'[q])
<1> DEFINE h == holder[p]
           k == AppEventScan(h, m)
           b == IF a = NoAction THEN h.events[k].action ELSE a
           e == [h.events[k] EXCEPT !.action = b, !.active = on]
           f == [h EXCEPT !.active = on]
           g == [h EXCEPT !.events[k] = e]
<1>1. Faithful(h) /\ Consistent(h) /\ h \in Holder /\ h.there /\ m \in Nat
  BY AppEventsAssumption DEF RegistryInv, Faithful, Consistent, UpdateEvent
<1>2. \A q \in Props : Consistent(holder'[q])
  BY DEF EventsInv, Consistent, Occupied
<1>3. CASE m = 0 /\ Window = "app"
  <2>1. holder' = [holder EXCEPT ![p] = f]
    BY <1>3 DEF UpdateEvent
  <2>2. f.events = h.events /\ f.there = h.there
    BY <1>1 DEF Holder
  <2>3. Consistent(f)
    BY <1>2, <2>1 DEF RegistryInv, EventsInv
  <2> HIDE DEF f
  <2>4. ActionsOf(f) = ActionsOf(h) /\ ActiveOf(f) = ActiveOf(h)
    BY <1>1, <2>2, <2>3, SameTable
  <2>5. Faithful(f)
    BY <1>1, <2>2, <2>3 DEF Faithful, Occupied
  <2> QED
    BY <2>1, <2>4, <2>5, TableStays DEF RegistryStep, RegistryInv, EventsInv
<1>4. CASE ~(m = 0 /\ Window = "app")
  <2>1. holder' = [holder EXCEPT ![p] = g] /\ k > 0
    BY <1>4 DEF UpdateEvent
  <2>2. k \in Slots /\ h.events[k].message = m
    <3>1. k \in Slots \cup {0} /\ (k # 0 => h.events[k].message = m)
      BY <1>1, ScanFinds
    <3> HIDE DEF k
    <3> QED
      BY <2>1, <3>1
  <2>3. /\ \A j \in Slots : g.events[j] = IF j = k THEN e ELSE h.events[j]
        /\ g.there
    <3> HIDE DEF k, e
    <3> QED
      BY <1>1, <2>2 DEF Holder
  <2>4. e \in Event /\ e.message = m /\ e.action = b /\ e.active = on
    <3>1. h.events[k] \in Event
      BY <1>1, <2>2 DEF Holder
    <3>2. b \in Actions \cup {NoAction}
      BY <3>1 DEF Event
    <3> HIDE DEF b, k, h
    <3> QED
      BY <2>2, <3>1, <3>2 DEF Event
  <2>5. Consistent(g)
    <3>1. holder'[p] = g
      BY <2>1 DEF RegistryInv, EventsInv
    <3> HIDE DEF g
    <3> QED
      BY <1>2, <3>1
  <2>6. m # 0 => b \in Actions
    <3>1. m # 0 => k \in Occupied(h)
      BY <2>2 DEF Occupied
    <3> QED
      BY <1>1, <3>1 DEF Faithful
  <2>7. Faithful(g)
    <3>1. ASSUME NEW j \in Occupied(g)
          PROVE  g.events[j].action \in Actions /\ g.events[j].message \in Ids
      <4>1. j \in Slots /\ g.events[j] = (IF j = k THEN e ELSE h.events[j]) /\ g.events[j].message # 0
        BY <2>3 DEF Occupied
      <4>2. CASE j = k
        <5> HIDE DEF g, e, b, k, h
        <5> QED
          BY <2>4, <2>6, <4>1, <4>2
      <4>3. CASE j # k
        <5>1. g.events[j] = h.events[j] /\ j \in Occupied(h)
          BY <4>1, <4>3 DEF Occupied
        <5> QED
          BY <1>1, <5>1 DEF Faithful
      <4> QED
        BY <4>2, <4>3
    <3> HIDE DEF g
    <3> QED
      BY <2>3, <2>5, <3>1 DEF Faithful
  <2>8. RegistryStep
    <3>1. CASE m = 0
      <4>1. ActionsOf(g) = ActionsOf(h) /\ ActiveOf(g) = ActiveOf(h)
        <5> HIDE DEF g, e, k, h
        <5> QED
          BY <1>1, <2>2, <2>3, <2>4, <2>5, <3>1, SameTable
      <4> HIDE DEF g
      <4> QED
        BY <2>1, <4>1, TableStays DEF RegistryStep
    <3>2. CASE m # 0
      <4>1. /\ ActionsOf(g) = [ActionsOf(h) EXCEPT ![m] = b]
            /\ ActiveOf(g) = IF on THEN ActiveOf(h) \cup {m} ELSE ActiveOf(h) \ {m}
        <5> HIDE DEF g, e, k, h, b
        <5> QED
          BY <1>1, <2>2, <2>3, <2>4, <2>5, <3>2, TableWritten
      <4>2. \E j \in Slots : holder[p].events[j].message = m
        BY <2>2
      <4>3. m \in Ids \ {0} /\ b \in Actions /\ holder' = [holder EXCEPT ![p] = g]
        BY <2>1, <2>6, <3>2
      <4>4. /\ ActionsOf(g) = [ActionsOf(holder[p]) EXCEPT ![m] = b]
            /\ ActiveOf(g) = IF on THEN ActiveOf(holder[p]) \cup {m} ELSE ActiveOf(holder[p]) \ {m}
        BY <4>1
      <4> HIDE DEF g, b
      <4>5. Registry!Next
        BY <4>2, <4>3, <4>4, EntryPut
      <4> QED
        BY <4>5 DEF RegistryStep
    <3> QED
      BY <3>1, <3>2
  <2> HIDE DEF g
  <2> QED
    BY <2>1, <2>7, <2>8 DEF RegistryInv, EventsInv
<1> QED
  BY <1>3, <1>4

(* Running a handler changes no table.                                     *)
LEMMA DispatchRefines ==
  ASSUME RegistryInv, EventsInv', DoOnce \/ DoOn
  PROVE  RegistryStep /\ \A q \in Props : Faithful(holder'[q])
<1>1. PICK p \in Props :
        /\ calls # <<>>
        /\ \/ /\ Runs(holder[p], AppEventScan(holder[p], Head(calls).m))
              /\ holder' = IF p = "ONCE"
                   THEN [holder EXCEPT
                          ![p].events[AppEventScan(holder[p], Head(calls).m)].runs = @ + 1]
                   ELSE holder
           \/ UNCHANGED holder
  BY DEF DoOnce, DoOn, AppEventDo, Dispatching, Props
<1>2. CASE UNCHANGED holder
  BY <1>2, HoldersStay DEF RegistryStep, RegistryInv
<1>3. CASE ~UNCHANGED holder
  <2> DEFINE h == holder[p]
             k == AppEventScan(h, Head(calls).m)
             e == [h.events[k] EXCEPT !.runs = @ + 1]
             g == [h EXCEPT !.events[k] = e]
  <2>1. Head(calls).m \in Nat /\ h \in Holder /\ Faithful(h) /\ Consistent(h)
    BY <1>1, HeadTyped DEF RegistryInv, EventsInv
  <2>2. k \in Slots
    <3>1. k \in Slots \cup {0}
      BY <2>1, ScanFinds
    <3>2. k > 0
      BY <1>1, <1>3 DEF Runs
    <3> HIDE DEF k
    <3> QED
      BY <3>1, <3>2
  <2>3. /\ e.message = h.events[k].message
        /\ e.action = h.events[k].action /\ e.active = h.events[k].active
    <3>1. h.events[k] \in Event
      BY <2>1, <2>2 DEF Holder
    <3> HIDE DEF k, h
    <3> QED
      BY <3>1 DEF Event
  <2>4. /\ \A j \in Slots : g.events[j] = IF j = k THEN e ELSE h.events[j]
        /\ g.there = h.there
    <3> HIDE DEF k, e
    <3> QED
      BY <2>1, <2>2 DEF Holder
  <2>5. holder' = [holder EXCEPT ![p] = g]
    BY <1>1, <1>3
  <2>6. Consistent(g)
    <3>1. holder'[p] = g
      BY <2>5 DEF RegistryInv, EventsInv
    <3>2. Consistent(holder'[p])
      BY DEF EventsInv, Consistent, Occupied
    <3> QED
      BY <3>1, <3>2
  <2>7. \A j \in Slots : /\ g.events[j].message = h.events[j].message
                         /\ g.events[j].action = h.events[j].action
                         /\ g.events[j].active = h.events[j].active
    <3> HIDE DEF g, e, k, h
    <3> QED
      BY <2>3, <2>4
  <2>8. ActionsOf(g) = ActionsOf(h) /\ ActiveOf(g) = ActiveOf(h)
    <3> HIDE DEF g, h
    <3> QED
      BY <2>1, <2>6, <2>7, SameTable
  <2>9. h.there
    <3>1. h.events[k].action # NoAction
      BY <1>1, <1>3 DEF Runs
    <3>2. ~h.there => h.events[k].action = NoAction
      <4>1. ~h.there => h = NoHolder
        BY <2>1 DEF Faithful
      <4>2. NoHolder.events[k].action = NoAction
        BY <2>2 DEF NoHolder, EmptySlot
      <4> HIDE DEF h, k
      <4> QED
        BY <4>1, <4>2
    <3> QED
      BY <3>1, <3>2
  <2>10. Faithful(g)
    <3> HIDE DEF g, h
    <3> QED
      BY <2>1, <2>4, <2>6, <2>7, <2>9 DEF Faithful, Occupied
  <2>11. \A q \in Props : holder'[q] = IF q = p THEN g ELSE holder[q]
    BY <2>5 DEF RegistryInv, EventsInv
  <2>12. TablesStay
    <3>1. ActionsOf(g) = ActionsOf(holder[p]) /\ ActiveOf(g) = ActiveOf(holder[p])
      BY <2>8
    <3> HIDE DEF g
    <3> QED
      BY <2>5, <3>1, TableStays
  <2> HIDE DEF g
  <2> QED
    BY <2>10, <2>11, <2>12 DEF RegistryStep, RegistryInv
<1> QED
  BY <1>2, <1>3

(* Every step is one of EventRegistry, or changes no table.                *)
LEMMA NextRefines ==
  ASSUME RegistryInv, [Next]_vars
  PROVE  RegistryInv' /\ RegistryStep
<1>0. EventsInv /\ EventsInv' /\ \A p \in Props : Faithful(holder[p])
  BY NextEventsInv DEF RegistryInv
<1> SUFFICES RegistryStep /\ \A q \in Props : Faithful(holder'[q])
  <2>1. ASSUME \A q \in Props : Faithful(holder'[q])
        PROVE  (\A q \in Props : Faithful(holder[q]))'
    BY <2>1 DEF Faithful, Consistent, Occupied
  <2> QED
    BY <1>0, <2>1 DEF RegistryInv
<1>1. ASSUME NEW p \in Kinds, NEW m \in Ids, NEW a \in Actions, NEW on \in BOOLEAN,
             Register(p, m, a, on)
      PROVE  RegistryStep /\ \A q \in Props : Faithful(holder'[q])
  <2>1. p \in Props
    BY AppEventsAssumption DEF Props
  <2> QED
    BY <1>1, <2>1, RegisterRefines
<1>2. ASSUME NEW p \in Kinds, NEW m \in Ids \cup {0}, RemoveEvent(p, m)
      PROVE  RegistryStep /\ \A q \in Props : Faithful(holder'[q])
  <2>1. p \in Props /\ holder' = [holder EXCEPT ![p] = AppEventRemove(@, m)]
    BY <1>2, AppEventsAssumption DEF Props, RemoveEvent
  <2> QED
    BY <2>1, RemoveRefines
<1>3. ASSUME NEW p \in Kinds, NEW m \in Ids \cup {0}, NEW a \in Actions \cup {NoAction},
             NEW on \in BOOLEAN, UpdateEvent(p, m, a, on)
      PROVE  RegistryStep /\ \A q \in Props : Faithful(holder'[q])
  <2>1. p \in Props
    BY AppEventsAssumption DEF Props
  <2> QED
    BY <1>0, <1>3, <2>1, UpdateRefines
<1>4. CASE UNCHANGED holder
  BY <1>0, <1>4, HoldersStay DEF RegistryStep
<1>5. CASE Destroy
  <2>1. \A p \in Props : holder'[p] = NoHolder
    BY <1>5, RemoveAllTable DEF Destroy
  <2>2. Props \in SUBSET Props /\
        \A p \in Props : holder'[p] = IF p \in Props THEN NoHolder ELSE holder[p]
    BY <2>1
  <2>3. Registry!Next
    BY <2>2, TablesClear
  <2> QED
    BY <2>1, <2>3, NoHolderFaithful DEF RegistryStep
<1>6. CASE DoOnce \/ DoOn
  BY <1>0, <1>6, DispatchRefines
<1>7. CASE OnceReturns
  <2>1. "ONCE" \in Props /\ calls # <<>>
    BY <1>7 DEF Props, OnceReturns, Dispatching
  <2>2. Head(calls).m \in Ids \cup {0}
    BY <1>0, <2>1, HeadTyped DEF EventsInv
  <2>3. CASE holder["ONCE"].there
    <3>1. PICK p \in Props, m \in Ids \cup {0} :
                holder' = [holder EXCEPT ![p] = AppEventRemove(@, m)]
      BY <1>7, <2>1, <2>2, <2>3 DEF OnceReturns
    <3> QED
      BY <3>1, RemoveRefines
  <2>4. CASE ~holder["ONCE"].there
    BY <1>4, <1>7, <2>4 DEF OnceReturns
  <2> QED
    BY <2>3, <2>4
<1> QED
  BY <1>1, <1>2, <1>3, <1>4, <1>5, <1>6, <1>7 DEF Next, Emit, Create, OnReturns, vars

(* A new window has empty tables.                                          *)
LEMMA InitRefines == Init => RegistryInv /\ Registry!Init
<1> SUFFICES ASSUME Init PROVE RegistryInv /\ Registry!Init
  OBVIOUS
<1>1. \A p \in Props : holder[p] = NoHolder
  BY DEF Init
<1>2. RegistryInv
  BY <1>1, InitEventsInv, NoHolderFaithful DEF RegistryInv
<1>3. /\ \A p \in Props : ActionsOf(holder[p]) = [m \in Ids \ {0} |-> NoAction]
      /\ \A p \in Props : ActiveOf(holder[p]) = {}
  BY <1>1, NoHolderFaithful
<1>4. /\ Table = [p \in Props |-> [m \in Ids \ {0} |-> NoAction]]
      /\ Activity = [p \in Props |-> {}]
  BY <1>3 DEF Table, Activity
<1> QED
  BY <1>2, <1>4, MappingIsTable DEF Registry!Init

(* The slots, holders and counters of c_windows.c keep the promise of      *)
(* EventRegistry for both kinds of events and any program: a command       *)
(* changes the entry it names and no other, nothing goes by itself but a   *)
(* ONCE handler that ran, and a full table takes no new event.             *)
THEOREM HoldersAreARegistry == Spec => SlotsAreARegistry
<1>1. RegistryInv /\ [Next]_vars => RegistryInv'
  BY NextRefines
<1>2. RegistryInv /\ [Next]_vars =>
        [Registry!Next]_<<[p \in Props |-> [m \in Ids \ {0} |->
             IF SlotOf(p, m) = 0 THEN NoAction ELSE holder[p].events[SlotOf(p, m)].action]],
           [p \in Props |-> {m \in Ids \ {0} :
             SlotOf(p, m) # 0 /\ holder[p].events[SlotOf(p, m)].active}]>>
  BY NextRefines, MappingIsTable, MappingIsTableNext DEF RegistryStep, TablesStay
<1> QED
  BY <1>1, <1>2, InitRefines, PTL DEF Spec, SlotsAreARegistry, Registry!Spec

-----------------------------------------------------------------------------
(* What a step does to the slots, for the two action properties.           *)

SlotKept(q, j) ==
  /\ holder'[q].events[j].message = holder[q].events[j].message
  /\ holder'[q].events[j].runs = holder[q].events[j].runs

(* An event is registered when a slot has it.                              *)
LEMMA RegisteredInSlot ==
  ASSUME EventsInv, NEW p \in Props, NEW m \in Ids \ {0}
  PROVE  Registered(p, m) <=> \E k \in Slots : holder[p].events[k].message = m
<1>1. holder[p] \in Holder /\ m \in Nat
  BY AppEventsAssumption DEF EventsInv
<1>2. /\ AppEventScan(holder[p], m) \in Slots \cup {0}
      /\ AppEventScan(holder[p], m) # 0 =>
           holder[p].events[AppEventScan(holder[p], m)].message = m
      /\ AppEventScan(holder[p], m) = 0 => \A k \in Slots : holder[p].events[k].message # m
  BY <1>1, ScanFinds
<1>3. 0 \notin Slots
  BY DEF Slots
<1> QED
  BY <1>2, <1>3 DEF Registered

(* ... also after a step.                                                  *)
LEMMA RegisteredInSlotNext ==
  ASSUME EventsInv', NEW p \in Props, NEW m \in Ids \ {0}
  PROVE  Registered(p, m)' <=> \E k \in Slots : holder'[p].events[k].message = m
<1>1. holder'[p] \in Holder /\ m \in Nat
  BY AppEventsAssumption DEF EventsInv
<1>2. /\ AppEventScan(holder'[p], m) \in Slots \cup {0}
      /\ AppEventScan(holder'[p], m) # 0 =>
           holder'[p].events[AppEventScan(holder'[p], m)].message = m
      /\ AppEventScan(holder'[p], m) = 0 => \A k \in Slots : holder'[p].events[k].message # m
  BY <1>1, ScanFinds
<1>3. 0 \notin Slots
  BY DEF Slots
<1>4. Registered(p, m)' <=> AppEventScan(holder'[p], m) # 0
  BY DEF Registered, AppEventScan
<1> QED
  BY <1>2, <1>3, <1>4

(* A new handler takes the slot of its event or an empty one; every other  *)
(* slot is as it was.                                                      *)
LEMMA RegisterSlots ==
  ASSUME RegistryInv, NEW p \in Props, NEW m \in Ids, NEW a \in Actions, NEW on \in BOOLEAN,
         Register(p, m, a, on)
  PROVE  \E k \in Slots :
           /\ holder[p].events[k].message \in {0, m}
           /\ holder'[p].events[k].message = m /\ holder'[p].events[k].runs = 0
           /\ \A q \in Props, j \in Slots : q # p \/ j # k => SlotKept(q, j)
<1> DEFINE h == IF holder[p].there THEN holder[p] ELSE NewHolder(on)
           found == AppEventScan(h, m)
           k == SlotFor(p, h, m)
           n == IF found > 0 THEN h.used ELSE h.used + 1
           e == [message |-> m, action |-> a, active |-> on, runs |-> 0]
           g == [h EXCEPT !.events[k] = e, !.used = n]
<1>1. k > 0 /\ holder' = [holder EXCEPT ![p] = g]
  BY DEF Register
<1>2. Faithful(h) /\ h \in Holder /\ m \in Nat
  <2>1. Faithful(h)
    BY NoHolderFaithful DEF RegistryInv
  <2> HIDE DEF h
  <2> QED
    BY <2>1, AppEventsAssumption DEF Faithful, Consistent
<1>3. h.events = holder[p].events
  <2>1. ~holder[p].there => holder[p] = NoHolder
    BY DEF RegistryInv, Faithful
  <2>2. NewHolder(on).events = NoHolder.events
    BY DEF NewHolder, NoHolder
  <2> QED
    BY <2>1, <2>2
<1>4. k \in Slots /\ h.events[k].message \in {0, m}
  <2>1. /\ found \in Slots \cup {0} /\ (found # 0 => h.events[found].message = m)
        /\ AppEventScan(h, 0) \in Slots \cup {0}
        /\ AppEventScan(h, 0) # 0 => h.events[AppEventScan(h, 0)].message = 0
    BY <1>2, ScanFinds
  <2>2. CASE found > 0
    BY <2>1, <2>2 DEF SlotFor, Slots
  <2>3. CASE ~(found > 0) /\ ~holder[p].there
    <3>1. \A j \in Slots : h.events[j].message = 0
      BY <2>3 DEF NewHolder, NoHolder, EmptySlot
    <3>2. k = 1
      BY <2>3 DEF SlotFor
    <3> HIDE DEF k, h
    <3> QED
      BY <3>1, <3>2, AppEventsAssumption DEF Slots
  <2>4. CASE ~(found > 0) /\ holder[p].there
    BY <1>1, <2>1, <2>4 DEF SlotFor, Slots
  <2> QED
    BY <2>2, <2>3, <2>4
<1>5. \A j \in Slots : g.events[j] = IF j = k THEN e ELSE h.events[j]
  <2> HIDE DEF k, e, n, h
  <2> QED
    BY <1>2, <1>4 DEF Holder
<1>6. \A q \in Props : holder'[q] = IF q = p THEN g ELSE holder[q]
  BY <1>1 DEF RegistryInv, EventsInv
<1>7. e.message = m /\ e.runs = 0
  OBVIOUS
<1> HIDE DEF g, h, e, k
<1> QED
  BY <1>3, <1>4, <1>5, <1>6, <1>7 DEF SlotKept

(* A removed handler leaves no slot with its event; the slots of other     *)
(* events are left alone.                                                  *)
LEMMA RemoveOneSlots ==
  ASSUME RegistryInv, NEW p \in Props, NEW m \in Ids \ {0},
         holder' = [holder EXCEPT ![p] = AppEventRemove(@, m)]
  PROVE  \A j \in Slots :
           /\ holder'[p].events[j].message # m
           /\ holder[p].events[j].message # m =>
                holder'[p].events[j].message = holder[p].events[j].message
<1> DEFINE h == holder[p]
           g == AppEventRemove(h, m)
<1>1. Faithful(h) /\ h \in Holder /\ m \in Nat
  BY AppEventsAssumption DEF RegistryInv, EventsInv
<1>2. holder'[p] = g
  BY DEF RegistryInv, EventsInv
<1>3. /\ Faithful(g) /\ ActionsOf(g) = [ActionsOf(h) EXCEPT ![m] = NoAction]
      /\ \A j \in Slots : h.events[j].message # m => g.events[j].message = h.events[j].message
  BY <1>1, RemoveTable
<1>4. ASSUME NEW j \in Slots, g.events[j].message = m
      PROVE  FALSE
  <2> HIDE DEF g
  <2>1. AppEventScan(g, m) = j /\ j # 0
    BY <1>1, <1>3, <1>4, ScanUnique DEF Faithful, Slots
  <2>2. g.events[j].action \in Actions
    BY <1>3, <1>4 DEF Faithful, Occupied
  <2>3. ActionsOf(g)[m] = g.events[j].action
    BY <2>1 DEF ActionsOf
  <2>4. ActionsOf(g)[m] = NoAction
    BY <1>3 DEF ActionsOf
  <2> QED
    BY <2>2, <2>3, <2>4, AppEventsAssumption
<1> HIDE DEF g
<1> QED
  BY <1>2, <1>3, <1>4

(* A removal leaves a slot alone or empties it.                            *)
LEMMA RemoveSlots ==
  ASSUME RegistryInv, NEW p \in Props, NEW m \in Ids \cup {0},
         holder' = [holder EXCEPT ![p] = AppEventRemove(@, m)]
  PROVE  \A q \in Props, j \in Slots :
           \/ SlotKept(q, j)
           \/ q = p /\ holder'[p].events[j].message = 0
<1> DEFINE h == holder[p]
           g == AppEventRemove(h, m)
           k == AppEventScan(h, m)
           c == [h EXCEPT !.events[k] = EmptySlot, !.used = @ - 1]
<1>1. Faithful(h) /\ h \in Holder /\ m \in Nat
  BY AppEventsAssumption DEF RegistryInv, EventsInv
<1>2. \A q \in Props : holder'[q] = IF q = p THEN g ELSE holder[q]
  BY DEF RegistryInv, EventsInv
<1>3. \A j \in Slots : NoHolder.events[j].message = 0
  BY DEF NoHolder, EmptySlot
<1>4. \A j \in Slots : \/ g.events[j] = h.events[j]
                       \/ g.events[j].message = 0
  <2>1. g = NoHolder \/ (k = 0 /\ g = h) \/ (k # 0 /\ g = c)
    <3>1. [h EXCEPT !.used = 0].used = 0
      BY <1>1 DEF Holder
    <3> QED
      BY <3>1 DEF AppEventRemove
  <2>2. ASSUME k # 0
        PROVE  \A j \in Slots : c.events[j] = h.events[j] \/ c.events[j].message = 0
    <3>1. k \in Slots
      BY <1>1, <2>2, ScanFinds
    <3>2. \A j \in Slots : c.events[j] = IF j = k THEN EmptySlot ELSE h.events[j]
      <4> HIDE DEF k
      <4> QED
        BY <1>1, <3>1 DEF Holder
    <3> HIDE DEF c, k
    <3> QED
      BY <3>2 DEF EmptySlot
  <2> HIDE DEF g, c, k
  <2> QED
    BY <1>3, <2>1, <2>2
<1> HIDE DEF g, h
<1>5. p \in Props /\ h = holder[p]
  BY DEF h
<1> QED
  BY <1>2, <1>4, <1>5 DEF SlotKept

(* Updating a handler keeps the events of the slots.                       *)
LEMMA UpdateSlots ==
  ASSUME RegistryInv, NEW p \in Props, NEW m \in Ids \cup {0},
         NEW a \in Actions \cup {NoAction}, NEW on \in BOOLEAN, UpdateEvent(p, m, a, on)
  PROVE  \A q \in Props, j \in Slots : SlotKept(q, j)
<1>1. \A q \in Props : holder[q] \in Holder
  BY DEF RegistryInv, EventsInv
<1>2. CASE m = 0 /\ Window = "app"
  BY <1>1, <1>2 DEF UpdateEvent, Holder, SlotKept, RegistryInv, EventsInv
<1>3. CASE ~(m = 0 /\ Window = "app")
  BY <1>1, <1>3 DEF UpdateEvent, Holder, Event, SlotKept, RegistryInv, EventsInv
<1> QED
  BY <1>2, <1>3

(* A slot that is not a ONCE handler about to run is kept by a dispatch.   *)
LEMMA DispatchSlots ==
  ASSUME RegistryInv, DoOnce \/ DoOn
  PROVE  /\ \A q \in Props, j \in Slots :
              holder'[q].events[j].message = holder[q].events[j].message
         /\ \A j \in Slots :
              \/ SlotKept("ONCE", j)
              \/ /\ DoOnce /\ Goes("inONCE")
                 /\ holder["ONCE"].events[j].message = Head(calls).m
<1>1. \A q \in Props : holder[q] \in Holder
  BY DEF RegistryInv, EventsInv
<1>2. CASE UNCHANGED holder
  BY <1>2 DEF SlotKept
<1>3. CASE ~UNCHANGED holder
  <2> DEFINE k == AppEventScan(holder["ONCE"], Head(calls).m)
             e == [holder["ONCE"].events[k] EXCEPT !.runs = @ + 1]
             g == [holder["ONCE"] EXCEPT !.events[k] = e]
  <2>1. /\ DoOnce /\ Goes("inONCE") /\ calls # <<>>
        /\ k > 0 /\ holder' = [holder EXCEPT !["ONCE"] = g]
    BY <1>3 DEF DoOnce, DoOn, AppEventDo, Runs, Dispatching
  <2>2. "ONCE" \in Props
    BY DEF Props
  <2>3. Head(calls).m \in Nat
    BY <2>1, HeadTyped DEF RegistryInv, EventsInv
  <2>4. k \in Slots /\ holder["ONCE"].events[k].message = Head(calls).m
    <3>1. k \in Slots \cup {0} /\ (k # 0 => holder["ONCE"].events[k].message = Head(calls).m)
      BY <1>1, <2>2, <2>3, ScanFinds
    <3> HIDE DEF k
    <3> QED
      BY <2>1, <3>1
  <2>5. e.message = holder["ONCE"].events[k].message
    <3>1. holder["ONCE"].events[k] \in Event
      BY <1>1, <2>2, <2>4 DEF Holder
    <3> HIDE DEF k
    <3> QED
      BY <3>1 DEF Event
  <2>6. \A j \in Slots : g.events[j] = IF j = k THEN e ELSE holder["ONCE"].events[j]
    <3> HIDE DEF k, e
    <3> QED
      BY <1>1, <2>2, <2>4 DEF Holder
  <2>7. \A q \in Props : holder'[q] = IF q = "ONCE" THEN g ELSE holder[q]
    BY <2>1 DEF RegistryInv, EventsInv
  <2> HIDE DEF g, e, k
  <2> QED
    BY <2>1, <2>2, <2>4, <2>5, <2>6, <2>7 DEF SlotKept
<1> QED
  BY <1>2, <1>3


-----------------------------------------------------------------------------
(* The unfinished dispatches after a step.                                 *)

(* A dispatch that goes on is the same call, of the same event. *)
LEMMA CallsGoes ==
  ASSUME calls \in Seq(CallRecord), calls # <<>>, NEW at, Goes(at)
  PROVE  /\ DOMAIN calls' = DOMAIN calls /\ 1 \in DOMAIN calls
         /\ calls'[1].m = calls[1].m /\ calls'[1].at = at /\ Head(calls) = calls[1]
         /\ \A d \in DOMAIN calls : d # 1 => calls'[d] = calls[d]
<1>1. 1 \in DOMAIN calls /\ calls[1] \in CallRecord /\ Head(calls) = calls[1]
  OBVIOUS
<1>2. calls' = [calls EXCEPT ![1].at = at]
  BY DEF Goes
<1>3. \A d \in DOMAIN calls : d # 1 => calls'[d] = calls[d]
  BY <1>2
<1>4. calls'[1] = [calls[1] EXCEPT !.at = at]
  BY <1>1, <1>2
<1> QED
  BY <1>1, <1>2, <1>3, <1>4 DEF CallRecord

(* When the innermost dispatch returns, the others move up by one. *)
LEMMA CallsTail ==
  ASSUME calls \in Seq(CallRecord), calls # <<>>, calls' = Tail(calls)
  PROVE  /\ \A d \in DOMAIN calls' : d + 1 \in DOMAIN calls /\ calls'[d] = calls[d + 1]
         /\ \A d \in DOMAIN calls : d # 1 => d - 1 \in DOMAIN calls' /\ calls'[d - 1] = calls[d]
         /\ 1 \in DOMAIN calls /\ Head(calls) = calls[1] /\ DOMAIN calls \subseteq Nat \ {0}
         /\ DOMAIN calls' \subseteq Nat \ {0}
OBVIOUS

(* When a dispatch begins, the others move down by one. *)
LEMMA CallsPush ==
  ASSUME calls \in Seq(CallRecord), NEW r \in CallRecord, calls' = <<r>> \o calls
  PROVE  /\ \A d \in DOMAIN calls' : d # 1 => d - 1 \in DOMAIN calls /\ calls'[d] = calls[d - 1]
         /\ \A d \in DOMAIN calls : d + 1 \in DOMAIN calls' /\ calls'[d + 1] = calls[d]
         /\ calls'[1] = r /\ DOMAIN calls \subseteq Nat \ {0} /\ DOMAIN calls' \subseteq Nat \ {0}
OBVIOUS

(* Without event 0, no dispatch is for it.                                 *)
Named == \A d \in DOMAIN calls : calls[d].m # 0

(* Every dispatch is of an event that programs may use. *)
LEMMA NextNamed ==
  ASSUME 0 \notin Accepted, EventsInv, Named, [Next]_vars
  PROVE  Named'
<1> USE DEF EventsInv
<1>1. ASSUME NEW m \in Ids, Emit(m)
      PROVE  Named'
  <2>1. [m |-> m, at |-> "ONCE"] \in CallRecord /\ m # 0
    BY <1>1 DEF CallRecord, Emit
  <2>2. calls' = <<[m |-> m, at |-> "ONCE"]>> \o calls
    BY <1>1 DEF Emit
  <2> QED
    BY <2>1, <2>2, CallsPush DEF Named
<1>2. ASSUME NEW at, Goes(at), calls # <<>>
      PROVE  Named'
  BY <1>2, CallsGoes DEF Named
<1>3. CASE calls # <<>> /\ calls' = Tail(calls)
  BY <1>3, CallsTail DEF Named
<1>4. CASE UNCHANGED calls
  BY <1>4 DEF Named
<1> QED
  BY <1>1, <1>2, <1>3, <1>4
     DEF Next, Register, RemoveEvent, UpdateEvent, Destroy, Create, DoOnce, DoOn, AppEventDo, OnceReturns,
         OnReturns, Dispatching, vars


(* A step of the program or of a dispatch takes no other handler away.     *)
LEMMA NextKeepsHandlers ==
  ASSUME RegistryInv, Named, [Next]_vars, NEW p \in Props, NEW m \in Ids \ {0},
         Registered(p, m), ~Registered(p, m)'
  PROVE  \/ RemoveEvent(p, m) \/ RemoveEvent(p, 0)
         \/ Destroy
         \/ OnceReturns /\ p = "ONCE" /\ m = Head(calls).m
<1>1. EventsInv /\ EventsInv' /\ m # 0
  BY NextEventsInv DEF RegistryInv
<1>2. PICK j \in Slots : holder[p].events[j].message = m
  BY <1>1, RegisteredInSlot
<1>3. \A k \in Slots : holder'[p].events[k].message # m
  BY <1>1, RegisteredInSlotNext
<1>4. holder'[p].events[j].message # holder[p].events[j].message
  BY <1>2, <1>3
<1>5. ASSUME NEW q \in Kinds, NEW i \in Ids, NEW a \in Actions, NEW on \in BOOLEAN,
             Register(q, i, a, on)
      PROVE  FALSE
  <2>1. PICK k \in Slots :
           /\ holder[q].events[k].message \in {0, i} /\ holder'[q].events[k].message = i
           /\ \A r \in Props, l \in Slots : r # q \/ l # k => SlotKept(r, l)
    BY <1>5, RegisterSlots, AppEventsAssumption DEF Props
  <2> QED
    BY <1>1, <1>2, <1>3, <1>4, <2>1 DEF SlotKept
<1>6. ASSUME NEW q \in Kinds, NEW i \in Ids \cup {0}, RemoveEvent(q, i)
      PROVE  RemoveEvent(p, m) \/ RemoveEvent(p, 0)
  <2>1. q \in Props /\ holder' = [holder EXCEPT ![q] = AppEventRemove(@, i)]
    BY <1>6, AppEventsAssumption DEF RemoveEvent, Props
  <2>2. q = p
    BY <1>4, <2>1, RemoveSlots DEF SlotKept
  <2>3. CASE i # 0
    <3>1. i \in Ids \ {0}
      BY <2>3
    <3>2. i = m
      <4>1. /\ p \in Props /\ i \in Ids \ {0} /\ RegistryInv
            /\ holder' = [holder EXCEPT ![p] = AppEventRemove(@, i)]
        BY <2>1, <2>2, <3>1
      <4>2. holder[p].events[j].message # i =>
              holder'[p].events[j].message = holder[p].events[j].message
        BY ONLY <4>1, <1>2, RemoveOneSlots
      <4> QED
        BY <1>2, <1>4, <4>2
    <3> QED
      BY <1>6, <2>2, <3>2
  <2>4. CASE i = 0
    BY <1>6, <2>2, <2>4
  <2> QED
    BY <2>3, <2>4
<1>7. ASSUME NEW q \in Kinds, NEW i \in Ids \cup {0}, NEW a \in Actions \cup {NoAction},
             NEW on \in BOOLEAN, UpdateEvent(q, i, a, on)
      PROVE  FALSE
  <2>1. q \in Props
    BY AppEventsAssumption DEF Props
  <2> QED
    BY <1>4, <1>7, <2>1, UpdateSlots DEF SlotKept
<1>8. CASE DoOnce \/ DoOn
  BY <1>4, <1>8, DispatchSlots
<1>9. CASE OnceReturns
  <2>1. calls # <<>> /\ Head(calls).m \in Ids \cup {0} /\ "ONCE" \in Props
    BY <1>1, <1>9, HeadTyped DEF EventsInv, OnceReturns, Dispatching, Props
  <2>2. CASE ~holder["ONCE"].there
    BY <1>4, <1>9, <2>2 DEF OnceReturns
  <2>3. CASE holder["ONCE"].there
    <3> DEFINE i == Head(calls).m
    <3>1. holder' = [holder EXCEPT !["ONCE"] = AppEventRemove(@, i)]
      BY <1>9, <2>3 DEF OnceReturns
    <3>2. p = "ONCE"
      <4>1. \A q \in Props : q # "ONCE" => holder'[q] = holder[q]
        BY <1>1, <3>1 DEF EventsInv
      <4> QED
        BY <1>4, <4>1
    <3>3. i \in Ids \ {0}
      BY <1>1, <2>1 DEF Named, EventsInv
    <3> HIDE DEF i
    <3>4. \A l \in Slots : holder["ONCE"].events[l].message # i =>
              holder'["ONCE"].events[l].message = holder["ONCE"].events[l].message
      BY <2>1, <3>1, <3>3, RemoveOneSlots
    <3>5. i = m
      BY <1>2, <1>4, <3>2, <3>4
    <3> QED
      BY <1>9, <3>2, <3>5 DEF i
  <2> QED
    BY <2>2, <2>3
<1>10. CASE UNCHANGED holder
  BY <1>4, <1>10
<1> QED
  BY <1>5, <1>6, <1>7, <1>8, <1>9, <1>10 DEF Next, Emit, Create, OnReturns, vars

(* A handler goes only by its own removal, REMOVE ALL, the end of its ONCE *)
(* dispatch or the end of the window (AppEventRemove and its callers in    *)
(* c_windows.c), whatever handlers do while they run.                      *)
(* Event 0, which WINEVENT takes, is excluded: AppEventRemove( hWnd,       *)
(* "ONCE", 0 ) after its ONCE handler would remove every other one.        *)
THEOREM HandlersAlwaysKept ==
  ASSUME 0 \notin Accepted
  PROVE  Spec => HandlersKept
<1>1. RegistryInv /\ Named /\ [Next]_vars => RegistryInv' /\ Named'
  BY NextRefines, NextNamed DEF RegistryInv
<1>2. RegistryInv /\ Named /\ [Next]_vars =>
        [\A p \in Props, m \in Ids \ {0} :
           Registered(p, m) /\ ~Registered(p, m)' =>
             \/ RemoveEvent(p, m) \/ RemoveEvent(p, 0)
             \/ Destroy
             \/ OnceReturns /\ p = "ONCE" /\ m = Head(calls).m]_vars
  BY NextKeepsHandlers
<1>3. Init => Named
  BY DEF Init, Named
<1> QED
  BY <1>1, <1>2, <1>3, InitRefines, PTL DEF Spec, HandlersKept


-----------------------------------------------------------------------------
(* ONCE handlers run once.                                                 *)

(* Below the running dispatch there are handlers, and no event that a ONCE *)
(* handler is running for is dispatched to the ONCE handlers again.        *)
Frames ==
  /\ \A d \in DOMAIN calls : d # 1 => calls[d].at \in {"inONCE", "inON"}
  /\ \A d, e \in DOMAIN calls :
       /\ calls[d].at = "inONCE" /\ calls[e].at \in {"ONCE", "inONCE"}
       /\ calls[d].m = calls[e].m
       => d = e

(* A handler was run once while its dispatch is in it, and never before.   *)
Counts ==
  \A k \in Slots :
    LET e == holder["ONCE"].events[k]
    IN  e.message # 0 => e.runs = IF e.message \in Running THEN 1 ELSE 0

RunsInv == RegistryInv /\ Named /\ Frames /\ Counts

(* The events with a running ONCE handler, as the dispatches move on.      *)
LEMMA RunningGoes ==
  ASSUME EventsInv, Frames, calls # <<>>, NEW at \in {"inONCE", "ON", "inON"}, Goes(at),
         at = "inONCE" => Head(calls).at = "ONCE"
  PROVE  /\ Frames'
         /\ at = "inONCE" => /\ Head(calls).m \notin Running
                             /\ Running' = Running \cup {Head(calls).m}
         /\ at # "inONCE" /\ Head(calls).at # "inONCE" => Running' = Running
         /\ at # "inONCE" /\ Head(calls).at = "inONCE" => Running' = Running \ {Head(calls).m}
<1>1. /\ DOMAIN calls' = DOMAIN calls /\ 1 \in DOMAIN calls
      /\ calls'[1].m = calls[1].m /\ calls'[1].at = at /\ Head(calls) = calls[1]
      /\ \A d \in DOMAIN calls : d # 1 => calls'[d] = calls[d]
  BY CallsGoes DEF EventsInv
<1>2. Frames'
  BY <1>1 DEF Frames
<1>3. Running' = {calls'[d].m : d \in {e \in DOMAIN calls' : calls'[e].at = "inONCE"}}
  BY DEF Running
<1>4. CASE at = "inONCE"
  BY <1>1, <1>2, <1>3, <1>4 DEF Frames, Running
<1>5. CASE at # "inONCE" /\ Head(calls).at # "inONCE"
  BY <1>1, <1>2, <1>3, <1>5 DEF Frames, Running
<1>6. CASE at # "inONCE" /\ Head(calls).at = "inONCE"
  BY <1>1, <1>2, <1>3, <1>6 DEF Frames, Running
<1> QED
  BY <1>4, <1>5, <1>6

(* A dispatch that returns, its ONCE handler done, was running none. *)
LEMMA RunningTail ==
  ASSUME EventsInv, Frames, calls # <<>>, calls' = Tail(calls), Head(calls).at # "inONCE"
  PROVE  Frames' /\ Running' = Running
<1>1. /\ \A d \in DOMAIN calls' : d + 1 \in DOMAIN calls /\ calls'[d] = calls[d + 1]
      /\ \A d \in DOMAIN calls : d # 1 => d - 1 \in DOMAIN calls' /\ calls'[d - 1] = calls[d]
      /\ 1 \in DOMAIN calls /\ Head(calls) = calls[1] /\ DOMAIN calls \subseteq Nat \ {0}
      /\ DOMAIN calls' \subseteq Nat \ {0}
  BY CallsTail DEF EventsInv
<1>2. Frames'
  BY <1>1 DEF Frames
<1>3. Running' = {calls'[d].m : d \in {e \in DOMAIN calls' : calls'[e].at = "inONCE"}}
  BY DEF Running
<1>4. ASSUME NEW m \in Running PROVE m \in Running'
  <2>1. PICK d \in DOMAIN calls : calls[d].at = "inONCE" /\ calls[d].m = m
    BY <1>4 DEF Running
  <2>2. d - 1 \in DOMAIN calls' /\ calls'[d - 1] = calls[d]
    BY <1>1, <2>1
  <2> QED
    BY <1>3, <2>1, <2>2
<1>5. ASSUME NEW m \in Running' PROVE m \in Running
  <2>1. PICK d \in DOMAIN calls' : calls'[d].at = "inONCE" /\ calls'[d].m = m
    BY <1>3, <1>5
  <2> QED
    BY <1>1, <2>1 DEF Running
<1> QED
  BY <1>2, <1>4, <1>5

(* A dispatch that begins runs no ONCE handler yet. *)
LEMMA RunningPush ==
  ASSUME EventsInv, Frames, UserCode, NEW m \in Ids, m \notin Running,
         calls' = <<[m |-> m, at |-> "ONCE"]>> \o calls
  PROVE  Frames' /\ Running' = Running
<1> DEFINE r == [m |-> m, at |-> "ONCE"]
<1>1. r \in CallRecord
  BY DEF CallRecord
<1>2. /\ \A d \in DOMAIN calls' : d # 1 => d - 1 \in DOMAIN calls /\ calls'[d] = calls[d - 1]
      /\ \A d \in DOMAIN calls : d + 1 \in DOMAIN calls' /\ calls'[d + 1] = calls[d]
      /\ calls'[1] = r /\ DOMAIN calls \subseteq Nat \ {0} /\ DOMAIN calls' \subseteq Nat \ {0}
  <2> HIDE DEF r
  <2> QED
    BY <1>1, CallsPush DEF EventsInv, r
<1>3. calls'[1].m = m /\ calls'[1].at = "ONCE"
  BY <1>2
<1> HIDE DEF r
<1>4. \A d \in DOMAIN calls : calls[d].at \in {"inONCE", "inON"}
  <2>1. calls # <<>> => Head(calls) = calls[1] /\ Head(calls).at \in {"inONCE", "inON"}
    BY DEF UserCode, Dispatching, EventsInv
  <2>2. calls = <<>> => DOMAIN calls = {}
    OBVIOUS
  <2> QED
    BY <2>1, <2>2 DEF Frames
<1>5. \A d \in DOMAIN calls : calls[d].at = "inONCE" => calls[d].m # m
  BY DEF Running
<1>6. Frames'
  <2>1. ASSUME NEW d \in DOMAIN calls', d # 1
        PROVE  calls'[d].at \in {"inONCE", "inON"}
    BY <1>2, <1>4, <2>1
  <2>2. ASSUME NEW d \in DOMAIN calls', NEW e \in DOMAIN calls',
               calls'[d].at = "inONCE", calls'[e].at \in {"ONCE", "inONCE"},
               calls'[d].m = calls'[e].m
        PROVE  d = e
    <3>1. d # 1 /\ d - 1 \in DOMAIN calls /\ calls'[d] = calls[d - 1]
      BY <1>2, <1>3, <2>2
    <3>2. e # 1
      BY <1>3, <1>5, <2>2, <3>1
    <3>3. e - 1 \in DOMAIN calls /\ calls'[e] = calls[e - 1]
      BY <1>2, <3>2
    <3>4. d - 1 = e - 1
      BY <2>2, <3>1, <3>3 DEF Frames
    <3>5. d \in Nat /\ e \in Nat
      BY <1>2
    <3> QED
      BY <3>4, <3>5
  <2> QED
    BY <2>1, <2>2 DEF Frames
<1>7. Running' = {calls'[d].m : d \in {e \in DOMAIN calls' : calls'[e].at = "inONCE"}}
  BY DEF Running
<1>8. ASSUME NEW i \in Running PROVE i \in Running'
  <2>1. PICK d \in DOMAIN calls : calls[d].at = "inONCE" /\ calls[d].m = i
    BY <1>8 DEF Running
  <2>2. d + 1 \in DOMAIN calls' /\ calls'[d + 1] = calls[d]
    BY <1>2, <2>1
  <2> QED
    BY <1>7, <2>1, <2>2
<1>9. ASSUME NEW i \in Running' PROVE i \in Running
  <2>1. PICK d \in DOMAIN calls' : calls'[d].at = "inONCE" /\ calls'[d].m = i
    BY <1>7, <1>9
  <2>2. d # 1
    BY <1>3, <2>1
  <2>3. d - 1 \in DOMAIN calls /\ calls'[d] = calls[d - 1]
    BY <1>2, <2>2
  <2> QED
    BY <2>1, <2>3 DEF Running
<1> QED
  BY <1>6, <1>8, <1>9


(* Running a ONCE handler counts it, and no other.                         *)
LEMMA RunSlot ==
  ASSUME RunsInv, calls # <<>>, Frames',
         Head(calls).m \notin Running, Running' = Running \cup {Head(calls).m},
         Runs(holder["ONCE"], AppEventScan(holder["ONCE"], Head(calls).m)),
         holder' = [holder EXCEPT
           !["ONCE"].events[AppEventScan(holder["ONCE"], Head(calls).m)].runs = @ + 1]
  PROVE  Frames' /\ Counts'
<1> DEFINE h == holder["ONCE"]
           i == Head(calls).m
           k == AppEventScan(h, i)
           e == [h.events[k] EXCEPT !.runs = @ + 1]
           g == [h EXCEPT !.events[k] = e]
<1>1. "ONCE" \in Props /\ EventsInv /\ h \in Holder /\ i \in Nat /\ Consistent(h)
  BY HeadTyped DEF Props, RunsInv, RegistryInv, EventsInv
<1>2. k > 0 /\ holder' = [holder EXCEPT !["ONCE"] = g]
  BY DEF Runs
<1>3. i # 0
  <2>1. 1 \in DOMAIN calls /\ Head(calls) = calls[1]
    BY <1>1 DEF EventsInv
  <2> QED
    BY <2>1 DEF RunsInv, Named
<1>4. k \in Slots /\ h.events[k].message = i
  <2>1. k \in Slots \cup {0} /\ (k # 0 => h.events[k].message = i)
    BY <1>1, ScanFinds
  <2> HIDE DEF k
  <2> QED
    BY <1>2, <2>1
<1>5. h.events[k].runs = 0
  <2> HIDE DEF k
  <2> QED
    BY <1>3, <1>4 DEF RunsInv, Counts
<1>6. e.message = i /\ e.runs = 1
  <2>1. h.events[k] \in Event
    BY <1>1, <1>4 DEF Holder
  <2> HIDE DEF k, h
  <2> QED
    BY <1>4, <1>5, <2>1 DEF Event
<1>7. \A j \in Slots : g.events[j] = IF j = k THEN e ELSE h.events[j]
  <2> HIDE DEF k, e
  <2> QED
    BY <1>1, <1>4 DEF Holder
<1>8. \A j \in Slots : h.events[j].message = i => j = k
  <2> HIDE DEF k, i
  <2> QED
    BY <1>1, <1>3, <1>4 DEF Consistent, Occupied
<1>9. holder'["ONCE"] = g
  BY <1>1, <1>2 DEF EventsInv
<1>10. Counts => \A j \in Slots : h.events[j].message # 0 =>
                    h.events[j].runs = IF h.events[j].message \in Running THEN 1 ELSE 0
  BY DEF Counts
<1>11. Running' = Running \cup {i}
  OBVIOUS
<1> HIDE DEF h, i, k, e, g
<1>12. \A j \in Slots :
         holder'["ONCE"].events[j].message # 0 =>
           holder'["ONCE"].events[j].runs =
             IF holder'["ONCE"].events[j].message \in Running' THEN 1 ELSE 0
  <2> SUFFICES ASSUME NEW j \in Slots, g.events[j].message # 0
               PROVE  g.events[j].runs = IF g.events[j].message \in Running' THEN 1 ELSE 0
    BY <1>9
  <2>1. CASE j = k
    BY <1>6, <1>7, <1>11, <2>1
  <2>2. CASE j # k
    BY <1>7, <1>8, <1>10, <1>11, <2>2 DEF RunsInv
  <2> QED
    BY <2>1, <2>2
<1> QED
  BY <1>12 DEF Counts


(* Each step keeps the counts.                                             *)
LEMMA NextRuns ==
  ASSUME Careful, 0 \notin Accepted, RunsInv, [Next]_vars
  PROVE  Frames' /\ Counts'
<1>1. EventsInv /\ "ONCE" \in Props
  BY DEF RunsInv, RegistryInv, Props
<1>2. ASSUME UNCHANGED calls
      PROVE  Frames' /\ Running' = Running
  <2>1. Frames'
    BY <1>2 DEF RunsInv, Frames
  <2>2. Running' = {calls'[d].m : d \in {e \in DOMAIN calls' : calls'[e].at = "inONCE"}}
    BY DEF Running
  <2> QED
    BY <1>2, <2>1, <2>2 DEF Running
<1>3. ASSUME Frames', Running' = Running,
             \A j \in Slots : \/ SlotKept("ONCE", j)
                              \/ holder'["ONCE"].events[j].message = 0
      PROVE  Frames' /\ Counts'
  BY <1>3 DEF RunsInv, Counts, SlotKept
<1>4. ASSUME NEW p \in Kinds, NEW m \in Ids, NEW a \in Actions, NEW on \in BOOLEAN,
             Register(p, m, a, on)
      PROVE  Frames' /\ Counts'
  <2>1. Frames' /\ Running' = Running /\ m \notin Running /\ p \in Props
    BY <1>2, <1>4, AppEventsAssumption DEF Register, Props
  <2>2. PICK k \in Slots :
          /\ holder'[p].events[k].message = m /\ holder'[p].events[k].runs = 0
          /\ \A q \in Props, j \in Slots : q # p \/ j # k => SlotKept(q, j)
    BY <1>4, <2>1, RegisterSlots DEF RunsInv
  <2> QED
    BY <1>1, <2>1, <2>2 DEF RunsInv, Counts, SlotKept
<1>5. ASSUME NEW p \in Kinds, NEW m \in Ids \cup {0}, RemoveEvent(p, m)
      PROVE  Frames' /\ Counts'
  <2>1. p \in Props /\ holder' = [holder EXCEPT ![p] = AppEventRemove(@, m)] /\ UNCHANGED calls
    BY <1>5, AppEventsAssumption DEF RemoveEvent, Props
  <2>2. \A j \in Slots : SlotKept("ONCE", j) \/ holder'["ONCE"].events[j].message = 0
    BY <1>1, <2>1, RemoveSlots DEF RunsInv
  <2> QED
    BY <1>2, <1>3, <2>1, <2>2
<1>6. ASSUME NEW p \in Kinds, NEW m \in Ids \cup {0}, NEW a \in Actions \cup {NoAction},
             NEW on \in BOOLEAN, UpdateEvent(p, m, a, on)
      PROVE  Frames' /\ Counts'
  <2>1. p \in Props /\ UNCHANGED calls
    BY <1>6, AppEventsAssumption DEF UpdateEvent, Props
  <2>2. \A j \in Slots : SlotKept("ONCE", j)
    BY <1>1, <1>6, <2>1, UpdateSlots DEF RunsInv
  <2> QED
    BY <1>2, <1>3, <2>1, <2>2
<1>7. CASE Destroy
  <2>1. holder'["ONCE"] = NoHolder /\ UNCHANGED calls
    BY <1>1, <1>7, RemoveAllTable DEF Destroy
  <2>2. \A j \in Slots : holder'["ONCE"].events[j].message = 0
    BY <2>1 DEF NoHolder, EmptySlot
  <2> QED
    BY <1>2, <1>3, <2>1, <2>2
<1>8. ASSUME NEW m \in Ids, Emit(m)
      PROVE  Frames' /\ Counts'
  <2>1. /\ m \notin Running /\ UserCode /\ UNCHANGED holder
        /\ calls' = <<[m |-> m, at |-> "ONCE"]>> \o calls
    BY <1>8 DEF Emit
  <2>2. Frames' /\ Running' = Running
    BY <1>1, <2>1, RunningPush DEF RunsInv
  <2> QED
    BY <1>3, <2>1, <2>2 DEF SlotKept
<1>9. CASE DoOnce \/ DoOn
  <2>1. calls # <<>> /\ Head(calls).at \in {"ONCE", "ON"}
    BY <1>9 DEF DoOnce, DoOn, AppEventDo, Dispatching
  <2>2. CASE DoOnce /\ Goes("inONCE")
    <3>1. Head(calls).at = "ONCE"
      BY <2>2 DEF DoOnce, AppEventDo, Dispatching
    <3>2. /\ Frames' /\ Head(calls).m \notin Running
          /\ Running' = Running \cup {Head(calls).m}
      BY <1>1, <2>1, <2>2, <3>1, RunningGoes DEF RunsInv
    <3>3. /\ holder["ONCE"].there
          /\ Runs(holder["ONCE"], AppEventScan(holder["ONCE"], Head(calls).m))
          /\ holder' = [holder EXCEPT
               !["ONCE"].events[AppEventScan(holder["ONCE"], Head(calls).m)].runs = @ + 1]
      <4>1. ~Goes("ON")
        BY <1>1, <2>1, <2>2, CallsGoes DEF EventsInv
      <4> QED
        BY <2>2, <4>1 DEF DoOnce, AppEventDo
    <3> QED
      BY <2>1, <3>2, <3>3, RunSlot
  <2>3. CASE ~(DoOnce /\ Goes("inONCE"))
    <3>1. \A j \in Slots : SlotKept("ONCE", j)
      BY <1>9, <2>3, DispatchSlots DEF RunsInv
    <3>2. \/ Goes("ON") \/ Goes("inON")
          \/ calls' = Tail(calls)
      BY <1>9, <2>3 DEF DoOnce, DoOn, AppEventDo
    <3>3. Frames' /\ Running' = Running
      BY <1>1, <2>1, <3>2, RunningGoes, RunningTail DEF RunsInv
    <3> QED
      BY <1>3, <3>1, <3>3
  <2> QED
    BY <2>2, <2>3
<1>10. CASE OnceReturns
  <2>1. calls # <<>> /\ Head(calls).at = "inONCE" /\ Goes("ON")
    BY <1>10 DEF OnceReturns, Dispatching
  <2>2. Frames' /\ Running' = Running \ {Head(calls).m}
    BY <1>1, <2>1, RunningGoes DEF RunsInv
  <2>3. Head(calls).m \in Ids \ {0}
    BY <1>1, <2>1, HeadTyped DEF RunsInv, Named, EventsInv
  <2>4. CASE holder["ONCE"].there
    <3> DEFINE i == Head(calls).m
    <3>1. holder' = [holder EXCEPT !["ONCE"] = AppEventRemove(@, i)]
      BY <1>10, <2>4 DEF OnceReturns
    <3>2. i \in Ids \ {0} /\ i \in Ids \cup {0} /\ Running' = Running \ {i}
      BY <2>2, <2>3
    <3> HIDE DEF i
    <3>3. \A j \in Slots : holder'["ONCE"].events[j].message # i
      BY <1>1, <3>1, <3>2, RemoveOneSlots DEF RunsInv
    <3>4. \A j \in Slots : SlotKept("ONCE", j) \/ holder'["ONCE"].events[j].message = 0
      BY <1>1, <3>1, <3>2, RemoveSlots DEF RunsInv
    <3> QED
      BY <2>2, <3>2, <3>3, <3>4 DEF RunsInv, Counts, SlotKept
  <2>5. CASE ~holder["ONCE"].there
    <3>1. holder["ONCE"] = NoHolder
      BY <1>1, <2>5 DEF RunsInv, RegistryInv, Faithful
    <3>2. holder' = holder
      BY <1>10, <2>5 DEF OnceReturns
    <3>3. \A j \in Slots : holder'["ONCE"].events[j].message = 0
      BY <3>1, <3>2 DEF NoHolder, EmptySlot
    <3> QED
      BY <2>2, <3>3 DEF Counts
  <2> QED
    BY <2>4, <2>5
<1>11. CASE OnReturns
  <2>1. /\ calls # <<>> /\ Head(calls).at # "inONCE" /\ calls' = Tail(calls)
        /\ UNCHANGED holder
    BY <1>11 DEF OnReturns, Dispatching
  <2>2. Frames' /\ Running' = Running
    BY <1>1, <2>1, RunningTail DEF RunsInv
  <2> QED
    BY <1>3, <2>1, <2>2 DEF SlotKept
<1>12. CASE UNCHANGED <<holder, calls>>
  BY <1>2, <1>3, <1>12 DEF SlotKept
<1> QED
  BY <1>4, <1>5, <1>6, <1>7, <1>8, <1>9, <1>10, <1>11, <1>12 DEF Next, Create, vars

(* While Emit and Register leave the events alone whose ONCE handlers run, *)
(* the handler that AppEventRemove takes out after a ONCE dispatch is the  *)
(* one that ran, and it ran once (c_windows.c, AppEventDo).                *)
THEOREM OnceHandlersRunOnce ==
  ASSUME Careful, 0 \notin Accepted
  PROVE  Spec => OnceIsOnce
<1>1. RunsInv /\ [Next]_vars => RunsInv'
  BY NextRefines, NextNamed, NextRuns DEF RunsInv, RegistryInv
<1>2. ASSUME RunsInv, OnceReturns, holder["ONCE"].there,
             AppEventScan(holder["ONCE"], Head(calls).m) > 0
      PROVE  holder["ONCE"].events[AppEventScan(holder["ONCE"], Head(calls).m)].runs = 1
  <2> DEFINE i == Head(calls).m
             k == AppEventScan(holder["ONCE"], i)
  <2>1. /\ calls # <<>> /\ Head(calls).at = "inONCE" /\ EventsInv
        /\ holder["ONCE"] \in Holder
    BY <1>2 DEF OnceReturns, Dispatching, RunsInv, RegistryInv, EventsInv, Props
  <2>2. i \in Nat /\ i # 0 /\ i \in Running
    <3>1. 1 \in DOMAIN calls /\ Head(calls) = calls[1] /\ Head(calls).m \in Nat
      BY <2>1, HeadTyped DEF EventsInv
    <3> QED
      BY <1>2, <2>1, <3>1 DEF RunsInv, Named, Running
  <2>3. k > 0
    BY <1>2
  <2> HIDE DEF i
  <2>4. k \in Slots \cup {0} /\ (k # 0 => holder["ONCE"].events[k].message = i)
    BY <2>1, <2>2, ScanFinds
  <2> HIDE DEF k
  <2>5. holder["ONCE"].events[k].runs = 1
    BY <1>2, <2>2, <2>3, <2>4 DEF RunsInv, Counts
  <2> QED
    BY <2>5 DEF k, i
<1>3. RunsInv =>
        (OnceReturns =>
           LET h == holder["ONCE"]
               k == AppEventScan(h, Head(calls).m)
           IN  h.there /\ k > 0 => h.events[k].runs = 1)
  BY <1>2
<1>4. Init => RunsInv
  <2> SUFFICES ASSUME Init PROVE RunsInv
    OBVIOUS
  <2>1. DOMAIN calls = {} /\ holder["ONCE"] = NoHolder
    BY DEF Init, Props
  <2>2. \A k \in Slots : holder["ONCE"].events[k].message = 0
    BY <2>1 DEF NoHolder, EmptySlot
  <2> QED
    BY <2>1, <2>2, InitRefines DEF RunsInv, Named, Frames, Counts
<1> QED
  BY <1>1, <1>3, <1>4, PTL DEF Spec, OnceIsOnce

-----------------------------------------------------------------------------
(* Removing and inserting an element of a sequence, and cutting it off.    *)

(* The elements behind the removed one move up. *)
LEMMA RemoveAtIs ==
  ASSUME NEW T, NEW s \in Seq(T), NEW k \in 1 .. Len(s)
  PROVE  /\ Seqs!RemoveAt(s, k) \in Seq(T) /\ Len(Seqs!RemoveAt(s, k)) = Len(s) - 1
         /\ \A i \in 1 .. Len(s) - 1 : Seqs!RemoveAt(s, k)[i] = IF i < k THEN s[i] ELSE s[i + 1]
<1> DEFINE n == Len(s)
           a == SubSeq(s, 1, k - 1)
           b == SubSeq(s, k + 1, n)
<1>1. n \in Nat /\ k \in 1 .. n /\ \A i \in 1 .. n : s[i] \in T
  OBVIOUS
<1> HIDE DEF n
<1>2. k - 1 \in Int /\ k + 1 \in Int /\ n \in Int
      /\ (\A i \in 1 .. k - 1 : s[i] \in T) /\ (\A i \in k + 1 .. n : s[i] \in T)
  BY <1>1
<1>3. /\ a \in Seq(T) /\ Len(a) = IF 1 <= k - 1 THEN k - 1 - 1 + 1 ELSE 0
      /\ \A i \in 1 .. k - 1 - 1 + 1 : a[i] = s[1 + i - 1]
  BY <1>2, SubSeqProperties
<1>4. /\ b \in Seq(T) /\ Len(b) = IF k + 1 <= n THEN n - (k + 1) + 1 ELSE 0
      /\ \A i \in 1 .. n - (k + 1) + 1 : b[i] = s[k + 1 + i - 1]
  BY <1>2, SubSeqProperties
<1> HIDE DEF a, b
<1>5. /\ Len(a) = k - 1 /\ \A i \in 1 .. k - 1 : a[i] = s[i]
  BY <1>1, <1>3
<1>6. /\ Len(b) = n - k /\ \A i \in 1 .. n - k : b[i] = s[k + i]
  BY <1>1, <1>4
<1>7. /\ a \o b \in Seq(T) /\ Len(a \o b) = Len(a) + Len(b)
      /\ \A i \in 1 .. Len(a) + Len(b) : (a \o b)[i] = IF i <= Len(a) THEN a[i] ELSE b[i - Len(a)]
  BY <1>3, <1>4, ConcatProperties
<1>8. Len(a \o b) = n - 1
  BY <1>1, <1>5, <1>6, <1>7
<1>9. \A i \in 1 .. n - 1 : (a \o b)[i] = IF i < k THEN s[i] ELSE s[i + 1]
  <2> SUFFICES ASSUME NEW i \in 1 .. n - 1
               PROVE  (a \o b)[i] = IF i < k THEN s[i] ELSE s[i + 1]
    OBVIOUS
  <2>1. (a \o b)[i] = IF i <= k - 1 THEN a[i] ELSE b[i - (k - 1)]
    BY <1>1, <1>5, <1>6, <1>7
  <2>2. CASE i <= k - 1
    BY <1>1, <1>5, <2>1, <2>2
  <2>3. CASE ~(i <= k - 1)
    <3>1. i - (k - 1) \in 1 .. n - k /\ k + (i - (k - 1)) = i + 1
      BY <1>1, <2>3
    <3> QED
      BY <1>1, <1>6, <2>1, <2>3, <3>1
  <2> QED
    BY <2>2, <2>3
<1>10. Seqs!RemoveAt(s, k) = a \o b
  BY DEF Seqs!RemoveAt, a, b, n
<1> QED
  BY <1>7, <1>8, <1>9, <1>10 DEF n

(* The elements from there on move down. *)
LEMMA InsertAtIs ==
  ASSUME NEW T, NEW s \in Seq(T), NEW k \in 1 .. Len(s), NEW e \in T
  PROVE  /\ Seqs!InsertAt(s, k, e) \in Seq(T) /\ Len(Seqs!InsertAt(s, k, e)) = Len(s) + 1
         /\ \A i \in 1 .. Len(s) + 1 :
              Seqs!InsertAt(s, k, e)[i] = IF i < k THEN s[i] ELSE IF i = k THEN e ELSE s[i - 1]
<1> DEFINE n == Len(s)
           a == SubSeq(s, 1, k - 1)
           b == SubSeq(s, k, n)
           c == a \o <<e>>
<1>1. n \in Nat /\ k \in 1 .. n /\ \A i \in 1 .. n : s[i] \in T
  OBVIOUS
<1> HIDE DEF n
<1>2. k - 1 \in Int /\ k \in Int /\ n \in Int
      /\ (\A i \in 1 .. k - 1 : s[i] \in T) /\ (\A i \in k .. n : s[i] \in T)
  BY <1>1
<1>3. /\ a \in Seq(T) /\ Len(a) = IF 1 <= k - 1 THEN k - 1 - 1 + 1 ELSE 0
      /\ \A i \in 1 .. k - 1 - 1 + 1 : a[i] = s[1 + i - 1]
  BY <1>2, SubSeqProperties
<1>4. /\ b \in Seq(T) /\ Len(b) = IF k <= n THEN n - k + 1 ELSE 0
      /\ \A i \in 1 .. n - k + 1 : b[i] = s[k + i - 1]
  BY <1>2, SubSeqProperties
<1> HIDE DEF a, b
<1>5. /\ Len(a) = k - 1 /\ \A i \in 1 .. k - 1 : a[i] = s[i]
  BY <1>1, <1>3
<1>6. /\ Len(b) = n - k + 1 /\ \A i \in 1 .. n - k + 1 : b[i] = s[k + i - 1]
  BY <1>1, <1>4
<1>7. /\ <<e>> \in Seq(T) /\ Len(<<e>>) = 1 /\ <<e>>[1] = e
  OBVIOUS
<1> DEFINE d == <<e>>
<1> HIDE DEF d
<1>8. /\ a \o d \in Seq(T) /\ Len(a \o d) = Len(a) + Len(d)
      /\ \A i \in 1 .. Len(a) + Len(d) : (a \o d)[i] = IF i <= Len(a) THEN a[i] ELSE d[i - Len(a)]
  BY <1>3, <1>7, ConcatProperties DEF d
<1>9. c \in Seq(T) /\ Len(c) = k /\ \A i \in 1 .. k : c[i] = IF i < k THEN s[i] ELSE e
  BY <1>1, <1>5, <1>7, <1>8 DEF d
<1> HIDE DEF c
<1>10. /\ c \o b \in Seq(T) /\ Len(c \o b) = Len(c) + Len(b)
       /\ \A i \in 1 .. Len(c) + Len(b) : (c \o b)[i] = IF i <= Len(c) THEN c[i] ELSE b[i - Len(c)]
  BY <1>4, <1>9, ConcatProperties
<1>11. Len(c \o b) = n + 1
  BY <1>1, <1>6, <1>9, <1>10
<1>12. \A i \in 1 .. n + 1 : (c \o b)[i] = IF i < k THEN s[i] ELSE IF i = k THEN e ELSE s[i - 1]
  <2> SUFFICES ASSUME NEW i \in 1 .. n + 1
               PROVE  (c \o b)[i] = IF i < k THEN s[i] ELSE IF i = k THEN e ELSE s[i - 1]
    OBVIOUS
  <2>1. (c \o b)[i] = IF i <= k THEN c[i] ELSE b[i - k]
    BY <1>1, <1>6, <1>9, <1>10
  <2>2. CASE i <= k
    BY <1>1, <1>9, <2>1, <2>2
  <2>3. CASE ~(i <= k)
    <3>1. i - k \in 1 .. n - k + 1 /\ k + (i - k) - 1 = i - 1
      BY <1>1, <2>3
    <3> QED
      BY <1>1, <1>6, <2>1, <2>3, <3>1
  <2> QED
    BY <2>2, <2>3
<1>13. Seqs!InsertAt(s, k, e) = c \o b
  BY DEF Seqs!InsertAt, a, b, c, n
<1> QED
  BY <1>10, <1>11, <1>12, <1>13 DEF n

(* The first elements of a sequence. *)
LEMMA PrefixIs ==
  ASSUME NEW T, NEW s \in Seq(T), NEW k \in 0 .. Len(s)
  PROVE  /\ SubSeq(s, 1, k) \in Seq(T) /\ Len(SubSeq(s, 1, k)) = k
         /\ \A i \in 1 .. k : SubSeq(s, 1, k)[i] = s[i]
<1> DEFINE n == Len(s)
<1>1. n \in Nat /\ k \in 0 .. n /\ \A i \in 1 .. n : s[i] \in T
  OBVIOUS
<1> HIDE DEF n
<1>2. 1 \in Int /\ k \in Int /\ \A i \in 1 .. k : s[i] \in T
  BY <1>1
<1>3. /\ SubSeq(s, 1, k) \in Seq(T) /\ Len(SubSeq(s, 1, k)) = IF 1 <= k THEN k - 1 + 1 ELSE 0
      /\ \A i \in 1 .. k - 1 + 1 : SubSeq(s, 1, k)[i] = s[1 + i - 1]
  BY <1>2, SubSeqProperties
<1> QED
  BY <1>1, <1>3

(* A new first element. *)
LEMMA ConsIs ==
  ASSUME NEW T, NEW s \in Seq(T), NEW e \in T
  PROVE  /\ <<e>> \o s \in Seq(T) /\ Len(<<e>> \o s) = Len(s) + 1
         /\ \A i \in 1 .. Len(s) + 1 : (<<e>> \o s)[i] = IF i = 1 THEN e ELSE s[i - 1]
<1> DEFINE d == <<e>>
<1>1. d \in Seq(T) /\ Len(d) = 1 /\ d[1] = e
  OBVIOUS
<1>2. Len(s) \in Nat
  OBVIOUS
<1> HIDE DEF d
<1>3. /\ d \o s \in Seq(T) /\ Len(d \o s) = Len(d) + Len(s)
      /\ \A i \in 1 .. Len(d) + Len(s) : (d \o s)[i] = IF i <= Len(d) THEN d[i] ELSE s[i - Len(d)]
  BY <1>1, ConcatProperties
<1> QED
  BY <1>1, <1>2, <1>3 DEF d

-----------------------------------------------------------------------------
(* The list of recent files and its menu. *)

MruItem == [id : Nat, place : Nat, file : Files \cup {Empty}, enabled : BOOLEAN]
MruEntry == [name : Seq(Nat), file : Files, slot : Nat]
Publics == UNION {[S -> Nat] : S \in SUBSET Seq(Nat)}
MruMemory == [count : Nat, list : Seq(MruEntry), id : Seq(Nat), menu : Seq(MruItem),
              public : Publics, made : Nat]

(* Each entry of the list has its item at the same place in the menu, found *)
(* through the PUBLIC variable of its name.                                *)
Linked(m) ==
  /\ m \in MruMemory
  /\ m.count = 0 <=> m.list = <<>>
  /\ m.list = <<>> =>
       /\ Len(m.menu) = 1
       /\ m.id \in DOMAIN m.public /\ m.menu[1].id = m.public[m.id]
  /\ m.list # <<>> => Len(m.menu) = Len(m.list)
  /\ \A i \in DOMAIN m.list :
       /\ m.list[i].name \in DOMAIN m.public /\ m.menu[i].id = m.public[m.list[i].name]
       /\ m.list[i].slot # 0
       /\ m.list[i].name = m.id \/ m.list[i].name = Append(m.id, m.list[i].slot)
  /\ \A i, j \in DOMAIN m.list : m.list[i].slot = m.list[j].slot => i = j
  /\ \A i \in DOMAIN m.menu : m.menu[i].id # 0 /\ m.menu[i].id <= m.made
  /\ \A i, j \in DOMAIN m.menu : m.menu[i].id = m.menu[j].id => i = j

(* The items are those of the entries, in order. *)
Placed(m) ==
  \A i \in DOMAIN m.list :
    m.menu[i].place = i /\ m.menu[i].file = m.list[i].file /\ m.menu[i].enabled = TRUE

(* The names the list shows, each once. *)
NamesIn(m) == [i \in DOMAIN m.list |-> Upper[m.list[i].file]]
Apart(m) == \A i, j \in DOMAIN m.list : Upper[m.list[i].file] = Upper[m.list[j].file] => i = j

MruOk(m) == Linked(m) /\ Placed(m) /\ Apart(m) /\ Len(m.list) <= MaxMru

(* The fields of the program's memory. *)
LEMMA MemoryFields ==
  ASSUME NEW m, Linked(m)
  PROVE  /\ m \in MruMemory
         /\ m.count \in Nat /\ m.list \in Seq(MruEntry) /\ m.id \in Seq(Nat)
         /\ m.menu \in Seq(MruItem) /\ m.public \in Publics /\ m.made \in Nat
         /\ Len(m.list) \in Nat /\ DOMAIN m.list = 1 .. Len(m.list)
         /\ \A i \in DOMAIN m.list : m.list[i] \in MruEntry
         /\ Len(m.menu) \in Nat /\ DOMAIN m.menu = 1 .. Len(m.menu)
         /\ \A i \in DOMAIN m.menu : m.menu[i] \in MruItem
         /\ DOMAIN m.list \subseteq DOMAIN m.menu
         /\ 1 \in DOMAIN m.menu
         /\ m.list # <<>> => 1 \in DOMAIN m.list
<1>1. /\ m \in MruMemory
      /\ m.count \in Nat /\ m.list \in Seq(MruEntry) /\ m.id \in Seq(Nat)
      /\ m.menu \in Seq(MruItem) /\ m.public \in Publics /\ m.made \in Nat
  BY DEF Linked, MruMemory
<1> DEFINE s == m.list
           t == m.menu
<1>2. s \in Seq(MruEntry) /\ t \in Seq(MruItem)
      /\ (s = <<>> => Len(t) = 1) /\ (s # <<>> => Len(t) = Len(s))
  BY <1>1 DEF Linked
<1> HIDE DEF s, t
<1>3. /\ Len(s) \in Nat /\ DOMAIN s = 1 .. Len(s) /\ \A i \in DOMAIN s : s[i] \in MruEntry
      /\ Len(t) \in Nat /\ DOMAIN t = 1 .. Len(t) /\ \A i \in DOMAIN t : t[i] \in MruItem
      /\ s = <<>> <=> Len(s) = 0
  BY <1>2, EmptySeq
<1>4. DOMAIN s \subseteq DOMAIN t /\ 1 \in DOMAIN t /\ (s # <<>> => 1 \in DOMAIN s)
  <2>1. CASE s = <<>>
    <3>1. Len(s) = 0 /\ Len(t) = 1
      BY <1>2, <1>3, <2>1
    <3>2. DOMAIN s = {} /\ DOMAIN t = {1}
      BY <1>3, <3>1
    <3> QED
      BY <2>1, <3>2
  <2>2. CASE s # <<>>
    <3>1. Len(s) # 0 /\ Len(t) = Len(s)
      BY <1>2, <1>3, <2>2
    <3> DEFINE k == Len(s)
    <3>2. k \in Nat /\ k # 0 /\ DOMAIN s = 1 .. k /\ DOMAIN t = 1 .. k
      BY <1>3, <3>1
    <3> HIDE DEF k
    <3> QED
      BY <2>2, <3>2
  <2> QED
    BY <2>1, <2>2
<1> QED
  BY <1>1, <1>3, <1>4 DEF s, t

(* An item is found by the name of its entry ... *)
LEMMA ItemFound ==
  ASSUME NEW m, Linked(m), NEW i \in DOMAIN m.list
  PROVE  /\ MenuId(m, m.list[i].name) = m.menu[i].id
         /\ Positions(m, m.list[i].name) = {i}
         /\ i \in DOMAIN m.menu
<1>1. i \in DOMAIN m.menu
  BY MemoryFields
<1>2. MenuId(m, m.list[i].name) = m.menu[i].id
  BY DEF Linked, MenuId
<1> QED
  BY <1>1, <1>2 DEF Positions, Linked

(* ... or, while the list is empty, by the first name. *)
LEMMA OnlyItemFound ==
  ASSUME NEW m, Linked(m), m.list = <<>>
  PROVE  /\ MenuId(m, m.id) = m.menu[1].id
         /\ Positions(m, m.id) = {1} /\ DOMAIN m.menu = {1}
<1>1. DOMAIN m.menu = {1}
  BY MemoryFields DEF Linked
<1>2. MenuId(m, m.id) = m.menu[1].id
  BY DEF Linked, MenuId
<1> QED
  BY <1>1, <1>2 DEF Positions, Linked

(* An entry goes with its item. *)
WithoutEntry(m, k) ==
  [m EXCEPT !.list = Seqs!RemoveAt(m.list, k), !.menu = Seqs!RemoveAt(m.menu, k)]

(* An entry dropped from the list leaves the others linked. *)
LEMMA EntryDropped ==
  ASSUME NEW m, Linked(m), NEW k \in DOMAIN m.list, Len(m.list) > 1
  PROVE  /\ Linked(WithoutEntry(m, k))
         /\ WithoutEntry(m, k).id = m.id /\ WithoutEntry(m, k).count = m.count
         /\ Len(WithoutEntry(m, k).list) = Len(m.list) - 1 /\ WithoutEntry(m, k).list # <<>>
         /\ \A i \in DOMAIN WithoutEntry(m, k).list :
              LET j == IF i < k THEN i ELSE i + 1
              IN  /\ j \in DOMAIN m.list /\ WithoutEntry(m, k).list[i] = m.list[j]
                  /\ WithoutEntry(m, k).menu[i] = m.menu[j]
<1> DEFINE d == WithoutEntry(m, k)
           n == Len(m.list)
           s == Seqs!RemoveAt(m.list, k)
           t == Seqs!RemoveAt(m.menu, k)
           At(i) == IF i < k THEN i ELSE i + 1
<1> HIDE DEF d
<1>0. /\ m \in MruMemory /\ n \in Nat /\ n > 1 /\ k \in 1 .. n
      /\ DOMAIN m.list = 1 .. n /\ DOMAIN m.menu = 1 .. n /\ Len(m.menu) = n
      /\ m.list \in Seq(MruEntry) /\ m.menu \in Seq(MruItem)
      /\ m.list # <<>>
  <2>1. m.list # <<>>
    BY MemoryFields, EmptySeq
  <2>2. Len(m.menu) = Len(m.list)
    BY <2>1 DEF Linked
  <2> QED
    BY <2>1, <2>2, MemoryFields
<1>1. /\ s \in Seq(MruEntry) /\ Len(s) = n - 1
      /\ \A i \in 1 .. n - 1 : s[i] = IF i < k THEN m.list[i] ELSE m.list[i + 1]
  <2>1. k \in 1 .. Len(m.list)
    BY <1>0
  <2> HIDE DEF n
  <2>2. /\ s \in Seq(MruEntry) /\ Len(s) = Len(m.list) - 1
        /\ \A i \in 1 .. Len(m.list) - 1 : s[i] = IF i < k THEN m.list[i] ELSE m.list[i + 1]
    BY <1>0, <2>1, RemoveAtIs
  <2> QED
    BY <1>0, <2>2 DEF n
<1>2. /\ t \in Seq(MruItem) /\ Len(t) = n - 1
      /\ \A i \in 1 .. n - 1 : t[i] = IF i < k THEN m.menu[i] ELSE m.menu[i + 1]
  <2>1. k \in 1 .. Len(m.menu)
    BY <1>0
  <2> HIDE DEF n
  <2>2. /\ t \in Seq(MruItem) /\ Len(t) = Len(m.menu) - 1
        /\ \A i \in 1 .. Len(m.menu) - 1 : t[i] = IF i < k THEN m.menu[i] ELSE m.menu[i + 1]
    <3> DEFINE u == m.menu
    <3>1. t = Seqs!RemoveAt(u, k) /\ u \in Seq(MruItem) /\ k \in 1 .. Len(u)
      BY <1>0, <2>1
    <3> HIDE DEF t, u
    <3>2. /\ t \in Seq(MruItem) /\ Len(t) = Len(u) - 1
          /\ \A i \in 1 .. Len(u) - 1 : t[i] = IF i < k THEN u[i] ELSE u[i + 1]
      BY ONLY <3>1, RemoveAtIs
    <3> QED
      BY <3>2 DEF u
  <2> QED
    BY <1>0, <2>2
<1> HIDE DEF s, t, n
<1>3. /\ d.list = s /\ d.menu = t /\ d.id = m.id /\ d.count = m.count /\ d.public = m.public
      /\ d.made = m.made
  BY <1>0 DEF s, t, MruMemory, WithoutEntry, d
<1>4. d \in MruMemory
  <2>1. d = [m EXCEPT !.list = s, !.menu = t]
    BY DEF s, t, WithoutEntry, d
  <2> QED
    BY <1>0, <1>1, <1>2, <2>1 DEF MruMemory
<1>5. DOMAIN s = 1 .. n - 1 /\ DOMAIN t = 1 .. n - 1 /\ s # <<>>
  <2>1. DOMAIN s = 1 .. n - 1 /\ DOMAIN t = 1 .. n - 1
    BY <1>1, <1>2
  <2>2. 1 \in 1 .. n - 1
    BY <1>0
  <2>3. DOMAIN s # {} /\ DOMAIN <<>> = {}
    BY <2>1, <2>2
  <2> QED
    BY <2>1, <2>3
<1>6. /\ \A i \in 1 .. n - 1 : At(i) \in 1 .. n /\ s[i] = m.list[At(i)] /\ t[i] = m.menu[At(i)]
      /\ \A i, j \in 1 .. n - 1 : At(i) = At(j) => i = j
  BY <1>0, <1>1, <1>2
<1> HIDE DEF At
<1>7. \A i \in DOMAIN s :
        /\ s[i].name \in DOMAIN m.public /\ t[i].id = m.public[s[i].name]
        /\ s[i].slot # 0
        /\ s[i].name = m.id \/ s[i].name = Append(m.id, s[i].slot)
  <2>1. \A i \in 1 .. n :
          /\ m.list[i].name \in DOMAIN m.public /\ m.menu[i].id = m.public[m.list[i].name]
          /\ m.list[i].slot # 0
          /\ m.list[i].name = m.id \/ m.list[i].name = Append(m.id, m.list[i].slot)
    BY <1>0 DEF Linked
  <2> SUFFICES ASSUME NEW i \in 1 .. n - 1
               PROVE  /\ s[i].name \in DOMAIN m.public /\ t[i].id = m.public[s[i].name]
                      /\ s[i].slot # 0
                      /\ s[i].name = m.id \/ s[i].name = Append(m.id, s[i].slot)
    BY <1>5
  <2> QED
    BY <1>6, <2>1
<1>8. \A i, j \in DOMAIN s : s[i].slot = s[j].slot => i = j
  BY <1>0, <1>5, <1>6 DEF Linked
<1>9. /\ \A i \in DOMAIN t : t[i].id # 0 /\ t[i].id <= m.made
      /\ \A i, j \in DOMAIN t : t[i].id = t[j].id => i = j
  <2>1. /\ \A i \in 1 .. n : m.menu[i].id # 0 /\ m.menu[i].id <= m.made
        /\ \A i, j \in 1 .. n : m.menu[i].id = m.menu[j].id => i = j
    BY <1>0 DEF Linked
  <2>2. \A i \in 1 .. n - 1 : t[i].id # 0 /\ t[i].id <= m.made
    BY <1>6, <2>1
  <2>3. \A i, j \in 1 .. n - 1 : t[i].id = t[j].id => i = j
    BY <1>6, <2>1
  <2> QED
    BY <1>5, <2>2, <2>3
<1>10. (m.count = 0 <=> s = <<>>) /\ Len(t) = Len(s)
  BY <1>0, <1>1, <1>2, <1>5 DEF Linked
<1>11. Linked(d)
  <2>1. /\ d.count = 0 <=> d.list = <<>>
        /\ d.list # <<>> /\ Len(d.menu) = Len(d.list)
    BY <1>3, <1>5, <1>10
  <2>2. \A i \in DOMAIN d.list :
          /\ d.list[i].name \in DOMAIN d.public /\ d.menu[i].id = d.public[d.list[i].name]
          /\ d.list[i].slot # 0
          /\ d.list[i].name = d.id \/ d.list[i].name = Append(d.id, d.list[i].slot)
    BY <1>3, <1>7
  <2>3. \A i, j \in DOMAIN d.list : d.list[i].slot = d.list[j].slot => i = j
    BY <1>3, <1>8
  <2>4. /\ \A i \in DOMAIN d.menu : d.menu[i].id # 0 /\ d.menu[i].id <= d.made
        /\ \A i, j \in DOMAIN d.menu : d.menu[i].id = d.menu[j].id => i = j
    BY <1>3, <1>9
  <2> QED
    BY <1>4, <2>1, <2>2, <2>3, <2>4 DEF Linked
<1> QED
  BY <1>0, <1>1, <1>3, <1>5, <1>6, <1>11 DEF At, n, d

(* ReorderMRUList takes the entry and its item out. *)
LEMMA ReorderDrops ==
  ASSUME NEW m, Linked(m), NEW k \in DOMAIN m.list
  PROVE  Reorder(m, k) = WithoutEntry(m, k)
<1> DEFINE t == Seqs!RemoveAt(m.menu, k)
           s == Seqs!RemoveAt(m.list, k)
<1>1. m \in MruMemory
  BY MemoryFields
<1>2. RemoveMenuItem(m, m.list[k].name) = [m EXCEPT !.menu = t]
  <2>1. Positions(m, m.list[k].name) = {k}
    BY ItemFound
  <2>2. (CHOOSE j \in Positions(m, m.list[k].name) : TRUE) = k
    BY <2>1
  <2> QED
    BY <2>1, <2>2 DEF RemoveMenuItem
<1>3. Reorder(m, k) = [[m EXCEPT !.menu = t] EXCEPT !.list = s]
  <2>1. [m EXCEPT !.menu = t].list = m.list
    BY <1>1 DEF MruMemory
  <2> QED
    BY <1>2, <2>1 DEF Reorder
<1> HIDE DEF s, t
<1>4. [[m EXCEPT !.menu = t] EXCEPT !.list = s] = [m EXCEPT !.list = s, !.menu = t]
  BY <1>1 DEF MruMemory
<1> QED
  BY <1>3, <1>4 DEF s, t, WithoutEntry

(* _ModifyMenuItem changes the item of an entry only. *)
Painted(menu, k, place, file) ==
  [i \in DOMAIN menu |->
     IF i = k THEN [id |-> menu[i].id, place |-> place, file |-> file, enabled |-> TRUE]
     ELSE menu[i]]

(* Modifying the item of a name changes that item alone. *)
LEMMA ItemModified ==
  ASSUME NEW m, Linked(m), NEW k \in DOMAIN m.menu, NEW name, Positions(m, name) = {k},
         NEW p \in Nat, NEW f \in Files \cup {Empty}
  PROVE  /\ ModifyMenuItem(m, name, p, f) = [m EXCEPT !.menu = Painted(m.menu, k, p, f)]
         /\ Painted(m.menu, k, p, f) \in Seq(MruItem)
         /\ Len(Painted(m.menu, k, p, f)) = Len(m.menu)
         /\ DOMAIN Painted(m.menu, k, p, f) = DOMAIN m.menu
         /\ \A i \in DOMAIN m.menu : Painted(m.menu, k, p, f)[i].id = m.menu[i].id
<1> DEFINE t == Painted(m.menu, k, p, f)
<1>1. \A i \in DOMAIN m.menu : m.menu[i].id = MenuId(m, name) <=> i = k
  BY DEF Positions
<1>2. t = [i \in DOMAIN m.menu |->
             IF m.menu[i].id = MenuId(m, name)
             THEN [id |-> m.menu[i].id, place |-> p, file |-> f, enabled |-> TRUE]
             ELSE m.menu[i]]
  BY <1>1 DEF Painted
<1>3. ModifyMenuItem(m, name, p, f) = [m EXCEPT !.menu = t]
  BY <1>2 DEF ModifyMenuItem
<1>4. DOMAIN m.menu = 1 .. Len(m.menu) /\ Len(m.menu) \in Nat
      /\ \A i \in DOMAIN m.menu : m.menu[i] \in MruItem
  BY MemoryFields
<1>5. \A i \in DOMAIN m.menu :
        [id |-> m.menu[i].id, place |-> p, file |-> f, enabled |-> TRUE] \in MruItem
  BY <1>4 DEF MruItem
<1>6. t \in [1 .. Len(m.menu) -> MruItem] /\ \A i \in DOMAIN m.menu : t[i].id = m.menu[i].id
  BY <1>4, <1>5 DEF Painted
<1> HIDE DEF t
<1>7. t \in Seq(MruItem) /\ Len(t) = Len(m.menu) /\ DOMAIN t = DOMAIN m.menu
  BY <1>4, <1>6
<1> QED
  BY <1>3, <1>6, <1>7 DEF t

(* The menu may change but for the controls of its items. *)
LEMMA MenuRepainted ==
  ASSUME NEW m, Linked(m), NEW t \in Seq(MruItem), Len(t) = Len(m.menu),
         \A i \in DOMAIN m.menu : t[i].id = m.menu[i].id
  PROVE  /\ Linked([m EXCEPT !.menu = t])
         /\ [m EXCEPT !.menu = t].menu = t /\ [m EXCEPT !.menu = t].list = m.list
         /\ [m EXCEPT !.menu = t].id = m.id /\ [m EXCEPT !.menu = t].count = m.count
<1> DEFINE d == [m EXCEPT !.menu = t]
<1>0. m \in MruMemory /\ DOMAIN m.list \subseteq DOMAIN m.menu /\ 1 \in DOMAIN m.menu
  BY MemoryFields
<1>1. DOMAIN t = DOMAIN m.menu
  BY MemoryFields
<1>2. /\ d.menu = t /\ d.list = m.list /\ d.id = m.id /\ d.count = m.count
      /\ d.public = m.public /\ d.made = m.made
  BY <1>0 DEF MruMemory
<1>3. d \in MruMemory
  BY <1>0 DEF MruMemory
<1> HIDE DEF d
<1>4. Linked(d)
  BY <1>0, <1>1, <1>2, <1>3 DEF Linked
<1> QED
  BY <1>2, <1>4 DEF d

(* A set of natural numbers has a least one. *)
LEMMA LeastNat ==
  ASSUME NEW T, T \subseteq Nat, T # {}
  PROVE  \E x \in T : \A y \in T : x <= y
<1>1. PICK k \in T : \A j \in T : ~ (<<j, k>> \in OpToRel(<, Nat))
  BY WFMin, NatLessThanWellFounded
<1>2. \A j \in T : ~ (<<j, k>> \in {ss \in Nat \X Nat : ss[1] < ss[2]})
  BY ONLY <1>1, Zenon DEF OpToRel
<1>3. \A j \in T : ~ (j < k)
  BY <1>2
<1>4. \A j \in T : k <= j
  BY <1>3
<1> QED
  BY <1>4

(* A set that holds 0 and with each number the next one holds them all. *)
LEMMA NatSetInduction ==
  ASSUME NEW S, 0 \in S, \A n \in Nat : n \in S => n + 1 \in S
  PROVE  Nat \subseteq S
<1> SUFFICES ASSUME Nat \ S # {} PROVE FALSE
  OBVIOUS
<1>1. PICK x \in Nat \ S : \A y \in Nat \ S : x <= y
  <2>1. Nat \ S \subseteq Nat
    OBVIOUS
  <2> QED
    BY <2>1, LeastNat
<1>2. x - 1 \in Nat /\ x - 1 \notin Nat \ S
  BY <1>1
<1> QED
  BY <1>1, <1>2

(* A list leaves one of the first numbers free, and AddMenuElement takes   *)
(* the first of them.                                                      *)
LEMMA FreeSlotIs ==
  ASSUME NEW m, Linked(m)
  PROVE  /\ FreeSlot(m) \in Nat /\ FreeSlot(m) # 0
         /\ \A i \in DOMAIN m.list : m.list[i].slot # FreeSlot(m)
<1> DEFINE n == Len(m.list)
           R == 1 .. n + 1
           Free == {x \in R : \A i \in DOMAIN m.list : m.list[i].slot # x}
           f == [x \in R |-> CHOOSE i \in DOMAIN m.list : m.list[i].slot = x]
<1>1. n \in Nat /\ DOMAIN m.list = 1 .. n
  BY MemoryFields
<1> HIDE DEF n
<1>2. Free # {}
  <2> SUFFICES ASSUME Free = {} PROVE FALSE
    OBVIOUS
  <2>1. \A x \in R : \E i \in DOMAIN m.list : m.list[i].slot = x
    OBVIOUS
  <2>2. \A x \in R : f[x] \in 1 .. n /\ m.list[f[x]].slot = x
    BY <1>1, <2>1
  <2>3. f \in [R -> 1 .. n]
    BY <2>2
  <2> DEFINE D == 1 .. n
  <2>4. 1 \in Int /\ n \in Int /\ n + 1 \in Int
    BY <1>1
  <2>5. IsFiniteSet(R) /\ Cardinality(R) = IF 1 > n + 1 THEN 0 ELSE n + 1 - 1 + 1
    BY ONLY <2>4, FS_Interval
  <2>6. IsFiniteSet(D) /\ Cardinality(D) = IF 1 > n THEN 0 ELSE n - 1 + 1
    BY ONLY <2>4, FS_Interval
  <2>7. Cardinality(D) < Cardinality(R)
    BY <1>1, <2>5, <2>6
  <2> HIDE DEF R, D, f
  <2>8. f \in [R -> D]
    BY <2>3 DEF D
  <2>9. \E x, y \in R : x # y /\ f[x] = f[y]
    BY ONLY <2>5, <2>6, <2>7, <2>8, FS_PigeonHole
  <2> QED
    BY <2>2, <2>9
<1>3. Free \subseteq Nat
  BY <1>1
<1> HIDE DEF Free
<1>4. PICK x \in Free : \A y \in Free : x <= y
  BY <1>2, <1>3, LeastNat
<1> DEFINE First(z) == /\ \A i \in DOMAIN m.list : m.list[i].slot # z
                       /\ \A y \in 1 .. z - 1 : \E i \in DOMAIN m.list : m.list[i].slot = y
<1>5. x \in R /\ First(x)
  <2>1. x \in R /\ \A i \in DOMAIN m.list : m.list[i].slot # x
    BY <1>4 DEF Free
  <2>2. ASSUME NEW y \in 1 .. x - 1
        PROVE  \E i \in DOMAIN m.list : m.list[i].slot = y
    <3>1. y \in R /\ ~ (x <= y)
      BY <1>1, <2>1
    <3>2. y \notin Free
      BY <1>4, <3>1
    <3> QED
      BY <3>1, <3>2 DEF Free
  <2> QED
    BY <2>1, <2>2
<1>6. FreeSlot(m) = CHOOSE z \in R : First(z)
  BY DEF FreeSlot, n
<1> HIDE DEF First
<1>7. FreeSlot(m) \in R /\ First(FreeSlot(m))
  BY <1>5, <1>6
<1> QED
  BY <1>1, <1>7 DEF First

(* The PUBLIC variable of a new control. *)
WithPublic(p, name, c) == [x \in DOMAIN p \cup {name} |-> IF x = name THEN c ELSE p[x]]

(* A PUBLIC variable made keeps the others. *)
LEMMA PublicAdded ==
  ASSUME NEW p \in Publics, NEW name \in Seq(Nat), NEW c \in Nat,
         NEW q, q = WithPublic(p, name, c)
  PROVE  /\ q \in Publics /\ name \in DOMAIN q /\ q[name] = c
         /\ \A x \in DOMAIN p : x \in DOMAIN q /\ (x # name => q[x] = p[x])
<1>1. PICK S \in SUBSET Seq(Nat) : p \in [S -> Nat]
  BY DEF Publics
<1>2. q = [x \in S \cup {name} |-> IF x = name THEN c ELSE p[x]]
  BY <1>1 DEF WithPublic
<1>3. q \in [S \cup {name} -> Nat] /\ S \cup {name} \in SUBSET Seq(Nat)
  BY <1>1, <1>2
<1>4. q \in Publics
  BY <1>3 DEF Publics
<1> QED
  BY <1>1, <1>2, <1>4

(* Longer names are other names, and so are those with another number.     *)
LEMMA NumberedApart ==
  ASSUME NEW s \in Seq(Nat), NEW x \in Nat, NEW y \in Nat
  PROVE  /\ Append(s, x) \in Seq(Nat) /\ Append(s, x) # s
         /\ Append(s, x) = Append(s, y) => x = y
<1>1. Append(s, x) \in Seq(Nat) /\ Len(Append(s, x)) = Len(s) + 1 /\ Append(s, x)[Len(s) + 1] = x
  BY AppendProperties
<1>2. Append(s, y) \in Seq(Nat) /\ Append(s, y)[Len(s) + 1] = y
  BY AppendProperties
<1>3. Len(s) \in Nat
  OBVIOUS
<1> QED
  BY <1>1, <1>2, <1>3

(* A file that AddMenuElement puts in front of others. *)
InFront(m, file) ==
  LET name == Append(m.id, FreeSlot(m))
      item == [name |-> name, file |-> file, slot |-> FreeSlot(m)]
  IN  [InsertMenuItem(m, m.list[1].name, file, name) EXCEPT !.list = <<item>> \o @]

(* The list with an entry put in front of it. *)
LEMMA InFrontIs ==
  ASSUME NEW m, Linked(m), m.list # <<>>, NEW file \in Files
  PROVE  InFront(m, file)
           = [m EXCEPT !.menu = Seqs!InsertAt(m.menu, 1,
                         [id |-> m.made + 1, place |-> 1, file |-> file, enabled |-> TRUE]),
                       !.made = m.made + 1,
                       !.public = WithPublic(m.public, Append(m.id, FreeSlot(m)), m.made + 1),
                       !.list = <<[name |-> Append(m.id, FreeSlot(m)), file |-> file,
                                   slot |-> FreeSlot(m)]>> \o m.list]
<1> DEFINE name == Append(m.id, FreeSlot(m))
           item == [id |-> m.made + 1, place |-> 1, file |-> file, enabled |-> TRUE]
           entry == [name |-> name, file |-> file, slot |-> FreeSlot(m)]
<1>1. 1 \in DOMAIN m.list /\ m \in MruMemory
  BY MemoryFields
<1>2. Positions(m, m.list[1].name) = {1}
  BY <1>1, ItemFound
<1> DEFINE t == Seqs!InsertAt(m.menu, 1, item)
           p == WithPublic(m.public, name, m.made + 1)
           c == m.made + 1
           s == <<entry>> \o m.list
<1>3. InsertMenuItem(m, m.list[1].name, file, name)
        = [m EXCEPT !.menu = t, !.made = c, !.public = p]
  <2>1. (CHOOSE k \in Positions(m, m.list[1].name) : TRUE) = 1
    BY <1>2
  <2> QED
    BY <2>1 DEF InsertMenuItem, WithPublic
<1>4. InFront(m, file) = [[m EXCEPT !.menu = t, !.made = c, !.public = p] EXCEPT !.list = s]
  <2>1. [m EXCEPT !.menu = t, !.made = c, !.public = p].list = m.list
    BY <1>1 DEF MruMemory
  <2> QED
    BY <1>3, <2>1 DEF InFront
<1> HIDE DEF s, t, c, p
<1>5. [[m EXCEPT !.menu = t, !.made = c, !.public = p] EXCEPT !.list = s]
        = [m EXCEPT !.menu = t, !.made = c, !.public = p, !.list = s]
  BY <1>1 DEF MruMemory
<1> QED
  BY <1>4, <1>5 DEF s, t, c, p

(* A new item in front of the others. *)
LEMMA ItemInserted ==
  ASSUME NEW u \in Seq(MruItem), Len(u) >= 1, NEW e \in MruItem
  PROVE  /\ Seqs!InsertAt(u, 1, e) \in Seq(MruItem) /\ Len(Seqs!InsertAt(u, 1, e)) = Len(u) + 1
         /\ \A i \in 1 .. Len(u) + 1 :
              Seqs!InsertAt(u, 1, e)[i] = IF i = 1 THEN e ELSE u[i - 1]
<1>2. \A k \in 1 .. Len(u) :
        /\ Seqs!InsertAt(u, k, e) \in Seq(MruItem) /\ Len(Seqs!InsertAt(u, k, e)) = Len(u) + 1
        /\ \A i \in 1 .. Len(u) + 1 :
              Seqs!InsertAt(u, k, e)[i] = IF i < k THEN u[i] ELSE IF i = k THEN e ELSE u[i - 1]
  <2> SUFFICES ASSUME NEW k \in 1 .. Len(u)
               PROVE  /\ Seqs!InsertAt(u, k, e) \in Seq(MruItem) /\ Len(Seqs!InsertAt(u, k, e)) = Len(u) + 1
                      /\ \A i \in 1 .. Len(u) + 1 :
                           Seqs!InsertAt(u, k, e)[i] = IF i < k THEN u[i] ELSE IF i = k THEN e ELSE u[i - 1]
    OBVIOUS
  <2> QED
    BY InsertAtIs
<1> DEFINE t(k) == Seqs!InsertAt(u, k, e)
<1> HIDE DEF t
<1>3. \A k \in 1 .. Len(u) :
        /\ t(k) \in Seq(MruItem) /\ Len(t(k)) = Len(u) + 1
        /\ \A i \in 1 .. Len(u) + 1 :
              t(k)[i] = IF i < k THEN u[i] ELSE IF i = k THEN e ELSE u[i - 1]
  BY <1>2 DEF t
<1>4. 1 \in 1 .. Len(u) /\ Len(u) \in Nat
  OBVIOUS
<1>5. /\ t(1) \in Seq(MruItem) /\ Len(t(1)) = Len(u) + 1
      /\ \A i \in 1 .. Len(u) + 1 :
              t(1)[i] = IF i < 1 THEN u[i] ELSE IF i = 1 THEN e ELSE u[i - 1]
  BY <1>3, <1>4
<1>6. \A i \in 1 .. Len(u) + 1 : t(1)[i] = IF i = 1 THEN e ELSE u[i - 1]
  BY <1>4, <1>5
<1> QED
  BY <1>5, <1>6 DEF t
(* The list with the file in front is linked with its menu again. *)
LEMMA FirstInserted ==
  ASSUME NEW m, Linked(m), m.list # <<>>, NEW file \in Files, NEW d, d = InFront(m, file)
  PROVE  /\ Linked(d) /\ d.id = m.id /\ d.count = m.count
         /\ d.list # <<>> /\ Len(d.list) = Len(m.list) + 1
         /\ d.list[1].file = file
         /\ \A i \in DOMAIN m.list : i + 1 \in DOMAIN d.list /\ d.list[i + 1] = m.list[i]
<1> DEFINE n == Len(m.list)
           x == FreeSlot(m)
           name == Append(m.id, x)
           c == m.made + 1
           item == [id |-> c, place |-> 1, file |-> file, enabled |-> TRUE]
           entry == [name |-> name, file |-> file, slot |-> x]
           t == Seqs!InsertAt(m.menu, 1, item)
           p == WithPublic(m.public, name, c)
           s == <<entry>> \o m.list
<1>0. /\ m \in MruMemory /\ n \in Nat /\ n >= 1
      /\ DOMAIN m.list = 1 .. n /\ DOMAIN m.menu = 1 .. n /\ Len(m.menu) = n
      /\ m.list \in Seq(MruEntry) /\ m.menu \in Seq(MruItem) /\ m.public \in Publics
      /\ m.made \in Nat /\ m.id \in Seq(Nat)
      /\ \A i \in 1 .. n : m.list[i] \in MruEntry /\ m.menu[i] \in MruItem
  <2>1. Len(m.menu) = Len(m.list)
    BY DEF Linked
  <2>2. 1 \in DOMAIN m.list
    BY MemoryFields
  <2> QED
    BY <2>1, <2>2, MemoryFields
<1>1. x \in Nat /\ x # 0 /\ \A i \in DOMAIN m.list : m.list[i].slot # x
  BY FreeSlotIs
<1>2. c \in Nat /\ c # 0 /\ c > m.made
  BY <1>0
<1>3. name \in Seq(Nat) /\ name # m.id /\ \A y \in Nat : Append(m.id, y) = name => x = y
  BY <1>0, <1>1, NumberedApart
<1>4. d = [m EXCEPT !.menu = t, !.made = c, !.public = p, !.list = s]
  BY InFrontIs
<1> HIDE DEF x, name, c
<1>5. /\ item \in MruItem /\ item.id = c
      /\ entry \in MruEntry /\ entry.name = name /\ entry.file = file /\ entry.slot = x
  BY <1>1, <1>2, <1>3 DEF MruItem, MruEntry
<1> HIDE DEF item, entry
<1>6. /\ p \in Publics /\ name \in DOMAIN p /\ p[name] = c
      /\ \A y \in DOMAIN m.public : y \in DOMAIN p /\ (y # name => p[y] = m.public[y])
  <2>1. p = WithPublic(m.public, name, c)
    OBVIOUS
  <2>2. m.public \in Publics /\ name \in Seq(Nat) /\ c \in Nat
    BY <1>0, <1>2, <1>3
  <2> HIDE DEF p
  <2> QED
    BY ONLY <2>1, <2>2, PublicAdded
<1>7. /\ s \in Seq(MruEntry) /\ Len(s) = n + 1
      /\ \A i \in 1 .. n + 1 : s[i] = IF i = 1 THEN entry ELSE m.list[i - 1]
  BY <1>0, <1>5, ConsIs
<1>8. /\ t \in Seq(MruItem) /\ Len(t) = n + 1
      /\ \A i \in 1 .. n + 1 : t[i] = IF i = 1 THEN item ELSE m.menu[i - 1]
  <2>1. Len(m.menu) >= 1
    BY <1>0
  <2> HIDE DEF n
  <2>2. /\ t \in Seq(MruItem) /\ Len(t) = Len(m.menu) + 1
        /\ \A i \in 1 .. Len(m.menu) + 1 :
             t[i] = IF i = 1 THEN item ELSE m.menu[i - 1]
    BY <1>0, <1>5, <2>1, ItemInserted
  <2>3. n \in Nat /\ Len(m.menu) = n
    BY <1>0
  <2> QED
    BY <2>2, <2>3
<1> HIDE DEF p, s, t, n
<1>9. /\ d.list = s /\ d.menu = t /\ d.id = m.id /\ d.count = m.count /\ d.public = p
      /\ d.made = c
  BY <1>0, <1>4 DEF MruMemory
<1>10. d \in MruMemory
  BY <1>0, <1>2, <1>4, <1>6, <1>7, <1>8 DEF MruMemory
<1>11. DOMAIN s = 1 .. n + 1 /\ DOMAIN t = 1 .. n + 1 /\ s # <<>> /\ Len(t) = Len(s)
  <2>1. DOMAIN s = 1 .. n + 1 /\ DOMAIN t = 1 .. n + 1
    BY <1>7, <1>8
  <2>2. 1 \in 1 .. n + 1
    BY <1>0
  <2>3. DOMAIN s # {} /\ DOMAIN <<>> = {}
    BY <2>1, <2>2
  <2> QED
    BY <1>7, <1>8, <2>1, <2>3
<1>12. /\ s[1] = entry /\ t[1] = item
       /\ \A i \in 1 .. n : i + 1 \in 1 .. n + 1 /\ s[i + 1] = m.list[i] /\ t[i + 1] = m.menu[i]
       /\ \A i \in 1 .. n + 1 : i = 1 \/ \E j \in 1 .. n : i = j + 1
  <2>1. 1 \in 1 .. n + 1
    BY <1>0
  <2>2. s[1] = entry /\ t[1] = item
    BY <1>7, <1>8, <2>1
  <2>3. ASSUME NEW i \in 1 .. n
        PROVE  i + 1 \in 1 .. n + 1 /\ s[i + 1] = m.list[i] /\ t[i + 1] = m.menu[i]
    <3>1. i + 1 \in 1 .. n + 1 /\ i + 1 # 1 /\ i + 1 - 1 = i
      BY <1>0
    <3> QED
      BY <1>7, <1>8, <3>1
  <2>4. ASSUME NEW i \in 1 .. n + 1, i # 1
        PROVE  \E j \in 1 .. n : i = j + 1
    <3>1. i - 1 \in 1 .. n /\ i = i - 1 + 1
      BY <1>0, <2>4
    <3> QED
      BY <3>1
  <2> QED
    BY <2>2, <2>3, <2>4
<1> DEFINE Old == {i \in 1 .. n + 1 : \E j \in 1 .. n : i = j + 1}
<1>13. \A j \in 1 .. n : /\ m.list[j].name \in DOMAIN m.public
                         /\ m.menu[j].id = m.public[m.list[j].name]
                         /\ m.list[j].slot # 0 /\ m.list[j].slot # x
                         /\ m.list[j].slot \in Nat
                         /\ m.list[j].name = m.id \/ m.list[j].name = Append(m.id, m.list[j].slot)
                         /\ m.list[j].name # name
                         /\ m.menu[j].id # 0 /\ m.menu[j].id <= m.made /\ m.menu[j].id # c
  <2> SUFFICES ASSUME NEW j \in 1 .. n
               PROVE  /\ m.list[j].name \in DOMAIN m.public
                      /\ m.menu[j].id = m.public[m.list[j].name]
                      /\ m.list[j].slot # 0 /\ m.list[j].slot # x
                      /\ m.list[j].slot \in Nat
                      /\ m.list[j].name = m.id \/ m.list[j].name = Append(m.id, m.list[j].slot)
                      /\ m.list[j].name # name
                      /\ m.menu[j].id # 0 /\ m.menu[j].id <= m.made /\ m.menu[j].id # c
    OBVIOUS
  <2>1. /\ m.list[j].name \in DOMAIN m.public
        /\ m.menu[j].id = m.public[m.list[j].name]
        /\ m.list[j].slot # 0
        /\ m.list[j].name = m.id \/ m.list[j].name = Append(m.id, m.list[j].slot)
        /\ m.menu[j].id # 0 /\ m.menu[j].id <= m.made
    BY <1>0 DEF Linked
  <2>2. m.list[j].slot # x /\ m.list[j].slot \in Nat /\ m.menu[j].id \in Nat
    BY <1>0, <1>1 DEF MruEntry, MruItem
  <2>3. m.list[j].name # name
    BY <1>3, <2>1, <2>2
  <2>4. m.menu[j].id # c
    BY <1>0, <1>2, <2>1, <2>2
  <2> QED
    BY <2>1, <2>2, <2>3, <2>4
<1>14. \A i, j \in 1 .. n : /\ m.list[i].slot = m.list[j].slot => i = j
                            /\ m.menu[i].id = m.menu[j].id => i = j
  BY <1>0 DEF Linked
<1>15. \A i \in DOMAIN s :
         /\ s[i].name \in DOMAIN p /\ t[i].id = p[s[i].name]
         /\ s[i].slot # 0
         /\ s[i].name = m.id \/ s[i].name = Append(m.id, s[i].slot)
  <2> SUFFICES ASSUME NEW i \in 1 .. n + 1
               PROVE  /\ s[i].name \in DOMAIN p /\ t[i].id = p[s[i].name]
                      /\ s[i].slot # 0
                      /\ s[i].name = m.id \/ s[i].name = Append(m.id, s[i].slot)
    BY <1>11
  <2>1. CASE i = 1
    BY <1>1, <1>5, <1>6, <1>12, <2>1 DEF name
  <2>2. ASSUME NEW j \in 1 .. n, i = j + 1
        PROVE  /\ s[i].name \in DOMAIN p /\ t[i].id = p[s[i].name]
               /\ s[i].slot # 0
               /\ s[i].name = m.id \/ s[i].name = Append(m.id, s[i].slot)
    <3>1. s[i] = m.list[j] /\ t[i] = m.menu[j]
      BY <1>12, <2>2
    <3> QED
      BY <1>6, <1>13, <3>1
  <2> QED
    BY <1>12, <2>1, <2>2
<1>16. \A i, j \in DOMAIN s : s[i].slot = s[j].slot => i = j
  <2> SUFFICES ASSUME NEW i \in 1 .. n + 1, NEW j \in 1 .. n + 1, s[i].slot = s[j].slot
               PROVE  i = j
    BY <1>11
  <2>1. ASSUME NEW u \in 1 .. n, NEW v \in 1 .. n, i = u + 1, j = v + 1
        PROVE  i = j
    <3>1. s[i] = m.list[u] /\ s[j] = m.list[v]
      BY <1>12, <2>1
    <3>2. u = v
      BY <1>14, <3>1
    <3> QED
      BY <2>1, <3>2
  <2>2. ASSUME NEW u \in 1 .. n
        PROVE  s[u + 1].slot # s[1].slot
    <3>1. s[u + 1] = m.list[u]
      BY <1>12
    <3> QED
      BY <1>5, <1>12, <1>13, <3>1
  <2> QED
    BY <1>12, <2>1, <2>2
<1>17. \A i \in DOMAIN t : t[i].id # 0 /\ t[i].id <= c
  <2> SUFFICES ASSUME NEW i \in 1 .. n + 1
               PROVE  t[i].id # 0 /\ t[i].id <= c
    BY <1>11
  <2>1. CASE i = 1
    BY <1>2, <1>5, <1>12, <2>1
  <2>2. ASSUME NEW j \in 1 .. n, i = j + 1
        PROVE  t[i].id # 0 /\ t[i].id <= c
    <3>1. t[i] = m.menu[j] /\ m.menu[j].id \in Nat
      BY <1>0, <1>12, <2>2 DEF MruItem
    <3> QED
      BY <1>0, <1>2, <1>13, <3>1
  <2> QED
    BY <1>12, <2>1, <2>2
<1>18. \A i, j \in DOMAIN t : t[i].id = t[j].id => i = j
  <2> SUFFICES ASSUME NEW i \in 1 .. n + 1, NEW j \in 1 .. n + 1, t[i].id = t[j].id
               PROVE  i = j
    BY <1>11
  <2>1. ASSUME NEW u \in 1 .. n, NEW v \in 1 .. n, i = u + 1, j = v + 1
        PROVE  i = j
    <3>1. t[i] = m.menu[u] /\ t[j] = m.menu[v]
      BY <1>12, <2>1
    <3>2. u = v
      BY <1>14, <3>1
    <3> QED
      BY <2>1, <3>2
  <2>2. ASSUME NEW u \in 1 .. n
        PROVE  t[u + 1].id # t[1].id
    <3>1. t[u + 1] = m.menu[u]
      BY <1>12
    <3> QED
      BY <1>5, <1>12, <1>13, <3>1
  <2> QED
    BY <1>12, <2>1, <2>2
<1>19. d.count # 0 /\ d.list # <<>>
  BY <1>9, <1>11 DEF Linked
<1>20. Linked(d)
  <2>1. \A i \in DOMAIN d.list :
          /\ d.list[i].name \in DOMAIN d.public /\ d.menu[i].id = d.public[d.list[i].name]
          /\ d.list[i].slot # 0
          /\ d.list[i].name = d.id \/ d.list[i].name = Append(d.id, d.list[i].slot)
    BY <1>9, <1>15
  <2>2. \A i, j \in DOMAIN d.list : d.list[i].slot = d.list[j].slot => i = j
    BY <1>9, <1>16
  <2>3. /\ \A i \in DOMAIN d.menu : d.menu[i].id # 0 /\ d.menu[i].id <= d.made
        /\ \A i, j \in DOMAIN d.menu : d.menu[i].id = d.menu[j].id => i = j
    BY <1>9, <1>17, <1>18
  <2>4. Len(d.menu) = Len(d.list)
    BY <1>9, <1>11
  <2> QED
    BY <1>10, <1>19, <2>1, <2>2, <2>3, <2>4 DEF Linked
<1>21. /\ Len(d.list) = Len(m.list) + 1 /\ d.list[1].file = file
       /\ \A i \in DOMAIN m.list : i + 1 \in DOMAIN d.list /\ d.list[i + 1] = m.list[i]
  BY <1>0, <1>5, <1>7, <1>9, <1>11, <1>12 DEF n
<1> QED
  BY <1>9, <1>19, <1>20, <1>21

(* Two loops that begin alike and go on alike are the same. *)
LEMMA SameSteps ==
  ASSUME NEW N \in Nat, NEW f, NEW g, f[0] = g[0],
         \A n \in 1 .. N : f[n - 1] = g[n - 1] => f[n] = g[n]
  PROVE  \A n \in 0 .. N : f[n] = g[n]
<1> DEFINE S == {n \in Nat : n <= N => f[n] = g[n]}
<1>1. 0 \in S
  OBVIOUS
<1>2. ASSUME NEW n \in Nat, n \in S
      PROVE  n + 1 \in S
  <2>1. CASE n + 1 <= N
    <3>1. n + 1 \in 1 .. N /\ n + 1 - 1 = n /\ n <= N
      BY <2>1
    <3>2. f[n] = g[n]
      BY <1>2, <3>1
    <3>3. f[n + 1] = g[n + 1]
      BY <3>1, <3>2
    <3> QED
      BY <3>3
  <2> QED
    BY <2>1
<1> HIDE DEF S
<1>3. Nat \subseteq S
  BY <1>1, <1>2, NatSetInduction
<1> QED
  BY <1>3 DEF S

(* The memory after the first n items got their numbers. *)
NumberedMenu(m, n) ==
  [i \in DOMAIN m.menu |->
     IF i <= n
     THEN [id |-> m.menu[i].id, place |-> i, file |-> m.list[i].file, enabled |-> TRUE]
     ELSE m.menu[i]]
Numbered(m, n) == [m EXCEPT !.menu = NumberedMenu(m, n)]

(* The menu whose first items are numbered. *)
LEMMA NumberedIs ==
  ASSUME NEW m, Linked(m), NEW n \in 0 .. Len(m.list)
  PROVE  /\ Linked(Numbered(m, n))
         /\ Numbered(m, n).menu = NumberedMenu(m, n) /\ Numbered(m, n).list = m.list
         /\ Numbered(m, n).id = m.id /\ Numbered(m, n).count = m.count
         /\ DOMAIN NumberedMenu(m, n) = DOMAIN m.menu
<1> DEFINE N == Len(m.list)
           M == Len(m.menu)
           t == NumberedMenu(m, n)
<1>1. /\ N \in Nat /\ M \in Nat /\ DOMAIN m.menu = 1 .. M /\ DOMAIN m.list = 1 .. N /\ n \in 0 .. N
      /\ \A i \in 1 .. M : m.menu[i] \in MruItem
      /\ \A i \in 1 .. N : m.list[i] \in MruEntry
      /\ DOMAIN m.list \subseteq DOMAIN m.menu
  BY MemoryFields
<1> HIDE DEF N, M
<1>2. ASSUME NEW i \in 1 .. M
      PROVE  t[i] \in MruItem /\ t[i].id = m.menu[i].id
  <2>1. CASE i <= n
    <3>1. i \in 1 .. N /\ i \in Nat
      BY <1>1, <2>1
    <3>2. m.list[i].file \in Files
      BY <1>1, <3>1 DEF MruEntry
    <3>3. t[i] = [id |-> m.menu[i].id, place |-> i, file |-> m.list[i].file, enabled |-> TRUE]
      BY <1>1, <2>1 DEF NumberedMenu
    <3>4. m.menu[i].id \in Nat
      BY <1>1 DEF MruItem
    <3> QED
      BY <3>1, <3>2, <3>3, <3>4 DEF MruItem
  <2>2. CASE ~(i <= n)
    BY <1>1, <2>2 DEF NumberedMenu
  <2> QED
    BY <2>1, <2>2
<1>3. DOMAIN t = 1 .. M
  BY <1>1 DEF NumberedMenu
<1>4. t \in Seq(MruItem) /\ Len(t) = M
  <2>1. t = [i \in 1 .. M |-> t[i]]
    BY <1>1 DEF NumberedMenu
  <2>2. t \in [1 .. M -> MruItem]
    BY <1>2, <2>1
  <2> QED
    BY <1>1, <2>2
<1> HIDE DEF t
<1>5. /\ Linked([m EXCEPT !.menu = t])
      /\ [m EXCEPT !.menu = t].menu = t /\ [m EXCEPT !.menu = t].list = m.list
      /\ [m EXCEPT !.menu = t].id = m.id /\ [m EXCEPT !.menu = t].count = m.count
  BY <1>1, <1>2, <1>4, MenuRepainted DEF M
<1> QED
  BY <1>1, <1>3, <1>5 DEF Numbered, t

(* One step of the loop. *)
LEMMA NumberedNext ==
  ASSUME NEW m, Linked(m), NEW n \in 1 .. Len(m.list)
  PROVE  Numbered(m, n)
           = ModifyMenuItem(Numbered(m, n - 1), m.list[n].name, n, m.list[n].file)
<1> DEFINE N == Len(m.list)
           d == Numbered(m, n - 1)
<1>1. /\ N \in Nat /\ n \in 1 .. N /\ DOMAIN m.list = 1 .. N /\ n \in DOMAIN m.menu
      /\ DOMAIN m.menu = 1 .. Len(m.menu) /\ Len(m.menu) \in Nat
      /\ m.list[n].file \in Files /\ m \in MruMemory
  <2>1. n \in DOMAIN m.list /\ m.list[n] \in MruEntry
    BY MemoryFields
  <2>2. m.list[n].file \in Files
    BY <2>1 DEF MruEntry
  <2> QED
    BY <2>1, <2>2, MemoryFields
<1>2. n - 1 \in 0 .. N
  BY <1>1
<1>3. /\ Linked(d) /\ d.menu = NumberedMenu(m, n - 1) /\ d.list = m.list
      /\ DOMAIN d.menu = DOMAIN m.menu
  BY <1>2, NumberedIs
<1> DEFINE t == Painted(d.menu, n, n, m.list[n].file)
<1>4. Positions(d, m.list[n].name) = {n}
  <2>1. n \in DOMAIN d.list
    BY <1>1, <1>3
  <2> HIDE DEF d
  <2>2. Positions(d, d.list[n].name) = {n}
    BY <1>3, <2>1, ItemFound
  <2> QED
    BY <1>3, <2>2
<1> HIDE DEF d
<1>5. ModifyMenuItem(d, m.list[n].name, n, m.list[n].file) = [d EXCEPT !.menu = t]
  <2> DEFINE name == m.list[n].name
             file == m.list[n].file
  <2>1. /\ Linked(d) /\ n \in Nat /\ n \in DOMAIN d.menu /\ file \in Files \cup {Empty}
        /\ Positions(d, name) = {n}
    BY <1>1, <1>3, <1>4
  <2> HIDE DEF name, file, t
  <2>2. ModifyMenuItem(d, name, n, file) = [d EXCEPT !.menu = Painted(d.menu, n, n, file)]
    BY ONLY <2>1, ItemModified
  <2> QED
    BY <2>2 DEF name, file, t
<1>6. t = NumberedMenu(m, n)
  <2>1. ASSUME NEW i \in DOMAIN m.menu
        PROVE  t[i] = NumberedMenu(m, n)[i]
    <3>1. i \in Nat /\ d.menu[i] = NumberedMenu(m, n - 1)[i]
      BY <1>1, <1>3
    <3>2. t[i] = IF i = n THEN [id |-> d.menu[i].id, place |-> n, file |-> m.list[n].file,
                                  enabled |-> TRUE]
                 ELSE d.menu[i]
      BY <1>3 DEF Painted
    <3>3. CASE i = n
      <4>1. ~ (n <= n - 1) /\ n <= n
        BY <1>1
      <4>2. d.menu[i] = m.menu[i]
        BY <1>1, <3>1, <3>3, <4>1 DEF NumberedMenu
      <4> QED
        BY <1>1, <3>2, <3>3, <4>1, <4>2 DEF NumberedMenu
    <3>4. CASE i # n
      <4>1. i <= n - 1 <=> i <= n
        BY <1>1, <3>1, <3>4
      <4>2. NumberedMenu(m, n - 1)[i] = NumberedMenu(m, n)[i]
        BY <4>1 DEF NumberedMenu
      <4> QED
        BY <3>1, <3>2, <3>4, <4>2
    <3> QED
      BY <3>3, <3>4
  <2>2. DOMAIN t = DOMAIN m.menu /\ DOMAIN NumberedMenu(m, n) = DOMAIN m.menu
    BY <1>3 DEF NumberedMenu, Painted
  <2>3. t = [i \in DOMAIN m.menu |-> t[i]]
    BY <1>3 DEF Painted
  <2>4. NumberedMenu(m, n) = [i \in DOMAIN m.menu |-> NumberedMenu(m, n)[i]]
    BY DEF NumberedMenu
  <2> QED
    BY <2>1, <2>3, <2>4
<1> HIDE DEF t
<1>7. [d EXCEPT !.menu = NumberedMenu(m, n)] = [m EXCEPT !.menu = NumberedMenu(m, n)]
  BY <1>1 DEF d, Numbered, MruMemory
<1> QED
  BY <1>5, <1>6, <1>7 DEF Numbered, d

(* The loop that renumbers the items ends with all of them numbered. *)
Renumbers(m, f) ==
  f = [n \in 0 .. Len(m.list) |->
         IF n = 0 THEN m
         ELSE ModifyMenuItem(f[n - 1], m.list[n].name, n, m.list[n].file)]

(* Renumbering puts every item in its place. *)
LEMMA RenumberIs ==
  ASSUME NEW m, Linked(m)
  PROVE  Renumber(m) = Numbered(m, Len(m.list))
<1> DEFINE N == Len(m.list)
           c == [n \in 0 .. N |-> Numbered(m, n)]
           g == CHOOSE f : Renumbers(m, f)
<1>1. N \in Nat /\ m \in MruMemory
  BY MemoryFields
<1>2. Numbered(m, 0) = m
  <2>1. NumberedMenu(m, 0) = [i \in DOMAIN m.menu |-> m.menu[i]]
    <3>1. DOMAIN m.menu = 1 .. Len(m.menu)
      BY MemoryFields
    <3>2. \A i \in DOMAIN m.menu : ~ (i <= 0)
      BY <3>1
    <3> QED
      BY <3>2 DEF NumberedMenu
  <2>2. [i \in DOMAIN m.menu |-> m.menu[i]] = m.menu
    BY MemoryFields
  <2> QED
    BY <1>1, <2>1, <2>2 DEF Numbered, MruMemory
<1>3. Renumbers(m, c)
  <2>1. ASSUME NEW n \in 0 .. N
        PROVE  Numbered(m, n) = IF n = 0 THEN m
               ELSE ModifyMenuItem(c[n - 1], m.list[n].name, n, m.list[n].file)
    <3>1. CASE n = 0
      BY <1>2, <3>1
    <3>2. CASE n # 0
      <4>1. n \in 1 .. N /\ n - 1 \in 0 .. N
        BY <1>1, <3>2
      <4>2. c[n - 1] = Numbered(m, n - 1)
        BY <4>1
      <4>3. Numbered(m, n) = ModifyMenuItem(Numbered(m, n - 1), m.list[n].name, n, m.list[n].file)
        BY <4>1, NumberedNext
      <4> QED
        BY <3>2, <4>2, <4>3
    <3> QED
      BY <3>1, <3>2
  <2>2. c = [n \in 0 .. N |->
               IF n = 0 THEN m
               ELSE ModifyMenuItem(c[n - 1], m.list[n].name, n, m.list[n].file)]
    BY <2>1
  <2> QED
    BY <2>2 DEF Renumbers
<1>4. Renumber(m) = g[N]
  BY Zenon DEF Renumber, Renumbers
<1> HIDE DEF c
<1>5. Renumbers(m, g)
  BY <1>3
<1> HIDE DEF g, N
<1>6. /\ c[0] = m /\ g[0] = m
      /\ \A n \in 1 .. N : c[n] = ModifyMenuItem(c[n - 1], m.list[n].name, n, m.list[n].file)
      /\ \A n \in 1 .. N : g[n] = ModifyMenuItem(g[n - 1], m.list[n].name, n, m.list[n].file)
  <2> SUFFICES ASSUME NEW f, Renumbers(m, f)
               PROVE  /\ f[0] = m
                      /\ \A n \in 1 .. N :
                           f[n] = ModifyMenuItem(f[n - 1], m.list[n].name, n, m.list[n].file)
    BY <1>3, <1>5
  <2>1. f = [n \in 0 .. N |->
               IF n = 0 THEN m
               ELSE ModifyMenuItem(f[n - 1], m.list[n].name, n, m.list[n].file)]
    BY DEF Renumbers, N
  <2> HIDE DEF Renumbers
  <2>2. \A n \in 0 .. N : f[n] = IF n = 0 THEN m
               ELSE ModifyMenuItem(f[n - 1], m.list[n].name, n, m.list[n].file)
    BY ONLY <2>1, Zenon
  <2>3. 0 \in 0 .. N /\ \A n \in 1 .. N : n \in 0 .. N /\ n # 0
    BY <1>1
  <2> QED
    BY <2>2, <2>3
<1>7. \A n \in 0 .. N : c[n] = g[n]
  <2>1. c[0] = g[0] /\ \A n \in 1 .. N : c[n - 1] = g[n - 1] => c[n] = g[n]
    BY <1>6
  <2> QED
    BY ONLY <1>1, <2>1, SameSteps
<1>8. N \in 0 .. N
  BY <1>1
<1> QED
  BY <1>4, <1>7, <1>8 DEF c, N

(* Without its last element a sequence is its beginning. *)
LEMMA LastRemoved ==
  ASSUME NEW T, NEW s \in Seq(T), NEW k \in Nat, Len(s) = k + 1
  PROVE  Seqs!RemoveAt(s, k + 1) = SubSeq(s, 1, k)
<1>1. k + 1 \in 1 .. Len(s) /\ k \in 0 .. Len(s) /\ Len(s) - 1 = k
  OBVIOUS
<1> DEFINE a == Seqs!RemoveAt(s, k + 1)
           b == SubSeq(s, 1, k)
           j == k + 1
<1>2. j \in 1 .. Len(s) /\ Len(s) - 1 = k
  BY <1>1
<1>3. /\ b \in Seq(T) /\ Len(b) = k /\ \A i \in 1 .. k : b[i] = s[i]
  BY <1>1, PrefixIs
<1> HIDE DEF b, j
<1>4. /\ Seqs!RemoveAt(s, j) \in Seq(T) /\ Len(Seqs!RemoveAt(s, j)) = Len(s) - 1
      /\ \A i \in 1 .. Len(s) - 1 : Seqs!RemoveAt(s, j)[i] = IF i < j THEN s[i] ELSE s[i + 1]
  BY <1>2, RemoveAtIs
<1>5. a \in Seq(T) /\ Len(a) = k /\ \A i \in 1 .. k : a[i] = s[i]
  BY <1>2, <1>4 DEF j
<1> HIDE DEF a
<1>6. a = b
  <2>1. Len(a) = Len(b) /\ \A i \in 1 .. Len(a) : a[i] = b[i]
    BY <1>3, <1>5
  <2> QED
    BY <1>3, <1>5, <2>1, SeqEqual
<1> QED
  BY <1>6 DEF a, b

(* The item that is one too many goes with its entry. *)
LEMMA TruncateIs ==
  ASSUME NEW m, Linked(m), Placed(m), m.list # <<>>, Len(m.list) <= MaxMru + 1,
         NEW d, d = Truncate(m)
  PROVE  /\ Linked(d) /\ Placed(d) /\ d.id = m.id /\ d.count = m.count /\ d.list # <<>>
         /\ DOMAIN d.list = DOMAIN m.list \cap (1 .. MaxMru)
         /\ \A i \in DOMAIN d.list : d.list[i] = m.list[i]
<1> DEFINE n == Len(m.list)
<1>0. /\ n \in Nat /\ DOMAIN m.list = 1 .. n /\ m \in MruMemory /\ MaxMru \in Nat /\ MaxMru >= 1
      /\ m.list \in Seq(MruEntry)
  BY MemoryFields, MruAssumption
<1>1. CASE n <= MaxMru
  <2>1. d = m
    BY <1>0, <1>1 DEF Truncate
  <2>2. DOMAIN m.list = DOMAIN m.list \cap (1 .. MaxMru)
    BY <1>0, <1>1
  <2> QED
    BY <2>1, <2>2
<1>2. CASE n > MaxMru
  <2>1. n = MaxMru + 1 /\ n \in DOMAIN m.list /\ n > 1
    BY <1>0, <1>2
  <2> DEFINE s == SubSeq(m.list, 1, MaxMru)
             t == Seqs!RemoveAt(m.menu, n)
             q == [m EXCEPT !.list = s]
             name == m.list[n].name
  <2>2. d = RemoveMenuItem(q, name)
    <3>1. Seqs!Last(m.list) = m.list[n]
      BY DEF Seqs!Last
    <3> QED
      BY <1>2, <3>1 DEF Truncate
  <2>3. q.menu = m.menu /\ q.public = m.public
    BY <1>0 DEF MruMemory
  <2>4. Positions(m, name) = {n}
    BY <2>1, ItemFound
  <2> HIDE DEF n
  <2>5. Positions(q, name) = {n}
    BY <2>3, <2>4 DEF Positions, MenuId
  <2>6. d = [q EXCEPT !.menu = t]
    <3>1. (CHOOSE k \in Positions(q, name) : TRUE) = n
      BY <2>5
    <3> HIDE DEF q, name
    <3>2. RemoveMenuItem(q, name) = [q EXCEPT !.menu = Seqs!RemoveAt(q.menu, n)]
      BY <2>5, <3>1 DEF RemoveMenuItem
    <3> QED
      BY <2>2, <2>3, <3>2
  <2>7. Seqs!RemoveAt(m.list, n) = s
    <3>1. m.list \in Seq(MruEntry) /\ MaxMru \in Nat /\ Len(m.list) = MaxMru + 1
      BY <1>0, <2>1 DEF n
    <3>2. Seqs!RemoveAt(m.list, MaxMru + 1) = s
      BY <3>1, LastRemoved
    <3> QED
      BY <2>1, <3>2
  <2> HIDE DEF s, t
  <2>8. d = [m EXCEPT !.list = s, !.menu = t]
    BY <1>0, <2>6 DEF MruMemory
  <2>9. /\ Linked(m) /\ n \in DOMAIN m.list /\ Len(m.list) > 1
        /\ d = WithoutEntry(m, n)
    BY <2>1, <2>7, <2>8 DEF n, t, WithoutEntry
  <2>10. /\ Linked(d)
         /\ d.id = m.id /\ d.count = m.count /\ Len(d.list) = Len(m.list) - 1 /\ d.list # <<>>
         /\ \A i \in DOMAIN d.list :
              LET j == IF i < n THEN i ELSE i + 1
              IN  j \in DOMAIN m.list /\ d.list[i] = m.list[j] /\ d.menu[i] = m.menu[j]
    BY ONLY <2>9, EntryDropped
  <2>11. DOMAIN d.list = 1 .. MaxMru
    <3>1. Len(d.list) = MaxMru
      BY <1>0, <2>1, <2>10 DEF n
    <3> QED
      BY <2>10, <3>1, MemoryFields
  <2>12. \A i \in DOMAIN d.list : i \in DOMAIN m.list /\ d.list[i] = m.list[i] /\ d.menu[i] = m.menu[i]
    <3>1. \A i \in DOMAIN d.list : i < n
      BY <1>0, <2>1, <2>11
    <3> QED
      BY <2>10, <3>1
  <2>13. Placed(d)
    BY <2>12 DEF Placed
  <2>14. DOMAIN d.list = DOMAIN m.list \cap (1 .. MaxMru)
    BY <1>0, <2>1, <2>11
  <2> QED
    BY <2>10, <2>12, <2>13, <2>14
<1> QED
  BY <1>0, <1>1, <1>2

(* A file that is not in the list comes to its front; if the list is full, *)
(* its last one goes.                                                      *)
LEMMA AddMenuElementIs ==
  ASSUME NEW m, Linked(m), Len(m.list) <= MaxMru, NEW file \in Files,
         NEW d, d = AddMenuElement(m, file)
  PROVE  /\ Linked(d) /\ Placed(d) /\ d.id = m.id /\ d.list # <<>>
         /\ DOMAIN d.list = (1 .. Len(m.list) + 1) \cap (1 .. MaxMru)
         /\ d.list[1].file = file
         /\ \A i \in DOMAIN m.list : i + 1 \in DOMAIN d.list => d.list[i + 1] = m.list[i]
<1> DEFINE n == Len(m.list)
<1>0. /\ n \in Nat /\ DOMAIN m.list = 1 .. n /\ m \in MruMemory /\ MaxMru \in Nat /\ MaxMru >= 1
      /\ m.count \in Nat /\ m.list \in Seq(MruEntry) /\ m.id \in Seq(Nat)
  BY MemoryFields, MruAssumption
<1>1. CASE m.count = 0
  <2>1. m.list = <<>> /\ n = 0
    BY <1>1 DEF Linked
  <2> DEFINE first == [name |-> m.id, file |-> file, slot |-> 1]
             t == Painted(m.menu, 1, 1, file)
             s == Append(m.list, first)
             c == m.count + 1
  <2>2. Positions(m, m.id) = {1} /\ DOMAIN m.menu = {1}
    BY <2>1, OnlyItemFound
  <2>3. /\ ModifyMenuItem(m, m.id, 1, file) = [m EXCEPT !.menu = t]
        /\ t \in Seq(MruItem) /\ Len(t) = Len(m.menu) /\ DOMAIN t = DOMAIN m.menu
        /\ \A i \in DOMAIN m.menu : t[i].id = m.menu[i].id
    <3> DEFINE name == m.id
               k == 1
    <3>1. Linked(m) /\ k \in DOMAIN m.menu /\ Positions(m, name) = {k} /\ k \in Nat
          /\ file \in Files \cup {Empty}
      BY <2>2
    <3> HIDE DEF name, k
    <3>2. /\ ModifyMenuItem(m, name, k, file) = [m EXCEPT !.menu = Painted(m.menu, k, k, file)]
          /\ Painted(m.menu, k, k, file) \in Seq(MruItem)
          /\ Len(Painted(m.menu, k, k, file)) = Len(m.menu)
          /\ DOMAIN Painted(m.menu, k, k, file) = DOMAIN m.menu
          /\ \A i \in DOMAIN m.menu : Painted(m.menu, k, k, file)[i].id = m.menu[i].id
      BY ONLY <3>1, ItemModified
    <3> QED
      BY ONLY <3>2 DEF name, k, t
  <2>4. t[1] = [id |-> m.menu[1].id, place |-> 1, file |-> file, enabled |-> TRUE]
    BY <2>2 DEF Painted
  <2> HIDE DEF t
  <2>5. d = [m EXCEPT !.menu = t, !.list = s, !.count = c]
    <3>1. [m EXCEPT !.menu = t].list = m.list /\ [m EXCEPT !.menu = t].count = m.count
      BY <1>0 DEF MruMemory
    <3>2. d = [[[m EXCEPT !.menu = t] EXCEPT !.list = Append(@, first)] EXCEPT !.count = @ + 1]
      BY <1>1, <2>3 DEF AddMenuElement
    <3> HIDE DEF first
    <3> QED
      BY <1>0, <3>1, <3>2 DEF MruMemory
  <2>6. first \in MruEntry /\ first.name = m.id /\ first.slot = 1 /\ first.file = file
    BY <1>0 DEF MruEntry
  <2> HIDE DEF first
  <2>7. s \in Seq(MruEntry) /\ Len(s) = 1 /\ s[1] = first /\ DOMAIN s = {1} /\ s # <<>>
    <3>1. s \in Seq(MruEntry) /\ Len(s) = n + 1 /\ s[n + 1] = first
      BY <1>0, <2>6, AppendProperties
    <3>2. Len(s) = 1 /\ s[1] = first
      BY <2>1, <3>1
    <3> HIDE DEF s
    <3>3. DOMAIN s = 1 .. 1
      BY <3>1, <3>2
    <3>4. DOMAIN s # {} /\ DOMAIN <<>> = {}
      BY <3>3
    <3>5. DOMAIN s = {1}
      BY <3>3
    <3>6. s # <<>>
      BY ONLY <3>4
    <3> QED
      BY <3>1, <3>2, <3>5, <3>6
  <2> HIDE DEF s
  <2>8. c = 1 /\ c \in Nat
    BY <1>0, <1>1
  <2> HIDE DEF c
  <2>9. /\ d.menu = t /\ d.list = s /\ d.count = c /\ d.id = m.id /\ d.public = m.public
        /\ d.made = m.made /\ d \in MruMemory
    BY <1>0, <2>3, <2>5, <2>7, <2>8 DEF MruMemory
  <2>10. /\ Len(m.menu) = 1 /\ m.id \in DOMAIN m.public /\ m.menu[1].id = m.public[m.id]
         /\ m.menu[1].id # 0 /\ m.menu[1].id <= m.made
    BY <2>1, <2>2 DEF Linked
  <2>11. Linked(d)
    <3>1. \A i \in DOMAIN d.list :
            /\ d.list[i].name \in DOMAIN d.public /\ d.menu[i].id = d.public[d.list[i].name]
            /\ d.list[i].slot # 0
            /\ d.list[i].name = d.id \/ d.list[i].name = Append(d.id, d.list[i].slot)
      BY <2>2, <2>3, <2>6, <2>7, <2>9, <2>10
    <3>2. \A i, j \in DOMAIN d.list : d.list[i].slot = d.list[j].slot => i = j
      BY <2>7, <2>9
    <3>3. /\ \A i \in DOMAIN d.menu : d.menu[i].id # 0 /\ d.menu[i].id <= d.made
          /\ \A i, j \in DOMAIN d.menu : d.menu[i].id = d.menu[j].id => i = j
      BY <2>2, <2>3, <2>9, <2>10
    <3>4. d.count # 0 /\ d.list # <<>> /\ Len(d.menu) = Len(d.list)
      BY <2>3, <2>7, <2>8, <2>9, <2>10
    <3> QED
      BY <2>9, <3>1, <3>2, <3>3, <3>4 DEF Linked
  <2>12. Placed(d)
    BY <2>4, <2>6, <2>7, <2>9 DEF Placed
  <2>13. DOMAIN d.list = (1 .. Len(m.list) + 1) \cap (1 .. MaxMru)
    <3>1. 1 .. n + 1 = {1}
      BY <2>1
    <3> QED
      BY <1>0, <2>7, <2>9, <3>1
  <2>14. DOMAIN m.list = {}
    BY <1>0, <2>1
  <2> QED
    BY <2>6, <2>7, <2>9, <2>11, <2>12, <2>13, <2>14
<1>2. CASE m.count # 0
  <2>1. m.list # <<>>
    BY <1>2 DEF Linked
  <2> DEFINE f == InFront(m, file)
             r == Numbered(f, Len(f.list))
             u == Truncate(r)
  <2>2. /\ Linked(f) /\ f.id = m.id /\ f.count = m.count
        /\ f.list # <<>> /\ Len(f.list) = n + 1
        /\ f.list[1].file = file
        /\ \A i \in DOMAIN m.list : i + 1 \in DOMAIN f.list /\ f.list[i + 1] = m.list[i]
    BY <2>1, FirstInserted
  <2>3. Renumber(f) = r
    BY <2>2, RenumberIs
  <2>4. d = [u EXCEPT !.count = u.count + 1]
    BY <1>2, <2>3 DEF AddMenuElement, InFront
  <2> HIDE DEF f
  <2>5. /\ Linked(r) /\ r.menu = NumberedMenu(f, Len(f.list)) /\ r.list = f.list
        /\ r.id = f.id /\ r.count = f.count
        /\ DOMAIN r.menu = DOMAIN f.menu
    <3> DEFINE N == Len(f.list)
    <3>1. N \in 0 .. Len(f.list)
      BY <2>2, <1>0
    <3> HIDE DEF N
    <3>2. /\ Linked(Numbered(f, N))
          /\ Numbered(f, N).menu = NumberedMenu(f, N) /\ Numbered(f, N).list = f.list
          /\ Numbered(f, N).id = f.id /\ Numbered(f, N).count = f.count
          /\ DOMAIN NumberedMenu(f, N) = DOMAIN f.menu
      BY <2>2, <3>1, NumberedIs
    <3> QED
      BY <3>2 DEF N
  <2>6. Placed(r)
    <3> SUFFICES ASSUME NEW i \in DOMAIN f.list
                 PROVE  /\ r.menu[i].place = i /\ r.menu[i].file = f.list[i].file
                        /\ r.menu[i].enabled = TRUE
      BY <2>5 DEF Placed
    <3>1. i \in DOMAIN f.menu /\ i <= Len(f.list)
      BY <2>2, MemoryFields
    <3>2. r.menu[i] = [id |-> f.menu[i].id, place |-> i, file |-> f.list[i].file, enabled |-> TRUE]
      BY <2>5, <3>1 DEF NumberedMenu
    <3> QED
      BY <3>2
  <2> HIDE DEF r
  <2>7. Len(r.list) <= MaxMru + 1 /\ r.list # <<>>
    BY <1>0, <2>2, <2>5
  <2>8. /\ Linked(u) /\ Placed(u) /\ u.id = r.id /\ u.count = r.count /\ u.list # <<>>
        /\ DOMAIN u.list = DOMAIN r.list \cap (1 .. MaxMru)
        /\ \A i \in DOMAIN u.list : u.list[i] = r.list[i]
    BY <2>5, <2>6, <2>7, TruncateIs
  <2> HIDE DEF u
  <2>9. /\ u \in MruMemory /\ u.count \in Nat /\ u.count # 0
    BY <2>8, MemoryFields DEF Linked
  <2>10. /\ d.count = u.count + 1 /\ d.list = u.list /\ d.menu = u.menu /\ d.id = u.id
         /\ d.public = u.public /\ d.made = u.made /\ d \in MruMemory
    <3> DEFINE c == u.count + 1
    <3>1. d = [u EXCEPT !.count = c] /\ c \in Nat /\ u \in MruMemory
      BY <2>4, <2>9
    <3> HIDE DEF c
    <3>2. /\ d.count = c /\ d.list = u.list /\ d.menu = u.menu /\ d.id = u.id
          /\ d.public = u.public /\ d.made = u.made /\ d \in MruMemory
      BY ONLY <3>1 DEF MruMemory
    <3> QED
      BY <3>2 DEF c
  <2>11. d.count # 0
    BY <2>9, <2>10
  <2>12. Linked(d) /\ Placed(d)
    BY <2>8, <2>10, <2>11 DEF Linked, Placed
  <2>13. DOMAIN r.list = 1 .. n + 1
    BY <2>2, <2>5, MemoryFields
  <2>14. 1 \in DOMAIN d.list
    BY <2>8, <2>10, MemoryFields
  <2> QED
    BY <2>2, <2>5, <2>8, <2>10, <2>12, <2>13, <2>14
<1> QED
  BY <1>1, <1>2

(* CheckForDuplicateMRU finds the only entry of the file, if there is one. *)
LEMMA DuplicateIs ==
  ASSUME NEW m, MruOk(m), NEW file \in Files, NEW i, i = CheckForDuplicate(m, file)
  PROVE  /\ i = 0 => \A j \in DOMAIN m.list : Upper[m.list[j].file] # Upper[file]
         /\ i # 0 => /\ i \in DOMAIN m.list /\ Upper[m.list[i].file] = Upper[file]
                     /\ \A j \in DOMAIN m.list : Upper[m.list[j].file] = Upper[file] => j = i
         /\ i \in Nat
<1> DEFINE same == {j \in DOMAIN m.list : Upper[m.list[j].file] = Upper[file]}
<1>1. CASE same = {}
  <2>1. i = 0
    BY <1>1 DEF CheckForDuplicate
  <2> QED
    BY <1>1, <2>1
<1>2. CASE same # {}
  <2>1. i = CHOOSE k \in same : \A j \in same : k <= j
    BY <1>2 DEF CheckForDuplicate
  <2>2. PICK k \in same : TRUE
    BY <1>2
  <2>3. \A j \in same : j = k
    BY <2>2 DEF MruOk, Apart
  <2>4. k \in Nat /\ k # 0
    BY <2>2, MemoryFields DEF MruOk
  <2>5. \A j \in same : k <= j
    BY <2>3, <2>4
  <2>6. i \in same
    BY <2>1, <2>2, <2>5
  <2>7. i = k
    BY <2>3, <2>6
  <2> QED
    BY <2>3, <2>4, <2>6, <2>7
<1> QED
  BY <1>1, <1>2

(* What it takes to have brought a name from place p to the front. *)
LEMMA NamesInFront ==
  ASSUME NEW m, MruOk(m), NEW a, NEW p \in 1 .. Len(m.list) + 1,
         p \in DOMAIN m.list => Upper[m.list[p].file] = a,
         \A j \in DOMAIN m.list : Upper[m.list[j].file] = a => j = p,
         NEW d, Linked(d), Placed(d),
         DOMAIN d.list = (DOMAIN m.list \cup {p}) \cap (1 .. MaxMru),
         Upper[d.list[1].file] = a,
         \A i \in DOMAIN d.list : i # 1 => d.list[i] = IF i <= p THEN m.list[i - 1] ELSE m.list[i]
  PROVE  /\ MruOk(d)
         /\ NamesIn(d) = Promise!Cut(Promise!ToFront(NamesIn(m), a))
<1> DEFINE n == Len(m.list)
           s == NamesIn(m)
           e == NamesIn(d)
           From(i) == IF i <= p THEN i - 1 ELSE i
<1>0. /\ n \in Nat /\ DOMAIN m.list = 1 .. n /\ MaxMru \in Nat /\ p \in 1 .. n + 1 /\ MaxMru >= 1
      /\ DOMAIN d.list = 1 .. Len(d.list) /\ Len(d.list) \in Nat /\ n <= MaxMru
      /\ m.list \in Seq(MruEntry)
  BY MemoryFields, MruAssumption DEF MruOk
<1>1. /\ DOMAIN s = 1 .. n /\ DOMAIN e = DOMAIN d.list
      /\ \A i \in 1 .. n : s[i] = Upper[m.list[i].file]
      /\ \A i \in DOMAIN d.list : e[i] = Upper[d.list[i].file]
  BY <1>0 DEF NamesIn
<1> HIDE DEF s, e, n
<1>2. Promise!Place(s, a) = p
  <2>1. CASE p \in 1 .. n
    <3>1. s[p] = a /\ \A j \in 1 .. n : s[j] = a => j = p
      BY <1>0, <1>1, <2>1
    <3>2. a \in Promise!Members(s)
      BY <1>1, <2>1, <3>1 DEF Promise!Members
    <3>3. (CHOOSE i \in DOMAIN s : s[i] = a) = p
      BY <1>1, <2>1, <3>1
    <3> QED
      BY <3>2, <3>3 DEF Promise!Place
  <2>2. CASE p \notin 1 .. n
    <3>1. p = n + 1 /\ \A j \in 1 .. n : s[j] # a
      <4>1. p = n + 1
        BY <1>0, <2>2
      <4>2. \A j \in 1 .. n : s[j] = a => j = p
        BY <1>0, <1>1
      <4> QED
        BY <2>2, <4>1, <4>2
    <3>2. a \notin Promise!Members(s)
      BY <1>1, <3>1 DEF Promise!Members
    <3>3. Len(s) = n
      BY <1>0, <1>1 DEF NamesIn, s
    <3> QED
      BY <3>1, <3>2, <3>3 DEF Promise!Place
  <2> QED
    BY <2>1, <2>2
<1>3. DOMAIN e = (1 .. n \cup {p}) \cap (1 .. MaxMru)
  BY <1>0, <1>1
<1>4. ASSUME NEW i \in DOMAIN e, i # 1
      PROVE  /\ From(i) \in 1 .. n /\ From(i) # p /\ e[i] = s[From(i)]
             /\ d.list[i] = m.list[From(i)]
  <2>1. i \in 1 .. n \cup {p} /\ i \in Nat /\ i > 1 /\ i \in DOMAIN d.list
    BY <1>0, <1>1, <1>3, <1>4
  <2>2. d.list[i] = m.list[From(i)]
    BY <1>4, <2>1
  <2>3. From(i) \in 1 .. n /\ From(i) # p
    BY <1>0, <2>1
  <2> HIDE DEF From
  <2> QED
    BY <1>1, <2>1, <2>2, <2>3
<1>5. 1 \in DOMAIN e /\ e[1] = a
  <2>1. 1 \in 1 .. n \cup {p} /\ 1 \in 1 .. MaxMru
    BY <1>0
  <2> QED
    BY <1>1, <1>3, <2>1
<1>6. \A i, j \in DOMAIN e : e[i] = e[j] => i = j
  <2>1. \A i, j \in 1 .. n : s[i] = s[j] => i = j
    <3>1. Apart(m)
      BY DEF MruOk
    <3>2. \A i, j \in 1 .. n : Upper[m.list[i].file] = Upper[m.list[j].file] => i = j
      BY <1>0, <3>1 DEF Apart
    <3> QED
      BY <1>1, <3>2
  <2>2. \A j \in 1 .. n : s[j] = a => j = p
    BY <1>0, <1>1
  <2>3. \A i, j \in DOMAIN e : i # 1 /\ j # 1 /\ From(i) = From(j) => i = j
    <3>1. DOMAIN e \subseteq Nat
      BY <1>0, <1>1
    <3> QED
      BY <1>0, <1>4, <3>1
  <2> HIDE DEF From
  <2>4. \A i \in DOMAIN e : i # 1 => e[i] # a
    BY <1>4, <2>2
  <2>5. \A i, j \in DOMAIN e : i # 1 /\ j # 1 /\ e[i] = e[j] => i = j
    BY <1>4, <2>1, <2>3
  <2> QED
    BY <1>5, <2>4, <2>5
<1>7. MruOk(d)
  <2>1. Apart(d)
    BY <1>1, <1>6 DEF Apart
  <2>2. Len(d.list) <= MaxMru
    <3>1. DOMAIN d.list \subseteq 1 .. MaxMru
      BY <1>1, <1>3
    <3>2. CASE Len(d.list) = 0
      BY <1>0, <3>2
    <3>3. CASE Len(d.list) # 0
      <4>1. Len(d.list) \in DOMAIN d.list
        BY <1>0, <3>3
      <4> QED
        BY <1>0, <3>1, <4>1
    <3> QED
      BY <3>2, <3>3
  <2> QED
    BY <2>1, <2>2 DEF MruOk
<1>8. Promise!ToFront(s, a)
        = [i \in 1 .. n \cup {p} |-> IF i = 1 THEN a ELSE IF i <= p THEN s[i - 1] ELSE s[i]]
  BY <1>1, <1>2 DEF Promise!ToFront
<1> DEFINE g == Promise!ToFront(s, a)
<1>9. DOMAIN g = 1 .. n \cup {p} /\ \A i \in 1 .. n \cup {p} :
        g[i] = IF i = 1 THEN a ELSE IF i <= p THEN s[i - 1] ELSE s[i]
  BY <1>8
<1> HIDE DEF g
<1>10. \A i \in DOMAIN e : e[i] = g[i]
  <2> SUFFICES ASSUME NEW i \in DOMAIN e PROVE e[i] = g[i]
    OBVIOUS
  <2>1. i \in 1 .. n \cup {p}
    BY <1>3
  <2>2. CASE i = 1
    BY <1>5, <1>9, <2>1, <2>2
  <2>3. CASE i # 1
    BY <1>4, <1>9, <2>1, <2>3
  <2> QED
    BY <2>2, <2>3
<1>11. Promise!Cut(g) = [i \in DOMAIN e |-> g[i]]
  BY <1>3, <1>9 DEF Promise!Cut
<1>12. e = [i \in DOMAIN e |-> e[i]]
  BY DEF e, NamesIn
<1>13. e = Promise!Cut(g)
  BY <1>10, <1>11, <1>12
<1> QED
  BY <1>7, <1>13 DEF e, g, s

(* Opening a file brings its name to the front of the list and of the menu. *)
LEMMA AddMRUItemIs ==
  ASSUME NEW m, MruOk(m), NEW file \in Files, NEW d, d = AddMRUItem(m, file)
  PROVE  /\ MruOk(d) /\ d.list # <<>>
         /\ NamesIn(d) = Promise!Cut(Promise!ToFront(NamesIn(m), Upper[file]))
<1> DEFINE n == Len(m.list)
           a == Upper[file]
           i == CheckForDuplicate(m, file)
<1>0. /\ n \in Nat /\ DOMAIN m.list = 1 .. n /\ MaxMru \in Nat /\ MaxMru >= 1
      /\ n <= MaxMru /\ m.list \in Seq(MruEntry) /\ Linked(m)
      /\ m.list = <<>> <=> n = 0
  <2>1. Linked(m) /\ n <= MaxMru
    BY DEF MruOk
  <2> QED
    BY <2>1, MemoryFields, MruAssumption, EmptySeq
<1>1. /\ i = 0 => \A j \in DOMAIN m.list : Upper[m.list[j].file] # a
      /\ i # 0 => /\ i \in DOMAIN m.list /\ Upper[m.list[i].file] = a
                  /\ \A j \in DOMAIN m.list : Upper[m.list[j].file] = a => j = i
      /\ i \in Nat
  BY DuplicateIs
<1>2. d = LET moved == IF i > 1 THEN Reorder(m, i) ELSE m
          IN  IF i # 1 \/ m.count = 0 THEN AddMenuElement(moved, file) ELSE moved
  BY DEF AddMRUItem
<1> HIDE DEF i, n
<1>3. CASE i = 0
  <2>1. d = AddMenuElement(m, file)
    BY <1>2, <1>3
  <2>2. /\ Linked(d) /\ Placed(d) /\ d.id = m.id /\ d.list # <<>>
        /\ DOMAIN d.list = (1 .. n + 1) \cap (1 .. MaxMru)
        /\ d.list[1].file = file
        /\ \A j \in DOMAIN m.list : j + 1 \in DOMAIN d.list => d.list[j + 1] = m.list[j]
    <3>1. Linked(m) /\ Len(m.list) <= MaxMru /\ file \in Files /\ d = AddMenuElement(m, file)
      BY <1>0, <2>1 DEF n
    <3> QED
      BY ONLY <3>1, AddMenuElementIs DEF n
  <2> DEFINE p == n + 1
  <2>3. p \in 1 .. n + 1 /\ p \notin DOMAIN m.list /\ DOMAIN m.list \cup {p} = 1 .. n + 1
    BY <1>0
  <2>4. \A j \in DOMAIN d.list : j # 1 => d.list[j] = IF j <= p THEN m.list[j - 1] ELSE m.list[j]
    <3> SUFFICES ASSUME NEW j \in DOMAIN d.list, j # 1
                 PROVE  d.list[j] = IF j <= p THEN m.list[j - 1] ELSE m.list[j]
      OBVIOUS
    <3>1. j \in 1 .. n + 1 /\ j <= p /\ j - 1 \in 1 .. n /\ j - 1 + 1 = j
      BY <1>0, <2>2
    <3> HIDE DEF p
    <3> QED
      BY <1>0, <2>2, <3>1
  <2> HIDE DEF p
  <2>5. /\ MruOk(m) /\ p \in 1 .. Len(m.list) + 1
        /\ (p \in DOMAIN m.list => Upper[m.list[p].file] = a)
        /\ (\A j \in DOMAIN m.list : Upper[m.list[j].file] = a => j = p)
        /\ Linked(d) /\ Placed(d)
        /\ DOMAIN d.list = (DOMAIN m.list \cup {p}) \cap (1 .. MaxMru)
        /\ Upper[d.list[1].file] = a
        /\ \A j \in DOMAIN d.list : j # 1 => d.list[j] = IF j <= p THEN m.list[j - 1] ELSE m.list[j]
    BY <1>1, <1>3, <2>2, <2>3, <2>4 DEF n
  <2>6. MruOk(d) /\ NamesIn(d) = Promise!Cut(Promise!ToFront(NamesIn(m), a))
    BY ONLY <2>5, NamesInFront
  <2> QED
    BY <2>2, <2>6
<1>4. CASE i = 1
  <2>1. m.list # <<>> /\ 1 \in DOMAIN m.list
    <3>1. 1 \in DOMAIN m.list
      BY <1>1, <1>4
    <3> QED
      BY <1>0, <3>1
  <2>2. m.count # 0 /\ Placed(m) /\ Linked(m)
    BY <2>1 DEF MruOk, Linked
  <2>3. d = m
    BY <1>2, <1>4, <2>2
  <2> DEFINE p == 1
  <2>4. DOMAIN d.list = (DOMAIN m.list \cup {p}) \cap (1 .. MaxMru) /\ p \in 1 .. n + 1
    <3>1. 1 .. n = (1 .. n \cup {p}) \cap (1 .. MaxMru)
      BY <1>0, <2>1
    <3>2. p \in 1 .. n + 1
      BY <1>0
    <3> QED
      BY <1>0, <2>3, <3>1, <3>2
  <2>5. \A j \in DOMAIN d.list : j # 1 => d.list[j] = IF j <= p THEN m.list[j - 1] ELSE m.list[j]
    BY <1>0, <2>3
  <2>6. Upper[m.list[1].file] = a /\ p = i
    BY <1>1, <1>4
  <2> HIDE DEF p
  <2>7. /\ MruOk(m) /\ p \in 1 .. Len(m.list) + 1
        /\ (p \in DOMAIN m.list => Upper[m.list[p].file] = a)
        /\ (\A j \in DOMAIN m.list : Upper[m.list[j].file] = a => j = p)
        /\ Linked(d) /\ Placed(d)
        /\ DOMAIN d.list = (DOMAIN m.list \cup {p}) \cap (1 .. MaxMru)
        /\ Upper[d.list[1].file] = a
        /\ \A j \in DOMAIN d.list : j # 1 => d.list[j] = IF j <= p THEN m.list[j - 1] ELSE m.list[j]
    BY <1>1, <1>4, <2>2, <2>3, <2>4, <2>5, <2>6 DEF n
  <2>8. MruOk(d) /\ NamesIn(d) = Promise!Cut(Promise!ToFront(NamesIn(m), a))
    BY ONLY <2>7, NamesInFront
  <2> QED
    BY <2>1, <2>3, <2>8
<1>5. CASE i > 1
  <2> DEFINE u == WithoutEntry(m, i)
  <2>1. i \in DOMAIN m.list /\ Len(m.list) > 1 /\ i \in 1 .. n /\ i # 1 /\ i # 0
    <3>1. i \in DOMAIN m.list /\ i # 1 /\ i # 0
      BY <1>1, <1>5
    <3> QED
      BY <1>0, <1>5, <3>1 DEF n
  <2>2. Reorder(m, i) = u
    BY ONLY <1>0, <2>1, ReorderDrops
  <2>3. /\ Linked(u) /\ Len(u.list) = Len(m.list) - 1 /\ u.list # <<>>
        /\ \A j \in DOMAIN u.list :
             LET k == IF j < i THEN j ELSE j + 1
             IN  k \in DOMAIN m.list /\ u.list[j] = m.list[k] /\ u.menu[j] = m.menu[k]
    BY ONLY <1>0, <2>1, EntryDropped
  <2> HIDE DEF u
  <2>4. d = AddMenuElement(u, file)
    BY <1>2, <1>5, <2>1, <2>2
  <2>5. Len(u.list) = n - 1 /\ Len(u.list) <= MaxMru /\ DOMAIN u.list = 1 .. n - 1 /\ Len(u.list) + 1 = n
    <3>1. Len(u.list) = n - 1 /\ DOMAIN u.list = 1 .. Len(u.list)
      BY <2>3, MemoryFields DEF n
    <3> DEFINE w == Len(u.list)
    <3>2. w = n - 1 /\ n \in Nat /\ n <= MaxMru /\ MaxMru \in Nat
      BY <1>0, <3>1
    <3> HIDE DEF w
    <3>3. w <= MaxMru /\ w + 1 = n
      BY ONLY <3>2
    <3> QED
      BY <3>1, <3>3 DEF w
  <2>6. /\ Linked(d) /\ Placed(d) /\ d.list # <<>>
        /\ DOMAIN d.list = (1 .. Len(u.list) + 1) \cap (1 .. MaxMru)
        /\ d.list[1].file = file
        /\ \A j \in DOMAIN u.list : j + 1 \in DOMAIN d.list => d.list[j + 1] = u.list[j]
    BY <2>3, <2>4, <2>5, AddMenuElementIs
  <2>7. DOMAIN d.list = 1 .. n
    <3>1. (1 .. n) \cap (1 .. MaxMru) = 1 .. n
      BY <1>0
    <3> QED
      BY <2>5, <2>6, <3>1
  <2>8. \A j \in DOMAIN d.list : j # 1 => d.list[j] = IF j <= i THEN m.list[j - 1] ELSE m.list[j]
    <3> SUFFICES ASSUME NEW j \in 1 .. n, j # 1
                 PROVE  d.list[j] = IF j <= i THEN m.list[j - 1] ELSE m.list[j]
      BY <2>7
    <3> DEFINE k == j - 1
    <3>1. k \in 1 .. n - 1 /\ k + 1 = j /\ k \in DOMAIN u.list
      BY <1>0, <2>5
    <3> HIDE DEF k
    <3>2. d.list[j] = u.list[k]
      BY <2>6, <2>7, <3>1
    <3>3. u.list[k] = IF k < i THEN m.list[k] ELSE m.list[k + 1]
      BY <2>3, <3>1
    <3>4. k < i <=> j <= i
      BY <1>1, <3>1
    <3> QED
      BY <3>2, <3>3, <3>4, <3>1 DEF k
  <2>9. /\ MruOk(m) /\ i \in 1 .. Len(m.list) + 1
        /\ (i \in DOMAIN m.list => Upper[m.list[i].file] = a)
        /\ (\A j \in DOMAIN m.list : Upper[m.list[j].file] = a => j = i)
        /\ Linked(d) /\ Placed(d)
        /\ DOMAIN d.list = (DOMAIN m.list \cup {i}) \cap (1 .. MaxMru)
        /\ Upper[d.list[1].file] = a
        /\ \A j \in DOMAIN d.list : j # 1 => d.list[j] = IF j <= i THEN m.list[j - 1] ELSE m.list[j]
    <3>1. i \in 1 .. Len(m.list) + 1 /\ 1 .. n = (1 .. n \cup {i}) \cap (1 .. MaxMru)
      <4>1. i \in 1 .. n + 1
        BY <1>0, <2>1
      <4>2. 1 .. n = (1 .. n \cup {i}) \cap (1 .. MaxMru)
        BY <1>0, <2>1
      <4> QED
        BY <4>1, <4>2 DEF n
    <3> QED
      BY <1>0, <1>1, <2>1, <2>6, <2>7, <2>8, <3>1
  <2>10. MruOk(d) /\ NamesIn(d) = Promise!Cut(Promise!ToFront(NamesIn(m), a))
    BY ONLY <2>9, NamesInFront
  <2> QED
    BY <2>6, <2>10
<1>6. i = 0 \/ i = 1 \/ i > 1
  BY <1>1
<1> QED
  BY <1>3, <1>4, <1>5, <1>6

(* The memory with the first k items of the menu left. *)
FirstItems(m, k) == [i \in 1 .. k |-> m.menu[i]]
Left(m, k) == [m EXCEPT !.menu = FirstItems(m, k)]

(* What is left when the items behind one are removed. *)
LEMMA LeftIs ==
  ASSUME NEW m, Linked(m), NEW k \in 0 .. Len(m.menu)
  PROVE  /\ FirstItems(m, k) \in Seq(MruItem) /\ Len(FirstItems(m, k)) = k
         /\ DOMAIN FirstItems(m, k) = 1 .. k
         /\ \A i \in 1 .. k : FirstItems(m, k)[i] = m.menu[i] /\ i \in DOMAIN m.menu
         /\ Left(m, k).menu = FirstItems(m, k) /\ Left(m, k).list = m.list
         /\ Left(m, k).id = m.id /\ Left(m, k).count = m.count
         /\ Left(m, k).public = m.public /\ Left(m, k).made = m.made
         /\ Left(m, k) \in MruMemory
<1> DEFINE M == Len(m.menu)
           t == FirstItems(m, k)
<1>1. m \in MruMemory /\ M \in Nat /\ DOMAIN m.menu = 1 .. M /\ k \in 0 .. M
      /\ \A i \in 1 .. M : m.menu[i] \in MruItem
  BY MemoryFields
<1> HIDE DEF M
<1>2. k \in Nat /\ \A i \in 1 .. k : i \in 1 .. M
  BY <1>1
<1>3. t \in [1 .. k -> MruItem]
  BY <1>1, <1>2 DEF FirstItems
<1>4. t \in Seq(MruItem) /\ Len(t) = k /\ DOMAIN t = 1 .. k
  BY <1>2, <1>3
<1>5. \A i \in 1 .. k : t[i] = m.menu[i] /\ i \in DOMAIN m.menu
  BY <1>1, <1>2 DEF FirstItems
<1> HIDE DEF t
<1>6. Left(m, k) = [m EXCEPT !.menu = t]
  BY DEF Left, t
<1>7. /\ Left(m, k).menu = t /\ Left(m, k).list = m.list
      /\ Left(m, k).id = m.id /\ Left(m, k).count = m.count
      /\ Left(m, k).public = m.public /\ Left(m, k).made = m.made
      /\ Left(m, k) \in MruMemory
  BY <1>1, <1>4, <1>6 DEF MruMemory
<1> QED
  BY <1>4, <1>5, <1>7 DEF t

(* The item of an entry is found while it is in the menu. *)
LEMMA LeftFound ==
  ASSUME NEW m, Linked(m), NEW k \in 1 .. Len(m.list), NEW j \in 1 .. k
  PROVE  Positions(Left(m, k), m.list[j].name) = {j}
<1> DEFINE N == Len(m.list)
           name == m.list[j].name
<1>1. /\ N \in Nat /\ k \in 1 .. N /\ DOMAIN m.list = 1 .. N /\ j \in 1 .. k
      /\ Len(m.menu) = N
  <2>1. N \in Nat /\ DOMAIN m.list = 1 .. N
    BY MemoryFields
  <2>2. m.list # <<>>
    <3>1. k \in DOMAIN m.list
      BY <2>1
    <3> QED
      BY <3>1
  <2> QED
    BY <2>1, <2>2 DEF Linked
<1> HIDE DEF N
<1>2. k \in 0 .. Len(m.menu) /\ j \in DOMAIN m.list
  BY <1>1
<1>3. /\ DOMAIN FirstItems(m, k) = 1 .. k
      /\ \A i \in 1 .. k : FirstItems(m, k)[i] = m.menu[i] /\ i \in DOMAIN m.menu
      /\ Left(m, k).menu = FirstItems(m, k) /\ Left(m, k).public = m.public
  BY <1>2, LeftIs
<1>4. /\ MenuId(m, name) = m.menu[j].id
      /\ Positions(m, name) = {j}
  BY <1>2, ItemFound
<1> HIDE DEF name
<1>5. MenuId(Left(m, k), name) = MenuId(m, name)
  BY <1>3 DEF MenuId
<1>6. Positions(Left(m, k), name) = {i \in 1 .. k : m.menu[i].id = MenuId(m, name)}
  BY <1>3, <1>5 DEF Positions
<1>7. \A i \in 1 .. k : m.menu[i].id = MenuId(m, name) <=> i = j
  BY <1>3, <1>4 DEF Positions
<1> QED
  BY <1>1, <1>6, <1>7 DEF name

(* One step of the loop that removes the items. *)
LEMMA LeftNext ==
  ASSUME NEW m, Linked(m), NEW k \in 1 .. Len(m.list)
  PROVE  RemoveMenuItem(Left(m, k), m.list[k].name) = Left(m, k - 1)
<1> DEFINE N == Len(m.list)
           name == m.list[k].name
           d == Left(m, k)
           t == FirstItems(m, k)
           u == FirstItems(m, k - 1)
<1>1. N \in Nat /\ k \in 1 .. N /\ k \in Nat /\ Len(m.menu) = N /\ m \in MruMemory
  <2>1. N \in Nat /\ DOMAIN m.list = 1 .. N /\ m \in MruMemory
    BY MemoryFields
  <2>2. m.list # <<>>
    <3>1. k \in DOMAIN m.list
      BY <2>1
    <3> QED
      BY <3>1
  <2> QED
    BY <2>1, <2>2 DEF Linked
<1>2. Positions(d, name) = {k}
  <2>1. k \in 1 .. k
    BY <1>1
  <2> QED
    BY <2>1, LeftFound
<1> HIDE DEF N, name
<1>3. k \in 0 .. Len(m.menu) /\ k - 1 \in 0 .. Len(m.menu)
  BY <1>1
<1>4. /\ t \in Seq(MruItem) /\ Len(t) = k
      /\ \A i \in 1 .. k : t[i] = m.menu[i]
      /\ d.menu = t
  BY <1>3, LeftIs
<1> DEFINE j == k - 1
<1>5. /\ u \in Seq(MruItem) /\ Len(u) = j
      /\ \A i \in 1 .. j : u[i] = m.menu[i]
  <2>1. j \in 0 .. Len(m.menu)
    BY <1>3
  <2> HIDE DEF j
  <2>2. /\ FirstItems(m, j) \in Seq(MruItem) /\ Len(FirstItems(m, j)) = j
        /\ \A i \in 1 .. j : FirstItems(m, j)[i] = m.menu[i]
    BY <2>1, LeftIs
  <2> QED
    BY <2>2 DEF j
<1> HIDE DEF t, u, d
<1>6. RemoveMenuItem(d, name) = [d EXCEPT !.menu = Seqs!RemoveAt(t, k)]
  <2>1. (CHOOSE i \in Positions(d, name) : TRUE) = k
    BY <1>2
  <2> QED
    BY <1>2, <1>4, <2>1 DEF RemoveMenuItem
<1>7. Seqs!RemoveAt(t, k) = u
  <2> DEFINE v == Seqs!RemoveAt(t, k)
  <2>1. k \in 1 .. Len(t)
    BY <1>1, <1>4
  <2>2. /\ v \in Seq(MruItem) /\ Len(v) = Len(t) - 1
        /\ \A i \in 1 .. Len(t) - 1 : v[i] = IF i < k THEN t[i] ELSE t[i + 1]
    <3>1. t \in Seq(MruItem)
      BY <1>4
    <3> QED
      BY ONLY <2>1, <3>1, RemoveAtIs
  <2> HIDE DEF v
  <2>3. Len(v) = Len(u) /\ Len(u) = k - 1
    BY <1>1, <1>4, <1>5, <2>2
  <2>4. \A i \in 1 .. Len(v) : v[i] = u[i]
    <3> SUFFICES ASSUME NEW i \in 1 .. k - 1 PROVE v[i] = u[i]
      BY <2>3
    <3>1. i < k /\ i \in 1 .. k
      BY <1>1
    <3> QED
      BY <1>4, <1>5, <2>2, <3>1
  <2>5. v = u
    BY <1>5, <2>2, <2>3, <2>4, SeqEqual
  <2> QED
    BY <2>5 DEF v
<1>8. [d EXCEPT !.menu = u] = Left(m, k - 1)
  BY <1>1 DEF d, Left, MruMemory, u
<1> QED
  BY <1>6, <1>7, <1>8 DEF d, name

(* The loop leaves the first item. *)
Leaves(m, f) ==
  f = [n \in 0 .. Len(m.list) - 1 |->
         IF n = 0 THEN m
         ELSE RemoveMenuItem(f[n - 1], m.list[Len(m.list) + 1 - n].name)]

(* Clearing leaves the first item only. *)
LEMMA FirstOnlyIs ==
  ASSUME NEW m, Linked(m), m.list # <<>>
  PROVE  FirstOnly(m) = Left(m, 1)
<1> DEFINE N == Len(m.list)
           R == N - 1
           c == [n \in 0 .. R |-> Left(m, N - n)]
           g == CHOOSE f : Leaves(m, f)
<1>1. N \in Nat /\ N >= 1 /\ m \in MruMemory /\ R \in Nat /\ Len(m.menu) = N
  <2>1. 1 \in DOMAIN m.list /\ DOMAIN m.list = 1 .. N /\ N \in Nat /\ m \in MruMemory
    BY MemoryFields
  <2> QED
    BY <2>1 DEF Linked
<1>2. Left(m, N) = m
  <2>1. m.menu = FirstItems(m, N)
    BY <1>1, MemoryFields DEF FirstItems
  <2> QED
    BY <1>1, <2>1 DEF Left, MruMemory
<1>3. Leaves(m, c)
  <2>1. ASSUME NEW n \in 0 .. R
        PROVE  Left(m, N - n) = IF n = 0 THEN m
               ELSE RemoveMenuItem(c[n - 1], m.list[N + 1 - n].name)
    <3>1. CASE n = 0
      <4>1. N - n = N
        BY <1>1, <3>1
      <4> QED
        BY <1>2, <3>1, <4>1
    <3>2. CASE n # 0
      <4> DEFINE k == N + 1 - n
      <4>1. n - 1 \in 0 .. R /\ N - (n - 1) = k /\ k \in 1 .. N /\ k - 1 = N - n
        BY <1>1, <3>2
      <4>2. c[n - 1] = Left(m, k)
        BY <4>1
      <4> HIDE DEF k
      <4>3. RemoveMenuItem(Left(m, k), m.list[k].name) = Left(m, k - 1)
        BY <4>1, LeftNext
      <4> QED
        BY <3>2, <4>1, <4>2, <4>3 DEF k
    <3> QED
      BY <3>1, <3>2
  <2>2. c = [n \in 0 .. R |->
               IF n = 0 THEN m
               ELSE RemoveMenuItem(c[n - 1], m.list[N + 1 - n].name)]
    BY <2>1
  <2> QED
    BY <2>2 DEF Leaves
<1>4. FirstOnly(m) = g[R]
  BY Zenon DEF FirstOnly, Leaves
<1> HIDE DEF c
<1>5. Leaves(m, g)
  BY <1>3
<1> HIDE DEF g
<1>6. /\ c[0] = m /\ g[0] = m
      /\ \A n \in 1 .. R : c[n] = RemoveMenuItem(c[n - 1], m.list[N + 1 - n].name)
      /\ \A n \in 1 .. R : g[n] = RemoveMenuItem(g[n - 1], m.list[N + 1 - n].name)
  <2> SUFFICES ASSUME NEW f, Leaves(m, f)
               PROVE  /\ f[0] = m
                      /\ \A n \in 1 .. R :
                           f[n] = RemoveMenuItem(f[n - 1], m.list[N + 1 - n].name)
    BY <1>3, <1>5
  <2>1. f = [n \in 0 .. R |->
               IF n = 0 THEN m
               ELSE RemoveMenuItem(f[n - 1], m.list[N + 1 - n].name)]
    BY DEF Leaves
  <2> HIDE DEF Leaves, R, N
  <2>2. \A n \in 0 .. R : f[n] = IF n = 0 THEN m
               ELSE RemoveMenuItem(f[n - 1], m.list[N + 1 - n].name)
    BY ONLY <2>1, Zenon
  <2>3. 0 \in 0 .. R /\ \A n \in 1 .. R : n \in 0 .. R /\ n # 0
    BY <1>1
  <2> QED
    BY <2>2, <2>3
<1> HIDE DEF R
<1>7. \A n \in 0 .. R : c[n] = g[n]
  <2>1. c[0] = g[0] /\ \A n \in 1 .. R : c[n - 1] = g[n - 1] => c[n] = g[n]
    BY <1>6
  <2>2. R \in Nat
    BY <1>1
  <2> QED
    BY ONLY <2>2, <2>1, SameSteps
<1>8. R \in 0 .. R /\ N - R = 1
  BY <1>1 DEF R
<1> HIDE DEF N
<1>9. c[R] = Left(m, 1)
  BY <1>8 DEF c
<1> QED
  BY <1>4, <1>7, <1>8, <1>9

(* ClearMRUList leaves an empty list, and a menu with one disabled item.   *)
LEMMA ClearIs ==
  ASSUME NEW m, MruOk(m), m.list # <<>>, NEW d, d = ClearMRUList(m)
  PROVE  MruOk(d) /\ d.list = <<>> /\ d.menu[1].enabled = FALSE
<1> DEFINE name == m.list[1].name
           q == Left(m, 1)
           r == ModifyMenuItem(q, name, 0, Empty)
           e == [k \in DOMAIN r.menu |->
                   IF k \in Positions(r, name) THEN [r.menu[k] EXCEPT !.enabled = FALSE]
                   ELSE r.menu[k]]
<1>1. Linked(m) /\ 1 \in DOMAIN m.list /\ 1 \in 1 .. Len(m.list) /\ m \in MruMemory
      /\ 1 \in DOMAIN m.menu /\ m.menu[1] \in MruItem /\ name \in Seq(Nat)
      /\ Len(m.menu) \in Nat /\ DOMAIN m.menu = 1 .. Len(m.menu)
  <2>1. Linked(m)
    BY DEF MruOk
  <2>2. 1 \in DOMAIN m.list /\ m.list[1] \in MruEntry
    BY <2>1, MemoryFields
  <2> QED
    BY <2>1, <2>2, MemoryFields DEF MruEntry
<1>2. FirstOnly(m) = q
  BY <1>1, FirstOnlyIs
<1>3. d = [r EXCEPT !.menu = e, !.id = name, !.list = <<>>, !.count = 0]
  BY <1>2 DEF ClearMRUList
<1>4. /\ q.menu = FirstItems(m, 1) /\ q \in MruMemory /\ q.public = m.public /\ q.made = m.made
      /\ DOMAIN q.menu = {1} /\ q.menu[1] = m.menu[1]
  <2> DEFINE k == 1
  <2>1. k \in 0 .. Len(m.menu) /\ 1 .. k = {1}
    BY <1>1
  <2> HIDE DEF k
  <2>2. /\ DOMAIN FirstItems(m, k) = 1 .. k
        /\ \A i \in 1 .. k : FirstItems(m, k)[i] = m.menu[i] /\ i \in DOMAIN m.menu
        /\ Left(m, k).menu = FirstItems(m, k)
        /\ Left(m, k).public = m.public /\ Left(m, k).made = m.made
        /\ Left(m, k) \in MruMemory
    BY <1>1, <2>1, LeftIs
  <2>3. 1 \in 1 .. k
    BY <2>1
  <2> QED
    BY <2>1, <2>2, <2>3 DEF k
<1>5. Positions(q, name) = {1}
  <2> DEFINE k == 1
  <2>1. k \in 1 .. Len(m.list) /\ k \in 1 .. k
    BY <1>1
  <2> HIDE DEF k
  <2>2. Positions(Left(m, k), m.list[k].name) = {k}
    BY <1>1, <2>1, LeftFound
  <2> QED
    BY <2>2 DEF k
<1>6. MenuId(q, name) = m.menu[1].id
  BY <1>4, <1>5 DEF Positions
<1> HIDE DEF q
<1> DEFINE item == [id |-> m.menu[1].id, place |-> 0, file |-> Empty, enabled |-> TRUE]
           t == [k \in {1} |-> item]
<1>7. r = [q EXCEPT !.menu = t]
  <2>1. t = [k \in DOMAIN q.menu |->
               IF q.menu[k].id = MenuId(q, name)
               THEN [id |-> q.menu[k].id, place |-> 0, file |-> Empty, enabled |-> TRUE]
               ELSE q.menu[k]]
    BY <1>4, <1>6
  <2> HIDE DEF t, item, name
  <2> QED
    BY <2>1 DEF ModifyMenuItem
<1> HIDE DEF r, t, name
<1>8. /\ r.menu = t /\ r.public = m.public /\ r.made = m.made /\ r \in [count : Nat, list : Seq(MruEntry), id : Seq(Nat), menu : {t},
              public : Publics, made : Nat]
  BY <1>4, <1>7 DEF MruMemory
<1>9. DOMAIN t = {1} /\ t[1] = item
  BY DEF t
<1>10. Positions(r, name) = {1}
  <2>1. MenuId(r, name) = m.menu[1].id
    BY <1>4, <1>6, <1>8 DEF MenuId
  <2> QED
    BY <1>8, <1>9, <2>1 DEF Positions
<1> DEFINE last == [item EXCEPT !.enabled = FALSE]
<1>11. DOMAIN e = {1} /\ e[1] = last
  <2> HIDE DEF item
  <2> QED
    BY <1>8, <1>9, <1>10
<1>12. last \in MruItem /\ last.id = m.menu[1].id /\ last.enabled = FALSE
  <2>1. item \in MruItem /\ item.id = m.menu[1].id
    BY <1>1 DEF MruItem
  <2> HIDE DEF item
  <2> QED
    BY <2>1 DEF MruItem
<1> HIDE DEF last
<1> DEFINE z == e
<1>13. z = [k \in {1} |-> z[k]]
  BY <1>8, <1>9
<1> HIDE DEF z
<1>14. z \in Seq(MruItem) /\ Len(z) = 1
  <2> DEFINE k == 1
  <2>1. k \in Nat /\ 1 .. k = {1}
    OBVIOUS
  <2>2. DOMAIN z = {1} /\ z[1] \in MruItem
    BY <1>11, <1>12 DEF z
  <2>3. z = [i \in 1 .. k |-> z[i]] /\ \A i \in 1 .. k : z[i] \in MruItem
    BY <1>13, <2>1, <2>2
  <2> HIDE DEF k
  <2>4. z \in [1 .. k -> MruItem]
    BY ONLY <2>3
  <2>5. z \in Seq(MruItem) /\ Len(z) = k
    BY ONLY <2>1, <2>4
  <2> QED
    BY <2>5 DEF k
<1>15. /\ d.menu = z /\ d.id = name /\ d.list = <<>> /\ d.count = 0 /\ d.public = m.public
       /\ d.made = m.made
  BY <1>3, <1>8 DEF z
<1>16. d \in MruMemory
  <2>1. <<>> \in Seq(MruEntry) /\ 0 \in Nat
    OBVIOUS
  <2> QED
    BY <1>1, <1>3, <1>8, <1>14, <2>1 DEF z, MruMemory, name
<1>17. /\ name \in DOMAIN m.public /\ m.menu[1].id = m.public[name]
       /\ m.menu[1].id # 0 /\ m.menu[1].id <= m.made
  BY <1>1 DEF Linked, name
<1>18. DOMAIN z = {1} /\ z[1] = last /\ DOMAIN d.list = {}
  BY <1>11, <1>15 DEF z
<1>19. Linked(d)
  <2>1. /\ d.count = 0 /\ d.list = <<>> /\ Len(d.menu) = 1
        /\ d.id \in DOMAIN d.public /\ d.menu[1].id = d.public[d.id]
    BY <1>14, <1>15, <1>17, <1>18, <1>12
  <2>2. /\ \A i \in DOMAIN d.menu : d.menu[i].id # 0 /\ d.menu[i].id <= d.made
        /\ \A i, j \in DOMAIN d.menu : d.menu[i].id = d.menu[j].id => i = j
    BY <1>15, <1>17, <1>18, <1>12
  <2> QED
    BY <1>16, <1>18, <2>1, <2>2 DEF Linked
<1>20. Placed(d) /\ Apart(d) /\ Len(d.list) <= MaxMru
  <2>1. Len(d.list) = 0 /\ MaxMru \in Nat
    BY <1>15, MruAssumption
  <2> QED
    BY <1>18, <2>1 DEF Placed, Apart
<1> QED
  BY <1>15, <1>18, <1>19, <1>20, <1>12 DEF MruOk

(* The entries of an ini file up to the first hole, for any ini file.      *)
Prefix(e) ==
  LET filled == {n \in 0 .. MaxMru : \A i \in 1 .. n : e[i] # Empty}
  IN  SubSeq(e, 1, CHOOSE n \in filled : \A k \in filled : k <= n)

IniFile == [1 .. MaxMru -> Files \cup {Empty}]

(* The entries are those of the ini file, also after a step. *)
LEMMA EntriesArePrefix == Entries = Prefix(ini) /\ Entries' = Prefix(ini')
BY DEF Entries, Prefix

(* They are filled, and the one behind them is not. *)
LEMMA PrefixOf ==
  ASSUME NEW e \in IniFile
  PROVE  /\ Prefix(e) \in Seq(Files) /\ Len(Prefix(e)) \in 0 .. MaxMru
         /\ DOMAIN Prefix(e) = 1 .. Len(Prefix(e))
         /\ \A i \in 1 .. Len(Prefix(e)) : Prefix(e)[i] = e[i] /\ e[i] # Empty
         /\ Len(Prefix(e)) < MaxMru => e[Len(Prefix(e)) + 1] = Empty
<1> DEFINE filled == {n \in 0 .. MaxMru : \A i \in 1 .. n : e[i] # Empty}
           Room(n) == MaxMru - n
           rooms == {Room(n) : n \in filled}
<1>0. MaxMru \in Nat /\ e \in [1 .. MaxMru -> Files \cup {Empty}]
  BY MruAssumption DEF IniFile
<1>1. 0 \in filled
  BY <1>0
<1>2. rooms \subseteq Nat /\ rooms # {}
  BY <1>0, <1>1
<1>3. \E r \in rooms : \A y \in rooms : r <= y
  BY <1>2, LeastNat
<1>4. PICK n \in filled : \A k \in filled : Room(n) <= Room(k)
  BY <1>3
<1>5. \A k \in filled : k <= n
  BY <1>0, <1>4
<1> DEFINE c == CHOOSE z \in filled : \A k \in filled : k <= z
<1>6. c \in filled /\ \A k \in filled : k <= c
  BY <1>5
<1>7. Prefix(e) = SubSeq(e, 1, c)
  BY DEF Prefix
<1> HIDE DEF c
<1>8. c \in 0 .. MaxMru /\ \A i \in 1 .. c : e[i] # Empty /\ e[i] \in Files
  BY <1>0, <1>6
<1>9. 1 \in Int /\ c \in Int /\ \A i \in 1 .. c : e[i] \in Files
  BY <1>8
<1>10. /\ SubSeq(e, 1, c) \in Seq(Files) /\ Len(SubSeq(e, 1, c)) = IF 1 <= c THEN c - 1 + 1 ELSE 0
       /\ \A i \in 1 .. c - 1 + 1 : SubSeq(e, 1, c)[i] = e[1 + i - 1]
  BY <1>9, SubSeqProperties
<1> DEFINE p == Prefix(e)
<1>11. p \in Seq(Files) /\ Len(p) = c /\ \A i \in 1 .. c : p[i] = e[i]
  <2>1. c - 1 + 1 = c /\ (\A i \in 1 .. c : 1 + i - 1 = i) /\ (~ (1 <= c) => c = 0)
    BY <1>0, <1>8
  <2> QED
    BY <1>7, <1>10, <2>1
<1> HIDE DEF p
<1>12. c < MaxMru => e[c + 1] = Empty
  <2> SUFFICES ASSUME c < MaxMru, e[c + 1] # Empty PROVE FALSE
    OBVIOUS
  <2>1. c + 1 \in 0 .. MaxMru /\ \A i \in 1 .. c + 1 : e[i] # Empty
    BY <1>0, <1>8
  <2>2. c + 1 \in filled
    BY <2>1
  <2>3. c + 1 <= c
    BY <1>6, <2>2
  <2> QED
    BY <1>8, <2>3
<1> QED
  BY <1>8, <1>11, <1>12 DEF p

(* Name a is found in the entries behind the k first, before any b is.     *)
Before(E, k, a, b) ==
  \E i \in k + 1 .. Len(E) : Upper[E[i]] = a /\ \A j \in k + 1 .. i : Upper[E[j]] # b

(* A list of the names of these entries, each where it is first. *)
ListsOfNames == UNION {[1 .. n -> NameSet] : n \in 0 .. MaxMru}
Sorted(E, k, s) ==
  /\ s \in ListsOfNames
  /\ \A i \in DOMAIN s : \E q \in k + 1 .. Len(E) : Upper[E[q]] = s[i]
  /\ \A q \in k + 1 .. Len(E) : \E i \in DOMAIN s : s[i] = Upper[E[q]]
  /\ \A i, j \in DOMAIN s : i < j => Before(E, k, s[i], s[j])

(* No two names are before each other. *)
LEMMA BeforeOrders ==
  ASSUME NEW E, Len(E) \in Nat, NEW k \in Nat, NEW a, NEW b, Before(E, k, a, b)
  PROVE  ~ Before(E, k, b, a) /\ a # b
<1>1. PICK i \in k + 1 .. Len(E) : Upper[E[i]] = a /\ \A j \in k + 1 .. i : Upper[E[j]] # b
  BY DEF Before
<1>2. a # b
  <2>1. i \in k + 1 .. i
    BY <1>1
  <2> QED
    BY <1>1, <2>1
<1>3. ASSUME NEW l \in k + 1 .. Len(E), Upper[E[l]] = b, \A j \in k + 1 .. l : Upper[E[j]] # a
      PROVE  FALSE
  <2>1. i \in k + 1 .. l \/ l \in k + 1 .. i
    BY <1>1, <1>3
  <2> QED
    BY <1>1, <1>3, <2>1
<1> QED
  BY <1>2, <1>3 DEF Before

(* Such a list has a length and this domain. *)
LEMMA ListIs ==
  ASSUME NEW s \in ListsOfNames
  PROVE  \E n \in 0 .. MaxMru : /\ n \in Nat /\ s \in [1 .. n -> NameSet] /\ DOMAIN s = 1 .. n
                                /\ Len(s) = n
<1>1. PICK n \in 0 .. MaxMru : s \in [1 .. n -> NameSet]
  BY DEF ListsOfNames
<1>2. n \in Nat
  BY <1>1, MruAssumption
<1>3. Len(s) = n
  BY <1>1, <1>2
<1> QED
  BY <1>1, <1>2, <1>3

(* There is only one such list: one step of the argument. *)
LEMMA SortedAlike ==
  ASSUME NEW E, Len(E) \in Nat, NEW k \in Nat, NEW s, NEW t, Sorted(E, k, s), Sorted(E, k, t),
         NEW i \in DOMAIN s, \A j \in DOMAIN s : j < i => j \in DOMAIN t /\ t[j] = s[j],
         \A j \in DOMAIN t : j < i => j \in DOMAIN s /\ t[j] = s[j]
  PROVE  i \in DOMAIN t /\ t[i] = s[i]
<1>1. PICK n \in Nat : DOMAIN s = 1 .. n
  BY ListIs DEF Sorted
<1>2. PICK l \in Nat : DOMAIN t = 1 .. l
  BY ListIs DEF Sorted
<1>3. PICK q \in k + 1 .. Len(E) : Upper[E[q]] = s[i]
  BY DEF Sorted
<1>4. PICK u \in DOMAIN t : t[u] = s[i]
  <2>1. \E u \in DOMAIN t : t[u] = Upper[E[q]]
    BY DEF Sorted
  <2> QED
    BY <1>3, <2>1
<1>5. ~ (u < i)
  <2> SUFFICES ASSUME u < i PROVE FALSE
    OBVIOUS
  <2>1. u \in DOMAIN s /\ s[u] = s[i]
    BY <1>4
  <2>2. Before(E, k, s[u], s[i])
    BY <2>1 DEF Sorted
  <2> QED
    BY <2>1, <2>2, BeforeOrders
<1>6. i \in DOMAIN t
  BY <1>1, <1>2, <1>4, <1>5
<1>7. CASE u = i
  BY <1>4, <1>6, <1>7
<1>8. CASE u # i
  <2>1. i < u
    BY <1>1, <1>2, <1>4, <1>5, <1>8
  <2>2. Before(E, k, t[i], s[i])
    BY <1>4, <1>6, <2>1 DEF Sorted
  <2>3. PICK r \in k + 1 .. Len(E) : Upper[E[r]] = t[i]
    BY <1>6 DEF Sorted
  <2>4. PICK v \in DOMAIN s : s[v] = t[i]
    <3>1. \E v \in DOMAIN s : s[v] = Upper[E[r]]
      BY DEF Sorted
    <3> QED
      BY <2>3, <3>1
  <2>5. ~ (v < i)
    <3> SUFFICES ASSUME v < i PROVE FALSE
      OBVIOUS
    <3>1. v \in DOMAIN t /\ t[v] = t[i]
      BY <2>4
    <3>2. Before(E, k, t[v], t[i])
      BY <1>6, <3>1 DEF Sorted
    <3> QED
      BY <3>1, <3>2, BeforeOrders
  <2>6. v # i
    BY <2>2, <2>4, BeforeOrders
  <2>7. i < v
    BY <1>1, <2>4, <2>5, <2>6
  <2>8. Before(E, k, s[i], t[i])
    BY <2>4, <2>7 DEF Sorted
  <2> QED
    BY <2>2, <2>8, BeforeOrders
<1> QED
  BY <1>7, <1>8

(* So the list is determined by the entries. *)
LEMMA SortedOnce ==
  ASSUME NEW E, Len(E) \in Nat, NEW k \in Nat, NEW s, NEW t, Sorted(E, k, s), Sorted(E, k, t)
  PROVE  s = t
<1>1. PICK n \in Nat : DOMAIN s = 1 .. n /\ s \in [1 .. n -> NameSet]
  BY ListIs DEF Sorted
<1>2. PICK l \in Nat : DOMAIN t = 1 .. l /\ t \in [1 .. l -> NameSet]
  BY ListIs DEF Sorted
<1> DEFINE Same(j) == (j \in DOMAIN s <=> j \in DOMAIN t) /\ (j \in DOMAIN s => t[j] = s[j])
           S == {i \in Nat : ~ Same(i)}
<1>3. S = {}
  <2> SUFFICES ASSUME S # {} PROVE FALSE
    OBVIOUS
  <2>1. S \subseteq Nat
    OBVIOUS
  <2>2. PICK i \in S : \A y \in S : i <= y
    BY <2>1, LeastNat
  <2>3. \A j \in Nat : j < i => Same(j)
    BY <2>2
  <2>4. DOMAIN s \subseteq Nat /\ DOMAIN t \subseteq Nat
    BY <1>1, <1>2
  <2>5. /\ \A j \in DOMAIN s : j < i => j \in DOMAIN t /\ t[j] = s[j]
        /\ \A j \in DOMAIN t : j < i => j \in DOMAIN s /\ t[j] = s[j]
    BY <2>3, <2>4
  <2>6. CASE i \in DOMAIN s
    <3>1. i \in DOMAIN t /\ t[i] = s[i]
      BY <2>5, <2>6, SortedAlike
    <3> QED
      BY <2>2, <2>6, <3>1
  <2>7. CASE i \in DOMAIN t
    <3>1. i \in DOMAIN s /\ s[i] = t[i]
      BY <2>5, <2>7, SortedAlike
    <3> QED
      BY <2>2, <2>7, <3>1
  <2> QED
    BY <2>2, <2>6, <2>7
<1>4. DOMAIN s \subseteq Nat /\ DOMAIN t \subseteq Nat
  BY <1>1, <1>2
<1>5. DOMAIN s = DOMAIN t /\ \A i \in DOMAIN s : t[i] = s[i]
  BY <1>3, <1>4
<1> QED
  BY <1>1, <1>2, <1>5

(* Where a name is in such a list, and that it is there once. *)
LEMMA SortedPlace ==
  ASSUME NEW E, Len(E) \in Nat, NEW k \in Nat, NEW s, Sorted(E, k, s), NEW a
  PROVE  /\ Promise!Place(s, a) \in 1 .. Len(s) + 1
         /\ Len(s) \in Nat /\ DOMAIN s = 1 .. Len(s)
         /\ \A i \in DOMAIN s : s[i] \in NameSet
         /\ \A i \in DOMAIN s : s[i] = a <=> i = Promise!Place(s, a)
<1>1. PICK n \in Nat : s \in [1 .. n -> NameSet] /\ DOMAIN s = 1 .. n /\ Len(s) = n
  BY ListIs DEF Sorted
<1>2. \A i, j \in DOMAIN s : s[i] = s[j] => i = j
  <2> SUFFICES ASSUME NEW i \in DOMAIN s, NEW j \in DOMAIN s, s[i] = s[j], i < j PROVE FALSE
    BY <1>1
  <2>1. Before(E, k, s[i], s[j])
    BY DEF Sorted
  <2> QED
    BY <2>1, BeforeOrders
<1>3. CASE a \in Promise!Members(s)
  <2>1. PICK i \in DOMAIN s : s[i] = a
    BY <1>3 DEF Promise!Members
  <2>2. Promise!Place(s, a) = i
    BY <1>2, <1>3, <2>1 DEF Promise!Place
  <2> QED
    BY <1>1, <1>2, <2>1, <2>2
<1>4. CASE a \notin Promise!Members(s)
  <2>1. \A i \in DOMAIN s : s[i] # a
    BY <1>4 DEF Promise!Members
  <2>2. Promise!Place(s, a) = n + 1
    BY <1>1, <1>4 DEF Promise!Place
  <2> QED
    BY <1>1, <2>1, <2>2
<1> QED
  BY <1>3, <1>4

(* Bringing the name of the entry before them to the front keeps the order. *)
LEMMA ToFrontSorted ==
  ASSUME NEW E \in Seq(Files), Len(E) <= MaxMru, NEW k \in 1 .. Len(E), NEW s,
         Sorted(E, k, s), Len(s) <= Len(E) - k
  PROVE  /\ Sorted(E, k - 1, Promise!Cut(Promise!ToFront(s, Upper[E[k]])))
         /\ Len(Promise!Cut(Promise!ToFront(s, Upper[E[k]]))) <= Len(E) - (k - 1)
<1> DEFINE N == Len(E)
           l == Len(s)
           a == Upper[E[k]]
           p == Promise!Place(s, a)
           g == Promise!ToFront(s, a)
           e == Promise!Cut(g)
           D == 1 .. l \cup {p}
           From(i) == IF i <= p THEN i - 1 ELSE i
<1>0. /\ N \in Nat /\ k \in 1 .. N /\ k \in Nat /\ MaxMru \in Nat /\ N <= MaxMru
      /\ a \in NameSet
  <2>1. E[k] \in Files
    OBVIOUS
  <2> QED
    BY <2>1, MruAssumption DEF NameSet
<1>1. /\ p \in 1 .. l + 1 /\ l \in Nat /\ DOMAIN s = 1 .. l
      /\ \A i \in DOMAIN s : s[i] \in NameSet
      /\ \A i \in DOMAIN s : s[i] = a <=> i = p
  BY <1>0, SortedPlace
<1>2. l <= N - k
  OBVIOUS
<1>3. g = [i \in D |-> IF i = 1 THEN a ELSE IF i <= p THEN s[i - 1] ELSE s[i]]
  BY <1>1 DEF Promise!ToFront
<1>4. e = [i \in DOMAIN g \cap (1 .. MaxMru) |-> g[i]]
  BY DEF Promise!Cut
<1> HIDE DEF N, l, a, p, g, e
<1>5. /\ \E c \in Nat : D = 1 .. c /\ c <= N - (k - 1) /\ c <= MaxMru
      /\ 1 \in D /\ DOMAIN g = D /\ D \cap (1 .. MaxMru) = D /\ D \subseteq Nat
  <2>1. CASE p <= l
    <3>1. D = 1 .. l
      BY <1>1, <2>1
    <3>2. 1 \in 1 .. l
      BY <1>1, <2>1
    <3>3. l <= MaxMru /\ l <= N - (k - 1)
      BY <1>0, <1>1, <1>2
    <3>4. D \cap (1 .. MaxMru) = D
      BY <1>0, <1>1, <3>1, <3>3
    <3> QED
      BY <1>1, <1>3, <3>1, <3>2, <3>3, <3>4
  <2>2. CASE ~ (p <= l)
    <3> DEFINE c == l + 1
    <3>1. p = c /\ D = 1 .. c /\ c \in Nat
      BY <1>1, <2>2
    <3>2. 1 \in 1 .. c
      BY <1>1
    <3>3. c <= MaxMru /\ c <= N - (k - 1)
      BY <1>0, <1>1, <1>2
    <3> HIDE DEF c
    <3>4. D \cap (1 .. MaxMru) = D
      BY <1>0, <3>1, <3>3
    <3> QED
      BY <1>3, <3>1, <3>2, <3>3, <3>4
  <2> QED
    BY <2>1, <2>2
<1>6. /\ DOMAIN e = D /\ e = [i \in D |-> e[i]] /\ e[1] = a
      /\ \A i \in D : i # 1 => e[i] = s[From(i)]
  <2>1. e = [i \in D |-> g[i]]
    BY <1>4, <1>5
  <2>2. DOMAIN e = D /\ \A i \in D : e[i] = g[i]
    BY <2>1
  <2>3. \A i \in D : g[i] = IF i = 1 THEN a ELSE IF i <= p THEN s[i - 1] ELSE s[i]
    BY <1>3
  <2>4. \A i \in D : i # 1 => g[i] = s[From(i)]
    BY <2>3
  <2> HIDE DEF From, D
  <2> QED
    BY <1>5, <2>1, <2>2, <2>3, <2>4
<1>7. /\ \A i \in D : i # 1 => From(i) \in 1 .. l /\ From(i) # p
      /\ \A i, j \in D : i # 1 /\ i < j => From(i) < From(j)
      /\ \A u \in 1 .. l : u # p => \E i \in D : i # 1 /\ From(i) = u
  <2>1. \A i \in D : i # 1 => From(i) \in 1 .. l /\ From(i) # p
    BY <1>1
  <2>2. \A i, j \in D : i # 1 /\ i < j => From(i) < From(j)
    BY <1>1
  <2>3. ASSUME NEW u \in 1 .. l, u # p
        PROVE  \E i \in D : i # 1 /\ From(i) = u
    <3>1. CASE u < p
      <4>1. u + 1 \in D /\ u + 1 # 1 /\ From(u + 1) = u
        BY <1>1, <3>1
      <4> QED
        BY <4>1
    <3>2. CASE ~ (u < p)
      <4>1. u \in D /\ u # 1 /\ From(u) = u
        BY <1>1, <2>3, <3>2
      <4> QED
        BY <4>1
    <3> QED
      BY <3>1, <3>2
  <2> HIDE DEF From, D
  <2> QED
    BY <2>1, <2>2, <2>3
<1> HIDE DEF From, D
<1>8. \A i \in D : i # 1 => e[i] # a /\ e[i] \in NameSet
  BY <1>1, <1>6, <1>7
<1>9. e \in ListsOfNames /\ Len(e) <= N - (k - 1)
  <2>1. PICK c \in Nat : D = 1 .. c /\ c <= N - (k - 1) /\ c <= MaxMru
    BY <1>5
  <2>2. \A i \in D : e[i] \in NameSet
    BY <1>0, <1>6, <1>8
  <2>3. e \in [1 .. c -> NameSet]
    BY <1>6, <2>1, <2>2
  <2>4. c \in 0 .. MaxMru
    BY <1>0, <2>1
  <2>5. Len(e) = c
    BY <2>1, <2>3
  <2> QED
    BY <2>1, <2>3, <2>4, <2>5 DEF ListsOfNames
<1>10. \A i \in DOMAIN e : \E q \in k - 1 + 1 .. N : Upper[E[q]] = e[i]
  <2>0. k - 1 + 1 = k
    BY <1>0
  <2> SUFFICES ASSUME NEW i \in D
               PROVE  \E q \in k .. N : Upper[E[q]] = e[i]
    BY <1>6, <2>0
  <2>1. CASE i = 1
    <3>1. k \in k .. N
      BY <1>0
    <3> QED
      BY <1>6, <2>1, <3>1 DEF a
  <2>2. CASE i # 1
    <3>1. \E q \in k + 1 .. N : Upper[E[q]] = s[From(i)]
      BY <1>1, <1>7, <2>2 DEF Sorted, N
    <3>2. \A q \in k + 1 .. N : q \in k .. N
      BY <1>0
    <3> QED
      BY <1>6, <2>2, <3>1, <3>2
  <2> QED
    BY <2>1, <2>2
<1>11. \A q \in k - 1 + 1 .. N : \E i \in DOMAIN e : e[i] = Upper[E[q]]
  <2>0. k - 1 + 1 = k
    BY <1>0
  <2> SUFFICES ASSUME NEW q \in k .. N
               PROVE  \E i \in D : e[i] = Upper[E[q]]
    BY <1>6, <2>0
  <2>1. CASE Upper[E[q]] = a
    BY <1>5, <1>6, <2>1
  <2>2. CASE Upper[E[q]] # a
    <3>1. q \in k + 1 .. N
      <4>1. q # k
        BY <2>2 DEF a
      <4> QED
        BY <1>0, <4>1
    <3>2. PICK u \in DOMAIN s : s[u] = Upper[E[q]]
      <4>1. \E u \in DOMAIN s : s[u] = Upper[E[q]]
        BY <3>1 DEF Sorted, N
      <4> QED
        BY <4>1
    <3>3. u \in 1 .. l /\ u # p
      BY <1>1, <2>2, <3>2
    <3>4. PICK i \in D : i # 1 /\ From(i) = u
      BY <1>7, <3>3
    <3> QED
      BY <1>6, <3>2, <3>4
  <2> QED
    BY <2>1, <2>2
<1>12. \A i, j \in DOMAIN e : i < j => Before(E, k - 1, e[i], e[j])
  <2> SUFFICES ASSUME NEW i \in D, NEW j \in D, i < j
               PROVE  Before(E, k - 1, e[i], e[j])
    BY <1>6
  <2>0. k - 1 + 1 = k /\ i \in Nat /\ j \in Nat /\ j # 1
    <3>1. i \in Nat /\ j \in Nat /\ i # 0
      BY <1>1, <1>5
    <3> QED
      BY <1>0, <3>1
  <2>1. CASE i = 1
    <3>1. e[i] = a /\ e[j] # a
      BY <1>6, <1>8, <2>0, <2>1
    <3>2. k \in k .. N /\ \A q \in k .. k : q = k
      BY <1>0
    <3>3. \E r \in k .. N : Upper[E[r]] = e[i] /\ \A q \in k .. r : Upper[E[q]] # e[j]
      BY <3>1, <3>2 DEF a
    <3> QED
      BY <2>0, <3>3 DEF Before, N
  <2>2. CASE i # 1
    <3>1. From(i) \in DOMAIN s /\ From(j) \in DOMAIN s /\ From(i) < From(j)
          /\ e[i] = s[From(i)] /\ e[j] = s[From(j)] /\ e[j] # a
      BY <1>1, <1>6, <1>7, <1>8, <2>0, <2>2
    <3>2. Before(E, k, e[i], e[j])
      BY <3>1 DEF Sorted
    <3>3. PICK r \in k + 1 .. N : Upper[E[r]] = e[i] /\ \A q \in k + 1 .. r : Upper[E[q]] # e[j]
      BY <3>2 DEF Before, N
    <3>4. r \in k .. N /\ \A q \in k .. r : q = k \/ q \in k + 1 .. r
      BY <1>0
    <3>5. \A q \in k .. r : Upper[E[q]] # e[j]
      BY <3>1, <3>3, <3>4 DEF a
    <3>6. \E x \in k .. N : Upper[E[x]] = e[i] /\ \A q \in k .. x : Upper[E[q]] # e[j]
      BY <3>3, <3>4, <3>5
    <3> QED
      BY <2>0, <3>6 DEF Before, N
  <2> QED
    BY <2>1, <2>2
<1>13. Sorted(E, k - 1, e)
  BY <1>9, <1>10, <1>11, <1>12 DEF Sorted, N
<1> QED
  BY <1>9, <1>13 DEF e, g, a, N

(* The loop that reads the menu from the entries, the last one first. *)
Loads(m, E, f) ==
  f = [n \in 0 .. Len(E) |->
         IF n = 0 THEN m ELSE AddMRUItem(f[n - 1], E[Len(E) + 1 - n])]

(* The loop has a result. *)
LEMMA LoadsExists ==
  ASSUME NEW m, NEW E, Len(E) \in Nat
  PROVE  \E f : Loads(m, E, f)
<1> DEFINE N == Len(E)
           Step(x, n) == AddMRUItem(x, E[N + 1 - n])
           Upto(k, g) == g[0] = m /\ \A n \in 1 .. k : g[n] = Step(g[n - 1], n)
           S == {k \in Nat : \E g : Upto(k, g)}
<1>1. 0 \in S
  <2> DEFINE g == [n \in {0} |-> m]
  <2>1. g[0] = m /\ 1 .. 0 = {}
    OBVIOUS
  <2> HIDE DEF g
  <2>2. Upto(0, g)
    BY <2>1
  <2> QED
    BY <2>2
<1>2. ASSUME NEW k \in Nat, k \in S
      PROVE  k + 1 \in S
  <2>1. PICK g : Upto(k, g)
    BY <1>2
  <2> HIDE DEF Step
  <2> DEFINE h == [n \in 0 .. k + 1 |-> IF n <= k THEN g[n] ELSE Step(g[k], n)]
  <2>2. h[0] = m
    BY <2>1
  <2>3. \A n \in 1 .. k + 1 : h[n] = Step(h[n - 1], n)
    <3> SUFFICES ASSUME NEW n \in 1 .. k + 1 PROVE h[n] = Step(h[n - 1], n)
      OBVIOUS
    <3>1. n \in 0 .. k + 1 /\ n - 1 \in 0 .. k + 1 /\ n - 1 <= k
      OBVIOUS
    <3>2. h[n - 1] = g[n - 1]
      BY <3>1
    <3>3. CASE n <= k
      <4>1. h[n] = g[n] /\ n \in 1 .. k
        BY <3>1, <3>3
      <4> QED
        BY <2>1, <3>2, <4>1
    <3>4. CASE ~ (n <= k)
      <4>1. n = k + 1 /\ n - 1 = k
        BY <3>4
      <4>2. h[n] = Step(g[k], n)
        BY <3>1, <3>4
      <4> QED
        BY <3>2, <4>1, <4>2
    <3> QED
      BY <3>3, <3>4
  <2> HIDE DEF h
  <2>4. Upto(k + 1, h)
    BY <2>2, <2>3
  <2> QED
    BY <2>4
<1> HIDE DEF S
<1>3. N \in S
  <2>1. Nat \subseteq S
    BY <1>1, <1>2, NatSetInduction
  <2> QED
    BY <2>1
<1>4. PICK g : Upto(N, g)
  BY <1>3 DEF S
<1> HIDE DEF Step
<1> DEFINE f == [n \in 0 .. N |-> g[n]]
<1>5. ASSUME NEW n \in 0 .. N
      PROVE  g[n] = IF n = 0 THEN m ELSE Step(f[n - 1], n)
  <2>1. CASE n = 0
    BY <1>4, <2>1
  <2>2. CASE n # 0
    <3>1. n \in 1 .. N /\ n - 1 \in 0 .. N
      BY <2>2
    <3>2. f[n - 1] = g[n - 1]
      BY <3>1
    <3> QED
      BY <1>4, <2>2, <3>1, <3>2
  <2> QED
    BY <2>1, <2>2
<1>6. f = [n \in 0 .. N |-> IF n = 0 THEN m ELSE Step(f[n - 1], n)]
  BY <1>5
<1> HIDE DEF f
<1>7. Loads(m, E, f)
  BY <1>6 DEF Loads, Step
<1> QED
  BY <1>7

(* The menu read from the entries shows their names, each where it is      *)
(* first.                                                                  *)
LEMMA LoadedIs ==
  ASSUME NEW m, MruOk(m), m.list = <<>>, NEW E \in Seq(Files), Len(E) <= MaxMru,
         NEW d, d = Loaded(m, E)
  PROVE  /\ MruOk(d) /\ Sorted(E, 0, NamesIn(d))
         /\ E = <<>> => d = m
         /\ E # <<>> => d.list # <<>>
<1> DEFINE N == Len(E)
           g == CHOOSE f : Loads(m, E, f)
<1>0. N \in Nat /\ N <= MaxMru /\ (E = <<>> <=> N = 0) /\ MaxMru \in Nat
  BY EmptySeq, MruAssumption
<1>1. d = g[N]
  BY Zenon DEF Loaded, Loads
<1>2. Loads(m, E, g)
  BY <1>0, LoadsExists
<1> HIDE DEF g
<1>3. g[0] = m /\ \A n \in 1 .. N : g[n] = AddMRUItem(g[n - 1], E[N + 1 - n])
  <2>1. g = [n \in 0 .. N |-> IF n = 0 THEN m ELSE AddMRUItem(g[n - 1], E[N + 1 - n])]
    BY <1>2 DEF Loads
  <2> HIDE DEF N
  <2>2. \A n \in 0 .. N : g[n] = IF n = 0 THEN m ELSE AddMRUItem(g[n - 1], E[N + 1 - n])
    BY ONLY <2>1, Zenon
  <2>3. 0 \in 0 .. N /\ \A n \in 1 .. N : n \in 0 .. N /\ n # 0
    BY <1>0
  <2> QED
    BY <2>2, <2>3
<1> DEFINE Read(n) == /\ MruOk(g[n]) /\ Sorted(E, N - n, NamesIn(g[n]))
                      /\ Len(NamesIn(g[n])) <= n
                      /\ n # 0 => g[n].list # <<>>
           S == {n \in Nat : n <= N => Read(n)}
<1>4. Read(0)
  <2>1. DOMAIN m.list = {}
    <3>1. Linked(m)
      BY DEF MruOk
    <3>2. DOMAIN m.list = 1 .. Len(m.list) /\ Len(m.list) = 0
      BY <3>1, MemoryFields
    <3> QED
      BY <3>2
  <2> DEFINE s == NamesIn(m)
             z == 0
  <2>2. DOMAIN s = {} /\ s = [i \in {} |-> s[i]] /\ 1 .. z = {} /\ z \in 0 .. MaxMru
    BY <1>0, <2>1 DEF NamesIn
  <2> HIDE DEF s, z
  <2>3. s \in [1 .. z -> NameSet]
    BY <2>2
  <2>4. s \in ListsOfNames
    BY <2>2, <2>3 DEF ListsOfNames
  <2>5. Len(s) = 0
    BY <2>2, <2>3 DEF z
  <2>6. N - 0 = N /\ N + 1 .. Len(E) = {}
    BY <1>0
  <2>7. Sorted(E, N, s)
    BY <2>2, <2>4, <2>6 DEF Sorted
  <2> QED
    BY <1>3, <2>5, <2>6, <2>7 DEF s
<1>5. ASSUME NEW n \in Nat, n \in S
      PROVE  n + 1 \in S
  <2>1. CASE n + 1 <= N
    <3> DEFINE k == N - n
               x == g[n]
               y == g[n + 1]
               file == E[k]
               s == NamesIn(x)
    <3>1. /\ n + 1 \in 1 .. N /\ n + 1 - 1 = n /\ N + 1 - (n + 1) = k /\ k \in 1 .. N
          /\ N - (n + 1) = k - 1 /\ N - k = n /\ N - (k - 1) = n + 1 /\ n <= N /\ n + 1 # 0
      BY <1>0, <2>1
    <3>2. Read(n)
      BY <1>5, <3>1
    <3> HIDE DEF N
    <3>3. y = AddMRUItem(x, file)
      <4>1. y = AddMRUItem(g[n + 1 - 1], E[N + 1 - (n + 1)])
        BY <1>3, <3>1
      <4> HIDE DEF k
      <4> QED
        BY <3>1, <4>1
    <3>4. file \in Files /\ MruOk(x) /\ Sorted(E, k, s) /\ Len(s) <= n
      <4>1. MruOk(x) /\ Sorted(E, k, s) /\ Len(s) <= n
        BY <3>2
      <4> HIDE DEF k
      <4>2. file \in Files
        BY <3>1 DEF N
      <4> QED
        BY <4>1, <4>2
    <3> HIDE DEF x, y, k
    <3>5. MruOk(y) /\ y.list # <<>> /\ NamesIn(y) = Promise!Cut(Promise!ToFront(s, Upper[file]))
      BY <3>3, <3>4, AddMRUItemIs
    <3> DEFINE e == Promise!Cut(Promise!ToFront(s, Upper[file]))
    <3>6. Sorted(E, k - 1, e) /\ Len(e) <= N - (k - 1)
      <4>1. /\ E \in Seq(Files) /\ Len(E) <= MaxMru /\ k \in 1 .. Len(E)
            /\ Sorted(E, k, s) /\ Len(s) <= Len(E) - k
        BY <1>0, <3>1, <3>4 DEF N
      <4> HIDE DEF s
      <4> QED
        BY ONLY <4>1, ToFrontSorted DEF N
    <3> HIDE DEF e
    <3>7. Sorted(E, N - (n + 1), NamesIn(y)) /\ Len(NamesIn(y)) <= n + 1
      BY <3>1, <3>5, <3>6 DEF e
    <3> QED
      BY <3>5, <3>7 DEF y
  <2> QED
    BY <2>1
<1>6. 0 \in S
  BY <1>4
<1> HIDE DEF S
<1>7. N \in S
  <2>1. Nat \subseteq S
    BY <1>5, <1>6, NatSetInduction
  <2> QED
    BY <1>0, <2>1
<1>8. Read(N)
  BY <1>0, <1>7 DEF S
<1>9. N - N = 0
  BY <1>0
<1>10. E = <<>> => d = m
  BY <1>0, <1>1, <1>3
<1> QED
  BY <1>0, <1>1, <1>8, <1>9, <1>10

(* The names that a start would show, for any ini file. *)
OfferedBy(E) ==
  CHOOSE s \in ListsOfNames :
    /\ {s[k] : k \in DOMAIN s} = {Upper[E[i]] : i \in DOMAIN E}
    /\ \A k, l \in DOMAIN s : k < l =>
         \E i \in DOMAIN E : Upper[E[i]] = s[k] /\ \A j \in 1 .. i : Upper[E[j]] # s[l]

(* What the file offers depends on its entries alone. *)
LEMMA OfferedAre == Offered = OfferedBy(Entries) /\ Offered' = OfferedBy(Entries')
BY DEF Offered, OfferedBy, ComesBefore, ListsOfNames

(* It is the list of their names, each where it is first. *)
LEMMA OfferedIs ==
  ASSUME NEW E \in Seq(Files), NEW s, Sorted(E, 0, s)
  PROVE  OfferedBy(E) = s
<1> DEFINE P(t) ==
             /\ {t[k] : k \in DOMAIN t} = {Upper[E[i]] : i \in DOMAIN E}
             /\ \A k, l \in DOMAIN t : k < l =>
                  \E i \in DOMAIN E : Upper[E[i]] = t[k] /\ \A j \in 1 .. i : Upper[E[j]] # t[l]
<1>1. Len(E) \in Nat /\ DOMAIN E = 0 + 1 .. Len(E) /\ 0 + 1 = 1 /\ 0 \in Nat
  OBVIOUS
<1>2. ASSUME NEW t \in ListsOfNames
      PROVE  P(t) <=> Sorted(E, 0, t)
  <2>1. Sorted(E, 0, t) <=>
          /\ \A i \in DOMAIN t : \E q \in DOMAIN E : Upper[E[q]] = t[i]
          /\ \A q \in DOMAIN E : \E i \in DOMAIN t : t[i] = Upper[E[q]]
          /\ \A k, l \in DOMAIN t : k < l =>
                  \E i \in DOMAIN E : Upper[E[i]] = t[k] /\ \A j \in 1 .. i : Upper[E[j]] # t[l]
    <3> DEFINE z == 0 + 1
               D == z .. Len(E)
               InE(x, X) == \E q \in X : Upper[E[q]] = x
               First(x, y, X, o) == \E i \in X : Upper[E[i]] = x /\ \A j \in o .. i : Upper[E[j]] # y
    <3>1. D = DOMAIN E /\ z = 1
      BY <1>1
    <3>2. Sorted(E, 0, t) <=>
            /\ \A i \in DOMAIN t : InE(t[i], D)
            /\ \A q \in D : \E i \in DOMAIN t : t[i] = Upper[E[q]]
            /\ \A k, l \in DOMAIN t : k < l => First(t[k], t[l], D, z)
      BY Zenon DEF Sorted, Before
    <3> HIDE DEF D, z, InE, First
    <3>3. Sorted(E, 0, t) <=>
            /\ \A i \in DOMAIN t : InE(t[i], DOMAIN E)
            /\ \A q \in DOMAIN E : \E i \in DOMAIN t : t[i] = Upper[E[q]]
            /\ \A k, l \in DOMAIN t : k < l => First(t[k], t[l], DOMAIN E, 1)
      BY <3>1, <3>2
    <3> QED
      BY <3>3, Zenon DEF InE, First
  <2>2. {t[k] : k \in DOMAIN t} = {Upper[E[i]] : i \in DOMAIN E} <=>
          /\ \A i \in DOMAIN t : \E q \in DOMAIN E : Upper[E[q]] = t[i]
          /\ \A q \in DOMAIN E : \E i \in DOMAIN t : t[i] = Upper[E[q]]
    <3> DEFINE A == {t[k] : k \in DOMAIN t}
               B == {Upper[E[i]] : i \in DOMAIN E}
    <3>1. A \subseteq B <=> \A i \in DOMAIN t : \E q \in DOMAIN E : Upper[E[q]] = t[i]
      <4>1. ASSUME A \subseteq B, NEW i \in DOMAIN t
            PROVE  \E q \in DOMAIN E : Upper[E[q]] = t[i]
        <5>1. t[i] \in B
          BY <4>1
        <5> QED
          BY <5>1
      <4>2. ASSUME \A i \in DOMAIN t : \E q \in DOMAIN E : Upper[E[q]] = t[i], NEW x \in A
            PROVE  x \in B
        <5>1. PICK i \in DOMAIN t : x = t[i]
          OBVIOUS
        <5>2. PICK q \in DOMAIN E : Upper[E[q]] = t[i]
          BY <4>2
        <5> QED
          BY <5>1, <5>2
      <4> HIDE DEF A, B
      <4> QED
        BY <4>1, <4>2
    <3>2. B \subseteq A <=> \A q \in DOMAIN E : \E i \in DOMAIN t : t[i] = Upper[E[q]]
      <4>1. ASSUME B \subseteq A, NEW q \in DOMAIN E
            PROVE  \E i \in DOMAIN t : t[i] = Upper[E[q]]
        <5>1. Upper[E[q]] \in A
          BY <4>1
        <5> QED
          BY <5>1
      <4>2. ASSUME \A q \in DOMAIN E : \E i \in DOMAIN t : t[i] = Upper[E[q]], NEW x \in B
            PROVE  x \in A
        <5>1. PICK q \in DOMAIN E : x = Upper[E[q]]
          OBVIOUS
        <5>2. PICK i \in DOMAIN t : t[i] = Upper[E[q]]
          BY <4>2
        <5> QED
          BY <5>1, <5>2
      <4> HIDE DEF A, B
      <4> QED
        BY <4>1, <4>2
    <3>3. A = B <=> A \subseteq B /\ B \subseteq A
      <4> HIDE DEF A, B
      <4> QED
        OBVIOUS
    <3> HIDE DEF A, B
    <3>4. A = B <=> /\ \A i \in DOMAIN t : \E q \in DOMAIN E : Upper[E[q]] = t[i]
                    /\ \A q \in DOMAIN E : \E i \in DOMAIN t : t[i] = Upper[E[q]]
      BY <3>1, <3>2, <3>3, Zenon
    <3> QED
      BY <3>4, Zenon DEF A, B
  <2> QED
    BY <2>1, <2>2
<1>3. OfferedBy(E) = CHOOSE t \in ListsOfNames : P(t)
  BY DEF OfferedBy
<1> HIDE DEF P
<1>4. s \in ListsOfNames /\ P(s)
  BY <1>2 DEF Sorted
<1>5. OfferedBy(E) \in ListsOfNames /\ P(OfferedBy(E))
  BY <1>3, <1>4
<1>6. Sorted(E, 0, OfferedBy(E))
  BY <1>2, <1>5
<1> QED
  BY <1>1, <1>6, SortedOnce

(* The menu as _DefineMruItem begins it. *)
FirstMenu(E) ==
  LET item == [id |-> 1, place |-> 0, file |-> Empty, enabled |-> E # <<>>]
  IN  [NotRunning EXCEPT !.menu = <<item>>, !.made = 1, !.public = [x \in {<<>>} |-> 1]]

(* It has the first item, which is disabled if there are no entries. *)
LEMMA FirstMenuIs ==
  ASSUME NEW E
  PROVE  /\ MruOk(FirstMenu(E)) /\ FirstMenu(E).list = <<>>
         /\ E = <<>> => FirstMenu(E).menu[1].enabled = FALSE
<1> DEFINE m == FirstMenu(E)
           item == [id |-> 1, place |-> 0, file |-> Empty, enabled |-> E # <<>>]
           t == <<item>>
           p == [x \in {<<>>} |-> 1]
<1>1. item \in MruItem /\ item.id = 1 /\ (E = <<>> => item.enabled = FALSE)
  BY DEF MruItem
<1> HIDE DEF item
<1>2. t \in Seq(MruItem) /\ Len(t) = 1 /\ t[1] = item /\ DOMAIN t = {1}
  BY <1>1
<1>3. p \in Publics /\ <<>> \in DOMAIN p /\ p[<<>>] = 1
  <2>1. {<<>>} \in SUBSET Seq(Nat)
    OBVIOUS
  <2>2. p \in [{<<>>} -> Nat]
    OBVIOUS
  <2> QED
    BY <2>1, <2>2 DEF Publics
<1> DEFINE T == [count : {0}, list : {<<>>}, id : {<<>>}, menu : {<<>>}, public : {<<>>}, made : {0}]
           n == NotRunning
<1>4. n \in T
  BY DEF NotRunning
<1>10. m = [n EXCEPT !.menu = t, !.made = 1, !.public = p]
  BY DEF FirstMenu, item
<1> HIDE DEF m, t, p, n
<1>5. /\ m.count = 0 /\ m.list = <<>> /\ m.id = <<>> /\ m.menu = t /\ m.public = p /\ m.made = 1
      /\ m \in [count : {0}, list : {<<>>}, id : {<<>>}, menu : {t}, public : {p}, made : {1}]
  BY <1>4, <1>10
<1>6. m \in MruMemory
  <2>1. <<>> \in Seq(MruEntry) /\ <<>> \in Seq(Nat)
    OBVIOUS
  <2> QED
    <3> DEFINE v == <<>>
    <3>1. /\ m \in [count : {0}, list : {v}, id : {v}, menu : {t}, public : {p}, made : {1}]
          /\ v \in Seq(MruEntry) /\ v \in Seq(Nat) /\ t \in Seq(MruItem) /\ p \in Publics
      BY <1>2, <1>3, <1>5, <2>1
    <3> HIDE DEF v
    <3> QED
      BY ONLY <3>1 DEF MruMemory
<1>7. DOMAIN m.list = {} /\ Len(m.list) = 0
  BY <1>5
<1>8. Linked(m)
  <2>1. /\ m.count = 0 /\ m.list = <<>> /\ Len(m.menu) = 1
        /\ m.id \in DOMAIN m.public /\ m.menu[1].id = m.public[m.id]
    BY <1>1, <1>2, <1>3, <1>5
  <2>2. /\ \A i \in DOMAIN m.menu : m.menu[i].id # 0 /\ m.menu[i].id <= m.made
        /\ \A i, j \in DOMAIN m.menu : m.menu[i].id = m.menu[j].id => i = j
    BY <1>1, <1>2, <1>5
  <2> QED
    BY <1>6, <1>7, <2>1, <2>2 DEF Linked
<1>9. MruOk(m)
  <2>1. MaxMru \in Nat
    BY MruAssumption
  <2> QED
    BY <1>7, <1>8, <2>1 DEF MruOk, Placed, Apart
<1> QED
  BY <1>1, <1>2, <1>5, <1>9 DEF m

(* For any ini file there is the list that a start would show. *)
LEMMA OfferedSorted ==
  ASSUME NEW E \in Seq(Files), Len(E) <= MaxMru
  PROVE  Sorted(E, 0, OfferedBy(E))
<1> DEFINE m == FirstMenu(E)
           d == Loaded(m, E)
<1>1. MruOk(m) /\ m.list = <<>>
  BY FirstMenuIs
<1> HIDE DEF m
<1>2. Sorted(E, 0, NamesIn(d))
  BY <1>1, LoadedIs
<1> DEFINE s == NamesIn(d)
<1> HIDE DEF s
<1>3. Sorted(E, 0, s)
  BY <1>2 DEF s
<1> QED
  BY <1>3, OfferedIs

(* What the menu shows, for any memory of the program. *)
ShownOf(m) ==
  [k \in {k \in DOMAIN m.menu : m.menu[k].enabled} |->
     IF m.menu[k].place = k THEN Upper[m.menu[k].file] ELSE "misplaced"]

Quiet(m) == m.list = <<>> => m.menu[1].enabled = FALSE

(* Shown is what the menu shows, also after a step. *)
LEMMA ShownAre == Shown = ShownOf(mru) /\ Shown' = ShownOf(mru')
BY DEF Shown, ShownOf

(* A menu in order shows the names of the list. *)
LEMMA ShownIs ==
  ASSUME NEW m, MruOk(m), Quiet(m)
  PROVE  /\ ShownOf(m) = NamesIn(m) /\ m # NotRunning
         /\ m.list = <<>> => ShownOf(m) = <<>>
<1>1. /\ Linked(m) /\ Placed(m) /\ DOMAIN m.list = 1 .. Len(m.list) /\ DOMAIN m.menu = 1 .. Len(m.menu)
      /\ Len(m.list) \in Nat /\ Len(m.menu) \in Nat /\ 1 \in DOMAIN m.menu
  <2>1. Linked(m) /\ Placed(m)
    BY DEF MruOk
  <2> QED
    BY <2>1, MemoryFields
<1>2. m # NotRunning
  <2>1. NotRunning.menu = <<>> /\ DOMAIN <<>> = {}
    BY DEF NotRunning
  <2> QED
    BY <1>1, <2>1
<1> DEFINE K == {k \in DOMAIN m.menu : m.menu[k].enabled}
<1>3. K = DOMAIN m.list
  <2>1. CASE m.list = <<>>
    <3>1. DOMAIN m.list = {} /\ Len(m.menu) = 1
      BY <1>1, <2>1 DEF Linked
    <3>2. m.menu[1].enabled = FALSE /\ DOMAIN m.menu = {1}
      BY <1>1, <2>1, <3>1 DEF Quiet
    <3> QED
      BY <3>1, <3>2
  <2>2. CASE m.list # <<>>
    <3>1. DOMAIN m.menu = DOMAIN m.list
      BY <1>1, <2>2 DEF Linked
    <3>2. \A k \in DOMAIN m.list : m.menu[k].enabled = TRUE
      BY <1>1 DEF Placed
    <3> QED
      BY <3>1, <3>2
  <2> QED
    BY <2>1, <2>2
<1>4. \A k \in DOMAIN m.list :
        (IF m.menu[k].place = k THEN Upper[m.menu[k].file] ELSE "misplaced") = Upper[m.list[k].file]
  BY <1>1 DEF Placed
<1>5. ShownOf(m) = [k \in K |->
        IF m.menu[k].place = k THEN Upper[m.menu[k].file] ELSE "misplaced"]
  BY DEF ShownOf
<1> HIDE DEF K
<1>6. ShownOf(m) = NamesIn(m)
  BY <1>3, <1>4, <1>5 DEF NamesIn
<1>7. m.list = <<>> => NamesIn(m) = <<>>
  <2> SUFFICES ASSUME m.list = <<>> PROVE NamesIn(m) = <<>>
    OBVIOUS
  <2> DEFINE s == NamesIn(m)
             z == 0
  <2>1. DOMAIN m.list = {} /\ 1 .. z = {} /\ z \in Nat
    BY <1>1
  <2>2. s = [i \in {} |-> s[i]]
    BY <2>1 DEF NamesIn
  <2> HIDE DEF s, z
  <2>3. s \in [1 .. z -> Nat]
    BY <2>1, <2>2
  <2>4. s \in Seq(Nat) /\ Len(s) = z
    BY <2>1, <2>3
  <2>5. s = <<>>
    BY <2>4, EmptySeq DEF z
  <2> QED
    BY <2>5 DEF s
<1> QED
  BY <1>2, <1>6, <1>7

(* Nothing is shown while the program does not run. *)
LEMMA NothingShown == ShownOf(NotRunning) = <<>>
<1> DEFINE s == ShownOf(NotRunning)
           z == 0
<1>1. NotRunning.menu = <<>> /\ DOMAIN <<>> = {} /\ 1 .. z = {} /\ z \in Nat
  BY DEF NotRunning
<1>2. {k \in DOMAIN NotRunning.menu : NotRunning.menu[k].enabled} = {}
  BY <1>1
<1>3. s = [i \in {} |-> s[i]]
  BY <1>2 DEF ShownOf
<1> HIDE DEF s, z
<1>4. s \in [1 .. z -> Nat]
  BY <1>1, <1>3
<1>5. s \in Seq(Nat) /\ Len(s) = z
  BY <1>1, <1>4
<1>6. s = <<>>
  BY <1>5, EmptySeq DEF z
<1> QED
  BY <1>6 DEF s

(* The names left in an ini file. *)
LeftOf(e) == {Upper[e[i]] : i \in {i \in DOMAIN e : e[i] # Empty}}

(* What a start would show is a list of names, which the file holds. *)
LEMMA StoredIs ==
  ASSUME NEW e \in IniFile
  PROVE  /\ OfferedBy(Prefix(e)) \in Promise!Lists
         /\ Promise!Members(OfferedBy(Prefix(e))) \subseteq LeftOf(e)
<1> DEFINE E == Prefix(e)
           s == OfferedBy(E)
<1>1. /\ E \in Seq(Files) /\ Len(E) \in 0 .. MaxMru
      /\ \A i \in 1 .. Len(E) : E[i] = e[i] /\ e[i] # Empty
  BY PrefixOf
<1>2. Len(E) \in Nat /\ Len(E) <= MaxMru /\ MaxMru \in Nat /\ DOMAIN e = 1 .. MaxMru
  BY <1>1, MruAssumption DEF IniFile
<1> HIDE DEF E
<1>3. Sorted(E, 0, s)
  BY <1>1, <1>2, OfferedSorted
<1> HIDE DEF s
<1>4. s \in ListsOfNames
  BY <1>3 DEF Sorted
<1>5. PICK n \in Nat : DOMAIN s = 1 .. n
  BY <1>4, ListIs
<1>6. \A i, j \in DOMAIN s : s[i] = s[j] => i = j
  <2> SUFFICES ASSUME NEW i \in DOMAIN s, NEW j \in DOMAIN s, i < j
               PROVE  s[i] # s[j]
    BY <1>5
  <2>1. Before(E, 0, s[i], s[j])
    BY <1>3 DEF Sorted
  <2> QED
    BY <1>2, <2>1, BeforeOrders
<1>7. s \in Promise!Lists
  BY <1>4, <1>6 DEF Promise!Lists, ListsOfNames
<1>8. ASSUME NEW i \in DOMAIN s
      PROVE  s[i] \in LeftOf(e)
  <2>1. PICK q \in 0 + 1 .. Len(E) : Upper[E[q]] = s[i]
    BY <1>3 DEF Sorted
  <2>2. q \in 1 .. Len(E) /\ q \in DOMAIN e
    BY <1>2, <2>1
  <2>3. e[q] # Empty /\ Upper[e[q]] = s[i]
    BY <1>1, <2>1, <2>2
  <2> QED
    BY <2>2, <2>3 DEF LeftOf
<1>9. Promise!Members(s) \subseteq LeftOf(e)
  BY <1>8 DEF Promise!Members
<1> QED
  BY <1>7, <1>9 DEF s, E

(* The ini file that a complete save leaves. *)
EntryIn(m, i) == IF i <= Len(m.list) THEN m.list[i].file ELSE Empty

(* That file offers the list, and holds no other names. *)
LEMMA SavedIs ==
  ASSUME NEW m, MruOk(m), NEW e \in IniFile, \A i \in 1 .. MaxMru : e[i] = EntryIn(m, i)
  PROVE  /\ OfferedBy(Prefix(e)) = NamesIn(m)
         /\ LeftOf(e) = Promise!Members(NamesIn(m))
<1> DEFINE E == Prefix(e)
           n == Len(m.list)
           s == NamesIn(m)
<1>1. /\ Linked(m) /\ Apart(m) /\ n \in Nat /\ n <= MaxMru /\ MaxMru \in Nat
      /\ DOMAIN m.list = 1 .. n
      /\ \A i \in 1 .. n : m.list[i].file \in Files /\ Upper[m.list[i].file] \in NameSet
  <2>1. Linked(m) /\ Apart(m) /\ n <= MaxMru /\ MaxMru \in Nat
    BY MruAssumption DEF MruOk
  <2>2. n \in Nat /\ DOMAIN m.list = 1 .. n /\ \A i \in DOMAIN m.list : m.list[i] \in MruEntry
    BY <2>1, MemoryFields
  <2> QED
    BY <2>1, <2>2 DEF MruEntry, NameSet
<1>2. /\ E \in Seq(Files) /\ Len(E) \in 0 .. MaxMru
      /\ \A i \in 1 .. Len(E) : E[i] = e[i] /\ e[i] # Empty
      /\ Len(E) < MaxMru => e[Len(E) + 1] = Empty
  BY PrefixOf
<1> DEFINE k == Len(E)
<1> HIDE DEF E, n
<1>3. k \in Nat /\ k <= MaxMru /\ DOMAIN e = 1 .. MaxMru
  BY <1>1, <1>2 DEF IniFile
<1>4. /\ \A i \in 1 .. n : i \in 1 .. MaxMru /\ e[i] = m.list[i].file /\ e[i] # Empty
      /\ \A i \in 1 .. MaxMru : i \notin 1 .. n => e[i] = Empty
  <2>1. \A i \in 1 .. n : i \in 1 .. MaxMru /\ e[i] = m.list[i].file
    BY <1>1 DEF EntryIn, n
  <2>2. \A i \in 1 .. MaxMru : i \notin 1 .. n => e[i] = Empty
    BY <1>1 DEF EntryIn, n
  <2> QED
    BY <1>1, <2>1, <2>2, MruAssumption
<1>5. k = n
  <2>1. ~ (k < n)
    <3> SUFFICES ASSUME k < n PROVE FALSE
      OBVIOUS
    <3>1. k < MaxMru /\ k + 1 \in 1 .. n
      BY <1>1, <1>3
    <3> QED
      BY <1>2, <1>4, <3>1
  <2>2. ~ (n < k)
    <3> SUFFICES ASSUME n < k PROVE FALSE
      OBVIOUS
    <3>1. k \in 1 .. k /\ k \in 1 .. MaxMru /\ k \notin 1 .. n
      BY <1>1, <1>3
    <3> QED
      BY <1>2, <1>4, <3>1
  <2> QED
    BY <1>1, <1>3, <2>1, <2>2
<1>6. /\ DOMAIN s = 1 .. n /\ s = [i \in 1 .. n |-> s[i]]
      /\ \A i \in 1 .. n : s[i] = Upper[m.list[i].file] /\ s[i] \in NameSet /\ s[i] = Upper[E[i]]
                           /\ s[i] = Upper[e[i]]
  <2>1. s = [i \in 1 .. n |-> Upper[m.list[i].file]]
    BY <1>1 DEF NamesIn
  <2> HIDE DEF s
  <2>2. DOMAIN s = 1 .. n /\ s = [i \in 1 .. n |-> s[i]]
    BY <2>1
  <2>3. \A i \in 1 .. n : s[i] = Upper[m.list[i].file]
    BY <2>1
  <2> QED
    BY <1>1, <1>2, <1>4, <1>5, <2>2, <2>3
<1>7. \A i, j \in 1 .. n : s[i] = s[j] => i = j
  BY <1>1, <1>6 DEF Apart
<1> HIDE DEF s
<1>8. Sorted(E, 0, s)
  <2>1. s \in ListsOfNames
    <3>1. n \in 0 .. MaxMru /\ s \in [1 .. n -> NameSet]
      BY <1>1, <1>6
    <3> QED
      BY <3>1 DEF ListsOfNames
  <2>2. 0 + 1 .. Len(E) = 1 .. n
    BY <1>5
  <2>3. ASSUME NEW i \in 1 .. n, NEW j \in 1 .. n, i < j
        PROVE  Before(E, 0, s[i], s[j])
    <3>1. \A l \in 1 .. i : l \in 1 .. n /\ l # j
      BY <1>1, <2>3
    <3>2. \A l \in 1 .. i : Upper[E[l]] # s[j]
      BY <1>6, <1>7, <3>1
    <3>3. Upper[E[i]] = s[i] /\ 0 + 1 .. i = 1 .. i
      BY <1>6
    <3> QED
      BY <2>2, <3>2, <3>3 DEF Before
  <2> QED
    BY <1>6, <2>1, <2>2, <2>3 DEF Sorted
<1>9. OfferedBy(E) = s
  <2>1. E \in Seq(Files) /\ Len(E) <= MaxMru
    BY <1>2, <1>3
  <2> QED
    BY <1>8, <2>1, OfferedIs
<1>10. LeftOf(e) \subseteq Promise!Members(s)
  <2> SUFFICES ASSUME NEW i \in DOMAIN e, e[i] # Empty PROVE Upper[e[i]] \in Promise!Members(s)
    BY DEF LeftOf
  <2>1. i \in 1 .. n
    BY <1>3, <1>4
  <2> QED
    BY <1>6, <2>1 DEF Promise!Members
<1>11. Promise!Members(s) \subseteq LeftOf(e)
  <2> SUFFICES ASSUME NEW i \in 1 .. n PROVE s[i] \in LeftOf(e)
    BY <1>6 DEF Promise!Members
  <2>1. i \in DOMAIN e /\ e[i] # Empty /\ s[i] = Upper[e[i]]
    BY <1>3, <1>4, <1>6
  <2> QED
    BY <2>1 DEF LeftOf
<1> QED
  BY <1>9, <1>10, <1>11 DEF s, E

(* One entry written leaves no other names than those of before and those  *)
(* of the list.                                                            *)
Written(e, m, w) == [e EXCEPT ![w] = EntryIn(m, w)]

(* Its names are those of before and those of the list. *)
LEMMA WrittenIs ==
  ASSUME NEW m, MruOk(m), NEW e \in IniFile, NEW w \in 1 .. MaxMru
  PROVE  /\ Written(e, m, w) \in IniFile
         /\ \A i \in 1 .. MaxMru : Written(e, m, w)[i] = IF i = w THEN EntryIn(m, w) ELSE e[i]
         /\ LeftOf(Written(e, m, w)) \subseteq LeftOf(e) \cup Promise!Members(NamesIn(m))
<1> DEFINE d == Written(e, m, w)
<1>1. Linked(m)
  BY DEF MruOk
<1>2. /\ Len(m.list) \in Nat /\ DOMAIN m.list = 1 .. Len(m.list)
      /\ \A i \in DOMAIN m.list : m.list[i].file \in Files
  BY <1>1, MemoryFields DEF MruEntry
<1>3. EntryIn(m, w) = Empty \/ (w \in DOMAIN m.list /\ EntryIn(m, w) = m.list[w].file)
  BY <1>2 DEF EntryIn
<1>4. EntryIn(m, w) \in Files \cup {Empty}
  BY <1>2, <1>3
<1> DEFINE f == EntryIn(m, w)
<1>5. d = [e EXCEPT ![w] = f]
  BY DEF Written
<1> HIDE DEF f, d
<1>6. e \in [1 .. MaxMru -> Files \cup {Empty}] /\ d = [e EXCEPT ![w] = f] /\ f \in Files \cup {Empty}
  BY <1>4, <1>5 DEF IniFile, f
<1>7. d \in [1 .. MaxMru -> Files \cup {Empty}] /\ DOMAIN d = 1 .. MaxMru /\ DOMAIN e = 1 .. MaxMru
  BY <1>6
<1>8. \A i \in 1 .. MaxMru : d[i] = IF i = w THEN f ELSE e[i]
  BY <1>6
<1>9. LeftOf(d) \subseteq LeftOf(e) \cup Promise!Members(NamesIn(m))
  <2> SUFFICES ASSUME NEW i \in DOMAIN d, d[i] # Empty
               PROVE  Upper[d[i]] \in LeftOf(e) \cup Promise!Members(NamesIn(m))
    BY DEF LeftOf
  <2>1. CASE i = w
    <3>1. d[i] = f /\ w \in DOMAIN m.list /\ f = m.list[w].file
      BY <1>3, <1>7, <1>8, <2>1 DEF f
    <3>2. w \in DOMAIN NamesIn(m) /\ NamesIn(m)[w] = Upper[f]
      BY <3>1 DEF NamesIn
    <3>3. Upper[f] \in Promise!Members(NamesIn(m))
      BY <3>2 DEF Promise!Members
    <3> QED
      BY <3>1, <3>3
  <2>2. CASE i # w
    <3>1. d[i] = e[i] /\ i \in DOMAIN e
      BY <1>7, <1>8, <2>2
    <3> QED
      BY <3>1 DEF LeftOf
  <2> QED
    BY <2>1, <2>2
<1> QED
  BY <1>7, <1>8, <1>9 DEF IniFile, f, d

(* The program holds a menu that is the list in order, or does not run; of *)
(* a save under way, the entries behind it are those of the list.          *)
MruInv ==
  /\ ini \in IniFile /\ saving \in 0 .. MaxMru + 1
  /\ mru = NotRunning \/ (MruOk(mru) /\ Quiet(mru))
  /\ saving # 0 =>
       mru # NotRunning /\ \A i \in 1 .. MaxMru : i < saving => ini[i] = EntryIn(mru, i)

(* What the mapping takes from the program's memory and from the ini file. *)
LEMMA MappingIs ==
  /\ Shown = ShownOf(mru) /\ Shown' = ShownOf(mru')
  /\ Offered = OfferedBy(Prefix(ini)) /\ Offered' = OfferedBy(Prefix(ini'))
  /\ \A i : EntryFor(i) = EntryIn(mru, i)
<1>1. \A i : EntryFor(i) = EntryIn(mru, i)
  BY DEF EntryFor, EntryIn
<1>2. Offered = OfferedBy(Prefix(ini)) /\ Offered' = OfferedBy(Prefix(ini'))
  BY EntriesArePrefix, OfferedAre
<1> QED
  BY <1>1, <1>2, ShownAre

(* The program begins as the promise does. *)
LEMMA MruStart == MruInit => MruInv /\ Promise!RecentInit
<1> SUFFICES ASSUME MruInit PROVE MruInv /\ Promise!RecentInit
  OBVIOUS
<1> DEFINE E == Prefix(ini)
<1>0. MaxMru \in Nat /\ MaxMru # 0
  BY MruAssumption
<1>1. /\ ini \in IniFile /\ DOMAIN ini = 1 .. MaxMru /\ \A i \in 1 .. MaxMru : ini[i] = Empty
      /\ saving = 0 /\ mru = NotRunning
  BY DEF MruInit, IniFile
<1>2. Len(E) = 0 /\ E \in Seq(Files)
  <2>1. /\ E \in Seq(Files) /\ Len(E) \in 0 .. MaxMru
        /\ \A i \in 1 .. Len(E) : E[i] = ini[i] /\ ini[i] # Empty
    BY <1>1, PrefixOf
  <2> DEFINE n == Len(E)
  <2> HIDE DEF n, E
  <2>2. n # 0 => 1 \in 1 .. n /\ 1 \in 1 .. MaxMru
    BY <1>0, <2>1 DEF n
  <2> QED
    BY <1>1, <2>1, <2>2 DEF n
<1>3. Sorted(E, 0, OfferedBy(E))
  <2>1. Len(E) <= MaxMru
    BY <1>0, <1>2
  <2> QED
    BY <1>2, <2>1, OfferedSorted
<1> DEFINE s == OfferedBy(E)
<1> HIDE DEF E
<1>4. s = <<>>
  <2> HIDE DEF s
  <2>1. s \in ListsOfNames /\ \A i \in DOMAIN s : \E q \in 0 + 1 .. Len(E) : Upper[E[q]] = s[i]
    BY <1>3 DEF Sorted, s
  <2>2. PICK n \in Nat : s \in [1 .. n -> NameSet] /\ DOMAIN s = 1 .. n /\ Len(s) = n
    BY <2>1, ListIs
  <2>3. n = 0
    <3>1. n # 0 => 1 \in 1 .. n
      BY <2>2
    <3>2. 0 + 1 .. Len(E) = {}
      BY <1>2
    <3> QED
      BY <2>1, <2>2, <3>1, <3>2
  <2>4. s \in Seq(NameSet) /\ Len(s) = 0
    BY <2>2, <2>3
  <2> QED
    BY <2>4, EmptySeq
<1>5. LeftOf(ini) = {}
  BY <1>1 DEF LeftOf
<1>6. Promise!RecentInit
  <2>1. Shown = <<>> /\ Offered = <<>>
    BY <1>1, <1>4, MappingIs, NothingShown DEF s, E
  <2>2. ~ MenuDefined /\ ~ (saving > 0)
    BY <1>1 DEF MenuDefined
  <2> QED
    BY <1>5, <2>1, <2>2 DEF Promise!RecentInit, LeftOf
<1>7. MruInv
  BY <1>0, <1>1 DEF MruInv
<1> QED
  BY <1>6, <1>7

(* Defining the menu shows the list that the file offers. *)
LEMMA StartUpOk ==
  ASSUME MruInv, DefineMruItem
  PROVE  MruInv' /\ Promise!StartUp
<1> DEFINE E == Prefix(ini)
           m == FirstMenu(E)
           d == mru'
<1>1. mru = NotRunning /\ d = Loaded(m, E) /\ ini' = ini /\ saving' = saving
  BY EntriesArePrefix DEF DefineMruItem, FirstMenu, MenuDefined
<1>2. ini \in IniFile /\ saving = 0
  <2>1. saving \in 0 .. MaxMru + 1
    BY DEF MruInv
  <2> QED
    BY <1>1, <2>1 DEF MruInv
<1>3. E \in Seq(Files) /\ Len(E) <= MaxMru
  <2>1. Len(E) \in 0 .. MaxMru /\ E \in Seq(Files)
    BY <1>2, PrefixOf
  <2> QED
    BY <2>1, MruAssumption
<1>4. MruOk(m) /\ m.list = <<>> /\ (E = <<>> => m.menu[1].enabled = FALSE)
  BY FirstMenuIs
<1> HIDE DEF m, E, d
<1>5. MruOk(d) /\ Sorted(E, 0, NamesIn(d)) /\ (E = <<>> => d = m) /\ (E # <<>> => d.list # <<>>)
  BY <1>1, <1>3, <1>4, LoadedIs
<1>6. Quiet(d)
  BY <1>4, <1>5 DEF Quiet
<1>7. ShownOf(d) = NamesIn(d) /\ d # NotRunning
  BY <1>5, <1>6, ShownIs
<1>8. OfferedBy(E) = NamesIn(d)
  <2> DEFINE s == NamesIn(d)
  <2> HIDE DEF s
  <2>1. Sorted(E, 0, s)
    BY <1>5 DEF s
  <2>2. OfferedBy(E) = s
    BY <1>3, <2>1, OfferedIs
  <2> QED
    BY <2>2 DEF s
<1>9. MruInv'
  <2>1. mru' # NotRunning /\ MruOk(mru') /\ Quiet(mru') /\ ini' \in IniFile /\ saving' = 0
    BY <1>1, <1>2, <1>5, <1>6, <1>7 DEF d
  <2>2. 0 \in 0 .. MaxMru + 1
    BY MruAssumption
  <2> QED
    BY <2>1, <2>2 DEF MruInv
<1>10. Promise!StartUp
  <2>1. ~ MenuDefined /\ MenuDefined'
    BY <1>1, <1>7 DEF MenuDefined, d
  <2>2. Shown' = Offered /\ Offered' = Offered
    BY <1>1, <1>7, <1>8, MappingIs DEF d, E
  <2> QED
    BY <1>1, <2>1, <2>2 DEF Promise!StartUp
<1> QED
  BY <1>9, <1>10

(* While the menu is there, what it shows is the list. *)
LEMMA RunningIs ==
  ASSUME MruInv, MenuDefined
  PROVE  /\ MruOk(mru) /\ Quiet(mru) /\ Shown = NamesIn(mru)
         /\ mru.list = <<>> => Shown = <<>>
<1>1. MruOk(mru) /\ Quiet(mru)
  BY DEF MruInv, MenuDefined
<1> QED
  BY <1>1, ShownIs, MappingIs

(* A change of the list, while it is not saved. *)
LEMMA ChangeOk ==
  ASSUME MruInv, MenuDefined, saving = 0, UNCHANGED <<ini, saving>>, MruOk(mru'), Quiet(mru')
  PROVE  /\ MruInv'
         /\ MenuDefined' /\ Shown' = NamesIn(mru') /\ Offered' = Offered
         /\ mru'.list = <<>> => Shown' = <<>>
<1>1. /\ ShownOf(mru') = NamesIn(mru') /\ mru' # NotRunning
      /\ mru'.list = <<>> => ShownOf(mru') = <<>>
  <2> DEFINE d == mru'
  <2>1. MruOk(d) /\ Quiet(d)
    OBVIOUS
  <2> HIDE DEF d
  <2>2. /\ ShownOf(d) = NamesIn(d) /\ d # NotRunning
        /\ d.list = <<>> => ShownOf(d) = <<>>
    BY ONLY <2>1, ShownIs
  <2> QED
    BY <2>2 DEF d
<1>2. ini' = ini /\ saving' = 0 /\ ini \in IniFile /\ saving \in 0 .. MaxMru + 1
  BY DEF MruInv
<1>3. MruInv'
  BY <1>1, <1>2 DEF MruInv
<1>4. Offered' = Offered
  BY <1>2, MappingIs
<1> QED
  BY <1>1, <1>3, <1>4, MappingIs DEF MenuDefined

(* Opening a file brings its name to the front of what is shown. *)
LEMMA OpenOk ==
  ASSUME MruInv, NEW file \in Files, Open(file)
  PROVE  MruInv' /\ \E name \in NameSet : Promise!OpenFile(name)
<1> DEFINE d == mru'
           name == Upper[file]
<1>1. MenuDefined /\ saving = 0 /\ d = AddMRUItem(mru, file) /\ ini' = ini /\ saving' = saving
  BY DEF Open
<1>2. MruOk(mru) /\ Shown = NamesIn(mru)
  BY <1>1, RunningIs
<1> HIDE DEF d
<1>3. /\ MruOk(d) /\ d.list # <<>>
      /\ NamesIn(d) = Promise!Cut(Promise!ToFront(NamesIn(mru), name))
  BY <1>1, <1>2, AddMRUItemIs
<1>4. Quiet(d)
  BY <1>3 DEF Quiet
<1>5. MruInv' /\ MenuDefined' /\ Shown' = NamesIn(d) /\ Offered' = Offered
  BY <1>1, <1>3, <1>4, ChangeOk DEF d
<1>6. name \in NameSet
  BY DEF NameSet
<1> HIDE DEF name
<1>7. Promise!OpenFile(name)
  <2>1. /\ MenuDefined /\ ~ (saving > 0) /\ ~ (saving' > 0) /\ MenuDefined'
        /\ Shown' = Promise!Cut(Promise!ToFront(Shown, name))
    BY <1>1, <1>2, <1>3, <1>5
  <2> QED
    BY <1>1, <1>5, <2>1 DEF Promise!OpenFile
<1> QED
  BY <1>5, <1>6, <1>7

(* Clearing the list leaves nothing to be shown. *)
LEMMA ClearOk ==
  ASSUME MruInv, Clear
  PROVE  MruInv' /\ Promise!Forget
<1> DEFINE d == mru'
<1>1. MenuDefined /\ saving = 0 /\ d = ClearMRUList(mru) /\ ini' = ini /\ saving' = saving
  BY DEF Clear
<1>2. MruOk(mru) /\ Quiet(mru)
  BY <1>1, RunningIs
<1> HIDE DEF d
<1>3. MruOk(d) /\ Quiet(d) /\ d.list = <<>>
  <2>1. CASE mru.list = <<>>
    <3>1. d = mru
      BY <1>1, <2>1 DEF ClearMRUList
    <3> QED
      BY <1>2, <2>1, <3>1
  <2>2. CASE mru.list # <<>>
    <3>1. MruOk(d) /\ d.list = <<>> /\ d.menu[1].enabled = FALSE
      BY <1>1, <1>2, <2>2, ClearIs
    <3> QED
      BY <3>1 DEF Quiet
  <2> QED
    BY <2>1, <2>2
<1>4. MruInv' /\ MenuDefined' /\ Shown' = <<>> /\ Offered' = Offered
  BY <1>1, <1>3, ChangeOk DEF d
<1>5. Promise!Forget
  BY <1>1, <1>4 DEF Promise!Forget
<1> QED
  BY <1>4, <1>5

(* Saving begins. *)
LEMMA BeginOk ==
  ASSUME MruInv, SaveMRUFileList
  PROVE  MruInv' /\ Promise!BeginSave
<1>1. MenuDefined /\ saving = 0 /\ saving' = 1 /\ mru' = mru /\ ini' = ini
  BY DEF SaveMRUFileList
<1>2. MruInv'
  <2>1. 1 \in 0 .. MaxMru + 1 /\ \A i \in 1 .. MaxMru : ~ (i < 1)
    BY MruAssumption
  <2> QED
    BY <1>1, <2>1 DEF MruInv, MenuDefined
<1>3. Shown' = Shown /\ Offered' = Offered /\ MenuDefined' /\ saving' > 0 /\ ~ (saving > 0)
  BY <1>1, MappingIs DEF MenuDefined
<1> QED
  BY <1>1, <1>2, <1>3 DEF Promise!BeginSave

(* An entry is written. *)
LEMMA EntryOk ==
  ASSUME MruInv, WriteEntry, saving <= MaxMru
  PROVE  MruInv' /\ Promise!WriteSome
<1> DEFINE f == EntryIn(mru, saving)
           d == ini'
<1>0. MaxMru \in Nat
  BY MruAssumption
<1>1. /\ saving > 0 /\ saving \in 0 .. MaxMru + 1 /\ d = [ini EXCEPT ![saving] = f]
      /\ saving' = saving + 1 /\ mru' = mru
  BY MappingIs DEF WriteEntry, MruInv
<1>2. saving \in 1 .. MaxMru /\ saving # 0
  BY <1>0, <1>1
<1>3. mru # NotRunning /\ ini \in IniFile /\ \A i \in 1 .. MaxMru : i < saving => ini[i] = EntryIn(mru, i)
  BY <1>2 DEF MruInv
<1>4. MenuDefined
  BY <1>3 DEF MenuDefined
<1>5. MruOk(mru) /\ Quiet(mru) /\ Shown = NamesIn(mru)
  BY <1>4, RunningIs
<1> HIDE DEF d
<1>6. /\ d \in IniFile
      /\ \A i \in 1 .. MaxMru : d[i] = IF i = saving THEN f ELSE ini[i]
      /\ LeftOf(d) \subseteq LeftOf(ini) \cup Promise!Members(NamesIn(mru))
  <2> DEFINE e == ini
             w == saving
             m == mru
  <2>1. MruOk(m) /\ e \in IniFile /\ w \in 1 .. MaxMru /\ d = Written(e, m, w)
    BY <1>1, <1>2, <1>3, <1>5 DEF Written
  <2> HIDE DEF e, w, m
  <2>2. /\ d \in IniFile
        /\ \A i \in 1 .. MaxMru : d[i] = IF i = w THEN EntryIn(m, w) ELSE e[i]
        /\ LeftOf(d) \subseteq LeftOf(e) \cup Promise!Members(NamesIn(m))
    BY ONLY <2>1, WrittenIs
  <2> QED
    BY <2>2 DEF e, w, m
<1>7. MruInv'
  <2>1. \A i \in 1 .. MaxMru : i < saving + 1 => d[i] = EntryIn(mru, i)
    <3> SUFFICES ASSUME NEW i \in 1 .. MaxMru, i < saving + 1 PROVE d[i] = EntryIn(mru, i)
      OBVIOUS
    <3>1. i = saving \/ i < saving
      BY <1>2
    <3> QED
      BY <1>3, <1>6, <3>1
  <2>2. saving' \in 0 .. MaxMru + 1
    BY <1>0, <1>1, <1>2
  <2>3. mru' # NotRunning /\ MruOk(mru') /\ Quiet(mru') /\ ini' \in IniFile
    BY <1>1, <1>3, <1>5, <1>6 DEF d
  <2>4. \A i \in 1 .. MaxMru : i < saving' => ini'[i] = EntryIn(mru', i)
    BY <1>1, <2>1 DEF d
  <2> QED
    BY <2>2, <2>3, <2>4 DEF MruInv
<1>8. Promise!WriteSome
  <2>1. OfferedBy(Prefix(d)) \in Promise!Lists /\ Promise!Members(OfferedBy(Prefix(d))) \subseteq LeftOf(d)
    BY <1>6, StoredIs
  <2>2. Offered' = OfferedBy(Prefix(d)) /\ Shown' = Shown
    BY <1>1, MappingIs DEF d
  <2>3. saving > 0 /\ saving' > 0 /\ MenuDefined /\ MenuDefined'
    BY <1>1, <1>2, <1>3 DEF MenuDefined
  <2>4. LeftOf(d) \subseteq LeftOf(ini) \cup Promise!Members(Shown)
    BY <1>5, <1>6
  <2> QED
    BY <2>1, <2>2, <2>3, <2>4 DEF Promise!WriteSome, LeftOf, d
<1> QED
  BY <1>7, <1>8

(* When all are written, the file holds the list. *)
LEMMA EndOk ==
  ASSUME MruInv, WriteEntry, ~ (saving <= MaxMru)
  PROVE  MruInv' /\ Promise!EndSave
<1>0. MaxMru \in Nat
  BY MruAssumption
<1>1. saving > 0 /\ saving \in 0 .. MaxMru + 1 /\ saving' = 0 /\ mru' = mru /\ ini' = ini
  BY DEF WriteEntry, MruInv
<1>2. saving = MaxMru + 1 /\ saving # 0 /\ \A i \in 1 .. MaxMru : i < saving
  BY <1>0, <1>1
<1>3. mru # NotRunning /\ ini \in IniFile /\ \A i \in 1 .. MaxMru : ini[i] = EntryIn(mru, i)
  BY <1>2 DEF MruInv
<1>4. MenuDefined
  BY <1>3 DEF MenuDefined
<1>5. MruOk(mru) /\ Quiet(mru) /\ Shown = NamesIn(mru)
  BY <1>4, RunningIs
<1>6. OfferedBy(Prefix(ini)) = NamesIn(mru) /\ LeftOf(ini) = Promise!Members(NamesIn(mru))
  BY <1>3, <1>5, SavedIs
<1>7. MruInv'
  <2>1. 0 \in 0 .. MaxMru + 1
    BY <1>0
  <2> QED
    BY <1>1, <1>3, <1>5, <2>1 DEF MruInv
<1>8. Promise!EndSave
  <2>1. Offered = Shown /\ Offered' = Offered /\ Shown' = Shown
    <3>1. Offered' = Offered /\ Shown' = Shown
      BY <1>1, MappingIs
    <3>2. Offered = Shown
      BY <1>5, <1>6, MappingIs
    <3> QED
      BY <3>1, <3>2
  <2>4. saving > 0 /\ ~ (saving' > 0)
    BY <1>1
  <2>2. LeftOf(ini) = Promise!Members(Shown)
    BY <1>5, <1>6
  <2>3. MenuDefined' = MenuDefined
    BY <1>1 DEF MenuDefined
  <2> QED
    BY <1>1, <2>1, <2>2, <2>3, <2>4 DEF Promise!EndSave, LeftOf
<1> QED
  BY <1>7, <1>8

(* The program may end at any time. *)
LEMMA StopOk ==
  ASSUME MruInv, Exit
  PROVE  MruInv' /\ Promise!Stop
<1>1. MenuDefined /\ mru' = NotRunning /\ saving' = 0 /\ ini' = ini
  BY DEF Exit
<1>2. MruInv'
  <2>1. 0 \in 0 .. MaxMru + 1 /\ ini \in IniFile
    BY MruAssumption DEF MruInv
  <2> QED
    BY <1>1, <2>1 DEF MruInv
<1>3. Shown' = <<>> /\ Offered' = Offered /\ ~ MenuDefined' /\ ~ (saving' > 0)
  BY <1>1, MappingIs, NothingShown DEF MenuDefined
<1> QED
  BY <1>1, <1>2, <1>3 DEF Promise!Stop

(* What the mapping reads is unchanged by a step that changes nothing. *)
LEMMA MruStutter ==
  ASSUME MruInv, UNCHANGED mruVars
  PROVE  MruInv' /\ UNCHANGED Promise!recentVars
<1>1. mru' = mru /\ ini' = ini /\ saving' = saving
  BY DEF mruVars
<1>2. MruInv'
  BY <1>1 DEF MruInv
<1>3. Shown' = Shown /\ Offered' = Offered /\ MenuDefined' = MenuDefined
  BY <1>1, MappingIs DEF MenuDefined
<1> QED
  BY <1>1, <1>2, <1>3 DEF Promise!recentVars

(* Whatever is opened, cleared and saved, and wherever the program ends:   *)
(* the menu shows the files opened last, each once and in order, and a     *)
(* complete save is what the next start shows.                             *)
THEOREM MenuKeepsRecentFiles == MruSpec => MenuIsRecentFiles
<1>1. MruInv /\ [MruNext]_mruVars => MruInv' /\ [Promise!RecentNext]_(Promise!recentVars)
  <2> SUFFICES ASSUME MruInv, [MruNext]_mruVars
               PROVE  MruInv' /\ [Promise!RecentNext]_(Promise!recentVars)
    OBVIOUS
  <2>1. CASE DefineMruItem
    BY <2>1, StartUpOk DEF Promise!RecentNext
  <2>2. CASE Clear
    BY <2>2, ClearOk DEF Promise!RecentNext
  <2>3. CASE SaveMRUFileList
    BY <2>3, BeginOk DEF Promise!RecentNext
  <2>4. CASE WriteEntry
    BY <2>4, EntryOk, EndOk DEF Promise!RecentNext
  <2>5. CASE Exit
    BY <2>5, StopOk DEF Promise!RecentNext
  <2>6. ASSUME NEW file \in Files, Open(file)
        PROVE  MruInv' /\ [Promise!RecentNext]_(Promise!recentVars)
    BY <2>6, OpenOk DEF Promise!RecentNext
  <2>7. CASE UNCHANGED mruVars
    BY <2>7, MruStutter
  <2> QED
    BY <2>1, <2>2, <2>3, <2>4, <2>5, <2>6, <2>7 DEF MruNext
<1> QED
  BY <1>1, MruStart, PTL DEF MruSpec, MenuIsRecentFiles, Promise!RecentSpec
=============================================================================

----------------------------- MODULE AppEvents -----------------------------
(***************************************************************************)
(* The event handlers of one window (c_windows.c): ON, UPDATE and REMOVE   *)
(* APPEVENT, EMIT, and their copies for WINEVENT and message-only windows. *)
(*                                                                         *)
(* A window has two holders, one for ONCE handlers and one for ON handlers. *)
(* A holder is allocated for its first handler, kept in a property of the  *)
(* window, and freed when its last handler is removed.  Handlers are user  *)
(* code: while one runs it may register, update and remove handlers, emit  *)
(* events, and destroy the window, so dispatches nest; the variable calls  *)
(* holds the unfinished ones, the running one first.                       *)
(***************************************************************************)
EXTENDS Naturals, Sequences, FiniteSets

CONSTANTS
  MaxEvents,  \* MAX_EVENTS, slots of a holder
  Ids,        \* message numbers the program uses; 0 marks an empty slot
  Actions,    \* code blocks
  Kinds,      \* which of "ONCE" and "ON" the program registers
  NoAction,
  Window,     \* "app" for AppEvents, "win" for WinEvents
  Careful,    \* TRUE: while a ONCE handler runs, the program neither emits
              \* nor registers its event again
  MaxDepth    \* bound: no event is emitted above this many dispatches

ASSUME AppEventsAssumption ==
  /\ MaxEvents \in Nat \ {0}
  /\ Ids \subseteq Nat
  /\ NoAction \notin Actions
  /\ Kinds \subseteq {"ONCE", "ON"}
  /\ Window \in {"app", "win"}
  /\ Careful \in BOOLEAN
  /\ MaxDepth \in Nat

VARIABLES
  holder, \* the properties ONCE and ON of the window
  alive,  \* IsWindow( hWnd )
  calls   \* unfinished dispatches

vars == <<holder, alive, calls>>

Props == {"ONCE", "ON"}
Slots == 1 .. MaxEvents

(* runs counts, for the properties, how often a ONCE handler was run *)
EmptySlot == [message |-> 0, action |-> NoAction, active |-> FALSE, runs |-> 0]
NoHolder  == [there |-> FALSE, active |-> FALSE, used |-> 0,
              events |-> [k \in Slots |-> EmptySlot]]
NewHolder(on) == [NoHolder EXCEPT !.there = TRUE, !.active = on]

(* AppEventScan: the first slot with that message, or 0 *)
AppEventScan(h, m) ==
  IF \E k \in Slots : h.events[k].message = m
    THEN CHOOSE k \in Slots : /\ h.events[k].message = m
                              /\ \A j \in 1 .. k - 1 : h.events[j].message # m
    ELSE 0

(* Faulty forms of AppEventRemove, for the runs to find: events not found  *)
(* are counted; the holder is never freed; it is freed one handler early   *)
RemoveMiscounted(h, m) ==
  LET k == AppEventScan(h, m)
      g == IF m = 0 THEN NoHolder
           ELSE IF k = 0 THEN [h EXCEPT !.used = @ - 1]
           ELSE [h EXCEPT !.events[k] = EmptySlot, !.used = @ - 1]
  IN  IF k > 0 /\ g.used = 0 THEN NoHolder ELSE g
RemoveKeeps(h, m) ==
  LET k == AppEventScan(h, m)
  IN  IF m = 0 THEN [NoHolder EXCEPT !.there = TRUE]
      ELSE IF k = 0 THEN h
      ELSE [h EXCEPT !.events[k] = EmptySlot, !.used = @ - 1]
RemoveEarly(h, m) ==
  LET k == AppEventScan(h, m)
  IN  IF m = 0 \/ h.used <= 2 THEN NoHolder
      ELSE IF k = 0 THEN h
      ELSE [h EXCEPT !.events[k] = EmptySlot, !.used = @ - 1]

(* AppEventRemove: one handler, or all if m = 0; an unused holder is freed *)
AppEventRemove(h, m) ==
  LET k == AppEventScan(h, m)
      g == IF m = 0 THEN [h EXCEPT !.used = 0]
           ELSE IF k = 0 THEN h
           ELSE [h EXCEPT !.events[k] = EmptySlot, !.used = @ - 1]
  IN  IF g.used = 0 THEN NoHolder ELSE g

-----------------------------------------------------------------------------
(* Calls.  User code runs when no dispatch is in progress or the innermost *)
(* one is in a handler.                                                    *)

Dispatching(at) == calls # <<>> /\ Head(calls).at = at
UserCode == calls = <<>> \/ Dispatching("inONCE") \/ Dispatching("inON")
Running  == {calls[d].m : d \in {e \in DOMAIN calls : calls[e].at = "inONCE"}}

(* AppEvents() takes ids from WM_APP on; WinEvents() any, 0 included *)
Accepted == IF Window = "app" THEN Ids \ {0} ELSE Ids

(* Faulty: the event is not looked up first; no empty slot is looked for *)
SlotForNew(p, h, m)   == IF ~holder[p].there THEN 1 ELSE AppEventScan(h, 0)
SlotForFirst(p, h, m) == IF AppEventScan(h, m) > 0 THEN AppEventScan(h, m) ELSE 1

(* The slot a handler is put in: the one its event has, or an empty one *)
SlotFor(p, h, m) ==
  IF AppEventScan(h, m) > 0 THEN AppEventScan(h, m)
  ELSE IF ~holder[p].there THEN 1
  ELSE AppEventScan(h, 0)

(* APPEVENTS, WINEVENTS.  A new holder takes the activity of its first     *)
(* handler.  Event 0 is found in an empty slot, and then is not counted.   *)
Register(p, m, a, on) ==
  LET h == IF holder[p].there THEN holder[p] ELSE NewHolder(on)
      found == AppEventScan(h, m)
      k == SlotFor(p, h, m)
      e == [message |-> m, action |-> a, active |-> on, runs |-> 0]
  IN  /\ UserCode
      /\ alive
      /\ m \in Accepted
      /\ k > 0
      /\ Careful => m \notin Running
      /\ holder' = [holder EXCEPT ![p] =
                      [h EXCEPT !.events[k] = e,
                                !.used = IF found > 0 THEN @ ELSE @ + 1]]
      /\ UNCHANGED <<alive, calls>>

(* APPEVENTSREMOVE, WINEVENTSREMOVE *)
RemoveEvent(p, m) ==
  /\ UserCode
  /\ alive
  /\ holder[p].there
  /\ holder' = [holder EXCEPT ![p] = AppEventRemove(@, m)]
  /\ UNCHANGED <<alive, calls>>

(* APPEVENTSUPDATE, WINEVENTSUPDATE: action is NoAction if none was given. *)
(* AppEventsUpdate( hWnd, 0 ) is for the whole holder; WinEventsUpdate     *)
(* looks 0 up like any other message and updates an empty slot.            *)
UpdateEvent(p, m, a, on) ==
  LET k == AppEventScan(holder[p], m)
      old == holder[p].events[k]
      whole == m = 0 /\ Window = "app"
  IN  /\ UserCode
      /\ alive
      /\ holder[p].there
      /\ whole \/ (m \in Accepted /\ k > 0)
      /\ holder' = IF whole THEN [holder EXCEPT ![p].active = on]
                   ELSE [holder EXCEPT ![p].events[k] =
                           [old EXCEPT !.action = IF a = NoAction THEN old.action ELSE a,
                                       !.active = on]]
      /\ UNCHANGED <<alive, calls>>

(* WM_DESTROY frees both holders; later a new window may get the handle *)
Destroy ==
  /\ UserCode
  /\ alive
  /\ alive' = FALSE
  /\ holder' = [p \in Props |-> AppEventRemove(holder[p], 0)]
  /\ UNCHANGED calls

Create ==
  /\ UserCode
  /\ ~alive
  /\ alive' = TRUE
  /\ UNCHANGED <<holder, calls>>

(* EMIT is SendMessage: the window procedure calls AppEventOn *)
Emit(m) ==
  /\ UserCode
  /\ alive
  /\ m \in Accepted
  /\ Len(calls) < MaxDepth
  /\ Careful => m \notin Running
  /\ calls' = <<[m |-> m, at |-> "ONCE"]>> \o calls
  /\ UNCHANGED <<holder, alive>>

-----------------------------------------------------------------------------
(* AppEventOn and AppEventDo: the ONCE handler, its removal, the ON handler *)

Goes(at) == calls' = [calls EXCEPT ![1].at = at]
Runs(h, k) == k > 0 /\ h.active /\ h.events[k].active /\ h.events[k].action # NoAction

AppEventDo(p, inside, after) ==
  LET m == Head(calls).m
      k == AppEventScan(holder[p], m)
  IN  /\ Dispatching(p)
      /\ UNCHANGED alive
      /\ IF holder[p].there /\ Runs(holder[p], k)
           THEN /\ Goes(inside)
                /\ holder' = IF p = "ONCE" THEN [holder EXCEPT ![p].events[k].runs = @ + 1]
                             ELSE holder
           ELSE /\ after
                /\ UNCHANGED holder

DoOnce == AppEventDo("ONCE", "inONCE", Goes("ON"))
DoOn   == AppEventDo("ON", "inON", calls' = Tail(calls))

(* Faulty: the ONCE handler stays *)
OnceStays ==
  /\ Dispatching("inONCE")
  /\ Goes("ON")
  /\ UNCHANGED <<holder, alive>>

(* The ONCE handler returns: AppEventRemove( hWnd, "ONCE", message ) *)
OnceReturns ==
  /\ Dispatching("inONCE")
  /\ holder' = IF holder["ONCE"].there
                 THEN [holder EXCEPT !["ONCE"] = AppEventRemove(@, Head(calls).m)]
                 ELSE holder
  /\ Goes("ON")
  /\ UNCHANGED alive

OnReturns ==
  /\ Dispatching("inON")
  /\ calls' = Tail(calls)
  /\ UNCHANGED <<holder, alive>>

-----------------------------------------------------------------------------
Init ==
  /\ holder = [p \in Props |-> NoHolder]
  /\ alive = TRUE
  /\ calls = <<>>

Next ==
  \/ \E p \in Kinds, m \in Ids, a \in Actions, on \in BOOLEAN : Register(p, m, a, on)
  \/ \E p \in Kinds, m \in Ids \cup {0} : RemoveEvent(p, m)
  \/ \E p \in Kinds, m \in Ids \cup {0}, a \in Actions \cup {NoAction}, on \in BOOLEAN :
       UpdateEvent(p, m, a, on)
  \/ \E m \in Ids : Emit(m)
  \/ Destroy
  \/ Create
  \/ DoOnce
  \/ DoOn
  \/ OnceReturns
  \/ OnReturns

Spec == Init /\ [][Next]_vars

=============================================================================

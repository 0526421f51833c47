--------------------------- MODULE AppEventsProps ---------------------------
(***************************************************************************)
(* Properties of the event holders.                                        *)
(***************************************************************************)
EXTENDS AppEvents

Event  == [message : Ids \cup {0}, action : Actions \cup {NoAction},
           active : BOOLEAN, runs : Nat]
Holder == [there : BOOLEAN, active : BOOLEAN, used : Nat, events : [Slots -> Event]]

(* The type invariant of the holders and of the dispatches in progress. *)
EventsTypeOK ==
  /\ holder \in [Props -> Holder]
  /\ alive \in BOOLEAN
  /\ calls \in Seq([m : Ids, at : {"ONCE", "inONCE", "ON", "inON"}])

(* The counter that decides when a holder is freed is the number of slots  *)
(* in use, whatever handlers do while they run: a holder is never freed    *)
(* with a handler in it, and no count is lost or taken twice.              *)
Occupied(h) == {k \in Slots : h.events[k].message # 0}
UsedIsExact == \A p \in Props : holder[p].used = Cardinality(Occupied(holder[p]))

(* No event is in two slots, so that removing or replacing its handler     *)
(* cannot leave an older one behind.                                       *)
OneSlotPerEvent ==
  \A p \in Props : \A j, k \in Occupied(holder[p]) :
    holder[p].events[j].message = holder[p].events[k].message => j = k

(* A holder without handlers does not stay allocated, and a window that is *)
(* destroyed leaves none behind.                                           *)
NoEmptyHolder ==
  \A p \in Props : holder[p].there => alive /\ Occupied(holder[p]) # {}

(* A handler goes only when its own removal, the removal of all, the end of *)
(* its ONCE dispatch or the end of the window takes it.                    *)
Registered(p, m) == AppEventScan(holder[p], m) # 0
HandlersKept ==
  [][\A p \in Props, m \in Ids \ {0} :
       Registered(p, m) /\ ~Registered(p, m)' =>
         \/ RemoveEvent(p, m) \/ RemoveEvent(p, 0)
         \/ Destroy
         \/ OnceReturns /\ p = "ONCE" /\ m = Head(calls).m]_vars

(* What AppEventRemove takes out after a ONCE handler returned is the      *)
(* handler that ran, run exactly once.                                     *)
OnceIsOnce ==
  [][OnceReturns =>
       LET h == holder["ONCE"]
           k == AppEventScan(h, Head(calls).m)
       IN  h.there /\ k > 0 => h.events[k].runs = 1]_vars

(* The slots, their counter and the holders implement the tables of        *)
(* EventRegistry.                                                          *)
SlotOf(p, m) == AppEventScan(holder[p], m)
Registry == INSTANCE EventRegistry WITH
  Tables <- Props, Ids <- Ids \ {0}, Limit <- MaxEvents,
  action <- [p \in Props |-> [m \in Ids \ {0} |->
               IF SlotOf(p, m) = 0 THEN NoAction ELSE holder[p].events[SlotOf(p, m)].action]],
  active <- [p \in Props |-> {m \in Ids \ {0} :
               SlotOf(p, m) # 0 /\ holder[p].events[SlotOf(p, m)].active}]
SlotsAreARegistry == Registry!Spec

=============================================================================

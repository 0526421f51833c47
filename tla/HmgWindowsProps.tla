-------------------------- MODULE HmgWindowsProps --------------------------
(***************************************************************************)
(* Properties of the window table, of activation and of modality.          *)
(***************************************************************************)
EXTENDS HmgWindows

FormRecord ==
  [name : Names \cup {NoName}, handle : Handles \cup {NoHandle},
   active : BOOLEAN, parent : Handles \cup {NoHandle},
   id : Nat, loop : Nat, released : Nat]

Call ==
  [k : {"user"}, i : Nat, ev : {"MAIN", "CONTROL", "WINDOW_INIT",
                         "WINDOW_RELEASE", "WINDOW_ONINTERACTIVECLOSE"}]
  \cup [k : {"loop"}, g : Nat]
  \cup [k : {"events"}]
  \cup [k : {"init"}, i : Slots]
  \cup [k : {"close"}, at : {"start", "ask", "release"}, i : Slots,
        h : Handles, lp : {0, 1}]
  \cup [k : {"all"}, i : Nat]
  \cup [k : {"act"}, todo : Seq(Names), several : BOOLEAN, id : Nat, g : Nat,
        nowait : BOOLEAN, shown : Names \cup {NoName}]

(* The type invariant of the window table and of the calls in progress. *)
TypeOK ==
  /\ form \in [Slots -> FormRecord]
  /\ nameVar \in [Names -> Slots \cup {0}]
  /\ mainHandle \in Handles \cup {NoHandle} /\ mainActive \in BOOLEAN
  /\ interactiveClose \in 0 .. 3
  /\ modalActive \in BOOLEAN
  /\ activeModal \in Handles \cup {NoHandle}
  /\ userWindow \in Handles \cup {NoHandle}
  /\ counter \in [ActivateIds -> Nat]
  /\ visible \subseteq Handles /\ enabled \subseteq Handles
  /\ queue \in Seq([h : Handles \cup {NoHandle}, lp : {0, 1}]) /\ quit \in BOOLEAN
  /\ stack \in Seq(Call)
  /\ status \in {"run", "error", "exit"}

(* The public variable of a window names the slot that holds the window,   *)
(* every other slot is empty, no handle is in two slots, and nothing on    *)
(* the screen or in the message queue refers to a window already destroyed. *)
NamesMatch ==
  /\ \A n \in Names : Defined(n) => form[nameVar[n]].name = n
  /\ \A i \in Slots : Live(i) => nameVar[form[i].name] = i
  /\ \A i \in Slots : Live(i) <=> form[i].handle # NoHandle
HandlesMatch ==
  \A i, j \in Slots : Live(i) /\ Live(j) /\ form[i].handle = form[j].handle => i = j
ScreenMatches ==
  /\ visible \cup enabled \subseteq LiveHandles
  /\ \A m \in {queue[j] : j \in DOMAIN queue} : m = Discarded \/ m.h \in LiveHandles
TableConsistent == NamesMatch /\ HandlesMatch /\ ScreenMatches

(* The counter of a multiple activation is the number of its windows that  *)
(* are still to be activated or destroyed: no window is counted twice and  *)
(* none is forgotten, whatever is closed while the others are activated.   *)
ToActivate(id) ==
  {d \in DOMAIN stack : stack[d].k = "act" /\ stack[d].several /\ stack[d].id = id}
CounterIsExact ==
  status = "run" =>
    \A id \in ActivateIds \ {0} :
      \/ /\ ToActivate(id) = {}
         /\ counter[id] = Cardinality({i \in Slots : form[i].id = id})
      \/ \E d \in ToActivate(id) :
         counter[id] = Cardinality({i \in Slots : form[i].id = id}) + Len(stack[d].todo)

(* WM_QUIT is posted only when the last window of an ACTIVATE WINDOW is    *)
(* destroyed: "If Window was Multi-activated, determine If it is a Last    *)
(* one. If Yes, then post Quit message to finish the Message Loop."  (A    *)
(* window shown and closed without being activated posts one of its own.)  *)
LastOfLoop(i) ==
  \A j \in Slots \ {i} : Live(j) /\ form[j].loop = form[i].loop => form[i].loop = 0
QuitAtLast ==
  [][quit' /\ ~quit => \E i \in Slots : Live(i) /\ ~Live(i)' /\ LastOfLoop(i)]_vars

(* ACTIVATE WINDOW returns only after all the windows it activated are     *)
(* destroyed: WM_QUIT never ends the message loop of another activation.   *)
OpenIn(g) == {i \in Slots : Live(i) /\ form[i].loop = g}
ReturnsAfterClose ==
  [][Running("loop") /\ stack' = Rest => OpenIn(Top.g) = {}]_vars

(* An ON RELEASE procedure runs at most once for a window.                 *)
ReleasedOnce == \A i \in Slots : form[i].released <= 1

(* While the ON RELEASE procedure of a window runs, and whatever it pumps   *)
(* meanwhile, the window is not released again: "Release a window in its   *)
(* own ON RELEASE procedure or release the Main Window in any ON RELEASE   *)
(* procedure is not allowed."                                              *)
InOwnRelease(i) ==
  \E d \in DOMAIN stack :
    stack[d].k = "user" /\ stack[d].ev = "WINDOW_RELEASE" /\ stack[d].i = i
Pending(h) == {j \in DOMAIN queue : queue[j].h = h}
NoOwnRelease ==
  [][\A i \in Slots :
       /\ Live(i)
       /\ InOwnRelease(i)
       /\ ThisEventType = "WINDOW_RELEASE"
       => Cardinality(Pending(form[i].handle)') <= Cardinality(Pending(form[i].handle))]_vars

(* The slot a WM_CLOSE handler found holds the same window when the handler *)
(* goes on after ON INTERACTIVECLOSE or ON RELEASE: what these procedures  *)
(* did has neither destroyed the window nor given its slot to another.     *)
CloseKeepsItsSlot ==
  \A d \in DOMAIN stack :
    status = "run" /\ stack[d].k = "close" => form[stack[d].i].handle = stack[d].h

-----------------------------------------------------------------------------
(* Modality.  A window that is part of an unfinished multiple activation   *)
(* is on the screen before _ShowWindow makes it modal.                     *)

Unfinished == {stack[d].shown : d \in {e \in DOMAIN stack : stack[e].k = "act"}}
Shown == {i \in Slots : Live(i) /\ IsModal(i) /\ form[i].handle \in visible
                         /\ form[i].name \notin Unfinished}

(* The windows below the active modal one, along the parent handles *)
Below ==
  LET b[d \in Nat] ==
        IF d = 0 THEN activeModal
        ELSE IF SlotOf(b[d - 1]) = 0 THEN NoHandle ELSE form[SlotOf(b[d - 1])].parent
  IN  b
Chain == [d \in 1 .. Cardinality(Shown) |-> Below[d - 1]]

(* The active modal window is on the screen, the parent handles lead from  *)
(* it through every other modal window on the screen to one that is not    *)
(* modal, and no other window takes input unless its release is pending.   *)
ModalChain ==
  /\ modalActive <=> Shown # {}
  /\ {Chain[d] : d \in DOMAIN Chain} = {form[i].handle : i \in Shown}
  /\ modalActive => SlotOf(Below[Cardinality(Shown)]) \notin {0} \cup Shown
OnlyTopTakesInput ==
  \A i \in Slots :
    modalActive /\ Reachable(i) /\ (\A j \in DOMAIN queue : queue[j].h # form[i].handle)
      => form[i].handle = activeModal

(* The dialogs on the screen, top first, behave as a stack.                *)
Dialogs == INSTANCE DialogStack WITH Windows <- Handles, dialogs <- Chain
DialogsAreAStack == Dialogs!Spec

-----------------------------------------------------------------------------
(* A message loop whose windows are all destroyed ends, unless the program *)
(* ends first: the WM_QUIT posted for it is neither lost nor taken by      *)
(* another pump.                                                           *)
ActivateReturns ==
  \A g \in 1 .. MaxDepth + Cardinality(Names) :
    (Running("loop") /\ Top.g = g /\ OpenIn(g) = {})
      ~> (status # "run" \/ g \notin {stack[d].g : d \in LoopCalls})

=============================================================================

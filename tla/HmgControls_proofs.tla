------------------------- MODULE HmgControls_proofs -------------------------
(***************************************************************************)
(* Slots, public variables, ids, timers and hot keys agree for any number  *)
(* of windows, names, keys, ids and slots; and BROWSE is a cursor on the   *)
(* visible records of a file of any length.                                *)
(***************************************************************************)
EXTENDS
  HmgControlsProps, BrowseProps, FiniteSetTheorems, SequenceTheorems, WellFoundedInduction, TLAPS

(* The inductive invariant.  What a control of each kind has; a ONCE timer *)
(* that ran is stopped.                                                    *)
SlotInv ==
  \A k \in Slots :
    /\ ctl[k].type \in {"TIMER", "LABEL"} => ctl[k].name \in Names /\ ctl[k].parent \in Windows
    /\ ctl[k].type \in {"ERASED", "HOTKEY"} => ctl[k].name = NoName
    /\ ctl[k].type \in {"TIMER", "HOTKEY"} => ctl[k].id \in Ids
    /\ ctl[k].type = "HOTKEY" => ctl[k].parent \in Windows /\ ctl[k].key \in Keys
    /\ ctl[k].type = "ERASED" => ctl[k].parent = NoWindow
    /\ ctl[k].type \in {"ERASED", "LABEL"} => ctl[k].id = NoId
    /\ ctl[k].blink => ctl[k].type = "LABEL"
    /\ fired[k] # 0 => ctl[k].type = "TIMER" /\ ~ctl[k].enabled

(* A window has a key once: _DefineHotKey releases the one before *)
KeysInv ==
  \A j, k \in Slots :
    /\ ctl[j].type = "HOTKEY" /\ ctl[k].type = "HOTKEY"
    /\ ctl[j].parent = ctl[k].parent /\ ctl[j].key = ctl[k].key
    => j = k

(* In a careful program the timer of a label is in a slot behind it *)
LaterInv ==
  careful => \A k \in Slots : ctl[k].blink => index[<<ctl[k].parent, BlinkTimer(k)>>] > k

ControlsInv ==
  /\ ControlsTypeOK /\ SlotInv /\ KeysInv /\ LaterInv
  /\ IndexIsExact /\ IdsAreUnique /\ TimersMatch /\ NoOrphanHotKey /\ KeysFollowFocus
  /\ BlinkPaired /\ NoRuntimeError /\ OnceTicksOnce

-----------------------------------------------------------------------------
(* Slots are positive numbers. *)
LEMMA SlotsArePositive == Slots \subseteq Nat /\ 0 \notin Slots
BY HmgControlsAssumption DEF Slots

(* The names of the timers of labels differ from each other and from those *)
(* of the program.                                                         *)
LEMMA BlinkNames ==
  \A j, k \in Slots : /\ BlinkTimer(k) \in Names /\ BlinkTimer(k) \notin UserNames
                      /\ BlinkTimer(j) = BlinkTimer(k) => j = k
BY HmgControlsAssumption DEF BlinkTimer, Names

(* A set of slots that is not empty has a first one. *)
LEMMA FirstOf ==
  ASSUME NEW S \in SUBSET Slots, S # {}
  PROVE  \E k \in S : \A j \in S : k <= j
<1>1. S \subseteq Nat
  BY SlotsArePositive
<1>2. PICK k \in S : \A j \in S : ~ (<<j, k>> \in OpToRel(<, Nat))
  BY <1>1, WFMin, NatLessThanWellFounded
<1>3. \A j \in S : ~ (<<j, k>> \in {ss \in Nat \X Nat : ss[1] < ss[2]})
  BY ONLY <1>2, Zenon DEF OpToRel
<1>4. \A j \in S : ~ (j < k)
  BY <1>1, <1>3
<1>5. \A j \in S : k <= j
  BY <1>1, <1>4
<1> QED
  BY <1>5

(* _GetControlFree gives a free slot, the first one. *)
LEMMA FreeIsFirst ==
  ASSUME FreeSlots # {}
  PROVE  /\ GetControlFree \in Slots /\ ctl[GetControlFree].type = "ERASED"
         /\ \A j \in FreeSlots : GetControlFree <= j
<1>1. \E k \in FreeSlots : \A j \in FreeSlots : k <= j
  BY FirstOf DEF FreeSlots
<1> QED
  BY <1>1 DEF GetControlFree, FreeSlots

(* The fields of the erased slot and of a timer. *)
LEMMA Fields ==
  ASSUME NEW w, NEW n, NEW id, NEW once
  PROVE  /\ Erased.type = "ERASED" /\ Erased.name = NoName /\ Erased.parent = NoWindow
         /\ Erased.id = NoId /\ ~Erased.blink /\ ~Erased.enabled /\ Erased \in Control
         /\ Timer(w, n, id, once).type = "TIMER" /\ Timer(w, n, id, once).name = n
         /\ Timer(w, n, id, once).parent = w /\ Timer(w, n, id, once).id = id
         /\ Timer(w, n, id, once).enabled /\ ~Timer(w, n, id, once).blink
         /\ w \in Windows /\ n \in Names /\ id \in Ids /\ once \in BOOLEAN =>
              Timer(w, n, id, once) \in Control
BY DEF Erased, Timer, Control, Types

(* A public variable that is not 0 leads to a control of that name. *)
LEMMA IndexLeads ==
  ASSUME ControlsInv, NEW w \in Windows, NEW n \in Names, index[<<w, n>>] # 0
  PROVE  /\ index[<<w, n>>] \in Slots
         /\ ctl[index[<<w, n>>]].type \in {"TIMER", "LABEL"}
         /\ ctl[index[<<w, n>>]].parent = w /\ ctl[index[<<w, n>>]].name = n
<1>1. index[<<w, n>>] \in Slots
  BY DEF ControlsInv, ControlsTypeOK
<1>2. ctl[index[<<w, n>>]] \in Control
  BY <1>1 DEF ControlsInv, ControlsTypeOK
<1>3. ctl[index[<<w, n>>]].type \in Types
  BY <1>2 DEF Control
<1>4. LET c == ctl[index[<<w, n>>]] IN c.parent = w /\ c.name = n /\ c.type # "ERASED"
  BY DEF ControlsInv, IndexIsExact
<1>5. ctl[index[<<w, n>>]].type # "HOTKEY"
  BY <1>1, <1>4, HmgControlsAssumption DEF ControlsInv, SlotInv
<1> QED
  BY <1>1, <1>3, <1>4, <1>5 DEF Types

(* Only timers and labels have the name of a control. *)
LEMMA NamedTypes ==
  ASSUME ControlsInv, NEW j \in Slots, ctl[j].name \in Names
  PROVE  ctl[j].type \in {"TIMER", "LABEL"}
<1>1. ctl[j].type \in Types
  BY DEF ControlsInv, ControlsTypeOK, Control
<1> QED
  BY <1>1, HmgControlsAssumption DEF ControlsInv, SlotInv, Types

(* A name that _IsControlDefined does not know has no variable. *)
LEMMA UndefinedHasNoIndex ==
  ASSUME ControlsInv, NEW w \in Windows, NEW n \in Names, ~IsControlDefined(w, n)
  PROVE  index[<<w, n>>] = 0
BY IndexLeads DEF IsControlDefined

(* The timer of a blinking label. *)
LabelTimer(k) == index[<<ctl[k].parent, BlinkTimer(k)>>]

LEMMA TimerOfLabel ==
  ASSUME ControlsInv, NEW k \in Slots, ctl[k].blink
  PROVE  /\ LabelTimer(k) \in Slots /\ LabelTimer(k) # k
         /\ ctl[LabelTimer(k)].type = "TIMER" /\ ctl[LabelTimer(k)].name = BlinkTimer(k)
         /\ ctl[LabelTimer(k)].parent = ctl[k].parent /\ ctl[k].parent \in Windows
         /\ ctl[k].type = "LABEL" /\ ErasedWith(k) = {k, LabelTimer(k)}
<1>1. ctl[k].type = "LABEL" /\ ctl[k].parent \in Windows
  BY DEF ControlsInv, SlotInv
<1>2. index[<<ctl[k].parent, BlinkTimer(k)>>] # 0
  BY SlotsArePositive DEF ControlsInv, BlinkPaired
<1>3. BlinkTimer(k) \in Names
  BY BlinkNames
<1>4. ctl[index[<<ctl[k].parent, BlinkTimer(k)>>]].type = "TIMER"
  BY DEF ControlsInv, BlinkPaired
<1> QED
  BY <1>1, <1>2, <1>3, <1>4, IndexLeads DEF ErasedWith, LabelTimer

(* No other kind of control takes one with it. *)
LEMMA AloneWithoutBlink ==
  ASSUME NEW k, ~ctl[k].blink
  PROVE  ErasedWith(k) = {k}
BY DEF ErasedWith

-----------------------------------------------------------------------------
(* Erasing controls: a label goes with its timer, and a timer with its     *)
(* label.                                                                  *)
Closed(S) ==
  \A k \in S :
    /\ ctl[k].type # "ERASED"
    /\ ctl[k].blink => LabelTimer(k) \in S
    /\ \A j \in Slots : ctl[j].blink /\ LabelTimer(j) = k => j \in S

(* What _EraseControl of the slots S leaves. *)
LEMMA EraseEffect ==
  ASSUME ControlsInv, NEW S \in SUBSET Slots, EraseControls(S)
  PROVE  /\ \A k \in S : ctl'[k] = Erased /\ fired'[k] = 0
         /\ \A k \in Slots \ S : ctl'[k] = ctl[k] /\ fired'[k] = fired[k]
         /\ \A w \in Windows, n \in Names :
              \/ /\ index'[<<w, n>>] = 0
                 /\ \E k \in S : w = ctl[k].parent /\ n = ctl[k].name
              \/ /\ index'[<<w, n>>] = index[<<w, n>>]
                 /\ \A k \in S : w # ctl[k].parent \/ n # ctl[k].name
         /\ osKeys' \subseteq osKeys
         /\ \A r \in osKeys : r \in osKeys' <=> \A k \in S :
              ctl[k].type = "HOTKEY" => r.win # ctl[k].parent \/ r.id # ctl[k].id
         /\ ctl' \in [Slots -> Control] /\ fired' \in [Slots -> 0 .. 2]
         /\ index' \in [Windows \X Names -> Slots \cup {0}]
<1>1. ctl' = EraseSlots(S) /\ index' = EraseIndex(S) /\ osKeys' = ReleaseHotKeys(S)
  BY DEF EraseControls
<1>2. ctl' = [k \in Slots |-> IF k \in S THEN Erased ELSE ctl[k]]
  BY <1>1 DEF EraseSlots
<1>3. fired' = [k \in Slots |-> IF k \in S THEN 0 ELSE fired[k]]
  BY DEF EraseControls
<1>4. Erased \in Control
  BY Fields
<1>5. /\ \A k \in S : ctl'[k] = Erased /\ fired'[k] = 0
      /\ \A k \in Slots \ S : ctl'[k] = ctl[k] /\ fired'[k] = fired[k]
  BY <1>2, <1>3
<1>6. ctl' \in [Slots -> Control] /\ fired' \in [Slots -> 0 .. 2]
  BY <1>2, <1>3, <1>4 DEF ControlsInv, ControlsTypeOK
<1>7. index' \in [Windows \X Names -> Slots \cup {0}]
  BY <1>1 DEF EraseIndex, ControlsInv, ControlsTypeOK
<1>8. ASSUME NEW w \in Windows, NEW n \in Names
      PROVE  \/ /\ index'[<<w, n>>] = 0
                /\ \E k \in S : w = ctl[k].parent /\ n = ctl[k].name
             \/ /\ index'[<<w, n>>] = index[<<w, n>>]
                /\ \A k \in S : w # ctl[k].parent \/ n # ctl[k].name
  BY <1>1 DEF EraseIndex
<1>9. /\ osKeys' \subseteq osKeys
      /\ \A r \in osKeys : r \in osKeys' <=> \A k \in S :
           ctl[k].type = "HOTKEY" => r.win # ctl[k].parent \/ r.id # ctl[k].id
  BY <1>1 DEF ReleaseHotKeys
<1> QED
  BY <1>5, <1>6, <1>7, <1>8, <1>9

(* Erasing controls that belong together keeps the invariant, if the       *)
(* windows of the others stay open, and their timers running.              *)
LEMMA EraseKeeps ==
  ASSUME ControlsInv, NEW S \in SUBSET Slots, EraseControls(S), Closed(S),
         front' = front, focus' = focus, careful' = careful, error' = error,
         globalHotkeys' = globalHotkeys,
         open' \subseteq open,
         \A k \in Slots \ S : ctl[k].type # "ERASED" => ctl[k].parent \in open',
         since' \subseteq since,
         \A i \in since : i \in since' <=> \A k \in S : ctl[k].type = "HOTKEY" => ctl[k].id # i,
         osTimers' \subseteq osTimers,
         \A k \in Slots \ S : ctl[k].type = "TIMER" /\ <<ctl[k].parent, ctl[k].id>> \in osTimers
           => <<ctl[k].parent, ctl[k].id>> \in osTimers',
         careful => \A k \in S : ctl[k].type = "TIMER" =>
                      <<ctl[k].parent, ctl[k].id>> \notin osTimers'
  PROVE  ControlsInv'
<1>a. /\ \A k \in S : ctl'[k] = Erased /\ fired'[k] = 0
      /\ \A k \in Slots \ S : ctl'[k] = ctl[k] /\ fired'[k] = fired[k]
  BY EraseEffect
<1>b. \A w \in Windows, n \in Names :
        \/ /\ index'[<<w, n>>] = 0
           /\ \E k \in S : w = ctl[k].parent /\ n = ctl[k].name
        \/ /\ index'[<<w, n>>] = index[<<w, n>>]
           /\ \A k \in S : w # ctl[k].parent \/ n # ctl[k].name
  BY EraseEffect
<1>c. /\ osKeys' \subseteq osKeys
      /\ \A r \in osKeys : r \in osKeys' <=> \A k \in S :
           ctl[k].type = "HOTKEY" => r.win # ctl[k].parent \/ r.id # ctl[k].id
  BY EraseEffect
<1>d. /\ ctl' \in [Slots -> Control] /\ fired' \in [Slots -> 0 .. 2]
      /\ index' \in [Windows \X Names -> Slots \cup {0}]
  BY EraseEffect
<1>e. /\ Erased.type = "ERASED" /\ Erased.name = NoName /\ Erased.parent = NoWindow
      /\ Erased.id = NoId /\ ~Erased.blink /\ ~Erased.enabled
  BY DEF Erased
<1> USE <1>a, <1>e
<1>1. ControlsTypeOK'
  BY <1>c, <1>d DEF ControlsInv, ControlsTypeOK
<1>2. SlotInv'
  BY DEF ControlsInv, SlotInv
<1>3. KeysInv'
  BY DEF ControlsInv, KeysInv
<1>4. IdsAreUnique'
  BY DEF ControlsInv, IdsAreUnique
<1>5. ASSUME NEW w \in Windows, NEW n \in Names, index'[<<w, n>>] # 0
      PROVE  /\ index'[<<w, n>>] = index[<<w, n>>] /\ index[<<w, n>>] # 0
             /\ index[<<w, n>>] \in Slots \ S
  BY <1>5, <1>b, IndexLeads
<1>6. IndexIsExact'
  <2>1. ASSUME NEW w \in Windows, NEW n \in Names, index'[<<w, n>>] # 0
        PROVE  LET c == ctl'[index'[<<w, n>>]] IN c.parent = w /\ c.name = n /\ c.type # "ERASED"
    BY <1>5, <2>1, IndexLeads
  <2>2. ASSUME NEW k \in Slots, ctl'[k].type # "ERASED" PROVE ctl'[k].parent \in open'
    BY <2>2
  <2>3. ASSUME NEW k \in Slots, ctl'[k].type \in {"TIMER", "LABEL"}
        PROVE  index'[<<ctl'[k].parent, ctl'[k].name>>] = k
    <3>1. k \notin S /\ ctl'[k] = ctl[k]
      BY <2>3
    <3>2. ctl[k].parent \in Windows /\ ctl[k].name \in Names
      BY <2>3, <3>1 DEF ControlsInv, SlotInv
    <3>3. index[<<ctl[k].parent, ctl[k].name>>] = k
      BY <2>3, <3>1 DEF ControlsInv, IndexIsExact
    <3>4. ASSUME NEW j \in S, ctl[j].parent = ctl[k].parent, ctl[j].name = ctl[k].name
          PROVE  FALSE
      <4>1. ctl[j].type \in {"TIMER", "LABEL"}
        BY <3>2, <3>4, NamedTypes
      <4> QED
        BY <3>1, <3>3, <3>4, <4>1 DEF ControlsInv, IndexIsExact
    <3> QED
      BY <1>b, <3>1, <3>2, <3>3, <3>4
  <2> QED
    BY <2>1, <2>2, <2>3 DEF IndexIsExact
<1>7. BlinkPaired'
  <2>1. ASSUME NEW k \in Slots, ctl'[k].blink
        PROVE  LET t == index'[<<ctl'[k].parent, BlinkTimer(k)>>]
               IN  t > 0 /\ ctl'[t].type = "TIMER"
    <3>1. k \notin S /\ ctl'[k] = ctl[k]
      BY <2>1
    <3> DEFINE t == LabelTimer(k)
    <3>2. /\ t \in Slots /\ ctl[t].type = "TIMER" /\ ctl[t].name = BlinkTimer(k)
          /\ ctl[t].parent = ctl[k].parent /\ ctl[k].parent \in Windows
      BY <2>1, <3>1, TimerOfLabel
    <3>3. t \notin S
      BY <2>1, <3>1 DEF Closed
    <3>4. BlinkTimer(k) \in Names
      BY BlinkNames
    <3>5. ASSUME NEW j \in S, ctl[j].parent = ctl[k].parent, ctl[j].name = BlinkTimer(k)
          PROVE  FALSE
      <4>1. ctl[j].type \in {"TIMER", "LABEL"}
        BY <3>4, <3>5, NamedTypes
      <4> QED
        BY <3>2, <3>3, <3>5, <4>1 DEF ControlsInv, IndexIsExact, LabelTimer
    <3>6. index'[<<ctl[k].parent, BlinkTimer(k)>>] = t
      BY <1>b, <3>2, <3>4, <3>5 DEF LabelTimer
    <3>7. t > 0
      <4>1. t \in Nat /\ t # 0
        BY <3>2, SlotsArePositive
      <4> QED
        BY ONLY <4>1
    <3>8. ctl'[t].type = "TIMER"
      BY <3>2, <3>3
    <3> QED
      BY <3>1, <3>6, <3>7, <3>8
  <2>2. ASSUME NEW k \in Slots, NEW w \in Windows, index'[<<w, BlinkTimer(k)>>] # 0
        PROVE  ctl'[k].blink /\ ctl'[k].parent = w
    <3>1. BlinkTimer(k) \in Names
      BY BlinkNames
    <3>2. index[<<w, BlinkTimer(k)>>] # 0 /\ index[<<w, BlinkTimer(k)>>] \notin S
      BY <1>5, <2>2, <3>1
    <3>3. ctl[k].blink /\ ctl[k].parent = w
      BY <3>2 DEF ControlsInv, BlinkPaired
    <3>4. k \notin S
      BY <3>2, <3>3 DEF Closed, LabelTimer
    <3> QED
      BY <3>3, <3>4
  <2> QED
    BY <2>1, <2>2 DEF BlinkPaired
<1>8. LaterInv'
  <2>1. ASSUME careful, NEW k \in Slots, ctl'[k].blink
        PROVE  index'[<<ctl'[k].parent, BlinkTimer(k)>>] > k
    <3>1. k \notin S /\ ctl'[k] = ctl[k]
      BY <2>1
    <3>2. ctl[k].parent \in Windows /\ BlinkTimer(k) \in Names
      BY <2>1, <3>1, TimerOfLabel, BlinkNames
    <3>3. index'[<<ctl[k].parent, BlinkTimer(k)>>] # 0
      BY <1>7, <2>1, <3>1, SlotsArePositive DEF BlinkPaired
    <3> QED
      BY <1>5, <2>1, <3>1, <3>2, <3>3 DEF ControlsInv, LaterInv
  <2> QED
    BY <2>1 DEF LaterInv
<1>9. TimersMatch'
  <2>1. ASSUME NEW k \in Slots, ctl'[k].type = "TIMER"
        PROVE  ctl'[k].enabled <=> <<ctl'[k].parent, ctl'[k].id>> \in osTimers'
    BY <2>1 DEF ControlsInv, TimersMatch
  <2>2. ASSUME careful, NEW x \in osTimers'
        PROVE  \E k \in Slots : ctl'[k].type = "TIMER" /\ ctl'[k].parent = x[1] /\ ctl'[k].id = x[2]
    <3>1. PICK k \in Slots : ctl[k].type = "TIMER" /\ ctl[k].parent = x[1] /\ ctl[k].id = x[2]
      BY <2>2 DEF ControlsInv, TimersMatch
    <3>2. x = <<x[1], x[2]>>
      BY DEF ControlsInv, ControlsTypeOK
    <3> QED
      BY <2>2, <3>1, <3>2
  <2> QED
    BY <2>1, <2>2 DEF TimersMatch
<1>10. \A r \in osKeys' : \E k \in Slots \ S :
         ctl[k].type = "HOTKEY" /\ ctl[k].parent = r.win /\ ctl[k].id = r.id /\ ctl[k].key = r.key
  BY <1>c DEF ControlsInv, NoOrphanHotKey
<1>11. NoOrphanHotKey'
  BY <1>10 DEF NoOrphanHotKey
<1>12. KeysFollowFocus'
  <2>1. ASSUME NEW r \in osKeys', r.win # focus PROVE r.id \in since'
    <3>1. r \in osKeys /\ r.id \in since
      BY <1>c, <2>1 DEF ControlsInv, KeysFollowFocus
    <3>2. PICK k \in Slots \ S : ctl[k].type = "HOTKEY" /\ ctl[k].id = r.id
      BY <1>10
    <3>3. ctl[k].id # NoId
      BY <3>2, HmgControlsAssumption DEF ControlsInv, SlotInv
    <3> QED
      BY <3>1, <3>2, <3>3 DEF ControlsInv, IdsAreUnique
  <2>2. ASSUME front' # NoWindow, NEW k \in ControlsOf(front, "HOTKEY")', ctl'[k].id \notin since'
        PROVE  [win |-> front, id |-> ctl'[k].id, key |-> ctl'[k].key] \in osKeys'
    <3>1. k \in Slots \ S /\ ctl'[k] = ctl[k] /\ ctl[k].type = "HOTKEY" /\ ctl[k].parent = front
      BY <2>2 DEF ControlsOf
    <3>2. ctl[k].id # NoId
      BY <3>1, HmgControlsAssumption DEF ControlsInv, SlotInv
    <3>3. \A j \in S : ctl[j].id # ctl[k].id
      BY <3>1, <3>2 DEF ControlsInv, IdsAreUnique
    <3>4. ctl[k].id \notin since
      BY <2>2, <3>1, <3>3
    <3>5. [win |-> front, id |-> ctl[k].id, key |-> ctl[k].key] \in osKeys
      BY <2>2, <3>1, <3>4 DEF ControlsInv, KeysFollowFocus, ControlsOf
    <3> QED
      BY <1>c, <3>1, <3>3, <3>5
  <2> QED
    BY <2>1, <2>2 DEF KeysFollowFocus
<1>13. NoRuntimeError' /\ OnceTicksOnce'
  BY DEF ControlsInv, NoRuntimeError, OnceTicksOnce
<1> QED
  BY <1>1, <1>2, <1>3, <1>4, <1>6, <1>7, <1>8, <1>9, <1>11, <1>12, <1>13 DEF ControlsInv

(* A program whose library fails stops as it is. *)
LEMMA RuntimeErrorKeeps ==
  ASSUME ControlsInv, RuntimeError, ~careful
  PROVE  ControlsInv'
<1>1. UNCHANGED <<ctl, index, open, osTimers, osKeys, front, globalHotkeys, careful>>
  BY DEF RuntimeError, win32
<1>2. UNCHANGED <<focus, since, fired>> /\ error' = TRUE
  BY DEF RuntimeError, ghosts
<1>3. ControlsTypeOK'
  BY <1>1, <1>2 DEF ControlsInv, ControlsTypeOK
<1>4. SlotInv' /\ KeysInv' /\ LaterInv' /\ IndexIsExact' /\ IdsAreUnique'
  BY <1>1, <1>2 DEF ControlsInv, SlotInv, KeysInv, LaterInv, IndexIsExact, IdsAreUnique
<1>5. TimersMatch' /\ NoOrphanHotKey' /\ KeysFollowFocus' /\ BlinkPaired'
  BY <1>1, <1>2
  DEF ControlsInv, TimersMatch, NoOrphanHotKey, KeysFollowFocus, BlinkPaired, ControlsOf
<1> QED
  BY <1>1, <1>3, <1>4, <1>5 DEF ControlsInv, NoRuntimeError, OnceTicksOnce

(* _ReleaseHotKey: a hot key belongs to nothing else. *)
LEMMA ReleaseHotKeyKeeps ==
  ASSUME ControlsInv, NEW w \in Windows, NEW key \in Keys, ReleaseHotKey(w, key)
  PROVE  ControlsInv'
<1>1. PICK k \in ControlsOf(w, "HOTKEY") : EraseControls({k}) /\ since' = since \ {ctl[k].id}
  BY DEF ReleaseHotKey
<1>2. UNCHANGED <<open, osTimers, front, globalHotkeys, careful, error, focus>>
  BY DEF ReleaseHotKey
<1>3. k \in Slots /\ ctl[k].type = "HOTKEY"
  BY DEF ControlsOf
<1>4. ~ctl[k].blink
  BY <1>3 DEF ControlsInv, SlotInv
<1>5. ASSUME NEW j \in Slots, ctl[j].blink, LabelTimer(j) = k
      PROVE  FALSE
  BY <1>3, <1>5, TimerOfLabel
<1>6. Closed({k})
  BY <1>3, <1>4, <1>5 DEF Closed
<1>7. \A j \in Slots : ctl[j].type # "ERASED" => ctl[j].parent \in open
  BY DEF ControlsInv, IndexIsExact
<1>8. /\ since' \subseteq since
      /\ \A i \in since : i \in since' <=> \A j \in {k} : ctl[j].type = "HOTKEY" => ctl[j].id # i
  BY <1>1, <1>3
<1> QED
  BY <1>1, <1>2, <1>3, <1>6, <1>7, <1>8, EraseKeeps

(* _ReleaseControl: a label goes with its timer, so a timer that is        *)
(* released by its name is the timer of no label.                          *)
LEMMA ReleaseControlKeeps ==
  ASSUME ControlsInv, NEW w \in Windows, NEW n \in UserNames, ReleaseControl(w, n)
  PROVE  ControlsInv'
<1>1. n \in Names
  BY DEF Names
<1>2. index[<<w, n>>] # 0
  BY DEF ReleaseControl, IsControlDefined
<1>3. PICK k \in Slots : /\ k = index[<<w, n>>] /\ ctl[k].type \in {"TIMER", "LABEL"}
                         /\ ctl[k].parent = w /\ ctl[k].name = n
  BY <1>1, <1>2, IndexLeads
<1>4. 0 \notin ErasedWith(k) /\ ErasedWith(k) \in SUBSET Slots
  <2>1. CASE ctl[k].blink
    BY <1>3, <2>1, TimerOfLabel, SlotsArePositive
  <2>2. CASE ~ctl[k].blink
    BY <1>3, <2>2, AloneWithoutBlink, SlotsArePositive
  <2> QED
    BY <2>1, <2>2
<1>5. Closed(ErasedWith(k))
  <2>1. ASSUME NEW j \in Slots, ctl[j].blink, LabelTimer(j) = k
        PROVE  FALSE
    BY <1>3, <2>1, TimerOfLabel, BlinkNames
  <2>2. CASE ctl[k].blink
    <3> DEFINE t == LabelTimer(k)
    <3>1. /\ t \in Slots /\ ctl[t].type = "TIMER" /\ ctl[t].name = BlinkTimer(k)
          /\ ErasedWith(k) = {k, t}
      BY <1>3, <2>2, TimerOfLabel
    <3>2. ~ctl[t].blink
      BY <3>1 DEF ControlsInv, SlotInv
    <3>3. ASSUME NEW j \in Slots, ctl[j].blink, LabelTimer(j) = t
          PROVE  j = k
      BY <1>3, <3>1, <3>3, TimerOfLabel, BlinkNames
    <3> QED
      BY <1>3, <2>1, <3>1, <3>2, <3>3 DEF Closed
  <2>3. CASE ~ctl[k].blink
    BY <1>3, <2>1, <2>3, AloneWithoutBlink DEF Closed
  <2> QED
    BY <2>2, <2>3
<1>6. /\ EraseControls(ErasedWith(k))
      /\ UNCHANGED <<open, osTimers, front, globalHotkeys, careful, error, focus, since>>
  BY <1>3, <1>4 DEF ReleaseControl
<1>7. careful => \A j \in ErasedWith(k) : ctl[j].type = "TIMER" =>
        <<ctl[j].parent, ctl[j].id>> \notin osTimers
  <2>1. careful => \A j \in ErasedWith(k) \ {0} : ctl[j].type = "TIMER" => ~ctl[j].enabled
    BY <1>3 DEF ReleaseControl
  <2> QED
    BY <1>4, <2>1 DEF ControlsInv, TimersMatch
<1>8. \A j \in ErasedWith(k) : ctl[j].type # "HOTKEY"
  <2>1. CASE ctl[k].blink
    BY <1>3, <2>1, TimerOfLabel
  <2>2. CASE ~ctl[k].blink
    BY <1>3, <2>2, AloneWithoutBlink
  <2> QED
    BY <2>1, <2>2
<1>9. \A j \in Slots : ctl[j].type # "ERASED" => ctl[j].parent \in open
  BY DEF ControlsInv, IndexIsExact
<1> QED
  BY <1>4, <1>5, <1>6, <1>7, <1>8, <1>9, EraseKeeps

(* WM_DESTROY: the timers of the labels of a window are its own, so it     *)
(* erases exactly its controls.                                            *)
LEMMA DestroyWindowKeeps ==
  ASSUME ControlsInv, NEW w \in Windows, DestroyWindow(w)
  PROVE  ControlsInv'
<1> DEFINE own == {k \in Slots : ctl[k].type # "ERASED" /\ ctl[k].parent = w}
           all == UNION {ErasedWith(k) : k \in own}
<1>1. ASSUME NEW k \in own PROVE k \in ErasedWith(k) /\ ErasedWith(k) \subseteq own
  <2>1. CASE ctl[k].blink
    BY <2>1, TimerOfLabel
  <2>2. CASE ~ctl[k].blink
    BY <2>2, AloneWithoutBlink
  <2> QED
    BY <2>1, <2>2
<1>2. all = own
  BY <1>1
<1>3. CASE RuntimeError /\ \E k \in own : TimerComesFirst(k)
  <2>1. PICK k \in own : TimerComesFirst(k)
    BY <1>3
  <2>2. ctl[k].blink /\ LabelTimer(k) < k /\ k \in Slots
    BY <2>1 DEF TimerComesFirst, LabelTimer
  <2>3. careful => LabelTimer(k) > k
    BY <2>2 DEF ControlsInv, LaterInv, LabelTimer
  <2>4. LabelTimer(k) \in Nat /\ k \in Nat
    BY <2>2, TimerOfLabel, SlotsArePositive
  <2>5. ~careful
    BY ONLY <2>2, <2>3, <2>4
  <2> QED
    BY <1>3, <2>5, RuntimeErrorKeeps
<1>4. CASE /\ EraseControls(own)
           /\ open' = open \ {w}
           /\ osTimers' = {x \in osTimers : x[1] # w}
           /\ since' = since \ {ctl[k].id : k \in {k \in own : ctl[k].type = "HOTKEY"}}
           /\ UNCHANGED <<front, globalHotkeys, careful, error, focus>>
  <2>1. Closed(own)
    <3>1. ASSUME NEW k \in own, ctl[k].blink PROVE LabelTimer(k) \in own
      BY <1>1, <3>1, TimerOfLabel
    <3>2. ASSUME NEW k \in own, NEW j \in Slots, ctl[j].blink, LabelTimer(j) = k
          PROVE  j \in own
      BY <3>2, TimerOfLabel
    <3> QED
      BY <3>1, <3>2 DEF Closed, LabelTimer
  <2>2. \A k \in Slots \ own : ctl[k].type # "ERASED" => ctl[k].parent \in open'
    BY <1>4 DEF ControlsInv, IndexIsExact
  <2>3. /\ since' \subseteq since
        /\ \A i \in since : i \in since' <=> \A k \in own : ctl[k].type = "HOTKEY" => ctl[k].id # i
    BY <1>4
  <2>4. \A k \in Slots \ own : ctl[k].type = "TIMER" /\ <<ctl[k].parent, ctl[k].id>> \in osTimers
          => <<ctl[k].parent, ctl[k].id>> \in osTimers'
    BY <1>4
  <2>5. \A k \in own : <<ctl[k].parent, ctl[k].id>> \notin osTimers'
    BY <1>4
  <2>6. open' \subseteq open /\ osTimers' \subseteq osTimers
    BY <1>4
  <2> QED
    BY <1>4, <2>1, <2>2, <2>3, <2>4, <2>5, <2>6, EraseKeeps
<1> QED
  BY <1>2, <1>3, <1>4 DEF DestroyWindow

-----------------------------------------------------------------------------
(* Changing other controls and timers leaves the hot keys in order. *)
LEMMA HotKeysStay ==
  ASSUME ControlsInv, ctl' \in [Slots -> Control],
         \A k \in Slots : ctl[k].type = "HOTKEY" \/ ctl'[k].type = "HOTKEY" => ctl'[k] = ctl[k],
         osKeys' = osKeys, front' = front, focus' = focus, since' = since
  PROVE  KeysInv' /\ NoOrphanHotKey' /\ KeysFollowFocus'
<1>1. KeysInv'
  BY DEF ControlsInv, KeysInv
<1>2. NoOrphanHotKey'
  <2>1. ASSUME NEW r \in osKeys
        PROVE  \E k \in Slots : ctl'[k].type = "HOTKEY" /\ ctl'[k].parent = r.win
                                /\ ctl'[k].id = r.id /\ ctl'[k].key = r.key
    <3>1. PICK k \in Slots : ctl[k].type = "HOTKEY" /\ ctl[k].parent = r.win
                             /\ ctl[k].id = r.id /\ ctl[k].key = r.key
      BY DEF ControlsInv, NoOrphanHotKey
    <3> QED
      BY <3>1
  <2> QED
    BY <2>1 DEF NoOrphanHotKey
<1>3. KeysFollowFocus'
  BY DEF ControlsInv, KeysFollowFocus, ControlsOf
<1> QED
  BY <1>1, <1>2, <1>3

(* Defining controls of a window in the slots S: timers with new names and *)
(* ids, labels with new names, or a label of the window that gets a timer. *)
Defines(w, S) ==
  /\ ctl' \in [Slots -> Control]
  /\ index' \in [Windows \X Names -> Slots \cup {0}]
  /\ \A k \in Slots \ S : ctl'[k] = ctl[k]
  /\ \A k \in S : /\ ctl'[k].parent = w /\ ctl'[k].name \in Names
                  /\ index'[<<w, ctl'[k].name>>] = k
  /\ \A k \in S : ctl'[k].type # "TIMER" => ctl'[k].type = "LABEL" /\ ctl'[k].id = NoId
  /\ \A k \in S : \/ ctl[k].type = "ERASED" /\ index[<<w, ctl'[k].name>>] = 0
                  \/ /\ ctl[k].type = "LABEL" /\ ctl[k].parent = w /\ ~ctl[k].blink
                     /\ ctl[k].name = ctl'[k].name /\ ctl'[k].type = "LABEL"
  /\ \A v \in Windows, m \in Names :
       \/ index'[<<v, m>>] = index[<<v, m>>]
       \/ index'[<<v, m>>] \in S /\ v = w /\ m = ctl'[index'[<<v, m>>]].name
  /\ \A k \in S : ctl'[k].type = "TIMER" =>
       /\ ctl'[k].id \in Ids /\ ctl'[k].enabled /\ ~ctl'[k].blink
       /\ \A j \in Slots : ctl[j].id # ctl'[k].id
       /\ \A j \in S : ctl'[j].type = "TIMER" => j = k
       /\ \/ ctl'[k].name \in UserNames
          \/ \E j \in S : ctl'[j].blink /\ ctl'[k].name = BlinkTimer(j)
  /\ \A k \in S : ctl'[k].blink => \E t \in S :
       /\ ctl'[t].type = "TIMER" /\ ctl'[t].name = BlinkTimer(k)
       /\ careful => t > k
  /\ \A k \in S : ctl'[k].type = "LABEL" => ctl'[k].name \in UserNames
  /\ osTimers' = osTimers \cup {<<w, ctl'[k].id>> : k \in {k \in S : ctl'[k].type = "TIMER"}}
  /\ open' = open /\ osKeys' = osKeys /\ front' = front /\ globalHotkeys' = globalHotkeys
  /\ careful' = careful /\ error' = error /\ focus' = focus /\ since' = since /\ fired' = fired

LEMMA DefineKeeps ==
  ASSUME ControlsInv, NEW w \in open, NEW S \in SUBSET Slots, Defines(w, S)
  PROVE  ControlsInv'
<1> USE DEF Defines
<1>a. \A k \in S : ctl[k].type \in {"ERASED", "LABEL"} /\ ~ctl[k].blink /\ fired[k] = 0
  BY DEF ControlsInv, SlotInv
<1>b. w \in Windows
  BY DEF ControlsInv, ControlsTypeOK
<1>c. osTimers \subseteq osTimers'
  OBVIOUS
<1>d. \A k \in S : ctl'[k].type = "TIMER" => <<ctl'[k].parent, ctl'[k].id>> \in osTimers'
  OBVIOUS
<1>e. \A k \in S : ctl'[k].parent = w /\ ctl'[k].name \in Names /\ index'[<<w, ctl'[k].name>>] = k
  OBVIOUS
<1>f. \A k \in S : ctl'[k].type # "TIMER" => ctl'[k].type = "LABEL" /\ ctl'[k].id = NoId
  OBVIOUS
<1>g. \A k \in S : ctl'[k].type = "TIMER" => /\ ctl'[k].id \in Ids /\ ~ctl'[k].blink
                                          /\ \A j \in Slots : ctl[j].id # ctl'[k].id
  OBVIOUS
<1>h. \A j, k \in S : ctl'[j].type = "TIMER" /\ ctl'[k].type = "TIMER" => j = k
  OBVIOUS
<1>i. \A k \in S : ctl[k].type = "LABEL" => ctl[k].name = ctl'[k].name /\ ctl[k].parent = w
  OBVIOUS
<1>j. \A k \in S : ctl'[k].name \in UserNames \/
                 \E j \in S : ctl'[j].blink /\ ctl'[k].name = BlinkTimer(j)
  OBVIOUS
<1>k. \A k \in S : ctl'[k].blink => \E t \in S :
           /\ ctl'[t].type = "TIMER" /\ ctl'[t].name = BlinkTimer(k)
           /\ careful => t > k
  OBVIOUS
<1>l. \A k \in Slots \ S : ctl'[k] = ctl[k]
  OBVIOUS
<1>m. w \in open' /\ \A k \in Slots : ctl[k].type # "ERASED" => ctl[k].parent \in open'
  BY DEF ControlsInv, IndexIsExact
<1>1. ControlsTypeOK'
  <2>1. osTimers' \subseteq Windows \X Ids
    BY <1>b DEF ControlsInv, ControlsTypeOK
  <2> QED
    BY <2>1 DEF ControlsInv, ControlsTypeOK
<1>2. SlotInv'
  <2>1. ASSUME NEW k \in S
        PROVE  /\ ctl'[k].name \in Names /\ ctl'[k].parent \in Windows
               /\ ctl'[k].type \in {"TIMER", "LABEL"}
               /\ ctl'[k].type = "TIMER" => ctl'[k].id \in Ids
               /\ ctl'[k].blink => ctl'[k].type = "LABEL"
               /\ fired'[k] = 0
    <3>1. fired' = fired
      OBVIOUS
    <3> QED
      BY ONLY <1>a, <1>b, <1>e, <1>f, <1>g, <3>1
  <2> QED
    BY <2>1 DEF ControlsInv, SlotInv
<1>3. KeysInv' /\ NoOrphanHotKey' /\ KeysFollowFocus'
  <2>1. ASSUME NEW k \in Slots, ctl[k].type = "HOTKEY" \/ ctl'[k].type = "HOTKEY"
        PROVE  ctl'[k] = ctl[k]
    BY <1>a, <2>1
  <2> QED
    BY <2>1, HotKeysStay
<1>4. IndexIsExact'
  <2>1. ASSUME NEW v \in Windows, NEW m \in Names, index'[<<v, m>>] # 0
        PROVE  LET c == ctl'[index'[<<v, m>>]] IN c.parent = v /\ c.name = m /\ c.type # "ERASED"
    <3>1. CASE index'[<<v, m>>] \in S /\ v = w /\ m = ctl'[index'[<<v, m>>]].name
      BY <3>1
    <3>2. CASE index'[<<v, m>>] = index[<<v, m>>]
      <4>1. PICK k \in Slots : /\ k = index[<<v, m>>] /\ ctl[k].type \in {"TIMER", "LABEL"}
                               /\ ctl[k].parent = v /\ ctl[k].name = m
        BY <2>1, <3>2, IndexLeads
      <4>2. CASE k \in S
        BY ONLY <1>a, <1>e, <1>f, <1>i, <3>2, <4>1, <4>2
      <4>3. CASE k \notin S
        BY <3>2, <4>1, <4>3
      <4> QED
        BY <4>2, <4>3
    <3> QED
      BY <3>1, <3>2
  <2>2. ASSUME NEW k \in Slots, ctl'[k].type \in {"TIMER", "LABEL"}
        PROVE  index'[<<ctl'[k].parent, ctl'[k].name>>] = k
    <3>1. CASE k \in S
      BY ONLY <1>e, <3>1
    <3>2. CASE k \notin S
      <4>1. ctl'[k] = ctl[k] /\ ctl[k].parent \in Windows /\ ctl[k].name \in Names
        BY <2>2, <3>2 DEF ControlsInv, SlotInv
      <4>2. index[<<ctl[k].parent, ctl[k].name>>] = k
        BY <2>2, <4>1 DEF ControlsInv, IndexIsExact
      <4>3. k # 0
        BY SlotsArePositive
      <4>4. ASSUME NEW j \in S, ctl[k].parent = w, ctl[k].name = ctl'[j].name
            PROVE  FALSE
        <5>1. ctl[j].type = "LABEL" /\ ctl[j].parent = w /\ ctl[j].name = ctl[k].name
          BY <4>2, <4>3, <4>4
        <5>2. index[<<ctl[j].parent, ctl[j].name>>] = j
          BY <5>1 DEF ControlsInv, IndexIsExact
        <5> QED
          BY <3>2, <4>2, <4>4, <5>1, <5>2
      <4> QED
        BY <4>1, <4>2, <4>4
    <3> QED
      BY <3>1, <3>2
  <2>3. ASSUME NEW k \in Slots, ctl'[k].type # "ERASED" PROVE ctl'[k].parent \in open'
    <3>1. CASE k \in S
      BY ONLY <1>e, <1>m, <3>1
    <3>2. CASE k \notin S
      BY ONLY <1>l, <1>m, <2>3, <3>2
    <3> QED
      BY <3>1, <3>2
  <2> QED
    BY <2>1, <2>2, <2>3 DEF IndexIsExact
<1>5. IdsAreUnique'
  <2>1. ASSUME NEW j \in Slots, NEW k \in Slots, ctl'[j].id = ctl'[k].id, ctl'[j].id # NoId
        PROVE  j = k
    <3>1. CASE j \in S /\ k \in S
      BY ONLY <1>f, <1>h, <2>1, <3>1
    <3>2. CASE j \in S /\ k \notin S
      BY ONLY <1>f, <1>g, <1>l, <2>1, <3>2
    <3>3. CASE j \notin S /\ k \in S
      BY ONLY <1>f, <1>g, <1>l, <2>1, <3>3
    <3>4. CASE j \notin S /\ k \notin S
      BY <2>1, <3>4 DEF ControlsInv, IdsAreUnique
    <3> QED
      BY <3>1, <3>2, <3>3, <3>4
  <2> QED
    BY <2>1 DEF IdsAreUnique
<1>6. TimersMatch'
  <2>1. ASSUME NEW k \in Slots, ctl'[k].type = "TIMER"
        PROVE  ctl'[k].enabled <=> <<ctl'[k].parent, ctl'[k].id>> \in osTimers'
    <3>1. CASE k \in S
      BY <1>d, <2>1, <3>1
    <3>2. CASE k \notin S
      <4>1. ctl'[k] = ctl[k] /\ ctl[k].type = "TIMER"
        BY <2>1, <3>2
      <4>2. ctl[k].enabled <=> <<ctl[k].parent, ctl[k].id>> \in osTimers
        BY <4>1 DEF ControlsInv, TimersMatch
      <4>3. \A j \in S : ctl'[j].type = "TIMER" => ctl'[j].id # ctl[k].id
        OBVIOUS
      <4>4. <<ctl[k].parent, ctl[k].id>> \in osTimers' <=> <<ctl[k].parent, ctl[k].id>> \in osTimers
        BY <4>3
      <4> QED
        BY <4>1, <4>2, <4>4
    <3> QED
      BY <3>1, <3>2
  <2>2. ASSUME careful, NEW x \in osTimers'
        PROVE  \E k \in Slots : ctl'[k].type = "TIMER" /\ ctl'[k].parent = x[1] /\ ctl'[k].id = x[2]
    <3>1. CASE x \in osTimers
      <4>1. PICK k \in Slots : ctl[k].type = "TIMER" /\ ctl[k].parent = x[1] /\ ctl[k].id = x[2]
        BY <2>2, <3>1 DEF ControlsInv, TimersMatch
      <4>2. k \notin S
        BY <1>a, <4>1
      <4> QED
        BY <4>1, <4>2
    <3>2. CASE x \notin osTimers
      <4>1. PICK k \in S : ctl'[k].type = "TIMER" /\ x = <<w, ctl'[k].id>>
        BY <2>2, <3>2
      <4> QED
        BY <1>e, <4>1
    <3> QED
      BY <3>1, <3>2
  <2> QED
    BY <2>1, <2>2 DEF TimersMatch
<1>7. ASSUME NEW k \in Slots, ctl'[k].blink
      PROVE  /\ k \in S => \E t \in S : /\ index'[<<ctl'[k].parent, BlinkTimer(k)>>] = t
                                        /\ ctl'[t].type = "TIMER"
                                        /\ careful => t > k
             /\ k \notin S => /\ ctl[k].blink /\ LabelTimer(k) \in Slots \ S
                              /\ index'[<<ctl'[k].parent, BlinkTimer(k)>>] = LabelTimer(k)
                              /\ ctl'[LabelTimer(k)].type = "TIMER"
  <2>1. CASE k \in S
    <3>1. PICK t \in S : /\ ctl'[t].type = "TIMER" /\ ctl'[t].name = BlinkTimer(k)
                         /\ careful => t > k
      BY ONLY <1>k, <1>7, <2>1
    <3>2. index'[<<ctl'[k].parent, BlinkTimer(k)>>] = t
      BY ONLY <1>e, <2>1, <3>1
    <3> QED
      BY ONLY <2>1, <3>1, <3>2
  <2>2. CASE k \notin S
    <3>1. ctl'[k] = ctl[k] /\ ctl[k].blink
      BY <1>7, <2>2
    <3>2. LabelTimer(k) \in Slots /\ ctl[LabelTimer(k)].type = "TIMER" /\ ctl[k].parent \in Windows
      BY <3>1, TimerOfLabel
    <3>3. LabelTimer(k) \notin S
      BY <1>a, <3>2
    <3>4. ASSUME index'[<<ctl[k].parent, BlinkTimer(k)>>] # LabelTimer(k)
          PROVE  FALSE
      <4>1. PICK j \in S : ctl[k].parent = w /\ BlinkTimer(k) = ctl'[j].name
        BY <3>2, <3>4, BlinkNames DEF LabelTimer
      <4>2. ctl'[j].name \notin UserNames
        BY <4>1, BlinkNames
      <4>3. PICK i \in S : ctl'[j].name = BlinkTimer(i)
        BY ONLY <1>j, <4>2
      <4> QED
        BY <2>2, <4>1, <4>3, BlinkNames
    <3> QED
      BY <2>2, <3>1, <3>2, <3>3, <3>4
  <2> QED
    BY <2>1, <2>2
<1>8. BlinkPaired'
  <2>1. ASSUME NEW k \in Slots, ctl'[k].blink
        PROVE  LET t == index'[<<ctl'[k].parent, BlinkTimer(k)>>] IN t > 0 /\ ctl'[t].type = "TIMER"
    <3>1. PICK t \in Slots : /\ t = index'[<<ctl'[k].parent, BlinkTimer(k)>>]
                             /\ ctl'[t].type = "TIMER"
      BY <1>7, <2>1
    <3>2. t \in Nat /\ t # 0
      BY SlotsArePositive
    <3>3. t > 0
      BY ONLY <3>2
    <3> QED
      BY <3>1, <3>3
  <2>2. ASSUME NEW k \in Slots, NEW v \in Windows, index'[<<v, BlinkTimer(k)>>] # 0
        PROVE  ctl'[k].blink /\ ctl'[k].parent = v
    <3>1. BlinkTimer(k) \in Names
      BY BlinkNames
    <3>2. CASE index'[<<v, BlinkTimer(k)>>] = index[<<v, BlinkTimer(k)>>]
      <4>1. ctl[k].blink /\ ctl[k].parent = v
        BY <2>2, <3>2 DEF ControlsInv, BlinkPaired
      <4> QED
        BY <1>a, <4>1
    <3>3. CASE \E j \in S : v = w /\ ctl'[j].name = BlinkTimer(k)
      <4>1. PICK j \in S : v = w /\ ctl'[j].name = BlinkTimer(k)
        BY <3>3
      <4>2. ctl'[j].name \notin UserNames
        BY <4>1, BlinkNames
      <4>3. PICK i \in S : ctl'[i].blink /\ ctl'[j].name = BlinkTimer(i)
        BY ONLY <1>j, <4>2
      <4>4. i = k
        <5>1. i \in Slots
          OBVIOUS
        <5> QED
          BY ONLY <4>1, <4>3, <5>1, BlinkNames
      <4> QED
        BY ONLY <1>e, <4>1, <4>3, <4>4
    <3> QED
      BY <3>1, <3>2, <3>3
  <2> QED
    BY <2>1, <2>2 DEF BlinkPaired
<1>9. LaterInv'
  <2>1. ASSUME careful, NEW k \in Slots, ctl'[k].blink
        PROVE  index'[<<ctl'[k].parent, BlinkTimer(k)>>] > k
    <3>1. CASE k \in S
      BY <1>7, <2>1, <3>1
    <3>2. CASE k \notin S
      <4>1. LabelTimer(k) > k
        BY <1>7, <2>1, <3>2 DEF ControlsInv, LaterInv, LabelTimer
      <4> QED
        BY <1>7, <2>1, <3>2, <4>1
    <3> QED
      BY <3>1, <3>2
  <2> QED
    BY <2>1 DEF LaterInv
<1>10. NoRuntimeError' /\ OnceTicksOnce'
  BY DEF ControlsInv, NoRuntimeError, OnceTicksOnce
<1> QED
  BY <1>1, <1>2, <1>3, <1>4, <1>5, <1>6, <1>8, <1>9, <1>10 DEF ControlsInv

(* _DefineTimer *)
LEMMA DefineTimerKeeps ==
  ASSUME ControlsInv, NEW w \in Windows, NEW n \in UserNames, NEW once \in BOOLEAN,
         NEW id \in Ids, DefineTimer(w, n, once, id)
  PROVE  ControlsInv'
<1>1. PICK k \in Slots : k = GetControlFree /\ ctl[k].type = "ERASED"
  BY FreeIsFirst DEF DefineTimer
<1>2. /\ w \in open
      /\ n \in Names /\ index[<<w, n>>] = 0
      /\ \A j \in Slots : ctl[j].id # id
  BY UndefinedHasNoIndex DEF DefineTimer, GetId, Names
<1>3. /\ ctl' = [ctl EXCEPT ![k] = Timer(w, n, id, once)]
      /\ index' = [index EXCEPT ![<<w, n>>] = k]
      /\ osTimers' = osTimers \cup {<<w, id>>}
  BY <1>1 DEF DefineTimer, InitTimer
<1>4. UNCHANGED <<open, osKeys, front, globalHotkeys, careful, error, focus, since, fired>>
  BY DEF DefineTimer, ghosts
<1>5. /\ Timer(w, n, id, once).type = "TIMER" /\ Timer(w, n, id, once).name = n
      /\ Timer(w, n, id, once).parent = w /\ Timer(w, n, id, once).id = id
      /\ Timer(w, n, id, once).enabled /\ ~Timer(w, n, id, once).blink
      /\ Timer(w, n, id, once) \in Control
  BY <1>2, Fields
<1>6. /\ ctl' \in [Slots -> Control]
      /\ index' \in [Windows \X Names -> Slots \cup {0}]
      /\ ctl'[k] = Timer(w, n, id, once)
      /\ \A j \in Slots \ {k} : ctl'[j] = ctl[j]
      /\ index'[<<w, n>>] = k
      /\ \A v \in Windows, m \in Names : <<v, m>> # <<w, n>> => index'[<<v, m>>] = index[<<v, m>>]
  BY <1>2, <1>3, <1>5 DEF ControlsInv, ControlsTypeOK
<1>7. osTimers' = osTimers \cup {<<w, ctl'[j].id>> : j \in {j \in {k} : ctl'[j].type = "TIMER"}}
  BY ONLY <1>3, <1>5, <1>6
<1>8. \A v \in Windows, m \in Names :
        \/ index'[<<v, m>>] = index[<<v, m>>]
        \/ index'[<<v, m>>] \in {k} /\ v = w /\ m = ctl'[index'[<<v, m>>]].name
  BY ONLY <1>5, <1>6
<1> QED
  <2>1. Defines(w, {k})
    <3>1. \A j \in {k} :
            /\ ctl'[j].type = "TIMER" /\ ctl'[j].name = n /\ ctl'[j].parent = w
            /\ ctl'[j].id = id /\ ctl'[j].enabled /\ ~ctl'[j].blink
            /\ index'[<<w, ctl'[j].name>>] = j
            /\ ctl[j].type = "ERASED" /\ index[<<w, ctl'[j].name>>] = 0
      BY ONLY <1>1, <1>2, <1>5, <1>6
    <3>2. \A j \in {k} :
            /\ ctl'[j].name \in Names /\ ctl'[j].name \in UserNames /\ ctl'[j].id \in Ids
            /\ \A i \in Slots : ctl[i].id # ctl'[j].id
      BY <1>2, <3>1
    <3>3. /\ ctl' \in [Slots -> Control]
          /\ index' \in [Windows \X Names -> Slots \cup {0}]
          /\ \A j \in Slots \ {k} : ctl'[j] = ctl[j]
      BY <1>6
    <3> QED
      BY ONLY <1>4, <1>7, <1>8, <3>1, <3>2, <3>3 DEF Defines
  <2> QED
    BY <1>2, <2>1, DefineKeeps

(* _DefineLabel: the slots of a blinking label and of its timer are the    *)
(* first two free ones.                                                    *)
LEMMA DefineLabelKeeps ==
  ASSUME ControlsInv, NEW w \in Windows, NEW n \in UserNames, NEW blink \in BOOLEAN,
         NEW id \in Ids, DefineLabel(w, n, blink, id)
  PROVE  ControlsInv'
<1> DEFINE label == [Erased EXCEPT !.type = "LABEL", !.name = n, !.parent = w,
                                   !.enabled = TRUE, !.blink = blink]
<1>1. PICK k \in Slots : /\ k = GetControlFree /\ ctl[k].type = "ERASED"
                         /\ \A j \in FreeSlots : k <= j
  BY FreeIsFirst DEF DefineLabel
<1>2. /\ w \in open
      /\ n \in Names /\ index[<<w, n>>] = 0
  BY UndefinedHasNoIndex DEF DefineLabel, Names
<1>3. UNCHANGED <<open, osKeys, front, globalHotkeys, careful, error, focus, since, fired>>
  BY DEF DefineLabel, ghosts
<1>4. label \in Control /\ label.type = "LABEL" /\ label.name = n /\ label.parent = w
      /\ label.blink = blink /\ label.id = NoId
  BY <1>2 DEF Erased, Control, Types
<1> HIDE DEF label
<1>5. CASE ~blink
  <2>1. /\ ctl' = [ctl EXCEPT ![k] = label]
        /\ index' = [index EXCEPT ![<<w, n>>] = k]
        /\ osTimers' = osTimers
    BY <1>1, <1>5 DEF DefineLabel, label
  <2>2. /\ ctl' \in [Slots -> Control]
        /\ index' \in [Windows \X Names -> Slots \cup {0}]
        /\ ctl'[k] = label
        /\ \A j \in Slots \ {k} : ctl'[j] = ctl[j]
        /\ index'[<<w, n>>] = k
        /\ \A v \in Windows, m \in Names : <<v, m>> # <<w, n>> => index'[<<v, m>>] = index[<<v, m>>]
    BY <1>2, <1>4, <2>1 DEF ControlsInv, ControlsTypeOK
  <2>3. osTimers' = osTimers \cup {<<w, ctl'[j].id>> : j \in {j \in {k} : ctl'[j].type = "TIMER"}}
    BY ONLY <1>4, <2>1, <2>2
  <2>4. \A v \in Windows, m \in Names :
          \/ index'[<<v, m>>] = index[<<v, m>>]
          \/ index'[<<v, m>>] \in {k} /\ v = w /\ m = ctl'[index'[<<v, m>>]].name
    BY ONLY <1>4, <2>2
  <2> QED
    <3>1. Defines(w, {k})
      BY <1>1, <1>2, <1>3, <1>4, <1>5, <2>2, <2>3, <2>4 DEF Defines
    <3> QED
      BY <1>2, <3>1, DefineKeeps
<1>6. CASE blink
  <2> DEFINE rest == FreeSlots \ {k}
             timer == Timer(w, BlinkTimer(k), id, FALSE)
  <2>1. rest \in SUBSET Slots /\ rest # {}
    BY <1>1, <1>6 DEF DefineLabel, FreeSlots
  <2>2. \E t \in rest : \A j \in rest : t <= j
    BY <2>1, FirstOf
  <2>3. PICK t \in rest : t = CHOOSE u \in rest : \A j \in rest : u <= j
    BY <2>2
  <2>4. /\ t \in Slots /\ ctl[t].type = "ERASED" /\ t # k
        /\ t > k
    <3>1. t \in Slots /\ ctl[t].type = "ERASED" /\ t # k /\ k <= t
      BY <1>1, <2>3 DEF FreeSlots
    <3>2. t \in Nat /\ k \in Nat
      BY <1>1, <3>1, SlotsArePositive
    <3>3. t > k
      BY ONLY <3>1, <3>2
    <3> QED
      BY <3>1, <3>3
  <2>5. /\ \A j \in Slots : ctl[j].id # id
        /\ ctl' = [ctl EXCEPT ![k] = label, ![t] = timer]
        /\ index' = [index EXCEPT ![<<w, n>>] = k, ![<<w, BlinkTimer(k)>>] = t]
        /\ osTimers' = osTimers \cup {<<w, id>>}
    BY <1>1, <1>6, <2>3 DEF DefineLabel, label, GetId, InitTimer
  <2>6. /\ BlinkTimer(k) \in Names /\ BlinkTimer(k) # n
        /\ index[<<w, BlinkTimer(k)>>] = 0
    <3>1. ~ctl[k].blink
      BY <1>1 DEF ControlsInv, SlotInv
    <3> QED
      BY <3>1, BlinkNames DEF ControlsInv, BlinkPaired
  <2>7. /\ timer.type = "TIMER" /\ timer.name = BlinkTimer(k) /\ timer.parent = w
        /\ timer.id = id /\ timer.enabled /\ ~timer.blink /\ timer \in Control
    BY <1>2, <2>6 DEF Timer, Erased, Control, Types
  <2> HIDE DEF timer, rest
  <2>8. /\ ctl' \in [Slots -> Control]
        /\ index' \in [Windows \X Names -> Slots \cup {0}]
        /\ ctl'[k] = label /\ ctl'[t] = timer
        /\ \A j \in Slots \ {k, t} : ctl'[j] = ctl[j]
        /\ index'[<<w, n>>] = k /\ index'[<<w, BlinkTimer(k)>>] = t
        /\ \A v \in Windows, m \in Names :
             <<v, m>> # <<w, n>> /\ <<v, m>> # <<w, BlinkTimer(k)>> =>
               index'[<<v, m>>] = index[<<v, m>>]
    BY <1>2, <1>4, <2>4, <2>5, <2>6, <2>7 DEF ControlsInv, ControlsTypeOK
  <2>9. osTimers' = osTimers \cup {<<w, ctl'[j].id>> : j \in {j \in {k, t} : ctl'[j].type = "TIMER"}}
    BY ONLY <1>4, <2>5, <2>7, <2>8
  <2>10. \A v \in Windows, m \in Names :
           \/ index'[<<v, m>>] = index[<<v, m>>]
           \/ index'[<<v, m>>] \in {k, t} /\ v = w /\ m = ctl'[index'[<<v, m>>]].name
    BY ONLY <1>4, <2>7, <2>8
  <2>11. \A j \in {k, t} : ctl'[j].type = "TIMER" =>
           /\ ctl'[j].id \in Ids /\ ctl'[j].enabled /\ ~ctl'[j].blink
           /\ \A i \in Slots : ctl[i].id # ctl'[j].id
           /\ \A i \in {k, t} : ctl'[i].type = "TIMER" => i = j
           /\ \/ ctl'[j].name \in UserNames
              \/ \E i \in {k, t} : ctl'[i].blink /\ ctl'[j].name = BlinkTimer(i)
    <3>1. ctl'[k].type = "LABEL" /\ ctl'[k].blink
      BY <1>4, <1>6, <2>8
    <3>2. /\ ctl'[t].type = "TIMER" /\ ctl'[t].name = BlinkTimer(k) /\ ctl'[t].id = id
          /\ ctl'[t].enabled /\ ~ctl'[t].blink
      BY <2>7, <2>8
    <3>3. \A j \in {k, t} : ctl'[j].type = "TIMER" => j = t
      BY ONLY <3>1
    <3> QED
      BY ONLY <2>5, <3>1, <3>2, <3>3, id \in Ids
  <2>12. \A j \in {k, t} : ctl'[j].blink => \E i \in {k, t} :
           /\ ctl'[i].type = "TIMER" /\ ctl'[i].name = BlinkTimer(j)
           /\ careful => i > j
    BY <1>4, <2>4, <2>7, <2>8
  <2> QED
    <3>1. Defines(w, {k, t})
      <4>1. \A j \in {k, t} :
              /\ ctl'[j].parent = w /\ ctl'[j].name \in Names
              /\ index'[<<w, ctl'[j].name>>] = j
              /\ ctl'[j].type # "TIMER" => ctl'[j].type = "LABEL" /\ ctl'[j].id = NoId
              /\ ctl[j].type = "ERASED" /\ index[<<w, ctl'[j].name>>] = 0
              /\ ctl'[j].type = "LABEL" => ctl'[j].name = n
        <5>1. ctl'[k].name = n /\ ctl'[t].name = BlinkTimer(k)
          BY <1>4, <2>7, <2>8
        <5>2. ctl'[t].type = "TIMER" /\ ctl'[t].parent = w
          BY <2>7, <2>8
        <5>3. ctl'[k].type = "LABEL" /\ ctl'[k].parent = w /\ ctl'[k].id = NoId
          BY <1>4, <2>8
        <5> QED
          <6>1. ASSUME NEW j \in {k, t}, j = k
                PROVE  /\ ctl'[j].parent = w /\ ctl'[j].name = n
                       /\ ctl'[j].type = "LABEL" /\ ctl'[j].id = NoId
                       /\ ctl[j].type = "ERASED" /\ index[<<w, ctl'[j].name>>] = 0
                       /\ index'[<<w, ctl'[j].name>>] = j
            BY <1>1, <1>2, <2>8, <5>1, <5>3, <6>1
          <6>2. ASSUME NEW j \in {k, t}, j = t
                PROVE  /\ ctl'[j].parent = w /\ ctl'[j].name = BlinkTimer(k)
                       /\ ctl'[j].type = "TIMER"
                       /\ ctl[j].type = "ERASED" /\ index[<<w, ctl'[j].name>>] = 0
                       /\ index'[<<w, ctl'[j].name>>] = j
            BY <2>4, <2>6, <2>8, <5>1, <5>2, <6>2
          <6> QED
            BY <1>2, <2>6, <6>1, <6>2
      <4> QED
        BY ONLY <1>3, <2>8, <2>9, <2>10, <2>11, <2>12, <4>1, n \in UserNames DEF Defines
    <3> QED
      BY <1>2, <2>4, <3>1, DefineKeeps
<1> QED
  BY <1>5, <1>6

-----------------------------------------------------------------------------
(* Starting and stopping the timer in slot k, with f its count of ticks    *)
(* since it was enabled.                                                   *)
SetsTimer(k, on, f) ==
  /\ f \in 0 .. 2
  /\ f # 0 => ~on
  /\ careful => f <= 1
  /\ ctl' = [ctl EXCEPT ![k].enabled = on]
  /\ osTimers' = IF on THEN osTimers \cup {<<ctl[k].parent, ctl[k].id>>}
                 ELSE osTimers \ {<<ctl[k].parent, ctl[k].id>>}
  /\ fired' = [fired EXCEPT ![k] = f]
  /\ index' = index /\ open' = open /\ osKeys' = osKeys /\ front' = front /\ error' = error
  /\ globalHotkeys' = globalHotkeys /\ careful' = careful /\ focus' = focus /\ since' = since

LEMMA TimerStateKeeps ==
  ASSUME ControlsInv, NEW k \in Slots, ctl[k].type = "TIMER", NEW on \in BOOLEAN, NEW f,
         SetsTimer(k, on, f)
  PROVE  ControlsInv'
<1> USE DEF SetsTimer
<1>a. ctl[k] \in Control /\ ctl \in [Slots -> Control] /\ fired \in [Slots -> 0 .. 2]
  BY DEF ControlsInv, ControlsTypeOK
<1>b. ctl[k].parent \in Windows /\ ctl[k].id \in Ids /\ ctl[k].id # NoId
  BY HmgControlsAssumption DEF ControlsInv, SlotInv
<1>c. /\ ctl' \in [Slots -> Control] /\ fired' \in [Slots -> 0 .. 2]
      /\ ctl'[k].enabled = on /\ fired'[k] = f
      /\ \A j \in Slots \ {k} : ctl'[j] = ctl[j] /\ fired'[j] = fired[j]
  BY <1>a DEF Control
<1>d. \A j \in Slots : /\ ctl'[j].type = ctl[j].type /\ ctl'[j].name = ctl[j].name
                       /\ ctl'[j].parent = ctl[j].parent /\ ctl'[j].id = ctl[j].id
                       /\ ctl'[j].key = ctl[j].key /\ ctl'[j].blink = ctl[j].blink
  BY <1>a DEF Control
<1>e. \A j \in Slots : ctl[j].id = ctl[k].id => j = k
  BY <1>b DEF ControlsInv, IdsAreUnique
<1>f. index' = index /\ open' = open /\ careful' = careful
  OBVIOUS
<1>1. ControlsTypeOK'
  <2>1. osTimers' \subseteq Windows \X Ids
    BY <1>b DEF ControlsInv, ControlsTypeOK
  <2> QED
    BY <1>c, <2>1 DEF ControlsInv, ControlsTypeOK
<1>2. SlotInv'
  <2>1. \A j \in Slots :
          /\ ctl[j].type \in {"TIMER", "LABEL"} => ctl[j].name \in Names /\ ctl[j].parent \in Windows
          /\ ctl[j].type \in {"ERASED", "HOTKEY"} => ctl[j].name = NoName
          /\ ctl[j].type \in {"TIMER", "HOTKEY"} => ctl[j].id \in Ids
          /\ ctl[j].type = "HOTKEY" => ctl[j].parent \in Windows /\ ctl[j].key \in Keys
          /\ ctl[j].type = "ERASED" => ctl[j].parent = NoWindow
          /\ ctl[j].type \in {"ERASED", "LABEL"} => ctl[j].id = NoId
          /\ ctl[j].blink => ctl[j].type = "LABEL"
    BY DEF ControlsInv, SlotInv
  <2>2. \A j \in Slots : fired'[j] # 0 => ctl[j].type = "TIMER" /\ ~ctl'[j].enabled
    BY <1>c DEF ControlsInv, SlotInv
  <2> QED
    BY ONLY <1>d, <2>1, <2>2 DEF SlotInv
<1>3. KeysInv' /\ NoOrphanHotKey' /\ KeysFollowFocus'
  BY <1>c, <1>d, HotKeysStay
<1>4. IndexIsExact' /\ IdsAreUnique'
  <2>1. IndexIsExact /\ IdsAreUnique /\ index \in [Windows \X Names -> Slots \cup {0}]
    BY DEF ControlsInv, ControlsTypeOK
  <2> QED
    <3>1. IdsAreUnique'
      BY ONLY <1>d, <2>1 DEF IdsAreUnique
    <3>2. ASSUME NEW v \in Windows, NEW m \in Names, index[<<v, m>>] # 0
          PROVE  LET c == ctl'[index[<<v, m>>]] IN c.parent = v /\ c.name = m /\ c.type # "ERASED"
      <4>1. PICK j \in Slots : j = index[<<v, m>>]
        BY <2>1, <3>2
      <4>2. ctl[j].parent = v /\ ctl[j].name = m /\ ctl[j].type # "ERASED"
        BY <2>1, <3>2, <4>1 DEF IndexIsExact
      <4> QED
        BY <1>d, <4>1, <4>2
    <3>3. \A j \in Slots :
            /\ ctl'[j].type \in {"TIMER", "LABEL"} => index[<<ctl'[j].parent, ctl'[j].name>>] = j
            /\ ctl'[j].type # "ERASED" => ctl'[j].parent \in open
      BY ONLY <1>d, <2>1 DEF IndexIsExact
    <3> QED
      BY ONLY <1>f, <3>1, <3>2, <3>3 DEF IndexIsExact
<1>5. TimersMatch'
  <2>1. ASSUME NEW j \in Slots, ctl'[j].type = "TIMER"
        PROVE  ctl'[j].enabled <=> <<ctl'[j].parent, ctl'[j].id>> \in osTimers'
    <3>1. CASE j = k
      BY <1>c, <1>d, <3>1
    <3>2. CASE j # k
      <4>1. ctl'[j] = ctl[j] /\ ctl[j].id # ctl[k].id
        BY <1>c, <1>e, <3>2
      <4>2. ctl[j].enabled <=> <<ctl[j].parent, ctl[j].id>> \in osTimers
        BY <2>1, <4>1 DEF ControlsInv, TimersMatch
      <4> QED
        BY <4>1, <4>2
    <3> QED
      BY <3>1, <3>2
  <2>2. ASSUME careful, NEW x \in osTimers'
        PROVE  \E j \in Slots : ctl'[j].type = "TIMER" /\ ctl'[j].parent = x[1] /\ ctl'[j].id = x[2]
    <3>1. CASE x \in osTimers
      <4>1. PICK j \in Slots : ctl[j].type = "TIMER" /\ ctl[j].parent = x[1] /\ ctl[j].id = x[2]
        BY <2>2, <3>1 DEF ControlsInv, TimersMatch
      <4> QED
        BY <1>d, <4>1
    <3>2. CASE x = <<ctl[k].parent, ctl[k].id>>
      BY <1>d, <3>2
    <3> QED
      BY <3>1, <3>2
  <2> QED
    BY <2>1, <2>2 DEF TimersMatch
<1>6. BlinkPaired' /\ LaterInv'
  <2>1. \A j \in Slots : ctl'[j].blink =>
          /\ index'[<<ctl'[j].parent, BlinkTimer(j)>>] = LabelTimer(j)
          /\ LabelTimer(j) \in Slots /\ ctl'[LabelTimer(j)].type = "TIMER"
          /\ LabelTimer(j) > 0
          /\ careful => LabelTimer(j) > j
    <3>1. ASSUME NEW j \in Slots, ctl[j].blink
          PROVE  LabelTimer(j) \in Slots /\ ctl[LabelTimer(j)].type = "TIMER"
      BY <3>1, TimerOfLabel
    <3>2. ASSUME NEW j \in Slots, ctl[j].blink
          PROVE  LabelTimer(j) > 0 /\ (careful => LabelTimer(j) > j)
      BY <3>2 DEF ControlsInv, BlinkPaired, LaterInv, LabelTimer
    <3> QED
      BY <1>d, <1>f, <3>1, <3>2 DEF LabelTimer
  <2>2. \A j \in Slots, v \in Windows : index'[<<v, BlinkTimer(j)>>] # 0 =>
          ctl'[j].blink /\ ctl'[j].parent = v
    BY <1>d, <1>f DEF ControlsInv, BlinkPaired
  <2> QED
    BY ONLY <1>f, <2>1, <2>2 DEF BlinkPaired, LaterInv
<1>7. NoRuntimeError' /\ OnceTicksOnce'
  <2>1. \A j \in Slots : careful => fired'[j] <= 1
    BY <1>c DEF ControlsInv, OnceTicksOnce
  <2> QED
    BY <1>f, <2>1 DEF ControlsInv, NoRuntimeError, OnceTicksOnce
<1> QED
  BY <1>1, <1>2, <1>3, <1>4, <1>5, <1>6, <1>7 DEF ControlsInv

(* _DisableControl kills the timer, or there is none to kill. *)
LEMMA DisabledTimerStops ==
  ASSUME ControlsInv, NEW k \in Slots, ctl[k].type = "TIMER", DisableTimer(k)
  PROVE  osTimers' = osTimers \ {<<ctl[k].parent, ctl[k].id>>}
<1>1. ctl[k].enabled <=> <<ctl[k].parent, ctl[k].id>> \in osTimers
  BY DEF ControlsInv, TimersMatch
<1>2. osTimers' = IF ctl[k].enabled THEN osTimers \ {<<ctl[k].parent, ctl[k].id>>} ELSE osTimers
  BY DEF DisableTimer, KillTimer
<1> QED
  BY <1>1, <1>2

(* _EnableControl, _DisableControl *)
LEMMA EnableKeeps ==
  ASSUME ControlsInv, NEW w \in Windows, NEW n \in Names, NEW on \in BOOLEAN, Enable(w, n, on)
  PROVE  ControlsInv'
<1>1. PICK k \in ControlsOf(w, "TIMER") :
        /\ \/ on /\ EnableTimer(k)
           \/ ~on /\ DisableTimer(k) /\ UNCHANGED fired
        /\ UNCHANGED <<index, open, osKeys, front, globalHotkeys, careful, error, focus, since>>
  BY DEF Enable
<1>2. k \in Slots /\ ctl[k].type = "TIMER"
  BY DEF ControlsOf
<1>3. fired \in [Slots -> 0 .. 2] /\ fired[k] \in 0 .. 2 /\ (careful => fired[k] <= 1)
  BY <1>2 DEF ControlsInv, ControlsTypeOK, OnceTicksOnce
<1>4. CASE on /\ EnableTimer(k)
  <2>1. /\ ctl' = [ctl EXCEPT ![k].enabled = TRUE]
        /\ osTimers' = osTimers \cup {<<ctl[k].parent, ctl[k].id>>}
        /\ fired' = [fired EXCEPT ![k] = 0]
    BY <1>4 DEF EnableTimer, InitTimer
  <2> QED
    <3>1. SetsTimer(k, TRUE, 0)
      BY <1>1, <2>1 DEF SetsTimer
    <3> QED
      BY <1>2, <3>1, TimerStateKeeps
<1>5. CASE ~on /\ DisableTimer(k) /\ UNCHANGED fired
  <2>1. ctl' = [ctl EXCEPT ![k].enabled = FALSE]
    BY <1>5 DEF DisableTimer
  <2>2. osTimers' = osTimers \ {<<ctl[k].parent, ctl[k].id>>}
    BY <1>2, <1>5, DisabledTimerStops
  <2>3. fired' = [fired EXCEPT ![k] = fired[k]]
    BY <1>3, <1>5
  <2> QED
    <3>1. SetsTimer(k, FALSE, fired[k])
      BY <1>1, <1>3, <2>1, <2>2, <2>3 DEF SetsTimer
    <3> QED
      BY <1>2, <3>1, TimerStateKeeps
<1> QED
  BY <1>1, <1>4, <1>5

(* WM_TIMER: in a careful program the control found is the one whose timer *)
(* ticks.                                                                  *)
LEMMA TickKeeps ==
  ASSUME ControlsInv, NEW w \in Windows, NEW id \in Ids, Tick(w, id)
  PROVE  ControlsInv'
<1>1. PICK k \in Slots :
        /\ ctl[k].id = id
        /\ \/ ctl[k].type # "TIMER" /\ RuntimeError
           \/ /\ ctl[k].type = "TIMER"
              /\ DisableTimer(k)
              /\ fired' = [fired EXCEPT ![k] = IF fired[k] = 0 THEN 1 ELSE 2]
              /\ UNCHANGED <<index, open, osKeys, front, globalHotkeys, careful, error, focus, since>>
  BY DEF Tick
<1>2. careful => ctl[k].type = "TIMER" /\ ctl[k].parent = w
  <2>1. <<w, id>> \in osTimers
    BY DEF Tick
  <2>2. ASSUME careful
        PROVE  \E j \in Slots : ctl[j].type = "TIMER" /\ ctl[j].parent = w /\ ctl[j].id = id
    BY <2>1, <2>2 DEF ControlsInv, TimersMatch
  <2>3. id # NoId
    BY HmgControlsAssumption
  <2> QED
    BY <1>1, <2>2, <2>3 DEF ControlsInv, IdsAreUnique
<1>3. careful => fired[k] = 0
  <2>1. <<w, id>> \in osTimers
    BY DEF Tick
  <2> QED
    BY <1>1, <1>2, <2>1 DEF ControlsInv, TimersMatch, SlotInv
<1>4. CASE ctl[k].type # "TIMER" /\ RuntimeError
  BY <1>2, <1>4, RuntimeErrorKeeps
<1>5. CASE /\ ctl[k].type = "TIMER"
           /\ DisableTimer(k)
           /\ fired' = [fired EXCEPT ![k] = IF fired[k] = 0 THEN 1 ELSE 2]
           /\ UNCHANGED <<index, open, osKeys, front, globalHotkeys, careful, error, focus, since>>
  <2>1. ctl' = [ctl EXCEPT ![k].enabled = FALSE]
    BY <1>5 DEF DisableTimer
  <2>2. osTimers' = osTimers \ {<<ctl[k].parent, ctl[k].id>>}
    BY <1>5, DisabledTimerStops
  <2>3. CASE fired[k] = 0
    <3>1. fired' = [fired EXCEPT ![k] = 1]
      BY <1>5, <2>3
    <3> QED
      <4>1. SetsTimer(k, FALSE, 1)
        <5>1. 1 \in 0 .. 2 /\ 1 # 0 /\ 1 <= 1
          OBVIOUS
        <5>2. osTimers' = IF FALSE THEN osTimers \cup {<<ctl[k].parent, ctl[k].id>>}
                          ELSE osTimers \ {<<ctl[k].parent, ctl[k].id>>}
          BY <2>2
        <5> QED
          BY ONLY <1>5, <2>1, <3>1, <5>1, <5>2, Zenon DEF SetsTimer
      <4> QED
        BY <1>5, <4>1, TimerStateKeeps
  <2>4. CASE fired[k] # 0
    <3>1. fired' = [fired EXCEPT ![k] = 2]
      BY <1>5, <2>4
    <3> QED
      <4>1. SetsTimer(k, FALSE, 2)
        BY <1>3, <1>5, <2>1, <2>2, <2>4, <3>1 DEF SetsTimer
      <4> QED
        BY <1>5, <4>1, TimerStateKeeps
  <2> QED
    BY <2>3, <2>4
<1> QED
  BY <1>1, <1>4, <1>5

(* SetProperty BLINK: the first .T. defines the timer of the label. *)
LEMMA SetBlinkKeeps ==
  ASSUME ControlsInv, NEW w \in Windows, NEW n \in UserNames, NEW on \in BOOLEAN, NEW id \in Ids,
         SetBlink(w, n, on, id)
  PROVE  ControlsInv'
<1>1. PICK k \in ControlsOf(w, "LABEL") :
        /\ k = index[<<w, n>>]
        /\ \/ ctl[k].blink /\ Enable(w, BlinkTimer(k), on)
           \/ /\ ~ctl[k].blink
              /\ ~IsControlDefined(w, BlinkTimer(k))
              /\ FreeSlots # {}
              /\ careful => GetControlFree > k
              /\ GetId(id)
              /\ ctl' = [ctl EXCEPT ![k].blink = TRUE,
                           ![GetControlFree] = Timer(w, BlinkTimer(k), id, FALSE)]
              /\ index' = [index EXCEPT ![<<w, BlinkTimer(k)>>] = GetControlFree]
              /\ osTimers' = InitTimer(w, id)
              /\ UNCHANGED <<open, osKeys, front, globalHotkeys, careful, error, ghosts>>
  BY DEF SetBlink
<1>2. k \in Slots /\ ctl[k].type = "LABEL" /\ ctl[k].parent = w /\ BlinkTimer(k) \in Names
  BY BlinkNames DEF ControlsOf
<1>3. CASE ctl[k].blink /\ Enable(w, BlinkTimer(k), on)
  BY <1>2, <1>3, EnableKeeps
<1>4. CASE /\ ~ctl[k].blink
           /\ ~IsControlDefined(w, BlinkTimer(k))
           /\ FreeSlots # {}
           /\ careful => GetControlFree > k
           /\ GetId(id)
           /\ ctl' = [ctl EXCEPT ![k].blink = TRUE,
                        ![GetControlFree] = Timer(w, BlinkTimer(k), id, FALSE)]
           /\ index' = [index EXCEPT ![<<w, BlinkTimer(k)>>] = GetControlFree]
           /\ osTimers' = InitTimer(w, id)
           /\ UNCHANGED <<open, osKeys, front, globalHotkeys, careful, error, ghosts>>
  <2> DEFINE timer == Timer(w, BlinkTimer(k), id, FALSE)
  <2>1. PICK t \in Slots : t = GetControlFree /\ ctl[t].type = "ERASED"
    BY <1>4, FreeIsFirst
  <2>2. t # k /\ (careful => t > k)
    BY <1>2, <1>4, <2>1
  <2>3. /\ w \in open
        /\ index[<<w, BlinkTimer(k)>>] = 0
        /\ \A j \in Slots : ctl[j].id # id
    <3>1. w \in open
      BY <1>2 DEF ControlsInv, IndexIsExact
    <3>2. index[<<w, BlinkTimer(k)>>] = 0
      BY <1>2, <1>4, UndefinedHasNoIndex
    <3>3. \A j \in Slots : ctl[j].id # id
      BY <1>4 DEF GetId
    <3> QED
      BY <3>1, <3>2, <3>3
  <2>4. /\ timer.type = "TIMER" /\ timer.name = BlinkTimer(k) /\ timer.parent = w
        /\ timer.id = id /\ timer.enabled /\ ~timer.blink /\ timer \in Control
    BY <1>2 DEF Timer, Erased, Control, Types
  <2>5. /\ ctl' = [ctl EXCEPT ![k].blink = TRUE, ![t] = timer]
        /\ index' = [index EXCEPT ![<<w, BlinkTimer(k)>>] = t]
        /\ osTimers' = osTimers \cup {<<w, id>>}
    BY <1>4, <2>1 DEF InitTimer
  <2>6. UNCHANGED <<open, osKeys, front, globalHotkeys, careful, error, focus, since, fired>>
    BY <1>4 DEF ghosts
  <2> HIDE DEF timer
  <2>7. /\ ctl[k] \in Control /\ ctl[k].name = n /\ ctl[k].id = NoId
        /\ index[<<w, n>>] = k /\ n \in Names /\ n # BlinkTimer(k)
    <3>1. ctl[k] \in Control
      BY <1>2 DEF ControlsInv, ControlsTypeOK
    <3>2. n \in Names /\ n # BlinkTimer(k)
      BY <1>2, BlinkNames DEF Names
    <3>3. index[<<w, n>>] # 0
      BY <1>1, <1>2, SlotsArePositive
    <3>4. ctl[k].name = n
      BY <1>1, <3>2, <3>3, IndexLeads
    <3>5. ctl[k].id = NoId
      BY <1>2 DEF ControlsInv, SlotInv
    <3> QED
      BY <1>1, <3>1, <3>2, <3>4, <3>5
  <2>8. /\ ctl' \in [Slots -> Control]
        /\ ctl'[t] = timer
        /\ \A j \in Slots \ {k, t} : ctl'[j] = ctl[j]
        /\ ctl'[k].type = "LABEL" /\ ctl'[k].name = n /\ ctl'[k].parent = w
        /\ ctl'[k].id = NoId /\ ctl'[k].blink
    <3>1. ctl \in [Slots -> Control]
      BY DEF ControlsInv, ControlsTypeOK
    <3>2. ctl'[k] = [ctl[k] EXCEPT !.blink = TRUE]
      BY <1>2, <2>2, <2>5, <3>1
    <3>3. /\ ctl'[k] \in Control
          /\ ctl'[k].type = "LABEL" /\ ctl'[k].name = n /\ ctl'[k].parent = w
          /\ ctl'[k].id = NoId /\ ctl'[k].blink
      BY <1>2, <2>7, <3>2 DEF Control
    <3>4. ctl'[t] = timer /\ \A j \in Slots \ {k, t} : ctl'[j] = ctl[j]
      BY <2>1, <2>2, <2>5, <3>1
    <3>5. \A j \in Slots : ctl'[j] \in Control
      BY <2>4, <3>1, <3>3, <3>4
    <3>6. ctl' \in [Slots -> Control]
      BY <2>5, <3>1, <3>5
    <3> QED
      BY <3>3, <3>4, <3>6
  <2>9. /\ index' \in [Windows \X Names -> Slots \cup {0}]
        /\ index'[<<w, n>>] = k /\ index'[<<w, BlinkTimer(k)>>] = t
        /\ \A v \in Windows, m \in Names :
             <<v, m>> # <<w, BlinkTimer(k)>> => index'[<<v, m>>] = index[<<v, m>>]
    BY <1>2, <2>1, <2>5, <2>7 DEF ControlsInv, ControlsTypeOK
  <2>10. osTimers' = osTimers \cup {<<w, ctl'[j].id>> : j \in {j \in {k, t} : ctl'[j].type = "TIMER"}}
    BY ONLY <2>4, <2>5, <2>8
  <2>11. \A v \in Windows, m \in Names :
           \/ index'[<<v, m>>] = index[<<v, m>>]
           \/ index'[<<v, m>>] \in {k, t} /\ v = w /\ m = ctl'[index'[<<v, m>>]].name
    BY ONLY <2>4, <2>8, <2>9
  <2>12. \A j \in {k, t} : ctl'[j].type = "TIMER" =>
           /\ ctl'[j].id \in Ids /\ ctl'[j].enabled /\ ~ctl'[j].blink
           /\ \A i \in Slots : ctl[i].id # ctl'[j].id
           /\ \A i \in {k, t} : ctl'[i].type = "TIMER" => i = j
           /\ \/ ctl'[j].name \in UserNames
              \/ \E i \in {k, t} : ctl'[i].blink /\ ctl'[j].name = BlinkTimer(i)
    BY <2>3, <2>4, <2>8
  <2>13. \A j \in {k, t} : ctl'[j].blink => \E i \in {k, t} :
           /\ ctl'[i].type = "TIMER" /\ ctl'[i].name = BlinkTimer(j)
           /\ careful => i > j
    BY <2>2, <2>4, <2>8
  <2>14. /\ ctl'[t].name = BlinkTimer(k) /\ ctl'[t].type = "TIMER" /\ ctl'[t].parent = w
    BY <2>4, <2>8
  <2>15. ASSUME NEW j \in {k, t}
         PROVE  /\ ctl'[j].parent = w /\ ctl'[j].name \in Names
                /\ index'[<<w, ctl'[j].name>>] = j
                /\ ctl'[j].type # "TIMER" => ctl'[j].type = "LABEL" /\ ctl'[j].id = NoId
                /\ ctl'[j].type = "LABEL" => ctl'[j].name = n
                /\ \/ ctl[j].type = "ERASED" /\ index[<<w, ctl'[j].name>>] = 0
                   \/ /\ ctl[j].type = "LABEL" /\ ctl[j].parent = w /\ ~ctl[j].blink
                      /\ ctl[j].name = ctl'[j].name /\ ctl'[j].type = "LABEL"
    <3>1. CASE j = k
      <4>1. /\ ctl'[k].parent = w /\ ctl'[k].name = n /\ ctl'[k].type = "LABEL" /\ ctl'[k].id = NoId
            /\ n \in Names /\ index'[<<w, n>>] = k
        BY ONLY <2>7, <2>8, <2>9
      <4>2. ctl[k].type = "LABEL" /\ ctl[k].parent = w /\ ~ctl[k].blink /\ ctl[k].name = n
        BY <1>2, <1>4, <2>7
      <4> QED
        BY ONLY <3>1, <4>1, <4>2
    <3>2. CASE j = t
      BY <1>2, <2>1, <2>3, <2>9, <2>14, <3>2
    <3> QED
      BY <3>1, <3>2
  <2>16. Defines(w, {k, t})
    BY ONLY <2>6, <2>8, <2>9, <2>10, <2>11, <2>12, <2>13, <2>15, n \in UserNames DEF Defines
  <2> QED
    BY <1>2, <2>1, <2>3, <2>16, DefineKeeps
<1> QED
  BY <1>1, <1>3, <1>4

-----------------------------------------------------------------------------
(* DEFINE WINDOW *)
LEMMA OpenWindowKeeps ==
  ASSUME ControlsInv, NEW w \in Windows, OpenWindow(w)
  PROVE  ControlsInv'
<1>1. /\ UNCHANGED <<ctl, index, osTimers, osKeys, front, globalHotkeys, careful, error>>
      /\ UNCHANGED <<focus, since, fired>>
      /\ open' = open \cup {w}
  BY DEF OpenWindow, ghosts
<1>2. ControlsTypeOK'
  BY <1>1 DEF ControlsInv, ControlsTypeOK
<1>3. IndexIsExact'
  BY <1>1 DEF ControlsInv, IndexIsExact
<1>4. SlotInv' /\ KeysInv' /\ LaterInv' /\ IdsAreUnique' /\ TimersMatch' /\ BlinkPaired'
  BY <1>1 DEF ControlsInv, SlotInv, KeysInv, LaterInv, IdsAreUnique, TimersMatch, BlinkPaired
<1>5. NoOrphanHotKey' /\ KeysFollowFocus' /\ NoRuntimeError' /\ OnceTicksOnce'
  BY <1>1
  DEF ControlsInv, NoOrphanHotKey, KeysFollowFocus, ControlsOf, NoRuntimeError, OnceTicksOnce
<1> QED
  BY <1>2, <1>3, <1>4, <1>5 DEF ControlsInv

(* Every registered key belongs to a control, so releasing the hot keys of *)
(* all controls leaves none.                                               *)
LEMMA AllReleased ==
  ASSUME ControlsInv
  PROVE  ReleaseHotKeys(Slots) = {}
BY DEF ControlsInv, NoOrphanHotKey, ReleaseHotKeys

(* A change of the focus concerns hot keys only. *)
FocusOnly ==
  UNCHANGED <<ctl, index, open, osTimers, globalHotkeys, careful, error, fired>>

LEMMA FocusKeeps ==
  ASSUME ControlsInv, FocusOnly,
         osKeys' \subseteq [win : Windows, id : Ids, key : Keys],
         front' \in Windows \cup {NoWindow}, focus' \in Windows \cup {NoWindow},
         since' \subseteq Ids, NoOrphanHotKey', KeysFollowFocus'
  PROVE  ControlsInv'
<1> USE DEF FocusOnly
<1>1. ControlsTypeOK'
  BY DEF ControlsInv, ControlsTypeOK
<1>2. SlotInv' /\ KeysInv' /\ LaterInv' /\ IndexIsExact' /\ IdsAreUnique'
  BY DEF ControlsInv, SlotInv, KeysInv, LaterInv, IndexIsExact, IdsAreUnique
<1>3. TimersMatch' /\ BlinkPaired' /\ NoRuntimeError' /\ OnceTicksOnce'
  BY DEF ControlsInv, TimersMatch, BlinkPaired, NoRuntimeError, OnceTicksOnce
<1> QED
  BY <1>1, <1>2, <1>3 DEF ControlsInv

(* WM_SETFOCUS registers every key of the window: no other is registered,  *)
(* and the window has each once.                                           *)
LEMMA SetFocusKeeps ==
  ASSUME ControlsInv, NEW w \in Windows, SetFocus(w)
  PROVE  ControlsInv'
<1>1. FocusOnly /\ front' = w /\ focus' = w /\ since' = {} /\ osKeys' = FocusKeys(w)
  BY DEF SetFocus, FocusOnly
<1>2. ctl' = ctl
  BY <1>1 DEF FocusOnly
<1>3. \A j, k \in ControlsOf(w, "HOTKEY") : ctl[j].key = ctl[k].key => k <= j
  <2>1. \A j, k \in ControlsOf(w, "HOTKEY") : ctl[j].key = ctl[k].key => j = k
    BY DEF ControlsInv, KeysInv, ControlsOf
  <2>2. \A k \in ControlsOf(w, "HOTKEY") : k <= k
    BY SlotsArePositive DEF ControlsOf
  <2> QED
    BY <2>1, <2>2
<1>4. osKeys' = {[win |-> w, id |-> ctl[k].id, key |-> ctl[k].key] : k \in ControlsOf(w, "HOTKEY")}
  BY <1>1, <1>3, AllReleased DEF FocusKeys
<1>5. \A k \in ControlsOf(w, "HOTKEY") :
        k \in Slots /\ ctl[k].type = "HOTKEY" /\ ctl[k].parent = w
        /\ ctl[k].id \in Ids /\ ctl[k].key \in Keys
  BY DEF ControlsOf, ControlsInv, SlotInv
<1>6. osKeys' \subseteq [win : Windows, id : Ids, key : Keys]
  BY <1>4, <1>5
<1>7. NoOrphanHotKey'
  BY <1>2, <1>4, <1>5 DEF NoOrphanHotKey
<1>8. KeysFollowFocus'
  BY <1>1, <1>2, <1>4 DEF KeysFollowFocus, ControlsOf
<1> QED
  BY <1>1, <1>6, <1>7, <1>8, FocusKeeps

(* WM_ACTIVATE *)
LEMMA DeactivateKeeps ==
  ASSUME ControlsInv, Deactivate
  PROVE  ControlsInv'
<1>1. FocusOnly /\ front' = NoWindow /\ focus' = focus
  BY DEF Deactivate, FocusOnly
<1>2. ctl' = ctl
  BY <1>1 DEF FocusOnly
<1>3. \/ osKeys' = {} /\ since' = {}
      \/ osKeys' = osKeys /\ since' = since
  BY AllReleased DEF Deactivate
<1>4. NoOrphanHotKey'
  BY <1>2, <1>3 DEF ControlsInv, NoOrphanHotKey
<1>5. KeysFollowFocus'
  BY <1>1, <1>3 DEF ControlsInv, KeysFollowFocus
<1>6. /\ osKeys' \subseteq [win : Windows, id : Ids, key : Keys] /\ since' \subseteq Ids
      /\ front' \in Windows \cup {NoWindow} /\ focus' \in Windows \cup {NoWindow}
  BY <1>1, <1>3 DEF ControlsInv, ControlsTypeOK
<1> QED
  BY <1>1, <1>4, <1>5, <1>6, FocusKeeps

(* _DefineHotKey: the key it replaces, if any, is the only one of that     *)
(* window and combination.                                                 *)
LEMMA DefineHotKeyKeeps ==
  ASSUME ControlsInv, NEW w \in Windows, NEW key \in Keys, NEW id \in Ids, DefineHotKey(w, key, id)
  PROVE  ControlsInv'
<1> DEFINE same == {k \in ControlsOf(w, "HOTKEY") : ctl[k].key = key}
           first == {k \in same : \A j \in same : k <= j}
           slots == FreeSlots \cup first
           hot == [Erased EXCEPT !.type = "HOTKEY", !.parent = w, !.id = id,
                                 !.key = key, !.enabled = TRUE]
<1>1. \A j \in same : j \in Slots /\ ctl[j].type = "HOTKEY" /\ ctl[j].parent = w /\ ctl[j].key = key
  BY DEF ControlsOf
<1>2. same \subseteq first
  <2>1. ASSUME NEW j \in same PROVE j \in first
    <3>1. \A i \in same : i = j
      BY <1>1 DEF ControlsInv, KeysInv
    <3>2. j <= j
      <4>1. j \in Nat
        BY <1>1, SlotsArePositive
      <4> QED
        BY ONLY <4>1
    <3> QED
      BY <3>1, <3>2
  <2> QED
    BY <2>1
<1>3. \A j \in Slots \ first : ~(ctl[j].type = "HOTKEY" /\ ctl[j].parent = w /\ ctl[j].key = key)
  BY <1>2 DEF ControlsOf
<1>4. PICK k \in slots : k = CHOOSE u \in slots : \A j \in slots : u <= j
  <2>1. slots \in SUBSET Slots /\ slots # {}
    BY <1>1 DEF DefineHotKey, FreeSlots
  <2>2. \E k \in slots : \A j \in slots : k <= j
    BY <2>1, FirstOf
  <2> QED
    BY <2>2
<1>5. k \in Slots /\ ctl[k].type \in {"ERASED", "HOTKEY"} /\ (ctl[k].type = "HOTKEY" => k \in first)
  BY <1>1 DEF FreeSlots
<1>6. /\ w \in open
      /\ \A j \in Slots \ first : ctl[j].id # id
      /\ ctl' = [EraseSlots(first) EXCEPT ![k] = hot]
      /\ osKeys' = InitHotKey(ReleaseHotKeys(first), w, key, id)
      /\ since' = (since \ {ctl[j].id : j \in first}) \cup {id}
      /\ UNCHANGED <<index, open, osTimers, front, globalHotkeys, careful, error, focus, fired>>
  BY <1>4 DEF DefineHotKey
<1>7. /\ hot.type = "HOTKEY" /\ hot.parent = w /\ hot.id = id /\ hot.key = key
      /\ hot.name = NoName /\ ~hot.blink /\ hot \in Control
  BY DEF Erased, Control, Types
<1>8. \A j \in first : /\ j \in Slots /\ ctl[j].type = "HOTKEY"
                       /\ ctl[j].parent = w /\ ctl[j].key = key
  BY <1>1
<1> HIDE DEF same, first, slots, hot
<1>9. /\ ctl' \in [Slots -> Control]
      /\ ctl'[k] = hot
      /\ \A j \in first \ {k} : ctl'[j] = Erased
      /\ \A j \in Slots \ (first \cup {k}) : ctl'[j] = ctl[j]
  <2>1. Erased \in Control
    BY DEF Erased, Control, Types
  <2> QED
    BY <1>5, <1>6, <1>7, <1>8, <2>1 DEF EraseSlots, ControlsInv, ControlsTypeOK
<1>10. /\ Erased.type = "ERASED" /\ Erased.name = NoName /\ Erased.parent = NoWindow
       /\ Erased.id = NoId /\ ~Erased.blink
  BY DEF Erased
<1>11. \A j \in Slots :
         \/ j = k /\ ctl'[j] = hot /\ ctl[j].type \in {"ERASED", "HOTKEY"}
         \/ j # k /\ j \in first /\ ctl'[j] = Erased /\ ctl[j].type = "HOTKEY"
         \/ j # k /\ j \notin first /\ ctl'[j] = ctl[j]
  BY ONLY <1>5, <1>8, <1>9
<1>12. \A j \in Slots : ctl[j].type \in {"TIMER", "LABEL"} \/ ctl'[j].type \in {"TIMER", "LABEL"}
         => ctl'[j] = ctl[j]
  BY ONLY <1>7, <1>10, <1>11
<1>13. \A j \in Slots : ctl'[j].blink \/ ctl[j].blink => ctl'[j] = ctl[j]
  <2>1. \A j \in Slots : ctl[j].blink => ctl[j].type = "LABEL"
    BY DEF ControlsInv, SlotInv
  <2> QED
    BY ONLY <1>7, <1>10, <1>11, <1>12, <2>1
<1>14. \A i, j \in Slots : ctl[i].type = "HOTKEY" /\ ctl[i].id = ctl[j].id => i = j
  BY HmgControlsAssumption DEF ControlsInv, SlotInv, IdsAreUnique
<1>15. \A j \in Slots : ctl'[j].type # "ERASED" => ctl'[j].parent \in open
  BY <1>6, <1>7, <1>10, <1>11 DEF ControlsInv, IndexIsExact
<1>16. ControlsTypeOK'
  <2>1. osKeys' \subseteq [win : Windows, id : Ids, key : Keys]
    BY <1>6 DEF ControlsInv, ControlsTypeOK, InitHotKey, ReleaseHotKeys
  <2>2. since' \subseteq Ids
    BY <1>6 DEF ControlsInv, ControlsTypeOK
  <2> QED
    BY <1>6, <1>9, <2>1, <2>2 DEF ControlsInv, ControlsTypeOK
<1>17. SlotInv'
  <2>1. ASSUME NEW j \in Slots
        PROVE  /\ ctl'[j].type \in {"TIMER", "LABEL"} => ctl'[j].name \in Names /\ ctl'[j].parent \in Windows
               /\ ctl'[j].type \in {"ERASED", "HOTKEY"} => ctl'[j].name = NoName
               /\ ctl'[j].type \in {"TIMER", "HOTKEY"} => ctl'[j].id \in Ids
               /\ ctl'[j].type = "HOTKEY" => ctl'[j].parent \in Windows /\ ctl'[j].key \in Keys
               /\ ctl'[j].type = "ERASED" => ctl'[j].parent = NoWindow
               /\ ctl'[j].type \in {"ERASED", "LABEL"} => ctl'[j].id = NoId
               /\ ctl'[j].blink => ctl'[j].type = "LABEL"
               /\ fired'[j] # 0 => ctl'[j].type = "TIMER" /\ ~ctl'[j].enabled
    <3>1. CASE j = k
      BY <1>5, <1>6, <1>7, <1>9, <3>1 DEF ControlsInv, SlotInv
    <3>2. CASE j # k /\ j \in first
      BY <1>6, <1>8, <1>9, <1>10, <3>2 DEF ControlsInv, SlotInv
    <3>3. CASE j # k /\ j \notin first
      BY <1>6, <1>9, <3>3 DEF ControlsInv, SlotInv
    <3> QED
      BY <3>1, <3>2, <3>3
  <2> QED
    BY <2>1 DEF SlotInv
<1>18. KeysInv'
  <2>1. ASSUME NEW i \in Slots, NEW j \in Slots, ctl'[i].type = "HOTKEY", ctl'[j].type = "HOTKEY",
               ctl'[i].parent = ctl'[j].parent, ctl'[i].key = ctl'[j].key
        PROVE  i = j
    <3>1. CASE i = k
      BY <1>3, <1>7, <1>10, <1>11, <2>1, <3>1
    <3>2. CASE j = k
      BY <1>3, <1>7, <1>10, <1>11, <2>1, <3>2
    <3>3. CASE i # k /\ j # k
      BY <1>10, <1>11, <2>1, <3>3 DEF ControlsInv, KeysInv
    <3> QED
      BY <3>1, <3>2, <3>3
  <2> QED
    BY <2>1 DEF KeysInv
<1>19. IdsAreUnique'
  <2>1. ASSUME NEW i \in Slots, NEW j \in Slots, ctl'[i].id = ctl'[j].id, ctl'[i].id # NoId
        PROVE  i = j
    <3>1. CASE i = k
      BY <1>6, <1>7, <1>10, <1>11, <2>1, <3>1
    <3>2. CASE j = k
      BY <1>6, <1>7, <1>10, <1>11, <2>1, <3>2
    <3>3. CASE i # k /\ j # k
      BY <1>10, <1>11, <2>1, <3>3 DEF ControlsInv, IdsAreUnique
    <3> QED
      BY <3>1, <3>2, <3>3
  <2> QED
    BY <2>1 DEF IdsAreUnique
<1>20. IndexIsExact'
  <2>1. ASSUME NEW v \in Windows, NEW m \in Names, index[<<v, m>>] # 0
        PROVE  LET c == ctl'[index[<<v, m>>]] IN c.parent = v /\ c.name = m /\ c.type # "ERASED"
    <3>1. PICK j \in Slots : /\ j = index[<<v, m>>] /\ ctl[j].type \in {"TIMER", "LABEL"}
                             /\ ctl[j].parent = v /\ ctl[j].name = m
      BY <2>1, IndexLeads
    <3> QED
      BY <1>12, <3>1
  <2>2. \A j \in Slots : ctl'[j].type \in {"TIMER", "LABEL"} =>
          index[<<ctl'[j].parent, ctl'[j].name>>] = j
    BY <1>12 DEF ControlsInv, IndexIsExact
  <2> QED
    BY <1>6, <1>15, <2>1, <2>2 DEF IndexIsExact
<1>21. TimersMatch'
  <2>1. TimersMatch
    BY DEF ControlsInv
  <2> QED
    BY <1>6, <1>12, <2>1 DEF TimersMatch
<1>22. BlinkPaired' /\ LaterInv'
  <2>1. ASSUME NEW j \in Slots, ctl'[j].blink
        PROVE  /\ index'[<<ctl'[j].parent, BlinkTimer(j)>>] = LabelTimer(j)
               /\ LabelTimer(j) > 0 /\ ctl'[LabelTimer(j)].type = "TIMER"
               /\ careful => LabelTimer(j) > j
    <3>1. ctl'[j] = ctl[j] /\ ctl[j].blink
      BY <1>13, <2>1
    <3>2. LabelTimer(j) \in Slots /\ ctl[LabelTimer(j)].type = "TIMER"
      BY <3>1, TimerOfLabel
    <3>3. LabelTimer(j) > 0 /\ (careful => LabelTimer(j) > j)
      BY <3>1 DEF ControlsInv, BlinkPaired, LaterInv, LabelTimer
    <3>4. index'[<<ctl'[j].parent, BlinkTimer(j)>>] = LabelTimer(j)
      BY <1>6, <3>1 DEF LabelTimer
    <3> QED
      BY <1>12, <3>2, <3>3, <3>4
  <2>2. \A j \in Slots, v \in Windows : index'[<<v, BlinkTimer(j)>>] # 0 =>
          ctl'[j].blink /\ ctl'[j].parent = v
    BY <1>6, <1>13 DEF ControlsInv, BlinkPaired
  <2>3. careful' = careful
    BY <1>6
  <2> QED
    BY ONLY <2>1, <2>2, <2>3 DEF BlinkPaired, LaterInv
<1>23. ASSUME NEW r \in osKeys'
       PROVE  \/ /\ r = [win |-> w, id |-> id, key |-> key]
              \/ /\ r \in osKeys
                 /\ \E j \in Slots : /\ ctl[j].type = "HOTKEY" /\ ctl[j].parent = r.win
                                     /\ ctl[j].id = r.id /\ ctl[j].key = r.key
                                     /\ j # k /\ j \notin first /\ ctl'[j] = ctl[j]
  <2>1. CASE r \in ReleaseHotKeys(first)
    <3>1. r \in osKeys /\ \A j \in first : r.win # ctl[j].parent \/ r.id # ctl[j].id
      BY <1>8, <2>1 DEF ReleaseHotKeys
    <3>2. PICK j \in Slots : /\ ctl[j].type = "HOTKEY" /\ ctl[j].parent = r.win
                             /\ ctl[j].id = r.id /\ ctl[j].key = r.key
      BY <3>1 DEF ControlsInv, NoOrphanHotKey
    <3>3. j \notin first
      BY <3>1, <3>2
    <3>4. j # k
      BY <1>5, <3>2, <3>3
    <3> QED
      BY <1>11, <3>1, <3>2, <3>3, <3>4
  <2> QED
    BY <1>6, <2>1 DEF InitHotKey
<1>24. NoOrphanHotKey'
  BY <1>5, <1>7, <1>9, <1>23 DEF NoOrphanHotKey
<1>25. KeysFollowFocus'
  <2>1. ASSUME NEW r \in osKeys', r.win # focus PROVE r.id \in since'
    <3>1. CASE r = [win |-> w, id |-> id, key |-> key]
      BY <1>6, <3>1
    <3>2. CASE /\ r \in osKeys
               /\ \E j \in Slots : /\ ctl[j].type = "HOTKEY" /\ ctl[j].parent = r.win
                                   /\ ctl[j].id = r.id /\ ctl[j].key = r.key
                                   /\ j # k /\ j \notin first /\ ctl'[j] = ctl[j]
      <4>1. r.id \in since
        BY <2>1, <3>2 DEF ControlsInv, KeysFollowFocus
      <4>2. \A j \in first : ctl[j].id # r.id
        BY <1>8, <1>14, <3>2
      <4> QED
        BY <1>6, <4>1, <4>2
    <3> QED
      BY <1>23, <3>1, <3>2
  <2>2. ASSUME front # NoWindow, NEW j \in Slots, ctl'[j].type = "HOTKEY", ctl'[j].parent = front,
               ctl'[j].id \notin since'
        PROVE  [win |-> front, id |-> ctl'[j].id, key |-> ctl'[j].key] \in osKeys'
    <3>1. id \in since'
      BY <1>6
    <3>2. j # k /\ j \notin first /\ ctl'[j] = ctl[j]
      BY <1>7, <1>10, <1>11, <2>2, <3>1
    <3>3. \A i \in first : ctl[i].id # ctl[j].id
      BY <1>8, <1>14, <3>2
    <3>4. ctl[j].id \notin since
      BY <1>6, <2>2, <3>2, <3>3
    <3>5. [win |-> front, id |-> ctl[j].id, key |-> ctl[j].key] \in osKeys
      BY <2>2, <3>2, <3>4 DEF ControlsInv, KeysFollowFocus, ControlsOf
    <3>6. [win |-> front, id |-> ctl[j].id, key |-> ctl[j].key] \in ReleaseHotKeys(first)
      BY <3>3, <3>5 DEF ReleaseHotKeys
    <3> QED
      BY <1>6, <3>2, <3>6 DEF InitHotKey
  <2> QED
    BY <1>6, <2>1, <2>2 DEF KeysFollowFocus, ControlsOf
<1>26. NoRuntimeError' /\ OnceTicksOnce'
  BY <1>6 DEF ControlsInv, NoRuntimeError, OnceTicksOnce
<1> QED
  BY <1>16, <1>17, <1>18, <1>19, <1>20, <1>21, <1>22, <1>24, <1>25, <1>26 DEF ControlsInv

-----------------------------------------------------------------------------
(* At the start nothing is defined. *)
LEMMA InitControlsInv == Init => ControlsInv
<1> SUFFICES ASSUME Init PROVE ControlsInv
  OBVIOUS
<1>1. /\ ctl = [k \in Slots |-> Erased] /\ index = [x \in Windows \X Names |-> 0]
      /\ open = {} /\ osTimers = {} /\ osKeys = {} /\ front = NoWindow
      /\ globalHotkeys \in BOOLEAN /\ careful \in Programs /\ error = FALSE
      /\ focus = NoWindow /\ since = {} /\ fired = [k \in Slots |-> 0]
  BY DEF Init
<1>2. \A k \in Slots : /\ ctl[k].type = "ERASED" /\ ctl[k].name = NoName
                       /\ ctl[k].parent = NoWindow /\ ctl[k].id = NoId /\ ~ctl[k].blink
                       /\ ctl[k] \in Control /\ fired[k] = 0
  BY <1>1 DEF Erased, Control, Types
<1>3. ControlsTypeOK
  <2>1. Erased \in Control /\ 0 \in 0 .. 2
    BY DEF Erased, Control, Types
  <2>2. ctl \in [Slots -> Control] /\ fired \in [Slots -> 0 .. 2]
    BY <1>1, <2>1
  <2>3. index \in [Windows \X Names -> Slots \cup {0}]
    BY <1>1
  <2> QED
    BY <1>1, <2>2, <2>3 DEF ControlsTypeOK
<1>4. SlotInv /\ KeysInv /\ LaterInv /\ IdsAreUnique
  BY <1>1, <1>2 DEF SlotInv, KeysInv, LaterInv, IdsAreUnique
<1>5. IndexIsExact /\ BlinkPaired
  <2>1. \A v \in Windows, m \in Names : index[<<v, m>>] = 0
    BY <1>1
  <2> QED
    BY <1>2, <2>1, BlinkNames DEF IndexIsExact, BlinkPaired
<1>6. TimersMatch /\ NoOrphanHotKey /\ KeysFollowFocus /\ NoRuntimeError /\ OnceTicksOnce
  BY <1>1, <1>2 DEF TimersMatch, NoOrphanHotKey, KeysFollowFocus, NoRuntimeError, OnceTicksOnce
<1> QED
  BY <1>3, <1>4, <1>5, <1>6 DEF ControlsInv

(* Every call and message keeps the invariant. *)
LEMMA NextControlsInv == ControlsInv /\ [Next]_vars => ControlsInv'
<1> SUFFICES ASSUME ControlsInv, [Next]_vars PROVE ControlsInv'
  OBVIOUS
<1>1. CASE UNCHANGED vars
  <2>1. /\ UNCHANGED <<ctl, index, open, osTimers, osKeys, front, globalHotkeys, careful, error>>
        /\ UNCHANGED <<focus, since, fired>>
    BY <1>1 DEF vars, win32, ghosts
  <2>2. ControlsTypeOK' /\ SlotInv' /\ KeysInv' /\ LaterInv' /\ IndexIsExact' /\ IdsAreUnique'
    BY <2>1
    DEF ControlsInv, ControlsTypeOK, SlotInv, KeysInv, LaterInv, IndexIsExact, IdsAreUnique
  <2>3. TimersMatch' /\ BlinkPaired' /\ NoRuntimeError' /\ OnceTicksOnce'
    BY <2>1 DEF ControlsInv, TimersMatch, BlinkPaired, NoRuntimeError, OnceTicksOnce
  <2>4. NoOrphanHotKey' /\ KeysFollowFocus'
    BY <2>1 DEF ControlsInv, NoOrphanHotKey, KeysFollowFocus, ControlsOf
  <2> QED
    BY <2>2, <2>3, <2>4 DEF ControlsInv
<1>2. CASE Deactivate
  BY <1>2, DeactivateKeeps
<1>3. ASSUME NEW w \in Windows, Calls(w)
      PROVE  ControlsInv'
  <2>1. CASE OpenWindow(w)
    BY <2>1, OpenWindowKeeps
  <2>2. CASE SetFocus(w)
    BY <2>2, SetFocusKeeps
  <2>3. CASE DestroyWindow(w)
    BY <2>3, DestroyWindowKeeps
  <2>4. ASSUME NEW n \in UserNames, ReleaseControl(w, n)
        PROVE  ControlsInv'
    BY <2>4, ReleaseControlKeeps
  <2>5. ASSUME NEW n \in UserNames, NEW on \in BOOLEAN, Enable(w, n, on)
        PROVE  ControlsInv'
    <3>1. n \in Names
      BY DEF Names
    <3> QED
      BY <2>5, <3>1, EnableKeeps
  <2>6. ASSUME NEW n \in UserNames, NEW on \in BOOLEAN, NEW id \in Ids, DefineTimer(w, n, on, id)
        PROVE  ControlsInv'
    BY <2>6, DefineTimerKeeps
  <2>7. ASSUME NEW n \in UserNames, NEW on \in BOOLEAN, NEW id \in Ids, DefineLabel(w, n, on, id)
        PROVE  ControlsInv'
    BY <2>7, DefineLabelKeeps
  <2>8. ASSUME NEW n \in UserNames, NEW on \in BOOLEAN, NEW id \in Ids, SetBlink(w, n, on, id)
        PROVE  ControlsInv'
    BY <2>8, SetBlinkKeeps
  <2>9. ASSUME NEW key \in Keys, ReleaseHotKey(w, key)
        PROVE  ControlsInv'
    BY <2>9, ReleaseHotKeyKeeps
  <2>10. ASSUME NEW key \in Keys, NEW id \in Ids, DefineHotKey(w, key, id)
         PROVE  ControlsInv'
    BY <2>10, DefineHotKeyKeeps
  <2>11. ASSUME NEW id \in Ids, Tick(w, id)
         PROVE  ControlsInv'
    BY <2>11, TickKeeps
  <2> QED
    BY <1>3, <2>1, <2>2, <2>3, <2>4, <2>5, <2>6, <2>7, <2>8, <2>9, <2>10, <2>11 DEF Calls
<1> QED
  BY <1>1, <1>2, <1>3 DEF Next

LEMMA ControlsInvHolds == Spec => []ControlsInv
BY InitControlsInv, NextControlsInv, PTL DEF Spec

(* The arrays, the public variables and win32 keep their types. *)
THEOREM ControlsTypes == Spec => []ControlsTypeOK
<1>1. ControlsInv => ControlsTypeOK
  BY DEF ControlsInv
<1> QED
  BY <1>1, ControlsInvHolds, PTL

(* _GetControlFree and _EraseControl: the public variable of a timer or a  *)
(* label always leads to its slot, however slots are reused.               *)
THEOREM IndexLeadsToItsControl == Spec => []IndexIsExact
<1>1. ControlsInv => IndexIsExact
  BY DEF ControlsInv
<1> QED
  BY <1>1, ControlsInvHolds, PTL

(* _GetId: no two controls have the same id. *)
THEOREM IdsStayUnique == Spec => []IdsAreUnique
<1>1. ControlsInv => IdsAreUnique
  BY DEF ControlsInv
<1> QED
  BY <1>1, ControlsInvHolds, PTL

(* InitTimer and KillTimer: a timer of win32 runs exactly as long as its   *)
(* control is enabled.                                                     *)
THEOREM TimersRunWhileEnabled == Spec => []TimersMatch
<1>1. ControlsInv => TimersMatch
  BY DEF ControlsInv
<1> QED
  BY <1>1, ControlsInvHolds, PTL

(* InitHotKey and ReleaseHotKey: no key stays registered without control.  *)
THEOREM NoHotKeyIsLeft == Spec => []NoOrphanHotKey
<1>1. ControlsInv => NoOrphanHotKey
  BY DEF ControlsInv
<1> QED
  BY <1>1, ControlsInvHolds, PTL

(* WM_SETFOCUS: the keys registered are those of the window with the focus *)
(* and the ones defined since.                                             *)
THEOREM HotKeysFollowFocus == Spec => []KeysFollowFocus
<1>1. ControlsInv => KeysFollowFocus
  BY DEF ControlsInv
<1> QED
  BY <1>1, ControlsInvHolds, PTL

(* SetProperty BLINK and _DefineLabel: blinking labels and their timers    *)
(* exist together.                                                         *)
THEOREM LabelsKeepTheirTimers == Spec => []BlinkPaired
<1>1. ControlsInv => BlinkPaired
  BY DEF ControlsInv
<1> QED
  BY <1>1, ControlsInvHolds, PTL

(* WM_TIMER, WM_DESTROY and _ReleaseControl: a careful program never meets *)
(* a runtime error of the library.                                         *)
THEOREM CarefulProgramsRun == Spec => []NoRuntimeError
<1>1. ControlsInv => NoRuntimeError
  BY DEF ControlsInv
<1> QED
  BY <1>1, ControlsInvHolds, PTL

(* WM_TIMER: a ONCE timer of a careful program does not tick twice. *)
THEOREM OnceIsOnce == Spec => []OnceTicksOnce
<1>1. ControlsInv => OnceTicksOnce
  BY DEF ControlsInv
<1> QED
  BY <1>1, ControlsInvHolds, PTL

-----------------------------------------------------------------------------
(* BROWSE *)

(* A set of natural numbers has a least one. *)
LEMMA LeastNat ==
  ASSUME NEW T, T \subseteq Nat, T # {}
  PROVE  \E x \in T : \A y \in T : x <= y
<1>1. PICK k \in T : \A j \in T : ~ (<<j, k>> \in OpToRel(<, Nat))
  BY WFMin, NatLessThanWellFounded
<1>2. \A j \in T : ~ (<<j, k>> \in {ss \in Nat \X Nat : ss[1] < ss[2]})
  BY ONLY <1>1, Zenon DEF OpToRel
<1>3. \A j \in T : ~ (j < k)
  BY <1>2
<1>4. \A j \in T : k <= j
  BY <1>3
<1> QED
  BY <1>4

(* A set that holds 0 and with each number the next one holds them all. *)
LEMMA NatSetInduction ==
  ASSUME NEW S, 0 \in S, \A n \in Nat : n \in S => n + 1 \in S
  PROVE  Nat \subseteq S
<1> SUFFICES ASSUME Nat \ S # {} PROVE FALSE
  OBVIOUS
<1>1. PICK x \in Nat \ S : \A y \in Nat \ S : x <= y
  <2>1. Nat \ S \subseteq Nat
    OBVIOUS
  <2> QED
    BY <2>1, LeastNat
<1>2. x - 1 \in Nat /\ x - 1 \notin Nat \ S
  BY <1>1
<1> QED
  BY <1>1, <1>2

(* The numbers of a set, in their order. *)
Increasing(s) == \A i, j \in DOMAIN s : i < j => s[i] < s[j]
Enumerates(s, S) ==
  /\ s \in Seq(Nat) /\ Increasing(s)
  /\ \A i \in DOMAIN s : s[i] \in S
  /\ \A x \in S : \E i \in DOMAIN s : s[i] = x

(* Two of them that agree up to i agree at i. *)
LEMMA EnumeratedAlike ==
  ASSUME NEW S, NEW s, NEW t, Enumerates(s, S), Enumerates(t, S), NEW i \in DOMAIN s,
         \A j \in DOMAIN s : j < i => j \in DOMAIN t /\ t[j] = s[j],
         \A j \in DOMAIN t : j < i => j \in DOMAIN s /\ t[j] = s[j]
  PROVE  i \in DOMAIN t /\ t[i] = s[i]
<1>1. /\ DOMAIN s = 1 .. Len(s) /\ Len(s) \in Nat /\ DOMAIN t = 1 .. Len(t) /\ Len(t) \in Nat
      /\ \A k \in DOMAIN s : s[k] \in Nat /\ s[k] \in S
      /\ \A k \in DOMAIN t : t[k] \in Nat /\ t[k] \in S
  BY DEF Enumerates
<1>2. PICK u \in DOMAIN t : t[u] = s[i]
  BY DEF Enumerates
<1>3. ~ (u < i)
  <2> SUFFICES ASSUME u < i PROVE FALSE
    OBVIOUS
  <2>1. u \in DOMAIN s /\ s[u] = s[i]
    BY <1>2
  <2>2. s[u] < s[i]
    BY <2>1 DEF Enumerates, Increasing
  <2> QED
    BY <1>1, <2>1, <2>2
<1>4. i \in DOMAIN t
  BY <1>1, <1>2, <1>3
<1>5. CASE u = i
  BY <1>2, <1>4, <1>5
<1>6. CASE u # i
  <2>1. t[i] < s[i]
    <3>1. i < u
      BY <1>1, <1>3, <1>6
    <3> QED
      BY <1>2, <1>4, <3>1 DEF Enumerates, Increasing
  <2>2. PICK k \in DOMAIN s : s[k] = t[i]
    BY <1>1, <1>4 DEF Enumerates
  <2>3. CASE k < i
    <3>1. k \in DOMAIN t /\ t[k] = t[i]
      BY <2>2, <2>3
    <3>2. t[k] < t[i]
      BY <1>4, <2>3, <3>1 DEF Enumerates, Increasing
    <3> QED
      BY <1>1, <1>4, <3>1, <3>2
  <2>4. CASE i < k
    <3>1. s[i] < s[k]
      BY <2>4 DEF Enumerates, Increasing
    <3>2. s[i] \in Nat /\ s[k] \in Nat /\ t[i] \in Nat
      BY <1>1, <1>4
    <3> QED
      BY <2>1, <2>2, <3>1, <3>2
  <2>5. CASE k = i
    <3>1. s[i] \in Nat /\ t[i] \in Nat
      BY <1>1, <1>4
    <3> QED
      BY <2>1, <2>2, <2>5, <3>1
  <2> QED
    BY <1>1, <2>3, <2>4, <2>5
<1> QED
  BY <1>5, <1>6

(* So there is one only. *)
LEMMA EnumeratedOnce ==
  ASSUME NEW S, NEW s, NEW t, Enumerates(s, S), Enumerates(t, S)
  PROVE  s = t
<1>1. /\ DOMAIN s = 1 .. Len(s) /\ Len(s) \in Nat /\ DOMAIN t = 1 .. Len(t) /\ Len(t) \in Nat
      /\ s \in Seq(Nat) /\ t \in Seq(Nat)
  BY DEF Enumerates
<1> DEFINE Agree(k) == \A j \in 1 .. k : /\ j \in DOMAIN s => j \in DOMAIN t /\ t[j] = s[j]
                                         /\ j \in DOMAIN t => j \in DOMAIN s /\ t[j] = s[j]
           T == {k \in Nat : Agree(k)}
<1>2. 0 \in T
  OBVIOUS
<1>3. ASSUME NEW k \in Nat, k \in T
      PROVE  k + 1 \in T
  <2>1. Agree(k)
    BY <1>3
  <2>2. /\ \A j \in DOMAIN s : j < k + 1 => j \in DOMAIN t /\ t[j] = s[j]
        /\ \A j \in DOMAIN t : j < k + 1 => j \in DOMAIN s /\ t[j] = s[j]
    BY <1>1, <2>1
  <2> DEFINE i == k + 1
  <2>3. i \in DOMAIN s => i \in DOMAIN t /\ t[i] = s[i]
    <3> SUFFICES ASSUME i \in DOMAIN s PROVE i \in DOMAIN t /\ t[i] = s[i]
      OBVIOUS
    <3> HIDE DEF i
    <3>1. /\ \A j \in DOMAIN s : j < i => j \in DOMAIN t /\ t[j] = s[j]
          /\ \A j \in DOMAIN t : j < i => j \in DOMAIN s /\ t[j] = s[j]
      BY <2>2 DEF i
    <3> QED
      BY <3>1, EnumeratedAlike
  <2>4. i \in DOMAIN t => i \in DOMAIN s /\ t[i] = s[i]
    <3> SUFFICES ASSUME i \in DOMAIN t PROVE i \in DOMAIN s /\ t[i] = s[i]
      OBVIOUS
    <3> HIDE DEF i
    <3>1. /\ \A j \in DOMAIN t : j < i => j \in DOMAIN s /\ s[j] = t[j]
          /\ \A j \in DOMAIN s : j < i => j \in DOMAIN t /\ s[j] = t[j]
      BY <2>2 DEF i
    <3> QED
      BY <3>1, EnumeratedAlike
  <2>5. \A j \in 1 .. k + 1 : j \in 1 .. k \/ j = i
    OBVIOUS
  <2>6. Agree(k + 1)
    <3> HIDE DEF i
    <3> QED
      BY <2>1, <2>3, <2>4, <2>5
  <2> HIDE DEF Agree
  <2> QED
    BY <2>6
<1>4. Nat \subseteq T
  BY <1>2, <1>3, NatSetInduction
<1>5. \A j \in Nat : j # 0 => /\ j \in DOMAIN s => j \in DOMAIN t /\ t[j] = s[j]
                              /\ j \in DOMAIN t => j \in DOMAIN s
  <2> SUFFICES ASSUME NEW j \in Nat, j # 0
               PROVE  /\ j \in DOMAIN s => j \in DOMAIN t /\ t[j] = s[j]
                      /\ j \in DOMAIN t => j \in DOMAIN s
    OBVIOUS
  <2>1. j \in T /\ j \in 1 .. j
    BY <1>4
  <2> QED
    BY <2>1
<1> DEFINE n == Len(s)
           l == Len(t)
<1>6. n = l
  <2>1. n # 0 => n \in 1 .. l
    BY <1>1, <1>5
  <2>2. l # 0 => l \in 1 .. n
    BY <1>1, <1>5
  <2>3. n \in Nat /\ l \in Nat
    BY <1>1
  <2> HIDE DEF n, l
  <2> QED
    BY <2>1, <2>2, <2>3
<1> QED
  BY <1>1, <1>5, <1>6, SeqEqual

(* Where a number divides them. *)
LEMMA EnumeratedAround ==
  ASSUME NEW S, NEW s, Enumerates(s, S), NEW r \in Nat
  PROVE  \E k \in 0 .. Len(s) : /\ \A j \in 1 .. k : s[j] < r
                                /\ \A j \in k + 1 .. Len(s) : s[j] >= r
<1> DEFINE n == Len(s)
           T == {j \in 1 .. n + 1 : \A i \in j .. n : s[i] >= r}
<1>1. /\ n \in Nat /\ DOMAIN s = 1 .. n /\ \A i \in 1 .. n : s[i] \in Nat
      /\ \A i, j \in 1 .. n : i < j => s[i] < s[j]
  BY DEF Enumerates, Increasing
<1> HIDE DEF n
<1>2. n + 1 \in T
  BY <1>1
<1>3. PICK a \in T : \A y \in T : a <= y
  <2>1. T \subseteq Nat
    BY <1>1
  <2> HIDE DEF T
  <2>2. T # {}
    BY <1>2
  <2> QED
    BY <2>1, <2>2, LeastNat
<1> DEFINE k == a - 1
<1>4. k \in 0 .. n /\ a = k + 1 /\ \A j \in k + 1 .. n : s[j] >= r
  BY <1>1, <1>3
<1>5. ASSUME NEW j \in 1 .. k
      PROVE  s[j] < r
  <2> SUFFICES ASSUME ~ (s[j] < r) PROVE FALSE
    OBVIOUS
  <2>1. j \in 1 .. n /\ s[j] \in Nat /\ s[j] >= r
    BY <1>1, <1>4
  <2>2. \A i \in j .. n : s[i] >= r
    <3> SUFFICES ASSUME NEW i \in j .. n PROVE s[i] >= r
      OBVIOUS
    <3>1. i \in 1 .. n /\ s[i] \in Nat /\ (i = j \/ j < i)
      BY <1>1, <2>1
    <3> QED
      BY <1>1, <2>1, <3>1
  <2>3. j \in T
    BY <1>1, <2>1, <2>2
  <2>4. a <= j
    <3> HIDE DEF T
    <3> QED
      BY <1>3, <2>3
  <2> QED
    BY <1>1, <1>4, <2>4
<1> HIDE DEF k
<1> QED
  BY <1>4, <1>5 DEF n

(* The visible records, deleted ones among them or not. *)
Gone(state, del) == state = "filtered" \/ (state = "deleted" /\ del)
Unhidden(recs, del, a, b) == {n \in 1 .. Len(recs) : a <= n /\ n <= b /\ ~Gone(recs[n], del)}

(* VisibleIn, with the setting it depends on. *)
Seen(recs, del, a, b) ==
  LET upto[n \in 0 .. Len(recs)] ==
        IF n = 0 THEN <<>>
        ELSE IF a <= n /\ n <= b /\ ~Gone(recs[n], del) THEN Append(upto[n - 1], n)
        ELSE upto[n - 1]
  IN  upto[Len(recs)]

(* Its recursive function ... *)
Sees(recs, del, a, b, f) ==
  f = [n \in 0 .. Len(recs) |->
         IF n = 0 THEN <<>>
         ELSE IF a <= n /\ n <= b /\ ~Gone(recs[n], del) THEN Append(f[n - 1], n)
         ELSE f[n - 1]]

(* ... exists. *)
LEMMA SeesExists ==
  ASSUME NEW recs, NEW del, NEW a, NEW b, Len(recs) \in Nat
  PROVE  \E f : Sees(recs, del, a, b, f)
<1> DEFINE N == Len(recs)
           Step(x, n) == IF a <= n /\ n <= b /\ ~Gone(recs[n], del) THEN Append(x, n) ELSE x
           Upto(k, g) == g[0] = <<>> /\ \A n \in 1 .. k : g[n] = Step(g[n - 1], n)
           S == {k \in Nat : \E g : Upto(k, g)}
<1>1. 0 \in S
  <2> DEFINE g == [n \in {0} |-> <<>>]
  <2>1. g[0] = <<>> /\ 1 .. 0 = {}
    OBVIOUS
  <2> HIDE DEF g, Step
  <2>2. Upto(0, g)
    BY <2>1
  <2> QED
    BY <2>2
<1>2. ASSUME NEW k \in Nat, k \in S
      PROVE  k + 1 \in S
  <2> HIDE DEF Step
  <2>1. PICK g : Upto(k, g)
    BY <1>2
  <2> DEFINE h == [n \in 0 .. k + 1 |-> IF n <= k THEN g[n] ELSE Step(g[k], n)]
  <2>2. h[0] = <<>>
    BY <2>1
  <2>3. \A n \in 1 .. k + 1 : h[n] = Step(h[n - 1], n)
    <3> SUFFICES ASSUME NEW n \in 1 .. k + 1 PROVE h[n] = Step(h[n - 1], n)
      OBVIOUS
    <3>1. n \in 0 .. k + 1 /\ n - 1 \in 0 .. k + 1 /\ n - 1 <= k
      OBVIOUS
    <3>2. h[n - 1] = g[n - 1]
      BY <3>1
    <3>3. CASE n <= k
      <4>1. h[n] = g[n] /\ n \in 1 .. k
        BY <3>1, <3>3
      <4> QED
        BY <2>1, <3>2, <4>1
    <3>4. CASE ~ (n <= k)
      <4>1. n = k + 1 /\ n - 1 = k
        BY <3>4
      <4>2. h[n] = Step(g[k], n)
        BY <3>1, <3>4
      <4> QED
        BY <3>2, <4>1, <4>2
    <3> QED
      BY <3>3, <3>4
  <2> HIDE DEF h
  <2>4. Upto(k + 1, h)
    BY <2>2, <2>3
  <2> QED
    BY <2>4
<1> HIDE DEF S
<1>3. N \in S
  <2>1. Nat \subseteq S
    BY <1>1, <1>2, NatSetInduction
  <2> QED
    BY <2>1
<1> HIDE DEF Step
<1>4. PICK g : Upto(N, g)
  BY <1>3 DEF S
<1> DEFINE f == [n \in 0 .. N |-> g[n]]
<1>5. ASSUME NEW n \in 0 .. N
      PROVE  g[n] = IF n = 0 THEN <<>> ELSE Step(f[n - 1], n)
  <2>1. CASE n = 0
    BY <1>4, <2>1
  <2>2. CASE n # 0
    <3>1. n \in 1 .. N /\ n - 1 \in 0 .. N
      BY <2>2
    <3>2. f[n - 1] = g[n - 1]
      BY <3>1
    <3> QED
      BY <1>4, <2>2, <3>1, <3>2
  <2> QED
    BY <2>1, <2>2
<1>6. f = [n \in 0 .. N |-> IF n = 0 THEN <<>> ELSE Step(f[n - 1], n)]
  BY <1>5
<1> HIDE DEF f
<1>7. Sees(recs, del, a, b, f)
  BY <1>6 DEF Sees, Step
<1> QED
  BY <1>7

(* It gives the visible records in their order. *)
LEMMA SeenIs ==
  ASSUME NEW recs, NEW del, NEW a \in Int, NEW b \in Int, Len(recs) \in Nat
  PROVE  Enumerates(Seen(recs, del, a, b), Unhidden(recs, del, a, b))
<1> DEFINE N == Len(recs)
           g == CHOOSE f : Sees(recs, del, a, b, f)
           In(n) == a <= n /\ n <= b /\ ~Gone(recs[n], del)
           S(k) == {n \in 1 .. k : In(n)}
<1>1. Seen(recs, del, a, b) = g[N]
  BY Zenon DEF Seen, Sees
<1>2. Sees(recs, del, a, b, g)
  BY SeesExists
<1> HIDE DEF g
<1>3. g[0] = <<>> /\ \A n \in 1 .. N : g[n] = IF In(n) THEN Append(g[n - 1], n) ELSE g[n - 1]
  <2> HIDE DEF In
  <2>1. g = [n \in 0 .. N |-> IF n = 0 THEN <<>>
                              ELSE IF In(n) THEN Append(g[n - 1], n) ELSE g[n - 1]]
    BY <1>2 DEF Sees, In
  <2> HIDE DEF N
  <2>2. \A n \in 0 .. N : g[n] = IF n = 0 THEN <<>>
                                 ELSE IF In(n) THEN Append(g[n - 1], n) ELSE g[n - 1]
    BY ONLY <2>1, Zenon
  <2>3. 0 \in 0 .. N /\ \A n \in 1 .. N : n \in 0 .. N /\ n # 0
    BY DEF N
  <2> QED
    BY <2>2, <2>3
<1> DEFINE T == {k \in Nat : k <= N => Enumerates(g[k], S(k))}
<1> HIDE DEF In
<1>4. Enumerates(g[0], S(0))
  <2>1. <<>> \in Seq(Nat) /\ DOMAIN <<>> = {} /\ S(0) = {}
    OBVIOUS
  <2> QED
    BY <1>3, <2>1 DEF Enumerates, Increasing
<1>5. ASSUME NEW k \in Nat, k + 1 <= N, Enumerates(g[k], S(k))
      PROVE  Enumerates(g[k + 1], S(k + 1))
  <2> DEFINE s == g[k]
             t == g[k + 1]
             i == k + 1
  <2>0. i \in 1 .. N /\ i - 1 = k /\ i \in Nat
    BY <1>5
  <2>1. t = IF In(i) THEN Append(s, i) ELSE s
    BY <1>3, <2>0
  <2>2. CASE ~ In(i)
    <3>1. S(k + 1) = S(k)
      <4>1. \A n \in Nat : n \in 1 .. k + 1 <=> n \in 1 .. k \/ n = i
        OBVIOUS
      <4> QED
        BY <2>2, <4>1
    <3> QED
      BY <1>5, <2>1, <2>2, <3>1
  <2>3. CASE In(i)
    <3> HIDE DEF s, t
    <3>1. /\ s \in Seq(Nat) /\ Len(s) \in Nat /\ DOMAIN s = 1 .. Len(s)
          /\ \A j \in DOMAIN s : s[j] \in S(k)
          /\ \A x \in S(k) : \E j \in DOMAIN s : s[j] = x
          /\ \A x, y \in DOMAIN s : x < y => s[x] < s[y]
      BY <1>5 DEF Enumerates, Increasing, s
    <3> DEFINE l == Len(s)
    <3>2. /\ t \in Seq(Nat) /\ Len(t) = l + 1 /\ DOMAIN t = 1 .. l + 1
          /\ \A j \in 1 .. l : t[j] = s[j]
          /\ t[l + 1] = i
      <4> HIDE DEF i
      <4> QED
        BY <2>0, <2>1, <2>3, <3>1, AppendProperties
    <3>3. l \in Nat /\ DOMAIN s = 1 .. l
      BY <3>1
    <3> HIDE DEF l
    <3>4. \A j \in 1 .. l + 1 : j \in 1 .. l \/ j = l + 1
      BY <3>3
    <3>5. \A x \in S(k) : x \in S(k + 1) /\ x < i /\ x \in Nat
      OBVIOUS
    <3>6. \A j \in DOMAIN t : t[j] \in S(k + 1)
      <4>1. i \in S(k + 1)
        BY <2>0, <2>3
      <4> QED
        <5> HIDE DEF S, i
        <5> QED
          BY <3>1, <3>2, <3>3, <3>4, <3>5, <4>1
    <3>7. \A x \in S(k + 1) : \E j \in DOMAIN t : t[j] = x
      <4> SUFFICES ASSUME NEW x \in S(k + 1) PROVE \E j \in DOMAIN t : t[j] = x
        OBVIOUS
      <4>1. x \in S(k) \/ x = i
        <5>1. x \in 1 .. k + 1 /\ In(x)
          OBVIOUS
        <5>2. x \in 1 .. k \/ x = i
          BY <5>1
        <5> QED
          BY <5>1, <5>2
      <4> HIDE DEF S, i
      <4>2. CASE x = i
        BY <3>2, <3>3, <4>2
      <4>3. CASE x \in S(k)
        <5>1. PICK j \in 1 .. l : s[j] = x
          BY <3>1, <3>3, <4>3
        <5>2. j \in DOMAIN t /\ t[j] = x
          BY <3>2, <3>3, <5>1
        <5> QED
          BY <5>2
      <4> QED
        BY <4>1, <4>2, <4>3
    <3>8. Increasing(t)
      <4> SUFFICES ASSUME NEW x \in 1 .. l + 1, NEW y \in 1 .. l + 1, x < y PROVE t[x] < t[y]
        BY <3>2 DEF Increasing
      <4>1. x \in 1 .. l
        BY <3>3
      <4>2. CASE y \in 1 .. l
        BY <3>1, <3>2, <3>3, <4>1, <4>2
      <4>3. CASE y = l + 1
        <5> HIDE DEF i, S
        <5> QED
          BY <3>1, <3>2, <3>3, <3>5, <4>1, <4>3
      <4> QED
        BY <3>4, <4>2, <4>3
    <3>9. Enumerates(t, S(k + 1))
      <4> HIDE DEF S
      <4> QED
        BY <3>2, <3>6, <3>7, <3>8 DEF Enumerates
    <3> QED
      BY <3>9 DEF t
  <2> QED
    BY <2>2, <2>3
<1>6. Nat \subseteq T
  <2> HIDE DEF S
  <2>1. 0 \in T
    BY <1>4
  <2>2. ASSUME NEW k \in Nat, k \in T
        PROVE  k + 1 \in T
    <3>1. k + 1 <= N => Enumerates(g[k + 1], S(k + 1))
      <4>1. k + 1 <= N => k <= N
        OBVIOUS
      <4> QED
        BY <1>5, <2>2, <4>1
    <3> QED
      BY <3>1
  <2> HIDE DEF T
  <2> QED
    BY <2>1, <2>2, NatSetInduction
<1>7. Enumerates(g[N], S(N))
  <2>1. N \in T
    BY <1>6
  <2> HIDE DEF S, N
  <2>2. N <= N
    BY DEF N
  <2> QED
    BY <2>1, <2>2
<1>8. S(N) = Unhidden(recs, del, a, b)
  BY DEF Unhidden, In
<1> QED
  BY <1>1, <1>7, <1>8

(* The visible records of a file depend on nothing but the file and set. *)
LEMMA VisibleIs ==
  /\ \A recs : Visible(recs) = Seen(recs, set.deleted, 1, Len(recs))
  /\ \A recs, r : /\ Behind(recs, r) = Seen(recs, set.deleted, r + 1, Len(recs))
                  /\ Before(recs, r) = Seen(recs, set.deleted, 1, r - 1)
  /\ Visible(area.recs)' = Seen(area'.recs, set'.deleted, 1, Len(area'.recs))
BY Zenon DEF Visible, Behind, Before, VisibleIn, Seen, Hidden, Gone

(* The numbers of the visible records ascend and are those of records. *)
LEMMA RecordsIs ==
  ASSUME NEW recs \in Seq(RecordStates)
  PROVE  /\ Len(recs) \in Nat /\ DOMAIN recs = 1 .. Len(recs) /\ Eof(recs) = Len(recs) + 1
         /\ Visible(recs) \in Seq(Nat) /\ Len(Visible(recs)) \in Nat
         /\ DOMAIN Visible(recs) = 1 .. Len(Visible(recs))
         /\ \A i \in 1 .. Len(Visible(recs)) :
              /\ Visible(recs)[i] \in 1 .. Len(recs) /\ Visible(recs)[i] \in Nat
              /\ ~Hidden(recs[Visible(recs)[i]])
         /\ \A i, j \in 1 .. Len(Visible(recs)) : i < j => Visible(recs)[i] < Visible(recs)[j]
         /\ \A r \in 1 .. Len(recs) : ~Hidden(recs[r]) =>
              \E i \in 1 .. Len(Visible(recs)) : Visible(recs)[i] = r
         /\ Visible(recs) = <<>> <=> Len(Visible(recs)) = 0
<1> DEFINE v == Visible(recs)
           S == Unhidden(recs, set.deleted, 1, Len(recs))
<1>1. Len(recs) \in Nat /\ DOMAIN recs = 1 .. Len(recs) /\ Eof(recs) = Len(recs) + 1
  BY DEF Eof
<1>2. Enumerates(v, S)
  <2> DEFINE k == 1
             n == Len(recs)
  <2>1. k \in Int /\ n \in Int /\ v = Seen(recs, set.deleted, k, n)
    BY <1>1, VisibleIs
  <2> HIDE DEF k, v
  <2>2. Enumerates(v, Unhidden(recs, set.deleted, k, n))
    BY <1>1, <2>1, SeenIs
  <2> QED
    BY <2>2 DEF k
<1>3. \A r : r \in S <=> r \in 1 .. Len(recs) /\ ~Hidden(recs[r])
  BY <1>1 DEF Unhidden, Hidden, Gone
<1> HIDE DEF v, S
<1>4. /\ v \in Seq(Nat) /\ DOMAIN v = 1 .. Len(v) /\ Len(v) \in Nat
      /\ \A i \in 1 .. Len(v) : v[i] \in S
      /\ \A i, j \in 1 .. Len(v) : i < j => v[i] < v[j]
      /\ \A r \in S : \E i \in 1 .. Len(v) : v[i] = r
  BY <1>2 DEF Enumerates, Increasing
<1>5. v = <<>> <=> Len(v) = 0
  BY <1>4, EmptySeq
<1>6. \A i \in 1 .. Len(v) : v[i] \in 1 .. Len(recs) /\ ~Hidden(recs[v[i]]) /\ v[i] \in Nat
  BY <1>3, <1>4
<1>7. \A r \in 1 .. Len(recs) : ~Hidden(recs[r]) => \E i \in 1 .. Len(v) : v[i] = r
  BY <1>3, <1>4
<1> QED
  BY <1>1, <1>4, <1>5, <1>6, <1>7 DEF v

(* Those behind a place in the file, and those in front of it. *)
LEMMA BehindIs ==
  ASSUME NEW recs \in Seq(RecordStates), NEW r \in Nat, NEW k \in 0 .. Len(Visible(recs)),
         \A j \in 1 .. k : Visible(recs)[j] <= r,
         \A j \in k + 1 .. Len(Visible(recs)) : Visible(recs)[j] > r
  PROVE  /\ Behind(recs, r) \in Seq(Nat) /\ Len(Behind(recs, r)) = Len(Visible(recs)) - k
         /\ \A n \in 1 .. Len(Visible(recs)) - k : Behind(recs, r)[n] = Visible(recs)[k + n]
<1> DEFINE v == Visible(recs)
           l == Len(v)
           N == Len(recs)
           S == Unhidden(recs, set.deleted, r + 1, N)
           s == [n \in 1 .. l - k |-> v[k + n]]
<1>1. /\ N \in Nat /\ v \in Seq(Nat) /\ l \in Nat /\ DOMAIN v = 1 .. l
      /\ \A i \in 1 .. l : v[i] \in 1 .. N /\ ~Hidden(recs[v[i]]) /\ v[i] \in Nat
      /\ \A i, j \in 1 .. l : i < j => v[i] < v[j]
      /\ \A x \in 1 .. N : ~Hidden(recs[x]) => \E i \in 1 .. l : v[i] = x
  BY RecordsIs
<1>2. Enumerates(Behind(recs, r), S)
  <2> DEFINE a == r + 1
  <2>1. a \in Int /\ N \in Int /\ Behind(recs, r) = Seen(recs, set.deleted, a, N)
    BY <1>1, VisibleIs
  <2> HIDE DEF a
  <2>2. Enumerates(Behind(recs, r), Unhidden(recs, set.deleted, a, N))
    BY <1>1, <2>1, SeenIs
  <2> QED
    BY <2>2 DEF a
<1>3. \A x : x \in S <=> x \in 1 .. N /\ ~Hidden(recs[x]) /\ r < x
  BY <1>1 DEF Unhidden, Hidden, Gone
<1>0. k \in Nat /\ k <= l
  BY <1>1
<1>4. /\ \A j \in 1 .. k : v[j] <= r
      /\ \A j \in k + 1 .. l : v[j] > r
  OBVIOUS
<1> HIDE DEF v, l, N, S
<1>5. /\ s \in Seq(Nat) /\ Len(s) = l - k /\ DOMAIN s = 1 .. l - k
      /\ \A n \in 1 .. l - k : s[n] = v[k + n]
  <2>1. l - k \in Nat /\ \A n \in 1 .. l - k : v[k + n] \in Nat
    BY <1>0, <1>1
  <2>2. s \in [1 .. l - k -> Nat]
    BY <2>1
  <2> QED
    BY <2>1, <2>2
<1> HIDE DEF s
<1>6. Enumerates(s, S)
  <2>1. Increasing(s)
    <3> SUFFICES ASSUME NEW i \in 1 .. l - k, NEW j \in 1 .. l - k, i < j PROVE s[i] < s[j]
      BY <1>5 DEF Increasing
    <3>1. k + i \in 1 .. l /\ k + j \in 1 .. l /\ k + i < k + j
      BY <1>0, <1>1
    <3> QED
      BY <1>1, <1>5, <3>1
  <2>2. ASSUME NEW i \in 1 .. l - k
        PROVE  s[i] \in S
    <3>1. k + i \in 1 .. l /\ k + i \in k + 1 .. l
      BY <1>0, <1>1
    <3>2. v[k + i] \in 1 .. N /\ ~Hidden(recs[v[k + i]]) /\ r < v[k + i]
      BY <1>1, <1>4, <3>1
    <3> QED
      BY <1>3, <1>5, <3>2
  <2>3. ASSUME NEW x \in S
        PROVE  \E i \in 1 .. l - k : s[i] = x
    <3>1. x \in 1 .. N /\ r < x /\ x \in Nat
      BY <1>1, <1>3
    <3>2. PICK i \in 1 .. l : v[i] = x
      BY <1>1, <1>3
    <3>3. ~ (i <= k)
      <4> SUFFICES ASSUME i <= k PROVE FALSE
        OBVIOUS
      <4>1. i \in 1 .. k
        BY <1>0, <3>2
      <4> QED
        BY <1>4, <3>1, <3>2, <4>1
    <3>4. i - k \in 1 .. l - k /\ k + (i - k) = i
      BY <1>0, <1>1, <3>2, <3>3
    <3> QED
      BY <1>5, <3>2, <3>4
  <2> QED
    BY <1>5, <2>1, <2>2, <2>3 DEF Enumerates
<1>7. Behind(recs, r) = s
  BY <1>2, <1>6, EnumeratedOnce
<1> QED
  BY <1>5, <1>7 DEF v, l

(* The records before r are the visible ones with a smaller number. *)
LEMMA BeforeIs ==
  ASSUME NEW recs \in Seq(RecordStates), NEW r \in Nat, NEW k \in 0 .. Len(Visible(recs)),
         \A j \in 1 .. k : Visible(recs)[j] < r,
         \A j \in k + 1 .. Len(Visible(recs)) : Visible(recs)[j] >= r
  PROVE  /\ Before(recs, r) \in Seq(Nat) /\ Len(Before(recs, r)) = k
         /\ \A n \in 1 .. k : Before(recs, r)[n] = Visible(recs)[n]
<1> DEFINE v == Visible(recs)
           l == Len(v)
           N == Len(recs)
           S == Unhidden(recs, set.deleted, 1, r - 1)
           s == [n \in 1 .. k |-> v[n]]
<1>1. /\ N \in Nat /\ v \in Seq(Nat) /\ l \in Nat /\ DOMAIN v = 1 .. l
      /\ \A i \in 1 .. l : v[i] \in 1 .. N /\ ~Hidden(recs[v[i]]) /\ v[i] \in Nat
      /\ \A i, j \in 1 .. l : i < j => v[i] < v[j]
      /\ \A x \in 1 .. N : ~Hidden(recs[x]) => \E i \in 1 .. l : v[i] = x
  BY RecordsIs
<1>2. Enumerates(Before(recs, r), S)
  <2> DEFINE a == 1
             b == r - 1
  <2>1. a \in Int /\ b \in Int /\ Before(recs, r) = Seen(recs, set.deleted, a, b)
    BY <1>1, VisibleIs
  <2> HIDE DEF a, b
  <2>2. Enumerates(Before(recs, r), Unhidden(recs, set.deleted, a, b))
    BY <1>1, <2>1, SeenIs
  <2> QED
    BY <2>2 DEF a, b
<1>3. \A x : x \in S <=> x \in 1 .. N /\ ~Hidden(recs[x]) /\ x < r
  BY <1>1 DEF Unhidden, Hidden, Gone
<1>0. k \in Nat /\ k <= l
  BY <1>1
<1>4. /\ \A j \in 1 .. k : v[j] < r
      /\ \A j \in k + 1 .. l : v[j] >= r
  OBVIOUS
<1> HIDE DEF v, l, N, S
<1>5. /\ s \in Seq(Nat) /\ Len(s) = k /\ DOMAIN s = 1 .. k
      /\ \A n \in 1 .. k : s[n] = v[n] /\ n \in 1 .. l
  <2>1. \A n \in 1 .. k : v[n] \in Nat /\ n \in 1 .. l
    BY <1>0, <1>1
  <2>2. s \in [1 .. k -> Nat]
    BY <2>1
  <2> QED
    BY <1>0, <2>1, <2>2
<1> HIDE DEF s
<1>6. Enumerates(s, S)
  <2>1. Increasing(s)
    BY <1>1, <1>5 DEF Increasing
  <2>2. ASSUME NEW i \in 1 .. k
        PROVE  s[i] \in S
    BY <1>1, <1>3, <1>4, <1>5
  <2>3. ASSUME NEW x \in S
        PROVE  \E i \in 1 .. k : s[i] = x
    <3>1. x \in 1 .. N /\ x < r /\ x \in Nat
      BY <1>1, <1>3
    <3>2. PICK i \in 1 .. l : v[i] = x
      BY <1>1, <1>3
    <3>3. i <= k
      <4> SUFFICES ASSUME ~ (i <= k) PROVE FALSE
        OBVIOUS
      <4>1. i \in k + 1 .. l
        BY <1>0, <1>1, <3>2
      <4> QED
        BY <1>4, <3>1, <3>2, <4>1
    <3>4. i \in 1 .. k
      BY <1>0, <1>1, <3>2, <3>3
    <3> QED
      BY <1>5, <3>2, <3>4
  <2> QED
    BY <1>5, <2>1, <2>2, <2>3 DEF Enumerates
<1>7. Before(recs, r) = s
  BY <1>2, <1>6, EnumeratedOnce
<1> QED
  BY <1>5, <1>7 DEF v, l

(* The page of v from i on. *)
PageFrom(v, i) == SubSeq(v, i, Cursor!Least(i + PageLength - 1, Len(v)))

(* It has the numbers that follow, as many as there is room for. *)
LEMMA PageIs ==
  ASSUME NEW v \in Seq(Nat), NEW i \in 1 .. Len(v)
  PROVE  /\ PageFrom(v, i) \in Seq(Nat) /\ Len(PageFrom(v, i)) \in 1 .. PageLength
         /\ DOMAIN PageFrom(v, i) = 1 .. Len(PageFrom(v, i))
         /\ i + Len(PageFrom(v, i)) - 1 <= Len(v)
         /\ Len(PageFrom(v, i)) < PageLength => i + Len(PageFrom(v, i)) - 1 = Len(v)
         /\ \A j \in 1 .. Len(PageFrom(v, i)) : PageFrom(v, i)[j] = v[i + j - 1]
         /\ \A n : PageFrom(v, i) \in Cursor!Pages(v, n)
<1> DEFINE l == Len(v)
           m == Cursor!Least(i + PageLength - 1, l)
           p == PageFrom(v, i)
<1>1. l \in Nat /\ i \in Nat /\ 1 <= i /\ i <= l /\ DOMAIN v = 1 .. l
  OBVIOUS
<1>2. PageLength \in Nat /\ PageLength > 2
  BY BrowseAssumption
<1>3. \A n : p \in Cursor!Pages(v, n)
  BY <1>1 DEF Cursor!Pages, PageFrom
<1>4. /\ m \in Int /\ i <= m /\ m <= l /\ m - i + 1 <= PageLength
      /\ m - i + 1 < PageLength => m = l
  <2> HIDE DEF l
  <2> QED
    BY <1>1, <1>2 DEF Cursor!Least
<1>5. p = SubSeq(v, i, m)
  BY DEF PageFrom
<1>6. \A x \in i .. m : v[x] \in Nat
  <2> HIDE DEF l, m
  <2> SUFFICES ASSUME NEW x \in i .. m PROVE v[x] \in Nat
    OBVIOUS
  <2>1. x \in 1 .. l
    BY <1>1, <1>4
  <2> QED
    BY <2>1, ElementOfSeq DEF l
<1> HIDE DEF l, m, p
<1>7. /\ p \in Seq(Nat) /\ Len(p) = m - i + 1
      /\ \A j \in 1 .. m - i + 1 : p[j] = v[i + j - 1]
  BY <1>1, <1>4, <1>5, <1>6, SubSeqProperties
<1>8. Len(p) \in 1 .. PageLength /\ i + Len(p) - 1 <= l /\ (Len(p) < PageLength => i + Len(p) - 1 = l)
  BY <1>1, <1>2, <1>4, <1>7
<1>9. DOMAIN p = 1 .. Len(p) /\ \A j \in 1 .. Len(p) : p[j] = v[i + j - 1]
  BY <1>7
<1> QED
  BY <1>3, <1>7, <1>8, <1>9 DEF p, l

(* There are no other pages. *)
LEMMA PagesAre ==
  ASSUME NEW v, NEW n, NEW p \in Cursor!Pages(v, n)
  PROVE  \/ \E i \in DOMAIN v : p = PageFrom(v, i)
         \/ v = <<>> /\ p \in {<<>>, <<n + 1>>}
BY DEF Cursor!Pages, PageFrom

(* Two sequences of numbers are the same if their elements are. *)
LEMMA SameNumbers ==
  ASSUME NEW s \in Seq(Nat), NEW t \in Seq(Nat), Len(s) = Len(t),
         \A j \in 1 .. Len(s) : s[j] = t[j]
  PROVE  s = t
BY SeqEqual

(* The records around a visible one. *)
LEMMA AroundRecord ==
  ASSUME NEW recs \in Seq(RecordStates), NEW i \in 1 .. Len(Visible(recs))
  PROVE  LET v == Visible(recs)
         IN  /\ v[i] \in Nat /\ v[i] \in 1 .. Len(recs)
             /\ Behind(recs, v[i]) \in Seq(Nat) /\ Len(Behind(recs, v[i])) = Len(v) - i
             /\ \A n \in 1 .. Len(v) - i : Behind(recs, v[i])[n] = v[i + n]
             /\ Before(recs, v[i]) \in Seq(Nat) /\ Len(Before(recs, v[i])) = i - 1
             /\ \A n \in 1 .. i - 1 : Before(recs, v[i])[n] = v[n]
<1> DEFINE v == Visible(recs)
           l == Len(v)
           r == v[i]
<1>1. /\ l \in Nat /\ \A j \in 1 .. l : v[j] \in Nat /\ v[j] \in 1 .. Len(recs)
      /\ \A j, k \in 1 .. l : j < k => v[j] < v[k]
  BY RecordsIs
<1>2. i \in Nat /\ 1 <= i /\ i <= l
  BY <1>1
<1> HIDE DEF v, l
<1>3. r \in Nat /\ r \in 1 .. Len(recs)
  BY <1>1, <1>2
<1>4. /\ i \in 0 .. l /\ \A j \in 1 .. i : v[j] <= r
      /\ \A j \in i + 1 .. l : v[j] > r
  <2>1. \A j \in 1 .. l : v[j] \in Nat /\ (j < i => v[j] < r) /\ (i < j => r < v[j])
    BY <1>1, <1>2
  <2>2. \A j \in 1 .. i : j \in 1 .. l /\ (j < i \/ j = i)
    BY <1>1, <1>2
  <2>3. \A j \in i + 1 .. l : j \in 1 .. l /\ i < j
    BY <1>1, <1>2
  <2>4. i \in 0 .. l
    BY <1>1, <1>2
  <2> HIDE DEF r
  <2>5. r = v[i]
    BY DEF r
  <2> QED
    BY <1>3, <2>1, <2>2, <2>3, <2>4, <2>5
<1>5. /\ i - 1 \in 0 .. l /\ \A j \in 1 .. i - 1 : v[j] < r
      /\ \A j \in (i - 1) + 1 .. l : v[j] >= r
  <2>1. \A j \in 1 .. l : v[j] \in Nat /\ (j < i => v[j] < r) /\ (i < j => r < v[j])
    BY <1>1, <1>2
  <2>2. \A j \in 1 .. i - 1 : j \in 1 .. l /\ j < i
    BY <1>1, <1>2
  <2>3. \A j \in (i - 1) + 1 .. l : j \in 1 .. l /\ (i < j \/ j = i)
    BY <1>1, <1>2
  <2>4. i - 1 \in 0 .. l
    BY <1>1, <1>2
  <2> HIDE DEF r
  <2>5. r = v[i]
    BY DEF r
  <2> QED
    BY <1>3, <2>1, <2>2, <2>3, <2>4, <2>5
<1> HIDE DEF r
<1>6. /\ Behind(recs, r) \in Seq(Nat) /\ Len(Behind(recs, r)) = l - i
      /\ \A n \in 1 .. l - i : Behind(recs, r)[n] = v[i + n]
  BY <1>3, <1>4, BehindIs DEF v, l
<1>7. /\ Before(recs, r) \in Seq(Nat) /\ Len(Before(recs, r)) = i - 1
      /\ \A n \in 1 .. i - 1 : Before(recs, r)[n] = v[n]
  <2> DEFINE k == i - 1
  <2>1. k \in 0 .. l /\ (\A j \in 1 .. k : v[j] < r) /\ \A j \in k + 1 .. l : v[j] >= r
    BY <1>5
  <2> HIDE DEF k
  <2>2. /\ Before(recs, r) \in Seq(Nat) /\ Len(Before(recs, r)) = k
        /\ \A n \in 1 .. k : Before(recs, r)[n] = v[n]
    BY <1>3, <2>1, BeforeIs DEF v, l
  <2> QED
    BY <2>2 DEF k
<1> QED
  BY <1>3, <1>6, <1>7 DEF r, v, l

(* SKIP from a visible record. *)
LEMMA SkipIs ==
  ASSUME NEW recs \in Seq(RecordStates), NEW i \in 1 .. Len(Visible(recs)), NEW n \in Int
  PROVE  LET v == Visible(recs)
         IN  Skip(recs, v[i], n) = IF i + n > Len(v) THEN Eof(recs)
                                   ELSE IF i + n < 1 THEN v[1] ELSE v[i + n]
<1> DEFINE v == Visible(recs)
           l == Len(v)
           r == v[i]
<1>1. l \in Nat /\ i \in Nat /\ 1 <= i /\ i <= l /\ v # <<>>
  BY RecordsIs
<1>2. /\ Behind(recs, r) \in Seq(Nat) /\ Len(Behind(recs, r)) = l - i
      /\ \A x \in 1 .. l - i : Behind(recs, r)[x] = v[i + x]
      /\ Before(recs, r) \in Seq(Nat) /\ Len(Before(recs, r)) = i - 1
      /\ \A x \in 1 .. i - 1 : Before(recs, r)[x] = v[x]
  BY AroundRecord
<1>3. GoTop(recs) = v[1]
  BY <1>1 DEF GoTop
<1> HIDE DEF v, l, r
<1>4. CASE n = 0
  BY <1>1, <1>4 DEF Skip, r, v, l
<1>5. CASE n > 0
  <2>1. Skip(recs, r, n) = IF n <= l - i THEN Behind(recs, r)[n] ELSE Eof(recs)
    BY <1>2, <1>5 DEF Skip
  <2>2. CASE n <= l - i
    <3>1. n \in 1 .. l - i /\ ~ (i + n > l) /\ ~ (i + n < 1)
      BY <1>1, <1>5, <2>2
    <3> QED
      BY <1>2, <2>1, <2>2, <3>1 DEF r, v, l
  <2>3. CASE ~ (n <= l - i)
    <3>1. i + n > l
      BY <1>1, <1>5, <2>3
    <3> QED
      BY <2>1, <2>3, <3>1 DEF r, v, l
  <2> QED
    BY <2>2, <2>3
<1>6. CASE n < 0
  <2> DEFINE x == (i - 1) + n + 1
  <2>0. n # 0 /\ ~ (n > 0) /\ x = i + n /\ ~ (i + n > l) /\ x \in Int
    BY <1>1, <1>6
  <2>1. Skip(recs, r, n) = IF -n <= i - 1 THEN Before(recs, r)[x] ELSE v[1]
    BY <1>2, <1>3, <2>0 DEF Skip
  <2> HIDE DEF x
  <2>2. CASE -n <= i - 1
    <3>1. x \in 1 .. i - 1 /\ ~ (i + n < 1)
      BY <1>1, <1>6, <2>2, <2>0
    <3>2. Before(recs, r)[x] = v[i + n]
      BY <1>2, <2>0, <3>1
    <3> QED
      BY <2>1, <2>2, <2>0, <3>1, <3>2 DEF r, v, l
  <2>3. CASE ~ (-n <= i - 1)
    <3>1. i + n < 1
      BY <1>1, <1>6, <2>3
    <3> QED
      BY <2>1, <2>3, <2>0, <3>1 DEF r, v, l
  <2> QED
    BY <2>2, <2>3
<1> QED
  BY <1>4, <1>5, <1>6

(* A place in the file has k visible records in front of it. *)
InFront(v, r, k) ==
  /\ \A j \in 1 .. k : v[j] < r
  /\ \A j \in k + 1 .. Len(v) : v[j] >= r

(* A number is behind so many of the visible records. *)
LEMMA InFrontExists ==
  ASSUME NEW recs \in Seq(RecordStates), NEW r \in Nat
  PROVE  \E k \in 0 .. Len(Visible(recs)) : InFront(Visible(recs), r, k)
<1> DEFINE v == Visible(recs)
           S == {v[i] : i \in DOMAIN v}
<1>1. Enumerates(v, S)
  <2>1. v \in Seq(Nat) /\ Increasing(v)
    BY RecordsIs DEF Increasing
  <2> HIDE DEF v
  <2> QED
    BY <2>1 DEF Enumerates
<1> HIDE DEF v, S
<1>2. \E k \in 0 .. Len(v) : /\ \A j \in 1 .. k : v[j] < r
                             /\ \A j \in k + 1 .. Len(v) : v[j] >= r
  BY <1>1, EnumeratedAround
<1> QED
  BY <1>2 DEF InFront, v

(* SKIP from a place that is no visible record. *)
LEMMA SkipHidden ==
  ASSUME NEW recs \in Seq(RecordStates), NEW r \in Nat, NEW k \in 0 .. Len(Visible(recs)),
         InFront(Visible(recs), r, k), \A j \in 1 .. Len(Visible(recs)) : Visible(recs)[j] # r,
         NEW n \in Int
  PROVE  LET v == Visible(recs)
         IN  Skip(recs, r, n) = IF n = 0 THEN r
                                ELSE IF n > 0 THEN IF k + n <= Len(v) THEN v[k + n] ELSE Eof(recs)
                                ELSE IF k + n >= 0 THEN v[k + n + 1] ELSE GoTop(recs)
<1> DEFINE v == Visible(recs)
           l == Len(v)
<1>1. l \in Nat /\ k \in Nat /\ k <= l /\ \A j \in 1 .. l : v[j] \in Nat
  BY RecordsIs
<1>2. /\ \A j \in 1 .. k : v[j] < r /\ v[j] <= r
      /\ \A j \in k + 1 .. l : v[j] >= r /\ v[j] > r
  <2> HIDE DEF v, l
  <2>1. \A j \in 1 .. k : j \in 1 .. l
    BY <1>1
  <2>2. \A j \in k + 1 .. l : j \in 1 .. l
    BY <1>1
  <2> QED
    BY <1>1, <2>1, <2>2 DEF InFront, v, l
<1>3. /\ Behind(recs, r) \in Seq(Nat) /\ Len(Behind(recs, r)) = l - k
      /\ \A x \in 1 .. l - k : Behind(recs, r)[x] = v[k + x]
  BY <1>2, BehindIs
<1>4. /\ Before(recs, r) \in Seq(Nat) /\ Len(Before(recs, r)) = k
      /\ \A x \in 1 .. k : Before(recs, r)[x] = v[x]
  BY <1>2, BeforeIs
<1> HIDE DEF v, l
<1>5. CASE n = 0
  BY <1>5 DEF Skip
<1>6. CASE n > 0
  <2>1. Skip(recs, r, n) = IF n <= l - k THEN Behind(recs, r)[n] ELSE Eof(recs)
    BY <1>3, <1>6 DEF Skip
  <2>2. CASE n <= l - k
    <3>1. n \in 1 .. l - k /\ k + n <= l
      BY <1>1, <1>6, <2>2
    <3> QED
      BY <1>3, <1>6, <2>1, <2>2, <3>1 DEF v, l
  <2>3. CASE ~ (n <= l - k)
    <3>1. ~ (k + n <= l)
      BY <1>1, <1>6, <2>3
    <3> QED
      BY <1>6, <2>1, <2>3, <3>1 DEF v, l
  <2> QED
    BY <2>2, <2>3
<1>7. CASE n < 0
  <2> DEFINE x == k + n + 1
  <2>0. n # 0 /\ ~ (n > 0) /\ x \in Int
    BY <1>1, <1>7
  <2>1. Skip(recs, r, n) = IF -n <= k THEN Before(recs, r)[x] ELSE GoTop(recs)
    BY <1>4, <2>0 DEF Skip
  <2>2. CASE -n <= k
    <3>1. x \in 1 .. k /\ k + n >= 0
      BY <1>1, <1>7, <2>2
    <3> HIDE DEF x
    <3>2. Before(recs, r)[x] = v[x]
      BY <1>4, <3>1
    <3> QED
      BY <2>0, <2>1, <2>2, <3>1, <3>2 DEF x, v
  <2>3. CASE ~ (-n <= k)
    <3>1. ~ (k + n >= 0)
      BY <1>1, <1>7, <2>3
    <3> QED
      BY <2>0, <2>1, <2>3, <3>1
  <2> QED
    BY <2>2, <2>3
<1> QED
  BY <1>5, <1>6, <1>7

(* A page is drawn from a visible record on, or shows the row behind an    *)
(* empty file.                                                             *)
LEMMA UpdateAt ==
  ASSUME NEW recs \in Seq(RecordStates), NEW b, NEW i \in 1 .. Len(Visible(recs)),
         b \in [rangeMax : Seq(Nat), rows : Nat, sel : Nat, atEnd : BOOLEAN, value : Nat]
  PROVE  LET v == Visible(recs)
             c == BrowseUpdate(recs, b, v[i])
         IN  /\ c \in [rangeMax : Seq(Nat), rows : Nat, sel : Nat, atEnd : BOOLEAN, value : Nat]
             /\ c.rangeMax = PageFrom(v, i) /\ c.rows = Len(PageFrom(v, i)) /\ c.sel = 0
             /\ c.value = b.value
<1> DEFINE v == Visible(recs)
           l == Len(v)
           r == v[i]
           p == PageFrom(v, i)
           B == Behind(recs, r)
           more == IF Len(B) < PageLength THEN Len(B) ELSE PageLength - 1
           q == <<r>> \o SubSeq(B, 1, more)
           c == BrowseUpdate(recs, b, r)
<1>1. l \in Nat /\ i \in Nat /\ 1 <= i /\ i <= l /\ v \in Seq(Nat)
  BY RecordsIs
<1>2. PageLength \in Nat /\ PageLength > 2
  BY BrowseAssumption
<1>3. /\ B \in Seq(Nat) /\ Len(B) = l - i /\ r \in Nat
      /\ \A x \in 1 .. l - i : B[x] = v[i + x]
  BY AroundRecord
<1>4. /\ p \in Seq(Nat) /\ Len(p) \in 1 .. PageLength
      /\ i + Len(p) - 1 <= l
      /\ Len(p) < PageLength => i + Len(p) - 1 = l
      /\ \A j \in 1 .. Len(p) : p[j] = v[i + j - 1]
  BY <1>1, PageIs
<1>5. c = [b EXCEPT !.rangeMax = q, !.rows = Len(q), !.sel = 0, !.atEnd = Len(B) < PageLength]
  BY Zenon DEF BrowseUpdate
<1> HIDE DEF v, l, r, p, B
<1>6. more \in Nat /\ more <= l - i /\ Len(p) = more + 1
  <2>1. more = IF l - i < PageLength THEN l - i ELSE PageLength - 1
    BY <1>3
  <2> HIDE DEF more
  <2>2. l - i \in Nat /\ Len(p) \in Nat
    BY <1>1, <1>4
  <2>3. CASE l - i < PageLength
    <3> DEFINE n == Len(p)
    <3>1. /\ n \in Nat /\ n <= PageLength /\ i + n - 1 <= l
          /\ n < PageLength => i + n - 1 = l
      BY <1>2, <1>4
    <3> HIDE DEF n
    <3>2. n = l - i + 1
      BY <1>1, <1>2, <2>3, <3>1
    <3> QED
      BY <1>1, <2>1, <2>2, <2>3, <3>2 DEF n
  <2>4. CASE ~ (l - i < PageLength)
    BY <1>1, <1>2, <1>4, <2>1, <2>2, <2>4
  <2> QED
    BY <2>3, <2>4
<1> HIDE DEF more
<1>7. /\ SubSeq(B, 1, more) \in Seq(Nat) /\ Len(SubSeq(B, 1, more)) = more
      /\ \A j \in 1 .. more : SubSeq(B, 1, more)[j] = v[i + j]
  <2>1. DOMAIN B = 1 .. Len(B) /\ \A j \in 1 .. more : j \in 1 .. l - i /\ B[j] \in Nat
    <3>1. DOMAIN B = 1 .. Len(B) /\ \A j \in 1 .. Len(B) : B[j] \in Nat
      BY <1>3
    <3>2. \A j \in 1 .. more : j \in 1 .. l - i
      BY <1>1, <1>6
    <3> QED
      BY <1>3, <3>1, <3>2
  <2> DEFINE k == 1
  <2>2. k \in Int /\ \A j \in k .. more : B[j] \in Nat
    BY <2>1
  <2>3. k = 1
    OBVIOUS
  <2> HIDE DEF k
  <2>4. /\ SubSeq(B, k, more) \in Seq(Nat)
        /\ Len(SubSeq(B, k, more)) = IF k <= more THEN more - k + 1 ELSE 0
        /\ \A j \in 1 .. more - k + 1 : SubSeq(B, k, more)[j] = B[k + j - 1]
    BY <1>6, <2>2, SubSeqProperties
  <2>5. \A j \in 1 .. more : j \in 1 .. more - k + 1 /\ k + j - 1 = j
    BY <1>6, <2>3
  <2>6. Len(SubSeq(B, k, more)) = more
    BY <1>6, <2>3, <2>4
  <2>7. \A j \in 1 .. more : SubSeq(B, k, more)[j] = v[i + j]
    BY <1>3, <2>1, <2>4, <2>5
  <2> QED
    BY <2>3, <2>4, <2>6, <2>7
<1>8. q \in Seq(Nat) /\ Len(q) = more + 1 /\ \A j \in 1 .. Len(q) : q[j] = v[i + j - 1]
  <2> DEFINE s == <<r>>
             t == SubSeq(B, 1, more)
  <2>1. s \in Seq(Nat) /\ Len(s) = 1 /\ s[1] = r
    BY <1>3
  <2>2. t \in Seq(Nat) /\ Len(t) = more /\ \A j \in 1 .. more : t[j] = v[i + j]
    BY <1>7
  <2>3. q = s \o t
    OBVIOUS
  <2> HIDE DEF s, t, q
  <2>4. /\ q \in Seq(Nat) /\ Len(q) = 1 + more
        /\ \A j \in 1 .. 1 + more : q[j] = IF j <= 1 THEN s[j] ELSE t[j - 1]
    <3>1. /\ q \in Seq(Nat) /\ Len(q) = Len(s) + Len(t)
          /\ \A j \in 1 .. Len(s) + Len(t) : q[j] = IF j <= Len(s) THEN s[j] ELSE t[j - Len(s)]
      BY <2>1, <2>2, <2>3, ConcatProperties
    <3> QED
      BY <2>1, <2>2, <3>1
  <2>5. ASSUME NEW j \in 1 .. more + 1
        PROVE  q[j] = v[i + j - 1]
    <3>1. CASE j = 1
      <4>1. i + j - 1 = i
        BY <1>1, <3>1
      <4> QED
        BY <1>6, <2>1, <2>4, <3>1, <4>1 DEF r
    <3>2. CASE j # 1
      <4>1. j - 1 \in 1 .. more /\ ~ (j <= 1) /\ j \in 1 .. 1 + more /\ i + (j - 1) = i + j - 1
        BY <1>1, <1>6, <3>2
      <4> QED
        BY <2>2, <2>4, <4>1
    <3> QED
      BY <3>1, <3>2
  <2>6. Len(q) = more + 1
    BY <1>6, <2>4
  <2> QED
    BY <2>4, <2>5, <2>6
<1> HIDE DEF q
<1>9. q = p
  <2>1. Len(q) = Len(p) /\ \A j \in 1 .. Len(q) : q[j] = p[j]
    BY <1>4, <1>6, <1>8
  <2> QED
    BY <1>4, <1>8, <2>1, SameNumbers
<1> HIDE DEF c
<1>10. /\ c \in [rangeMax : Seq(Nat), rows : Nat, sel : Nat, atEnd : BOOLEAN, value : Nat]
       /\ c.rangeMax = q /\ c.rows = Len(q) /\ c.sel = 0 /\ c.value = b.value
  <2>1. Len(q) \in Nat /\ (Len(B) < PageLength) \in BOOLEAN
    BY <1>8
  <2> QED
    BY <1>5, <1>8, <2>1
<1> QED
  BY <1>9, <1>10 DEF c, p, r, v

(* A list view and the numbers of n records' file. *)
Views == [rangeMax : Seq(Nat), rows : Nat, sel : Nat, atEnd : BOOLEAN, value : Nat]
IsView(b, n) ==
  /\ b \in Views
  /\ b.rows = 0 \/ b.rows = Len(b.rangeMax)
  /\ b.sel \in 0 .. b.rows
  /\ Len(b.rangeMax) <= PageLength
  /\ \A j \in 1 .. Len(b.rangeMax) : b.rangeMax[j] \in 1 .. n + 1

(* It shows a page of the visible records v. *)
OnPage(b, v, n) ==
  IsView(b, n) /\ b.rows = Len(b.rangeMax) /\ b.rangeMax \in Cursor!Pages(v, n)

Screen(b) == SubSeq(b.rangeMax, 1, b.rows)

(* What is on the screen, and the record under the cursor. *)
LEMMA ScreenIs ==
  ASSUME NEW b, NEW n \in Nat, IsView(b, n)
  PROVE  /\ Screen(b) = IF b.rows = 0 THEN <<>> ELSE b.rangeMax
         /\ b.rangeMax \in Seq(Nat) /\ b.rows \in Nat /\ Len(b.rangeMax) \in Nat
         /\ GetValue(b) \in 0 .. n + 1
         /\ b.sel = 0 => GetValue(b) = 0
         /\ b.sel # 0 => /\ GetValue(b) = b.rangeMax[b.sel] /\ b.sel \in 1 .. Len(b.rangeMax)
                         /\ b.rows = Len(b.rangeMax) /\ b.sel \in Nat /\ b.rows # 0
                         /\ GetValue(b) \in 1 .. n + 1
         /\ GetValue(b) \in Cursor!Members(Screen(b)) \cup {0}
<1>1. /\ b.rangeMax \in Seq(Nat) /\ b.rows \in Nat /\ Len(b.rangeMax) \in Nat /\ b.sel \in Nat
      /\ b.rows = 0 \/ b.rows = Len(b.rangeMax)
      /\ b.sel \in 0 .. b.rows
      /\ \A j \in 1 .. Len(b.rangeMax) : b.rangeMax[j] \in 1 .. n + 1
      /\ DOMAIN b.rangeMax = 1 .. Len(b.rangeMax)
  BY DEF IsView, Views
<1>2. Screen(b) = IF b.rows = 0 THEN <<>> ELSE b.rangeMax
  <2>1. CASE b.rows = 0
    BY <1>1, <2>1, SubSeqEmpty DEF Screen
  <2>2. CASE b.rows # 0
    BY <1>1, <2>2, SubSeqFull DEF Screen
  <2> QED
    BY <2>1, <2>2
<1>3. b.sel = 0 => GetValue(b) = 0
  BY DEF GetValue
<1>4. b.sel # 0 => /\ GetValue(b) = b.rangeMax[b.sel] /\ b.sel \in 1 .. Len(b.rangeMax)
                   /\ b.rows = Len(b.rangeMax) /\ b.sel \in Nat /\ b.rows # 0
                   /\ GetValue(b) \in 1 .. n + 1
  <2> SUFFICES ASSUME b.sel # 0
               PROVE  /\ GetValue(b) = b.rangeMax[b.sel] /\ b.sel \in 1 .. Len(b.rangeMax)
                      /\ b.rows = Len(b.rangeMax) /\ b.sel \in Nat /\ b.rows # 0
                      /\ GetValue(b) \in 1 .. n + 1
    OBVIOUS
  <2>1. GetValue(b) = b.rangeMax[b.sel]
    BY DEF GetValue
  <2>2. b.rows # 0
    BY <1>1
  <2>3. b.sel \in 1 .. Len(b.rangeMax)
    BY <1>1, <2>2
  <2> QED
    BY <1>1, <2>1, <2>2, <2>3
<1>5. GetValue(b) \in 0 .. n + 1
  <2>1. CASE b.sel = 0
    BY <1>3, <2>1
  <2>2. CASE b.sel # 0
    BY <1>4, <2>2
  <2> QED
    BY <2>1, <2>2
<1>6. GetValue(b) \in Cursor!Members(Screen(b)) \cup {0}
  <2>1. CASE b.sel = 0
    BY <1>3, <2>1
  <2>2. CASE b.sel # 0
    BY <1>1, <1>2, <1>4, <2>2 DEF Cursor!Members
  <2> QED
    BY <2>1, <2>2
<1> QED
  BY <1>1, <1>2, <1>3, <1>4, <1>5, <1>6

(* The selection of a row. *)
LEMMA SetCurselIs ==
  ASSUME NEW b, NEW n \in Nat, IsView(b, n), NEW row \in Int
  PROVE  LET c == SetCursel(b, row)
         IN  /\ IsView(c, n)
             /\ c.rangeMax = b.rangeMax /\ c.rows = b.rows
             /\ Screen(c) = Screen(b)
             /\ row \in 1 .. b.rows => c.sel = row /\ GetValue(c) = b.rangeMax[row]
             /\ row \notin 1 .. b.rows => c = b
<1> DEFINE c == SetCursel(b, row)
<1>1. CASE row \in 1 .. b.rows
  <2>1. b \in Views /\ b.rows \in Nat
    BY DEF IsView, Views
  <2>2. row \in Nat /\ row # 0 /\ row \in 0 .. b.rows
    BY <1>1, <2>1
  <2>3. c = [b EXCEPT !.sel = row]
    BY <1>1 DEF SetCursel
  <2> HIDE DEF c
  <2>4. c \in Views /\ c.rangeMax = b.rangeMax /\ c.rows = b.rows /\ c.sel = row
    BY <2>1, <2>2, <2>3 DEF Views
  <2>5. IsView(c, n)
    BY <2>2, <2>4 DEF IsView
  <2>6. Screen(c) = Screen(b) /\ GetValue(c) = b.rangeMax[row]
    BY <2>2, <2>4 DEF Screen, GetValue
  <2> QED
    BY <1>1, <2>4, <2>5, <2>6 DEF c
<1>2. CASE row \notin 1 .. b.rows
  <2>1. c = b
    BY <1>2 DEF SetCursel
  <2> QED
    BY <1>2, <2>1
<1> QED
  BY <1>1, <1>2

(* The selection of a record. *)
LEMMA SelectRecordIs ==
  ASSUME NEW b, NEW n \in Nat, IsView(b, n), b.rows = Len(b.rangeMax), NEW r
  PROVE  LET c == SelectRecord(b, r)
         IN  /\ IsView(c, n)
             /\ c.rangeMax = b.rangeMax /\ c.rows = b.rows
             /\ (\E j \in 1 .. Len(b.rangeMax) : b.rangeMax[j] = r) => GetValue(c) = r
             /\ ~ (\E j \in 1 .. Len(b.rangeMax) : b.rangeMax[j] = r) => c = b
<1> DEFINE same == {i \in DOMAIN b.rangeMax : b.rangeMax[i] = r}
           least == CHOOSE i \in same : \A j \in same : i <= j
           c == SelectRecord(b, r)
<1>1. /\ DOMAIN b.rangeMax = 1 .. Len(b.rangeMax) /\ Len(b.rangeMax) \in Nat
      /\ same \subseteq Nat /\ \A j \in same : j \in 1 .. b.rows
  BY DEF IsView, Views
<1>2. c = IF same = {} THEN b ELSE SetCursel(b, least)
  BY Zenon DEF SelectRecord
<1>3. same # {} <=> \E j \in 1 .. Len(b.rangeMax) : b.rangeMax[j] = r
  BY <1>1
<1>4. CASE same = {}
  BY <1>2, <1>3, <1>4
<1>5. CASE same # {}
  <2>1. least \in same
    <3> HIDE DEF same
    <3>1. \E i \in same : \A j \in same : i <= j
      BY <1>1, <1>5, LeastNat
    <3> QED
      BY <3>1, Zenon
  <2>2. least \in Int /\ least \in 1 .. b.rows /\ b.rangeMax[least] = r
    <3> HIDE DEF least
    <3>1. b.rangeMax[least] = r
      BY <2>1
    <3> HIDE DEF same
    <3>2. least \in Nat /\ least \in 1 .. b.rows
      BY <1>1, <2>1
    <3> QED
      BY <3>1, <3>2
  <2> HIDE DEF same, least, c
  <2>3. c = SetCursel(b, least)
    BY <1>2, <1>5
  <2>4. /\ IsView(c, n) /\ c.rangeMax = b.rangeMax /\ c.rows = b.rows
        /\ GetValue(c) = b.rangeMax[least]
    BY <2>2, <2>3, SetCurselIs
  <2> QED
    BY <1>3, <1>5, <2>2, <2>4 DEF c
<1> QED
  BY <1>4, <1>5

(* A page from a visible record on is one of the pages. *)
LEMMA DrawnAt ==
  ASSUME NEW recs \in Seq(RecordStates), NEW b \in Views, NEW i \in 1 .. Len(Visible(recs))
  PROVE  LET v == Visible(recs)
             c == BrowseUpdate(recs, b, v[i])
         IN  /\ OnPage(c, v, Len(recs)) /\ c.rangeMax = PageFrom(v, i)
             /\ c.sel = 0 /\ c.rows = Len(PageFrom(v, i)) /\ c.value = b.value
<1> DEFINE v == Visible(recs)
           l == Len(v)
           c == BrowseUpdate(recs, b, v[i])
           p == PageFrom(v, i)
<1>1. /\ v \in Seq(Nat) /\ l \in Nat /\ Len(recs) \in Nat /\ i \in Nat /\ 1 <= i /\ i <= l
      /\ \A j \in 1 .. l : v[j] \in 1 .. Len(recs)
  BY RecordsIs
<1>2. c \in Views /\ c.rangeMax = p /\ c.rows = Len(p) /\ c.sel = 0 /\ c.value = b.value
  BY UpdateAt DEF Views
<1>3. PageLength \in Nat
  BY BrowseAssumption
<1> HIDE DEF v, l, c, p
<1>4. /\ p \in Seq(Nat) /\ Len(p) \in 1 .. PageLength /\ i + Len(p) - 1 <= l
      /\ \A j \in 1 .. Len(p) : p[j] = v[i + j - 1]
      /\ \A n : p \in Cursor!Pages(v, n)
  BY <1>1, PageIs DEF p, l
<1>5. ASSUME NEW j \in 1 .. Len(p)
      PROVE  p[j] \in 1 .. Len(recs) + 1
  <2>1. i + j - 1 \in 1 .. l
    BY <1>1, <1>4
  <2>2. v[i + j - 1] \in 1 .. Len(recs)
    BY <1>1, <2>1
  <2> QED
    BY <1>1, <1>4, <2>2
<1>6. OnPage(c, v, Len(recs))
  BY <1>2, <1>3, <1>4, <1>5 DEF OnPage, IsView
<1> QED
  BY <1>2, <1>6 DEF v, c, p

(* If no record is visible, a page shows the row behind the file. *)
LEMMA DrawnAtNone ==
  ASSUME NEW recs \in Seq(RecordStates), NEW b \in Views, Visible(recs) = <<>>, NEW n \in Int
  PROVE  LET c == BrowseUpdate(recs, b, Skip(recs, Eof(recs), n))
         IN  /\ GoTop(recs) = Eof(recs) /\ GoBottom(recs) = Eof(recs)
             /\ Skip(recs, Eof(recs), n) = Eof(recs)
             /\ OnPage(c, Visible(recs), Len(recs)) /\ c.rangeMax = <<Eof(recs)>>
             /\ c.sel = 0 /\ c.rows = 1 /\ c.value = b.value
<1> DEFINE r == Eof(recs)
           c == BrowseUpdate(recs, b, r)
           B == Behind(recs, r)
           A == Before(recs, r)
<1>1. Len(recs) \in Nat /\ r = Len(recs) + 1 /\ r \in Nat /\ Len(Visible(recs)) = 0
  BY RecordsIs
<1>2. PageLength \in Nat /\ PageLength > 2
  BY BrowseAssumption
<1>3. Len(B) = 0 /\ Len(A) = 0
  <2> DEFINE k == 0
  <2>1. k \in 0 .. Len(Visible(recs)) /\ 1 .. k = {} /\ k + 1 .. Len(Visible(recs)) = {}
    BY <1>1
  <2>2. Len(Visible(recs)) - k = 0 /\ k = 0
    BY <1>1
  <2> HIDE DEF k, r
  <2>3. Len(B) = Len(Visible(recs)) - k
    BY <1>1, <2>1, BehindIs
  <2>4. Len(A) = k
    BY <1>1, <2>1, BeforeIs
  <2> QED
    BY <2>2, <2>3, <2>4
<1>4. GoTop(recs) = r /\ GoBottom(recs) = r
  BY DEF GoTop, GoBottom
<1>5. Skip(recs, r, n) = r
  <2> HIDE DEF r
  <2>1. ~ (n > 0 /\ n <= Len(B)) /\ ~ (n < 0 /\ -n <= Len(A))
    BY <1>3
  <2>2. Eof(recs) = r
    BY DEF r
  <2> QED
    BY <1>3, <1>4, <2>1, <2>2 DEF Skip
<1>6. c.rangeMax = <<r>> /\ c.sel = 0 /\ c.rows = 1 /\ c.value = b.value /\ c \in Views
  <2> HIDE DEF B, r
  <2>1. SubSeq(B, 1, 0) = <<>>
    BY SubSeqEmpty
  <2>2. <<r>> \o <<>> = <<r>> /\ Len(<<r>>) = 1 /\ <<r>> \in Seq(Nat)
    BY <1>1
  <2> DEFINE more == IF Len(B) < PageLength THEN Len(B) ELSE PageLength - 1
  <2>3. more = 0
    BY <1>2, <1>3
  <2>4. c = [b EXCEPT !.rangeMax = <<r>> \o SubSeq(B, 1, more),
                      !.rows = Len(<<r>> \o SubSeq(B, 1, more)), !.sel = 0,
                      !.atEnd = Len(B) < PageLength]
    BY Zenon DEF BrowseUpdate, B
  <2> HIDE DEF more, c
  <2>5. c = [b EXCEPT !.rangeMax = <<r>>, !.rows = 1, !.sel = 0, !.atEnd = Len(B) < PageLength]
    BY <2>1, <2>2, <2>3, <2>4
  <2>6. (Len(B) < PageLength) \in BOOLEAN
    OBVIOUS
  <2> QED
    BY <1>1, <2>2, <2>5, <2>6 DEF Views
<1>7. c.rangeMax \in Cursor!Pages(Visible(recs), Len(recs))
  BY <1>1, <1>6 DEF Cursor!Pages
<1>8. OnPage(c, Visible(recs), Len(recs))
  <2> DEFINE q == <<r>>
  <2>1. Len(q) = 1 /\ \A j \in 1 .. 1 : q[j] \in 1 .. Len(recs) + 1
    BY <1>1
  <2> HIDE DEF c
  <2>2. c.rangeMax = q
    BY <1>6
  <2> HIDE DEF q
  <2> QED
    BY <1>2, <1>6, <1>7, <2>1, <2>2 DEF OnPage, IsView
<1> QED
  BY <1>4, <1>5, <1>6, <1>8 DEF c, r

(* Which records are on a page. *)
LEMMA InPage ==
  ASSUME NEW v \in Seq(Nat), NEW s \in 1 .. Len(v), NEW i \in s .. Len(v), i <= s + PageLength - 1
  PROVE  /\ i - s + 1 \in 1 .. Len(PageFrom(v, s))
         /\ PageFrom(v, s)[i - s + 1] = v[i]
         /\ \E j \in 1 .. Len(PageFrom(v, s)) : PageFrom(v, s)[j] = v[i]
<1> DEFINE p == PageFrom(v, s)
           l == Len(v)
           n == Len(p)
<1>1. l \in Nat /\ s \in Nat /\ 1 <= s /\ s <= l /\ i \in Int /\ s <= i /\ i <= l
  OBVIOUS
<1>2. PageLength \in Nat
  BY BrowseAssumption
<1>3. /\ n \in 1 .. PageLength /\ s + n - 1 <= l
      /\ n < PageLength => s + n - 1 = l
      /\ \A j \in 1 .. n : p[j] = v[s + j - 1]
  BY PageIs
<1> HIDE DEF p, l, n
<1>4. i - s + 1 \in 1 .. n
  <2>1. CASE n < PageLength
    BY <1>1, <1>2, <1>3, <2>1
  <2>2. CASE ~ (n < PageLength)
    <3>1. n = PageLength
      BY <1>2, <1>3, <2>2
    <3> QED
      BY <1>1, <1>2, <3>1
  <2> QED
    BY <2>1, <2>2
<1>5. p[i - s + 1] = v[i]
  <2>1. s + (i - s + 1) - 1 = i
    BY <1>1
  <2> QED
    BY <1>3, <1>4, <2>1
<1> QED
  BY <1>4, <1>5 DEF n, p

(* The rank of a record is its number among the visible ones. *)
LEMMA RankIs ==
  ASSUME area.recs \in Seq(RecordStates)
  PROVE  LET v == Visible(area.recs)
         IN  /\ \A i \in 1 .. Len(v) : v[i] \in Cursor!Visible /\ Cursor!Rank(v[i]) = i
             /\ \A r \in Cursor!Visible : \E i \in 1 .. Len(v) : v[i] = r
             /\ 0 \notin Cursor!Visible /\ Eof(area.recs) \notin Cursor!Visible
<1> DEFINE v == Visible(area.recs)
           l == Len(v)
<1>1. /\ DOMAIN v = 1 .. l /\ l \in Nat /\ Len(area.recs) \in Nat
      /\ Eof(area.recs) = Len(area.recs) + 1
      /\ \A i \in 1 .. l : v[i] \in Nat /\ v[i] \in 1 .. Len(area.recs)
      /\ \A i, j \in 1 .. l : i < j => v[i] < v[j]
  BY RecordsIs
<1>2. Cursor!Visible = {v[i] : i \in DOMAIN v}
  BY Zenon DEF Cursor!Visible, Cursor!Members
<1>3. \A r : Cursor!Rank(r) = CHOOSE i \in DOMAIN v : v[i] = r
  BY Zenon DEF Cursor!Rank, Cursor!Place
<1> HIDE DEF v, l
<1>4. \A i, j \in 1 .. l : v[i] = v[j] => i = j
  <2> SUFFICES ASSUME NEW i \in 1 .. l, NEW j \in 1 .. l, v[i] = v[j], i # j PROVE FALSE
    OBVIOUS
  <2>1. v[i] \in Nat /\ v[j] \in Nat
    BY <1>1
  <2>2. i < j \/ j < i
    BY <1>1
  <2>3. v[i] < v[j] \/ v[j] < v[i]
    BY <1>1, <2>2
  <2> QED
    BY <2>1, <2>3
<1>5. ASSUME NEW i \in 1 .. l
      PROVE  v[i] \in Cursor!Visible /\ Cursor!Rank(v[i]) = i
  <2>1. v[i] \in Cursor!Visible
    BY <1>1, <1>2
  <2> DEFINE k == CHOOSE j \in DOMAIN v : v[j] = v[i]
  <2>2. k \in DOMAIN v /\ v[k] = v[i]
    BY <1>1
  <2> HIDE DEF k
  <2>3. k = i
    BY <1>1, <1>4, <2>2
  <2>4. Cursor!Rank(v[i]) = k
    BY <1>3 DEF k
  <2> QED
    BY <2>1, <2>3, <2>4
<1>6. \A r \in Cursor!Visible : \E i \in 1 .. l : v[i] = r
  BY <1>1, <1>2
<1>7. 0 \notin Cursor!Visible /\ Eof(area.recs) \notin Cursor!Visible
  BY <1>1, <1>6
<1> QED
  BY <1>5, <1>6, <1>7 DEF v, l

(* What every state of a browse satisfies: its numbers are those of        *)
(* records, and unless the file has been changed, it shows a page.         *)
BrowseInv ==
  /\ area \in [recs : Seq(RecordStates), recno : Nat] /\ area.recno \in 1 .. Eof(area.recs)
  /\ set \in [deleted : BOOLEAN, sync : BOOLEAN, eachClick : BOOLEAN]
  /\ toRefresh \in BOOLEAN
  /\ IsView(browse, Len(area.recs))
  /\ ~toRefresh /\ browse.rows # 0 => OnPage(browse, Visible(area.recs), Len(area.recs))

(* The browse shows what b shows, and the file is as it was. *)
LEMMA ShownStays ==
  ASSUME BrowseInv, ~toRefresh, toRefresh' = FALSE, set' = set, area'.recs = area.recs,
         area' \in [recs : Seq(RecordStates), recno : Nat], area'.recno \in 1 .. Eof(area.recs),
         IsView(browse', Len(area.recs)),
         \/ browse'.rangeMax = browse.rangeMax /\ browse'.rows = browse.rows
         \/ OnPage(browse', Visible(area.recs), Len(area.recs))
  PROVE  /\ BrowseInv'
         /\ Visible(area.recs)' = Visible(area.recs)
         /\ \/ Screen(browse') = Screen(browse)
            \/ Screen(browse') \in Cursor!Pages(Visible(area.recs), Len(area.recs))
         /\ Screen(browse)' = Screen(browse')
         /\ GetValue(browse)' = GetValue(browse')
<1>1. Visible(area.recs)' = Visible(area.recs)
  BY VisibleIs
<1>2. Screen(browse)' = Screen(browse') /\ GetValue(browse)' = GetValue(browse')
  BY DEF Screen, GetValue
<1>3. area.recs \in Seq(RecordStates) /\ Len(area.recs) \in Nat
  BY RecordsIs DEF BrowseInv
<1>4. \/ Screen(browse') = Screen(browse)
      \/ Screen(browse') \in Cursor!Pages(Visible(area.recs), Len(area.recs))
  <2>1. CASE browse'.rangeMax = browse.rangeMax /\ browse'.rows = browse.rows
    BY <2>1 DEF Screen
  <2>2. CASE OnPage(browse', Visible(area.recs), Len(area.recs))
    <3>1. browse'.rows = Len(browse'.rangeMax) /\ browse'.rangeMax \in Cursor!Pages(Visible(area.recs), Len(area.recs))
      BY <2>2 DEF OnPage
    <3>2. Screen(browse') = browse'.rangeMax
      <4> DEFINE b == browse'
      <4>1. IsView(b, Len(area.recs)) /\ b.rows = Len(b.rangeMax)
        BY <3>1
      <4> HIDE DEF b
      <4>2. Screen(b) = b.rangeMax
        BY <4>1, SubSeqFull DEF Screen, IsView, Views
      <4> QED
        BY <4>2 DEF b
    <3> QED
      BY <3>1, <3>2
  <2> QED
    BY <2>1, <2>2
<1>5. browse'.rows # 0 => OnPage(browse', Visible(area.recs), Len(area.recs))
  <2>1. CASE browse'.rangeMax = browse.rangeMax /\ browse'.rows = browse.rows
    BY <2>1 DEF BrowseInv, OnPage
  <2>2. CASE OnPage(browse', Visible(area.recs), Len(area.recs))
    BY <2>2
  <2> QED
    BY <2>1, <2>2
<1>6. BrowseInv'
  <2>1. /\ area' \in [recs : Seq(RecordStates), recno : Nat]
        /\ area'.recno \in 1 .. Len(area'.recs) + 1
        /\ set' \in [deleted : BOOLEAN, sync : BOOLEAN, eachClick : BOOLEAN]
        /\ toRefresh' \in BOOLEAN
    BY DEF BrowseInv, Eof
  <2>2. IsView(browse', Len(area'.recs))
    OBVIOUS
  <2>3. browse'.rows # 0 => OnPage(browse', Visible(area.recs)', Len(area'.recs))
    BY <1>1, <1>5
  <2> QED
    BY <2>1, <2>2, <2>3 DEF BrowseInv, Eof
<1> QED
  BY <1>1, <1>2, <1>4, <1>6

(* The value that a view has. *)
Carries(b, v) == "value" \in DOMAIN b /\ b.value = v

(* What draws a page or selects a row keeps it. *)
LEMMA Carried ==
  ASSUME NEW b, NEW v, Carries(b, v)
  PROVE  /\ \A recs, r : Carries(BrowseUpdate(recs, b, r), v)
         /\ \A row : Carries(SetCursel(b, row), v)
         /\ \A r : Carries(SelectRecord(b, r), v)
<1>1. ASSUME NEW recs, NEW r
      PROVE  Carries(BrowseUpdate(recs, b, r), v)
  BY Zenon DEF Carries, BrowseUpdate
<1>2. ASSUME NEW row
      PROVE  Carries(SetCursel(b, row), v)
  BY Zenon DEF Carries, SetCursel
<1>3. ASSUME NEW r
      PROVE  Carries(SelectRecord(b, r), v)
  BY <1>2, Zenon DEF SelectRecord
<1> QED
  BY <1>1, <1>2, <1>3

(* A key keeps the value. *)
LEMMA KeysKeepValue ==
  ASSUME BrowseInv,
         BrowseNext \/ BrowsePrior \/ BrowseHome \/ BrowseEnd \/ BrowseUp \/ BrowseDown
  PROVE  browse'.value = browse.value
<1> DEFINE v == browse.value
<1>1. Carries(browse, v)
  BY DEF BrowseInv, IsView, Views, Carries
<1> HIDE DEF v
<1>2. \A r, n : Carries(FromRow(r, n), v)
  BY <1>1, Carried DEF FromRow
<1>3. \A b, row : Carries(b, v) => Carries(SetCursel(b, row), v)
  BY Carried
<1>4. \A b : Carries(b, v) => Carries(ToLastRow(b), v)
  BY <1>3 DEF ToLastRow
<1>5. \A b, r : Carries(b, v) => Carries(SelectRecord(b, r), v)
  BY Carried
<1>6. \A b : OnChange(b) /\ Carries(b, v) => Carries(browse', v)
  BY DEF OnChange
<1>7. ASSUME BrowseNext PROVE Carries(browse', v)
  BY <1>1, <1>2, <1>4, <1>6, <1>7, Zenon DEF BrowseNext
<1>8. ASSUME BrowsePrior PROVE Carries(browse', v)
  BY <1>1, <1>2, <1>3, <1>6, <1>8, Zenon DEF BrowsePrior
<1>9. ASSUME BrowseHome PROVE Carries(browse', v)
  BY <1>2, <1>3, <1>6, <1>9, Zenon DEF BrowseHome
<1>10. ASSUME BrowseEnd PROVE Carries(browse', v)
  BY <1>2, <1>5, <1>6, <1>10, Zenon DEF BrowseEnd
<1>11. ASSUME BrowseUp PROVE Carries(browse', v)
  BY <1>1, <1>2, <1>3, <1>6, <1>11, Zenon DEF BrowseUp
<1>12. ASSUME BrowseDown PROVE Carries(browse', v)
  BY <1>1, <1>2, <1>3, <1>4, <1>6, <1>12, Zenon DEF BrowseDown
<1> QED
  BY <1>7, <1>8, <1>9, <1>10, <1>11, <1>12 DEF Carries, v

(* Bringing the cursor to a record. *)
LEMMA GoesTo ==
  ASSUME BrowseInv, Message, NEW b, OnChange(b), IsView(b, Len(area.recs)),
         \/ b.rangeMax = browse.rangeMax /\ b.rows = browse.rows
         \/ OnPage(b, Visible(area.recs), Len(area.recs))
  PROVE  /\ BrowseInv' /\ Cursor!BroughtTo(GetValue(b))
         /\ browse'.value = browse.value => Cursor!GoTo(GetValue(b))
<1>1. ~toRefresh /\ toRefresh' = FALSE /\ toRefresh' = toRefresh /\ set' = set
  BY DEF Message, BrowseInv
<1>2. /\ browse' = b /\ notified' = GetValue(b)
      /\ area' = IF ~set.sync THEN area
                 ELSE [area EXCEPT !.recno = IF GetValue(b) = 0 THEN Eof(area.recs) ELSE GetValue(b)]
  BY DEF OnChange
<1>3. /\ area \in [recs : Seq(RecordStates), recno : Nat] /\ area.recno \in 1 .. Eof(area.recs)
      /\ Len(area.recs) \in Nat /\ Eof(area.recs) = Len(area.recs) + 1
  <2>1. area.recs \in Seq(RecordStates)
    BY DEF BrowseInv
  <2> QED
    BY <2>1, RecordsIs DEF BrowseInv
<1>4. GetValue(b) \in 0 .. Len(area.recs) + 1 /\ GetValue(b) \in Cursor!Members(Screen(b)) \cup {0}
  BY <1>3, ScreenIs
<1>5. /\ area'.recs = area.recs /\ area' \in [recs : Seq(RecordStates), recno : Nat]
      /\ area'.recno \in 1 .. Eof(area.recs)
      /\ area'.recno = IF ~set.sync THEN area.recno
                       ELSE IF GetValue(b) = 0 THEN Len(area.recs) + 1 ELSE GetValue(b)
  <2>1. (IF GetValue(b) = 0 THEN Eof(area.recs) ELSE GetValue(b)) \in 1 .. Eof(area.recs)
    BY <1>3, <1>4
  <2> DEFINE r == IF GetValue(b) = 0 THEN Eof(area.recs) ELSE GetValue(b)
  <2>2. /\ r \in 1 .. Eof(area.recs) /\ r \in Nat
        /\ r = IF GetValue(b) = 0 THEN Len(area.recs) + 1 ELSE GetValue(b)
        /\ area' = IF ~set.sync THEN area ELSE [area EXCEPT !.recno = r]
    BY <1>2, <1>3, <2>1
  <2> HIDE DEF r
  <2> QED
    BY <1>3, <2>2
<1>6. /\ BrowseInv'
      /\ Visible(area.recs)' = Visible(area.recs)
      /\ \/ Screen(b) = Screen(browse)
         \/ Screen(b) \in Cursor!Pages(Visible(area.recs), Len(area.recs))
      /\ Screen(browse)' = Screen(b)
      /\ GetValue(browse)' = GetValue(b)
  BY <1>1, <1>2, <1>5, ShownStays
<1>7. Cursor!SameFile
  BY <1>1, <1>5, <1>6 DEF Cursor!SameFile
<1>8. Cursor!Tell
  BY <1>1, <1>2, <1>5, <1>6 DEF Cursor!Tell
<1>9. Cursor!BroughtTo(GetValue(b))
  <2>1. SubSeq(browse.rangeMax, 1, browse.rows)' = Screen(b) /\ SubSeq(browse.rangeMax, 1, browse.rows) = Screen(browse)
    BY <1>6 DEF Screen
  <2> QED
    BY <1>4, <1>6, <1>7, <1>8, <2>1 DEF Cursor!BroughtTo
<1>10. browse'.value = browse.value => Cursor!GoTo(GetValue(b))
  BY <1>9 DEF Cursor!GoTo
<1> QED
  BY <1>6, <1>9, <1>10

(* What a browse that is up to date can show: nothing, the row behind an   *)
(* empty file, or the page from the visible record number i on.            *)
ShowsNothing ==
  /\ browse.rows = 0 /\ browse.sel = 0 /\ GetValue(browse) = 0
  /\ Cursor!FirstRow = 0 /\ Cursor!LastRow = 0

ShowsEof ==
  /\ Visible(area.recs) = <<>>
  /\ browse.rangeMax = <<Eof(area.recs)>> /\ browse.rows = 1
  /\ browse.rangeMax[1] = Eof(area.recs)
  /\ Cursor!FirstRow = Eof(area.recs) /\ Cursor!LastRow = Eof(area.recs)
  /\ \/ browse.sel = 0 /\ GetValue(browse) = 0
     \/ browse.sel = 1 /\ GetValue(browse) = Eof(area.recs)

ShowsFrom(i) ==
  /\ browse.rows = Len(browse.rangeMax) /\ browse.rows \in 1 .. PageLength
  /\ browse.rangeMax = PageFrom(Visible(area.recs), i)
  /\ i + browse.rows - 1 <= Len(Visible(area.recs))
  /\ browse.rows < PageLength => i + browse.rows - 1 = Len(Visible(area.recs))
  /\ \A j \in 1 .. browse.rows : browse.rangeMax[j] = Visible(area.recs)[i + j - 1]
  /\ Cursor!FirstRow = Visible(area.recs)[i]
  /\ Cursor!LastRow = Visible(area.recs)[i + browse.rows - 1]
  /\ SubSeq(browse.rangeMax, 1, browse.rows) = browse.rangeMax
  /\ browse.sel \in 0 .. browse.rows
  /\ browse.sel = 0 => GetValue(browse) = 0
  /\ browse.sel # 0 => /\ GetValue(browse) = Visible(area.recs)[i + browse.sel - 1]
                       /\ i + browse.sel - 1 \in 1 .. Len(Visible(area.recs))
                       /\ GetValue(browse) \in Cursor!Visible
                       /\ Cursor!Rank(GetValue(browse)) = i + browse.sel - 1

(* A browse that is up to date shows one of these. *)
LEMMA Showing ==
  ASSUME BrowseInv, ~toRefresh
  PROVE  ShowsNothing \/ ShowsEof \/ \E i \in 1 .. Len(Visible(area.recs)) : ShowsFrom(i)
<1> DEFINE v == Visible(area.recs)
           l == Len(v)
           b == browse
           n == Len(area.recs)
<1>1. /\ area.recs \in Seq(RecordStates) /\ n \in Nat /\ Eof(area.recs) = n + 1
      /\ v \in Seq(Nat) /\ l \in Nat /\ DOMAIN v = 1 .. l
  <2>1. area.recs \in Seq(RecordStates)
    BY DEF BrowseInv
  <2> QED
    BY <2>1, RecordsIs
<1>2. IsView(b, n) /\ (b.rows # 0 => OnPage(b, v, n))
  BY DEF BrowseInv
<1>3. /\ Screen(b) = IF b.rows = 0 THEN <<>> ELSE b.rangeMax
      /\ b.rangeMax \in Seq(Nat) /\ b.rows \in Nat
      /\ b.sel = 0 => GetValue(b) = 0
      /\ b.sel # 0 => GetValue(b) = b.rangeMax[b.sel] /\ b.sel \in 1 .. Len(b.rangeMax)
      /\ b.sel \in 0 .. b.rows
  BY <1>1, <1>2, ScreenIs DEF IsView
<1>4. /\ Cursor!FirstRow = IF Screen(b) = <<>> THEN 0 ELSE Screen(b)[1]
      /\ Cursor!LastRow = IF Screen(b) = <<>> THEN 0 ELSE Screen(b)[Len(Screen(b))]
  BY Zenon DEF Cursor!FirstRow, Cursor!LastRow, Screen
<1>5. CASE b.rows = 0
  <2>1. b.sel = 0
    BY <1>3, <1>5
  <2> QED
    BY <1>3, <1>4, <1>5, <2>1 DEF ShowsNothing
<1>6. ASSUME b.rows # 0, v = <<>>, b.rangeMax \in {<<>>, <<n + 1>>}
      PROVE  ShowsEof
  <2>1. b.rows = Len(b.rangeMax)
    BY <1>2, <1>6 DEF OnPage
  <2>2. b.rangeMax = <<n + 1>>
    BY <1>6, <2>1
  <2>3. b.rows = 1 /\ b.rangeMax[1] = n + 1 /\ Screen(b) = b.rangeMax /\ Screen(b) # <<>> /\ Len(Screen(b)) = 1
    BY <1>3, <1>6, <2>1, <2>2
  <2>4. b.sel = 0 \/ b.sel = 1
    BY <1>3, <2>3
  <2>5. Cursor!FirstRow = n + 1 /\ Cursor!LastRow = n + 1
    BY <1>4, <2>3
  <2>6. \/ b.sel = 0 /\ GetValue(b) = 0
        \/ b.sel = 1 /\ GetValue(b) = n + 1
    BY <1>3, <2>3, <2>4
  <2> QED
    BY <1>1, <1>6, <2>2, <2>3, <2>5, <2>6 DEF ShowsEof
<1>7. ASSUME b.rows # 0, NEW i \in 1 .. l, b.rangeMax = PageFrom(v, i)
      PROVE  ShowsFrom(i)
  <2>1. b.rows = Len(b.rangeMax)
    BY <1>2, <1>7 DEF OnPage
  <2> HIDE DEF v, l, b
  <2>2. /\ Len(b.rangeMax) \in 1 .. PageLength /\ i + Len(b.rangeMax) - 1 <= l
        /\ Len(b.rangeMax) < PageLength => i + Len(b.rangeMax) - 1 = l
        /\ \A j \in 1 .. Len(b.rangeMax) : b.rangeMax[j] = v[i + j - 1]
    BY <1>1, <1>7, PageIs DEF l
  <2>3. b.rows \in Nat /\ 1 <= b.rows /\ i \in Nat /\ 1 <= i /\ b.sel \in Nat
    BY <1>1, <1>3, <2>1, <2>2
  <2>4. Screen(b) = b.rangeMax /\ Screen(b) # <<>>
    BY <1>3, <2>1, <2>3
  <2>5. Cursor!FirstRow = v[i]
    <3>1. b.rangeMax[1] = v[i + 1 - 1] /\ i + 1 - 1 = i
      BY <2>1, <2>2, <2>3
    <3> QED
      BY <1>4, <2>4, <3>1
  <2>6. Cursor!LastRow = v[i + b.rows - 1]
    <3>1. b.rangeMax[b.rows] = v[i + b.rows - 1]
      BY <2>1, <2>2, <2>3
    <3> QED
      BY <1>4, <2>1, <2>4, <3>1
  <2>7. b.sel # 0 => /\ GetValue(b) = v[i + b.sel - 1] /\ i + b.sel - 1 \in 1 .. l
                     /\ GetValue(b) \in Cursor!Visible /\ Cursor!Rank(GetValue(b)) = i + b.sel - 1
    <3> SUFFICES ASSUME b.sel # 0
                 PROVE  /\ GetValue(b) = v[i + b.sel - 1] /\ i + b.sel - 1 \in 1 .. l
                        /\ GetValue(b) \in Cursor!Visible /\ Cursor!Rank(GetValue(b)) = i + b.sel - 1
      OBVIOUS
    <3> DEFINE k == i + b.sel - 1
    <3>1. b.sel \in 1 .. Len(b.rangeMax) /\ b.sel <= b.rows
      BY <1>3, <2>1, <2>3
    <3>2. GetValue(b) = v[k]
      BY <1>3, <2>2, <3>1
    <3>3. k \in 1 .. l
      <4> DEFINE m == b.rows
                 s == b.sel
      <4>1. m \in Nat /\ i \in Nat /\ s \in Nat /\ l \in Nat /\ 1 <= i /\ i + m - 1 <= l /\ s <= m /\ 1 <= s
        BY <1>1, <2>1, <2>2, <2>3, <3>1
      <4> HIDE DEF m, s
      <4>2. i + s - 1 \in 1 .. l
        BY <4>1
      <4> QED
        BY <4>2 DEF s
    <3> HIDE DEF k
    <3>4. v[k] \in Cursor!Visible /\ Cursor!Rank(v[k]) = k
      BY <1>1, <3>3, RankIs DEF v, l
    <3> QED
      BY <3>2, <3>3, <3>4 DEF k
  <2>8. SubSeq(b.rangeMax, 1, b.rows) = b.rangeMax
    BY <2>4 DEF Screen
  <2> QED
    BY <1>3, <1>7, <2>1, <2>2, <2>5, <2>6, <2>7, <2>8 DEF ShowsFrom, v, l, b
<1>8. ASSUME b.rows # 0
      PROVE  \/ \E i \in DOMAIN v : b.rangeMax = PageFrom(v, i)
             \/ v = <<>> /\ b.rangeMax \in {<<>>, <<n + 1>>}
  <2>1. b.rangeMax \in Cursor!Pages(v, n)
    BY <1>2, <1>8 DEF OnPage
  <2> HIDE DEF v, n, b
  <2> QED
    BY <2>1, PagesAre
<1> QED
  BY <1>1, <1>5, <1>6, <1>7, <1>8

(* The types of the file, its visible records and the list view. *)
LEMMA FileOf ==
  ASSUME BrowseInv
  PROVE  LET v == Visible(area.recs)
         IN  /\ area.recs \in Seq(RecordStates) /\ Len(area.recs) \in Nat
             /\ Eof(area.recs) = Len(area.recs) + 1
             /\ browse \in Views /\ IsView(browse, Len(area.recs))
             /\ v \in Seq(Nat) /\ Len(v) \in Nat /\ DOMAIN v = 1 .. Len(v)
             /\ v = <<>> <=> Len(v) = 0
             /\ PageLength \in Nat /\ PageLength > 2
             /\ \A k \in Int : Cursor!Within(k) = IF k < 1 THEN 1 ELSE IF k > Len(v) THEN Len(v) ELSE k
<1>1. area.recs \in Seq(RecordStates) /\ browse \in Views /\ IsView(browse, Len(area.recs))
  BY DEF BrowseInv, IsView
<1>2. \A k \in Int : Cursor!Within(k) = IF k < 1 THEN 1 ELSE IF k > Len(Visible(area.recs)) THEN Len(Visible(area.recs)) ELSE k
  BY Zenon DEF Cursor!Within
<1> QED
  BY <1>1, <1>2, RecordsIs, BrowseAssumption

(* A page n records further or back. *)
LEMMA FromRowIs ==
  ASSUME BrowseInv, NEW i \in 1 .. Len(Visible(area.recs)), NEW n \in Int,
         i + n <= Len(Visible(area.recs))
  PROVE  LET v == Visible(area.recs)
             j == IF i + n < 1 THEN 1 ELSE i + n
             c == FromRow(v[i], n)
         IN  /\ OnPage(c, v, Len(area.recs)) /\ IsView(c, Len(area.recs))
             /\ c.rangeMax = PageFrom(v, j)
             /\ c.sel = 0 /\ c.rows = Len(PageFrom(v, j))
<1> DEFINE v == Visible(area.recs)
           l == Len(v)
           j == IF i + n < 1 THEN 1 ELSE i + n
           c == FromRow(v[i], n)
<1>1. area.recs \in Seq(RecordStates) /\ browse \in Views /\ l \in Nat /\ i \in Nat /\ 1 <= i /\ i <= l
  BY FileOf
<1>2. j \in 1 .. l
  <2>1. i + n <= l
    OBVIOUS
  <2> HIDE DEF l
  <2> QED
    BY <1>1, <2>1
<1>3. Skip(area.recs, v[i], n) = v[j]
  <2>1. Skip(area.recs, v[i], n) = IF i + n > l THEN Eof(area.recs)
                                   ELSE IF i + n < 1 THEN v[1] ELSE v[i + n]
    BY <1>1, SkipIs
  <2>2. ~ (i + n > l)
    BY <1>1
  <2> HIDE DEF v, l
  <2> QED
    BY <2>1, <2>2
<1>4. c = BrowseUpdate(area.recs, browse, v[j])
  BY <1>3 DEF FromRow
<1> HIDE DEF j, c
<1>5. /\ OnPage(c, v, Len(area.recs)) /\ c.rangeMax = PageFrom(v, j)
      /\ c.sel = 0 /\ c.rows = Len(PageFrom(v, j))
  BY <1>1, <1>2, <1>4, DrawnAt
<1> QED
  BY <1>5 DEF j, c, OnPage

(* A page of a file without visible records. *)
LEMMA FromRowNone ==
  ASSUME BrowseInv, Visible(area.recs) = <<>>, NEW n \in Int
  PROVE  LET c == FromRow(Eof(area.recs), n)
         IN  /\ OnPage(c, Visible(area.recs), Len(area.recs)) /\ IsView(c, Len(area.recs))
             /\ c.rangeMax = <<Eof(area.recs)>>
             /\ c.sel = 0 /\ c.rows = 1 /\ c.rangeMax[1] = Eof(area.recs)
<1>1. area.recs \in Seq(RecordStates) /\ browse \in Views
  BY FileOf
<1> DEFINE c == FromRow(Eof(area.recs), n)
<1>2. c = BrowseUpdate(area.recs, browse, Skip(area.recs, Eof(area.recs), n))
  BY DEF FromRow
<1> HIDE DEF c
<1>3. /\ OnPage(c, Visible(area.recs), Len(area.recs)) /\ c.rangeMax = <<Eof(area.recs)>>
      /\ c.sel = 0 /\ c.rows = 1
  BY <1>1, <1>2, DrawnAtNone
<1> QED
  BY <1>3 DEF c, OnPage

(* A row of another page is selected. *)
LEMMA RowOfPage ==
  ASSUME BrowseInv, Message, browse'.value = browse.value, NEW j \in 1 .. Len(Visible(area.recs)), NEW c,
         OnPage(c, Visible(area.recs), Len(area.recs)), IsView(c, Len(area.recs)),
         c.rangeMax = PageFrom(Visible(area.recs), j), c.rows = Len(PageFrom(Visible(area.recs), j)),
         NEW row \in 1 .. Len(PageFrom(Visible(area.recs), j)), OnChange(SetCursel(c, row))
  PROVE  BrowseInv' /\ Cursor!GoTo(Visible(area.recs)[j + row - 1])
<1> DEFINE v == Visible(area.recs)
           b == SetCursel(c, row)
           p == PageFrom(v, j)
<1>1. Len(area.recs) \in Nat /\ v \in Seq(Nat) /\ Len(v) \in Nat
  BY FileOf
<1>2. Len(p) \in 1 .. PageLength /\ \A x \in 1 .. Len(p) : p[x] = v[j + x - 1]
  <2> HIDE DEF v
  <2>1. j \in 1 .. Len(v)
    BY DEF v
  <2> QED
    BY <1>1, <2>1, PageIs
<1>3. row \in Int /\ row \in 1 .. c.rows /\ c.rangeMax[row] = v[j + row - 1]
  <2>1. row \in 1 .. Len(p) /\ c.rows = Len(p) /\ c.rangeMax = p
    OBVIOUS
  <2> HIDE DEF p, v
  <2> QED
    BY <1>2, <2>1
<1>4. OnChange(b)
  OBVIOUS
<1> HIDE DEF b
<1>5. /\ IsView(b, Len(area.recs)) /\ b.rangeMax = c.rangeMax /\ b.rows = c.rows
      /\ GetValue(b) = v[j + row - 1]
  <2>1. /\ IsView(b, Len(area.recs)) /\ b.rangeMax = c.rangeMax /\ b.rows = c.rows
        /\ GetValue(b) = c.rangeMax[row]
    BY <1>1, <1>3, SetCurselIs DEF b
  <2> QED
    BY <1>3, <2>1
<1>6. OnPage(b, v, Len(area.recs))
  BY <1>5 DEF OnPage
<1>7. BrowseInv' /\ Cursor!GoTo(GetValue(b))
  BY <1>4, <1>5, <1>6, GoesTo
<1> QED
  BY <1>5, <1>7

(* The row behind an empty file is selected. *)
LEMMA RowOfNone ==
  ASSUME BrowseInv, Message, browse'.value = browse.value, NEW c, OnPage(c, Visible(area.recs), Len(area.recs)),
         c.rangeMax[1] = Eof(area.recs), c.rows = 1, OnChange(SetCursel(c, 1))
  PROVE  BrowseInv' /\ Cursor!GoTo(Eof(area.recs))
<1> DEFINE k == 1
           b == SetCursel(c, k)
<1>1. Len(area.recs) \in Nat /\ IsView(c, Len(area.recs))
  BY FileOf DEF OnPage
<1>2. k \in Int /\ k \in 1 .. c.rows /\ c.rangeMax[k] = Eof(area.recs) /\ OnChange(b)
  OBVIOUS
<1> HIDE DEF k, b
<1>3. /\ IsView(b, Len(area.recs)) /\ b.rangeMax = c.rangeMax /\ b.rows = c.rows
      /\ GetValue(b) = c.rangeMax[k]
  BY <1>1, <1>2, SetCurselIs DEF b
<1>4. OnPage(b, Visible(area.recs), Len(area.recs))
  BY <1>3 DEF OnPage
<1>5. BrowseInv' /\ Cursor!GoTo(GetValue(b))
  BY <1>2, <1>3, <1>4, GoesTo
<1> QED
  BY <1>2, <1>3, <1>5

(* A row of the page that is shown is selected, or one that is not there. *)
LEMMA RowOfSame ==
  ASSUME BrowseInv, Message, browse'.value = browse.value, NEW row \in Int, OnChange(SetCursel(browse, row))
  PROVE  /\ BrowseInv'
         /\ row \in 1 .. browse.rows => Cursor!GoTo(browse.rangeMax[row])
         /\ row \notin 1 .. browse.rows => Cursor!GoTo(GetValue(browse))
<1> DEFINE b == SetCursel(browse, row)
<1>1. Len(area.recs) \in Nat /\ IsView(browse, Len(area.recs)) /\ OnChange(b)
  BY FileOf
<1> HIDE DEF b
<1>2. /\ IsView(b, Len(area.recs)) /\ b.rangeMax = browse.rangeMax /\ b.rows = browse.rows
      /\ row \in 1 .. browse.rows => GetValue(b) = browse.rangeMax[row]
      /\ row \notin 1 .. browse.rows => b = browse
  BY <1>1, SetCurselIs DEF b
<1>3. BrowseInv' /\ Cursor!GoTo(GetValue(b))
  BY <1>1, <1>2, GoesTo
<1> QED
  BY <1>2, <1>3

(* The first page and its first row. *)
LEMMA HomeToFirst ==
  ASSUME BrowseInv, BrowseHome
  PROVE  BrowseInv' /\ Cursor!ToFirst
<1> DEFINE v == Visible(area.recs)
           k == 0
<1>1. /\ Message /\ OnChange(SetCursel(FromRow(GoTop(area.recs), k), 1)) /\ k \in Int
      /\ browse'.value = browse.value
  BY KeysKeepValue DEF BrowseHome, Reading
<1>2. /\ Eof(area.recs) = Len(area.recs) + 1 /\ v \in Seq(Nat) /\ Len(v) \in Nat
      /\ v = <<>> <=> Len(v) = 0
  BY FileOf
<1> HIDE DEF k
<1>3. CASE v = <<>>
  <2> DEFINE c == FromRow(Eof(area.recs), k)
  <2>1. GoTop(area.recs) = Eof(area.recs)
    BY <1>3 DEF GoTop
  <2>2. OnChange(SetCursel(c, 1))
    BY <1>1, <2>1
  <2>3. OnPage(c, v, Len(area.recs)) /\ c.rangeMax[1] = Eof(area.recs) /\ c.rows = 1
    BY <1>1, <1>3, FromRowNone
  <2> HIDE DEF c
  <2>4. BrowseInv' /\ Cursor!GoTo(Eof(area.recs))
    BY <1>1, <2>2, <2>3, RowOfNone
  <2> QED
    BY <1>2, <1>3, <2>4 DEF Cursor!ToFirst
<1>4. CASE v # <<>>
  <2> DEFINE i == 1
             c == FromRow(v[i], k)
             row == 1
  <2>1. GoTop(area.recs) = v[i]
    BY <1>4 DEF GoTop
  <2>2. i \in 1 .. Len(v) /\ i + k <= Len(v) /\ (IF i + k < 1 THEN 1 ELSE i + k) = i /\ i + row - 1 = 1
    BY <1>2, <1>4 DEF k
  <2>3. OnChange(SetCursel(c, row))
    BY <1>1, <2>1
  <2> HIDE DEF i
  <2>4. /\ OnPage(c, v, Len(area.recs)) /\ IsView(c, Len(area.recs))
        /\ c.rangeMax = PageFrom(v, i) /\ c.rows = Len(PageFrom(v, i))
    BY <1>1, <2>2, FromRowIs
  <2>5. Len(PageFrom(v, i)) \in 1 .. PageLength
    <3> HIDE DEF v
    <3> QED
      BY <1>2, <2>2, PageIs
  <2>6. row \in 1 .. Len(PageFrom(v, i))
    BY <2>5
  <2> HIDE DEF c, row
  <2>7. BrowseInv' /\ Cursor!GoTo(v[i + row - 1])
    BY <1>1, <2>2, <2>3, <2>4, <2>6, RowOfPage
  <2> QED
    BY <1>4, <2>2, <2>7 DEF Cursor!ToFirst
<1> QED
  BY <1>3, <1>4

(* A record on another page is selected. *)
LEMMA RecordOfPage ==
  ASSUME BrowseInv, Message, browse'.value = browse.value, NEW c, OnPage(c, Visible(area.recs), Len(area.recs)),
         NEW r, \E j \in 1 .. Len(c.rangeMax) : c.rangeMax[j] = r, OnChange(SelectRecord(c, r))
  PROVE  BrowseInv' /\ Cursor!GoTo(r)
<1> DEFINE b == SelectRecord(c, r)
<1>1. Len(area.recs) \in Nat /\ IsView(c, Len(area.recs)) /\ c.rows = Len(c.rangeMax) /\ OnChange(b)
  BY FileOf DEF OnPage
<1> HIDE DEF b
<1>2. IsView(b, Len(area.recs)) /\ b.rangeMax = c.rangeMax /\ b.rows = c.rows /\ GetValue(b) = r
  BY <1>1, SelectRecordIs DEF b
<1>3. OnPage(b, Visible(area.recs), Len(area.recs))
  BY <1>2 DEF OnPage
<1>4. BrowseInv' /\ Cursor!GoTo(GetValue(b))
  BY <1>1, <1>2, <1>3, GoesTo
<1> QED
  BY <1>2, <1>4

(* The last page and the last record. *)
LEMMA EndToLast ==
  ASSUME BrowseInv, BrowseEnd
  PROVE  BrowseInv' /\ Cursor!ToLast
<1> DEFINE v == Visible(area.recs)
           l == Len(v)
           k == 1 - PageLength
           bottom == GoBottom(area.recs)
           c == FromRow(bottom, k)
<1>1. Message /\ OnChange(SelectRecord(c, bottom)) /\ browse'.value = browse.value
  BY KeysKeepValue DEF BrowseEnd, Reading
<1>2. /\ Eof(area.recs) = Len(area.recs) + 1 /\ v \in Seq(Nat) /\ l \in Nat
      /\ v = <<>> <=> l = 0
      /\ PageLength \in Nat /\ PageLength > 2
  BY FileOf
<1>3. k \in Int
  BY <1>2
<1>4. bottom = IF v = <<>> THEN Eof(area.recs) ELSE v[l]
  BY DEF GoBottom
<1> HIDE DEF k, bottom
<1>5. CASE v = <<>>
  <2>1. bottom = Eof(area.recs)
    BY <1>4, <1>5
  <2>2. OnPage(c, v, Len(area.recs)) /\ c.rangeMax = <<bottom>>
    BY <1>3, <1>5, <2>1, FromRowNone
  <2> HIDE DEF c
  <2>3. \E j \in 1 .. Len(c.rangeMax) : c.rangeMax[j] = bottom
    BY <2>2
  <2>4. BrowseInv' /\ Cursor!GoTo(bottom)
    BY <1>1, <2>2, <2>3, RecordOfPage
  <2>5. BrowseInv' /\ Cursor!GoTo(Len(area.recs) + 1)
    BY <1>2, <2>1, <2>4
  <2> QED
    BY <1>5, <2>5 DEF Cursor!ToLast
<1>6. CASE v # <<>>
  <2> DEFINE s == IF l + k < 1 THEN 1 ELSE l + k
  <2>1. bottom = v[l] /\ l \in 1 .. l /\ 1 <= l
    BY <1>2, <1>4, <1>6
  <2>2. l + k <= l
    <3> HIDE DEF l
    <3> QED
      BY <1>2 DEF k
  <2>3. s \in 1 .. l /\ l \in s .. l /\ l <= s + PageLength - 1
    <3> HIDE DEF l
    <3> QED
      BY <1>2, <2>1 DEF k
  <2>4. c = FromRow(v[l], k)
    BY <2>1
  <2> HIDE DEF c
  <2>5. OnPage(c, v, Len(area.recs)) /\ c.rangeMax = PageFrom(v, s)
    BY <1>3, <2>1, <2>2, <2>4, FromRowIs
  <2> HIDE DEF s
  <2>6. \E j \in 1 .. Len(c.rangeMax) : c.rangeMax[j] = bottom
    <3>1. \E j \in 1 .. Len(PageFrom(v, s)) : PageFrom(v, s)[j] = v[l]
      <4> HIDE DEF v
      <4> QED
        BY <1>2, <2>3, InPage DEF l
    <3> QED
      BY <2>1, <2>5, <3>1
  <2>7. BrowseInv' /\ Cursor!GoTo(bottom)
    BY <1>1, <2>5, <2>6, RecordOfPage DEF c
  <2>8. BrowseInv' /\ Cursor!GoTo(v[l])
    BY <2>1, <2>7
  <2> QED
    BY <1>6, <2>8 DEF Cursor!ToLast
<1> QED
  BY <1>5, <1>6

(* The cursor is no visible record if nothing is shown or selected. *)
LEMMA NoRecord ==
  ASSUME BrowseInv, GetValue(browse) = 0 \/ GetValue(browse) = Eof(area.recs)
  PROVE  GetValue(browse) \notin Cursor!Visible
<1>1. area.recs \in Seq(RecordStates)
  BY FileOf
<1> QED
  BY <1>1, RankIs

(* A page further. *)
LEMMA NextPage ==
  ASSUME BrowseInv, BrowseNext
  PROVE  BrowseInv' /\ Cursor!PageDown
<1> DEFINE v == Visible(area.recs)
           l == Len(v)
           x == browse.sel
           m == browse.rows
           r == GetValue(browse)
<1>1. /\ Message /\ ~toRefresh /\ browse'.value = browse.value
      /\ x = PageLength => OnChange(ToLastRow(FromRow(browse.rangeMax[PageLength], 0)))
      /\ x # PageLength => OnChange(SetCursel(browse, Len(browse.rangeMax)))
  BY KeysKeepValue DEF BrowseNext, Reading, Message, ToLastRow
<1>2. /\ Eof(area.recs) = Len(area.recs) + 1 /\ v \in Seq(Nat) /\ l \in Nat
      /\ PageLength \in Nat /\ PageLength > 2
      /\ \A k \in Int : Cursor!Within(k) = IF k < 1 THEN 1 ELSE IF k > l THEN l ELSE k
  BY FileOf
<1>3. browse.rangeMax \in Seq(Nat) /\ Len(browse.rangeMax) \in Nat
  BY FileOf, ScreenIs
<1>4. /\ r \in Cursor!Visible /\ r = Cursor!LastRow /\ Len(SubSeq(browse.rangeMax, 1, m)) = PageLength =>
           (Cursor!GoTo(v[Cursor!Within(Cursor!Rank(r) + PageLength - 1)]) => Cursor!PageDown)
      /\ ~ (r \in Cursor!Visible /\ r = Cursor!LastRow /\ Len(SubSeq(browse.rangeMax, 1, m)) = PageLength) =>
           (Cursor!GoTo(Cursor!LastRow) => Cursor!PageDown)
  BY DEF Cursor!PageDown
<1>5. CASE ShowsNothing
  <2>1. x # PageLength /\ m = 0 /\ r = 0 /\ Cursor!LastRow = 0
    BY <1>2, <1>5 DEF ShowsNothing
  <2> DEFINE k == Len(browse.rangeMax)
  <2>2. k \in Int /\ k \notin 1 .. m /\ OnChange(SetCursel(browse, k))
    BY <1>1, <1>3, <2>1
  <2> HIDE DEF k
  <2>3. BrowseInv' /\ Cursor!GoTo(r)
    BY <1>1, <2>2, RowOfSame
  <2>4. r \notin Cursor!Visible
    BY <2>1, NoRecord
  <2>5. Cursor!GoTo(Cursor!LastRow)
    BY <2>1, <2>3
  <2> QED
    BY <1>4, <2>3, <2>4, <2>5
<1>6. CASE ShowsEof
  <2>1. /\ x # PageLength /\ m = 1 /\ (r = 0 \/ r = Eof(area.recs)) /\ Len(browse.rangeMax) = 1
        /\ browse.rangeMax[1] = Eof(area.recs) /\ Cursor!LastRow = Eof(area.recs)
    BY <1>2, <1>6 DEF ShowsEof
  <2> DEFINE k == 1
  <2>2. k \in Int /\ k \in 1 .. m /\ OnChange(SetCursel(browse, k)) /\ browse.rangeMax[k] = Eof(area.recs)
    BY <1>1, <2>1
  <2> HIDE DEF k
  <2>3. BrowseInv' /\ Cursor!GoTo(browse.rangeMax[k])
    BY <1>1, <2>2, RowOfSame
  <2>4. r \notin Cursor!Visible
    BY <2>1, NoRecord
  <2>5. Cursor!GoTo(Cursor!LastRow)
    BY <2>1, <2>2, <2>3
  <2> QED
    BY <1>4, <2>3, <2>4, <2>5
<1>7. ASSUME NEW i \in 1 .. l, ShowsFrom(i), x = PageLength
      PROVE  BrowseInv' /\ Cursor!PageDown
  <2> DEFINE k == i + PageLength - 1
             n == 0
             c == FromRow(v[k], n)
             row == Len(PageFrom(v, k))
  <2>1. /\ m \in 1 .. PageLength /\ x \in 0 .. m /\ m = Len(browse.rangeMax)
        /\ i + m - 1 <= l /\ \A j \in 1 .. m : browse.rangeMax[j] = v[i + j - 1]
        /\ Cursor!LastRow = v[i + m - 1] /\ SubSeq(browse.rangeMax, 1, m) = browse.rangeMax
        /\ r = v[i + x - 1] /\ r \in Cursor!Visible /\ Cursor!Rank(r) = i + x - 1
    <3>1. x # 0
      BY <1>2, <1>7
    <3> QED
      BY <1>7, <3>1 DEF ShowsFrom
  <2>2. m = PageLength /\ m \in 1 .. m
    BY <1>2, <1>7, <2>1
  <2>3. browse.rangeMax[PageLength] = v[k]
    BY <2>1, <2>2
  <2>4. k \in 1 .. l /\ n \in Int /\ k + n <= l /\ ~ (k + n < 1) /\ k + n = k /\ k \in Nat
    <3> HIDE DEF l
    <3>1. i \in Nat /\ 1 <= i /\ i + PageLength - 1 <= l
      BY <1>2, <2>1, <2>2
    <3> QED
      BY <1>2, <3>1
  <2>5. OnChange(ToLastRow(c))
    BY <1>1, <1>7, <2>3
  <2> HIDE DEF k, n, v
  <2>6. /\ OnPage(c, v, Len(area.recs)) /\ IsView(c, Len(area.recs))
        /\ c.rangeMax = PageFrom(v, k) /\ c.rows = Len(PageFrom(v, k))
    BY <2>4, FromRowIs DEF v
  <2>7. /\ row \in 1 .. PageLength /\ k + row - 1 <= l
        /\ row < PageLength => k + row - 1 = l
    BY <1>2, <2>4, PageIs
  <2>8. row \in 1 .. Len(PageFrom(v, k)) /\ OnChange(SetCursel(c, row))
    BY <2>5, <2>6, <2>7 DEF ToLastRow
  <2> HIDE DEF c, row
  <2>9. BrowseInv' /\ Cursor!GoTo(v[k + row - 1])
    BY <1>1, <2>4, <2>6, <2>8, RowOfPage DEF v
  <2>10. Cursor!Within(Cursor!Rank(r) + PageLength - 1) = k + row - 1
    <3>1. Cursor!Rank(r) = k
      BY <1>7, <2>1 DEF k
    <3>2. Cursor!Within(k + PageLength - 1) = IF k + PageLength - 1 < 1 THEN 1 ELSE IF k + PageLength - 1 > l THEN l ELSE k + PageLength - 1
      <4> HIDE DEF l
      <4>1. k + PageLength - 1 \in Int
        BY <1>2, <2>4
      <4> QED
        BY <1>2, <4>1
    <3> HIDE DEF l
    <3>3. row = PageLength \/ row < PageLength
      BY <1>2, <2>7
    <3>4. IF k + PageLength - 1 < 1 THEN FALSE ELSE IF k + PageLength - 1 > l THEN k + row - 1 = l ELSE k + row - 1 = k + PageLength - 1
      BY <1>2, <2>4, <2>7, <3>3
    <3> QED
      BY <3>1, <3>2, <3>4
  <2>11. r = Cursor!LastRow /\ Len(SubSeq(browse.rangeMax, 1, m)) = PageLength
    BY <1>7, <2>1, <2>2
  <2> QED
    BY <1>4, <2>1, <2>9, <2>10, <2>11
<1>8. ASSUME NEW i \in 1 .. l, ShowsFrom(i), x # PageLength
      PROVE  BrowseInv' /\ Cursor!PageDown
  <2>1. /\ m \in 1 .. PageLength /\ x \in 0 .. m /\ m = Len(browse.rangeMax)
        /\ i + m - 1 <= l /\ \A j \in 1 .. m : browse.rangeMax[j] = v[i + j - 1]
        /\ Cursor!LastRow = v[i + m - 1] /\ SubSeq(browse.rangeMax, 1, m) = browse.rangeMax
        /\ x = 0 => r = 0
        /\ x # 0 => Cursor!Rank(r) = i + x - 1
    BY <1>2, <1>8 DEF ShowsFrom
  <2>2. m \in Int /\ m \in 1 .. m /\ browse.rangeMax[m] = Cursor!LastRow /\ i \in Nat /\ 1 <= i
    <3>1. m \in Int /\ m \in 1 .. m
      BY <1>2, <2>1
    <3>2. browse.rangeMax[m] = v[i + m - 1]
      BY <2>1, <3>1
    <3>3. i \in Nat /\ 1 <= i
      OBVIOUS
    <3> QED
      BY <2>1, <3>1, <3>2, <3>3
  <2>3. OnChange(SetCursel(browse, m))
    BY <1>1, <1>8, <2>1
  <2> HIDE DEF m
  <2>4. BrowseInv' /\ Cursor!GoTo(browse.rangeMax[m])
    BY <1>1, <2>2, <2>3, RowOfSame DEF m
  <2>5. ~ (r \in Cursor!Visible /\ r = Cursor!LastRow /\ Len(SubSeq(browse.rangeMax, 1, m)) = PageLength)
    <3> SUFFICES ASSUME r \in Cursor!Visible, r = Cursor!LastRow, Len(SubSeq(browse.rangeMax, 1, m)) = PageLength
                 PROVE  FALSE
      OBVIOUS
    <3>1. m = PageLength
      BY <2>1
    <3>2. x # 0
      BY <2>1, NoRecord
    <3>3. Cursor!Rank(r) = i + m - 1
      <4> DEFINE k == i + m - 1
      <4>1. k \in 1 .. l /\ r = v[k]
        <5> HIDE DEF l
        <5> QED
          BY <1>2, <2>1, <2>2
      <4> HIDE DEF k
      <4>2. Cursor!Rank(v[k]) = k
        BY <4>1, FileOf, RankIs
      <4> QED
        BY <4>1, <4>2 DEF k
    <3>4. i + x - 1 = i + m - 1
      BY <2>1, <3>2, <3>3
    <3> QED
      BY <1>2, <1>8, <2>1, <2>2, <3>1, <3>4
  <2> QED
    BY <1>4, <2>2, <2>4, <2>5 DEF m
<1> QED
  BY <1>1, <1>5, <1>6, <1>7, <1>8, Showing

(* A page back. *)
LEMMA PriorPage ==
  ASSUME BrowseInv, BrowsePrior
  PROVE  BrowseInv' /\ Cursor!PageUp
<1> DEFINE v == Visible(area.recs)
           l == Len(v)
           x == browse.sel
           m == browse.rows
           r == GetValue(browse)
           n == 1 - PageLength
           k == 1
<1>1. /\ Message /\ ~toRefresh /\ browse'.value = browse.value
      /\ x = 1 => OnChange(SetCursel(FromRow(browse.rangeMax[1], n), 1))
      /\ x # 1 => OnChange(SetCursel(browse, k))
  BY KeysKeepValue DEF BrowsePrior, Reading, Message
<1>2. /\ Eof(area.recs) = Len(area.recs) + 1 /\ v \in Seq(Nat) /\ l \in Nat
      /\ PageLength \in Nat /\ PageLength > 2
      /\ \A j \in Int : Cursor!Within(j) = IF j < 1 THEN 1 ELSE IF j > l THEN l ELSE j
  BY FileOf
<1>3. n \in Int /\ k \in Int
  BY <1>2
<1>4. /\ r \in Cursor!Visible /\ r = Cursor!FirstRow =>
           (Cursor!GoTo(v[Cursor!Within(Cursor!Rank(r) - PageLength + 1)]) => Cursor!PageUp)
      /\ ~ (r \in Cursor!Visible /\ r = Cursor!FirstRow) => (Cursor!GoTo(Cursor!FirstRow) => Cursor!PageUp)
  BY DEF Cursor!PageUp
<1>5. CASE ShowsNothing
  <2>1. x # 1 /\ m = 0 /\ r = 0 /\ Cursor!FirstRow = 0
    BY <1>5 DEF ShowsNothing
  <2>2. k \notin 1 .. m /\ OnChange(SetCursel(browse, k))
    BY <1>1, <2>1
  <2> HIDE DEF k
  <2>3. BrowseInv' /\ Cursor!GoTo(r)
    BY <1>1, <1>3, <2>2, RowOfSame
  <2>4. r \notin Cursor!Visible
    BY <2>1, NoRecord
  <2>5. Cursor!GoTo(Cursor!FirstRow)
    BY <2>1, <2>3
  <2> QED
    BY <1>4, <2>3, <2>4, <2>5
<1>6. CASE ShowsEof
  <2>1. /\ x = 0 \/ x = 1
        /\ v = <<>> /\ m = 1 /\ (r = 0 \/ r = Eof(area.recs))
        /\ browse.rangeMax[1] = Eof(area.recs) /\ Cursor!FirstRow = Eof(area.recs)
    BY <1>6 DEF ShowsEof
  <2>2. r \notin Cursor!Visible
    BY <2>1, NoRecord
  <2>3. CASE x = 0
    <3>1. k \in 1 .. m /\ OnChange(SetCursel(browse, k)) /\ browse.rangeMax[k] = Eof(area.recs)
      BY <1>1, <2>1, <2>3
    <3> HIDE DEF k
    <3>2. BrowseInv' /\ Cursor!GoTo(browse.rangeMax[k])
      BY <1>1, <1>3, <3>1, RowOfSame
    <3>3. Cursor!GoTo(Cursor!FirstRow)
      BY <2>1, <3>1, <3>2
    <3> QED
      BY <1>4, <2>2, <3>2, <3>3
  <2>4. CASE x = 1
    <3> DEFINE c == FromRow(Eof(area.recs), n)
    <3>1. OnChange(SetCursel(c, 1))
      BY <1>1, <2>1, <2>4
    <3>2. OnPage(c, v, Len(area.recs)) /\ c.rangeMax[1] = Eof(area.recs) /\ c.rows = 1
      <4> HIDE DEF n
      <4> QED
        BY <1>3, <2>1, FromRowNone
    <3> HIDE DEF c
    <3>3. BrowseInv' /\ Cursor!GoTo(Eof(area.recs))
      BY <1>1, <3>1, <3>2, RowOfNone
    <3>4. Cursor!GoTo(Cursor!FirstRow)
      BY <2>1, <3>3
    <3> QED
      BY <1>4, <2>2, <3>3, <3>4
  <2> QED
    BY <2>1, <2>3, <2>4
<1>7. ASSUME NEW i \in 1 .. l, ShowsFrom(i), x = 1
      PROVE  BrowseInv' /\ Cursor!PageUp
  <2> DEFINE c == FromRow(v[i], n)
             j == IF i + n < 1 THEN 1 ELSE i + n
             row == 1
  <2>1. /\ m \in 1 .. PageLength
        /\ \A y \in 1 .. m : browse.rangeMax[y] = v[i + y - 1]
        /\ Cursor!FirstRow = v[i]
        /\ r = v[i + x - 1] /\ r \in Cursor!Visible /\ Cursor!Rank(r) = i + x - 1
    BY <1>7 DEF ShowsFrom
  <2>2. i \in Nat /\ 1 <= i /\ i <= l /\ i + 1 - 1 = i /\ 1 \in 1 .. m
    BY <1>2, <2>1
  <2>3. browse.rangeMax[1] = v[i] /\ r = v[i] /\ Cursor!Rank(r) = i
    BY <1>7, <2>1, <2>2
  <2>4. OnChange(SetCursel(c, row))
    BY <1>1, <1>7, <2>3
  <2>5. i + n <= l /\ j \in 1 .. l /\ j \in Nat /\ j + row - 1 = j
    <3> HIDE DEF l
    <3> QED
      BY <1>2, <2>2
  <2>6. Cursor!Within(Cursor!Rank(r) - PageLength + 1) = j
    <3>1. Cursor!Within(i - PageLength + 1) = IF i - PageLength + 1 < 1 THEN 1 ELSE IF i - PageLength + 1 > l THEN l ELSE i - PageLength + 1
      <4>1. i - PageLength + 1 \in Int
        BY <1>2, <2>2
      <4> HIDE DEF l
      <4> QED
        BY <1>2, <4>1
    <3> HIDE DEF l
    <3>2. i - PageLength + 1 = i + n /\ ~ (i + n > l)
      BY <1>2, <2>2
    <3> QED
      BY <2>3, <3>1, <3>2
  <2> HIDE DEF n
  <2>7. /\ OnPage(c, v, Len(area.recs)) /\ IsView(c, Len(area.recs))
        /\ c.rangeMax = PageFrom(v, j) /\ c.rows = Len(PageFrom(v, j))
    BY <1>3, <2>5, FromRowIs
  <2>8. row \in 1 .. Len(PageFrom(v, j))
    <3>1. Len(PageFrom(v, j)) \in 1 .. PageLength
      <4> HIDE DEF j, v
      <4> QED
        BY <1>2, <2>5, PageIs
    <3> QED
      BY <3>1
  <2> HIDE DEF c, row, j
  <2>9. BrowseInv' /\ Cursor!GoTo(v[j + row - 1])
    BY <1>1, <2>4, <2>5, <2>7, <2>8, RowOfPage
  <2>10. BrowseInv' /\ Cursor!GoTo(v[j])
    BY <2>5, <2>9
  <2> QED
    BY <1>4, <2>1, <2>3, <2>6, <2>10
<1>8. ASSUME NEW i \in 1 .. l, ShowsFrom(i), x # 1
      PROVE  BrowseInv' /\ Cursor!PageUp
  <2>1. /\ m \in 1 .. PageLength /\ x \in 0 .. m
        /\ \A y \in 1 .. m : browse.rangeMax[y] = v[i + y - 1]
        /\ Cursor!FirstRow = v[i]
        /\ x = 0 => r = 0
        /\ x # 0 => Cursor!Rank(r) = i + x - 1
    BY <1>8 DEF ShowsFrom
  <2>2. i \in Nat /\ 1 <= i /\ i <= l /\ i + 1 - 1 = i /\ 1 \in 1 .. m
    BY <1>2, <2>1
  <2>3. k \in 1 .. m /\ browse.rangeMax[k] = v[i] /\ OnChange(SetCursel(browse, k))
    BY <1>1, <1>8, <2>1, <2>2
  <2> HIDE DEF k
  <2>4. BrowseInv' /\ Cursor!GoTo(browse.rangeMax[k])
    BY <1>1, <1>3, <2>3, RowOfSame
  <2>5. ~ (r \in Cursor!Visible /\ r = Cursor!FirstRow)
    <3> SUFFICES ASSUME r \in Cursor!Visible, r = Cursor!FirstRow PROVE FALSE
      OBVIOUS
    <3>1. x # 0
      BY <2>1, NoRecord
    <3>2. Cursor!Rank(v[i]) = i
      BY FileOf, RankIs
    <3>3. i + x - 1 = i
      BY <2>1, <3>1, <3>2
    <3> QED
      BY <1>2, <1>8, <2>1, <2>2, <3>3
  <2>6. Cursor!GoTo(Cursor!FirstRow)
    BY <2>1, <2>3, <2>4
  <2> QED
    BY <1>4, <2>4, <2>5, <2>6
<1> QED
  BY <1>1, <1>5, <1>6, <1>7, <1>8, Showing

(* A record back. *)
LEMMA LineBack ==
  ASSUME BrowseInv, BrowseUp
  PROVE  BrowseInv' /\ Cursor!LineUp
<1> DEFINE v == Visible(area.recs)
           l == Len(v)
           x == browse.sel
           m == browse.rows
           r == GetValue(browse)
           top == browse.rangeMax[1]
           n == -1
           moves == x = 1 /\ Skip(area.recs, top, n) # top
           k == x - 1
<1>1. /\ Message /\ ~toRefresh /\ browse'.value = browse.value
      /\ moves => OnChange(SetCursel(FromRow(top, n), 1))
      /\ ~moves => OnChange(SetCursel(browse, k))
  BY KeysKeepValue DEF BrowseUp, Reading, Message
<1>2. /\ Eof(area.recs) = Len(area.recs) + 1 /\ v \in Seq(Nat) /\ l \in Nat
      /\ area.recs \in Seq(RecordStates)
      /\ \A j \in Int : Cursor!Within(j) = IF j < 1 THEN 1 ELSE IF j > l THEN l ELSE j
  BY FileOf
<1>3. n \in Int
  OBVIOUS
<1>4. /\ r \in Cursor!Visible /\ Cursor!GoTo(v[Cursor!Within(Cursor!Rank(r) - 1)]) => Cursor!LineUp
      /\ r \notin Cursor!Visible /\ Cursor!GoTo(r) => Cursor!LineUp
  BY DEF Cursor!LineUp
<1>5. ASSUME ~moves, k \in Int, k \notin 1 .. m
      PROVE  BrowseInv' /\ Cursor!GoTo(r)
  <2>1. OnChange(SetCursel(browse, k))
    BY <1>1, <1>5
  <2> HIDE DEF k
  <2> QED
    BY <1>1, <1>5, <2>1, RowOfSame
<1>6. CASE ShowsNothing
  <2>1. x = 0 /\ m = 0 /\ r = 0 /\ ~moves
    BY <1>6 DEF ShowsNothing
  <2>2. k \in Int /\ k \notin 1 .. m
    BY <2>1
  <2>3. BrowseInv' /\ Cursor!GoTo(r)
    BY <1>5, <2>1, <2>2
  <2>4. r \notin Cursor!Visible
    BY <2>1, NoRecord
  <2> QED
    BY <1>4, <2>3, <2>4
<1>7. CASE ShowsEof
  <2>1. /\ x = 0 \/ x = 1
        /\ v = <<>> /\ m = 1 /\ (r = 0 \/ r = Eof(area.recs)) /\ top = Eof(area.recs)
    BY <1>7 DEF ShowsEof
  <2>2. k \in Int /\ k \notin 1 .. m
    BY <2>1
  <2>3. ~moves
    <3>1. Skip(area.recs, Eof(area.recs), n) = Eof(area.recs)
      <4>1. browse \in Views
        BY FileOf
      <4> HIDE DEF n
      <4> QED
        BY <1>2, <1>3, <2>1, <4>1, DrawnAtNone
    <3> QED
      BY <2>1, <3>1
  <2>4. BrowseInv' /\ Cursor!GoTo(r)
    BY <1>5, <2>2, <2>3
  <2>5. r \notin Cursor!Visible
    BY <2>1, NoRecord
  <2> QED
    BY <1>4, <2>4, <2>5
<1>8. ASSUME NEW i \in 1 .. l, ShowsFrom(i)
      PROVE  BrowseInv' /\ Cursor!LineUp
  <2>1. /\ m \in 1 .. PageLength /\ x \in 0 .. m
        /\ \A y \in 1 .. m : browse.rangeMax[y] = v[i + y - 1]
        /\ x = 0 => r = 0
        /\ x # 0 => r = v[i + x - 1] /\ r \in Cursor!Visible /\ Cursor!Rank(r) = i + x - 1
        /\ x # 0 => i + x - 1 \in 1 .. l
    BY <1>8 DEF ShowsFrom
  <2>2. i \in Nat /\ 1 <= i /\ i <= l /\ i + 1 - 1 = i /\ 1 \in 1 .. m /\ x \in Nat /\ m \in Nat /\ x <= m
    BY <1>2, <2>1
  <2>3. top = v[i]
    BY <2>1, <2>2
  <2>4. Skip(area.recs, v[i], n) = IF i + n > l THEN Eof(area.recs) ELSE IF i + n < 1 THEN v[1] ELSE v[i + n]
    <3> HIDE DEF n
    <3> QED
      BY <1>2, <1>3, SkipIs
  <2>5. ~ (i + n > l) /\ (i = 1 => i + n < 1) /\ (i # 1 => ~ (i + n < 1) /\ i + n = i - 1 /\ i - 1 \in 1 .. l)
    <3> HIDE DEF l
    <3> QED
      BY <1>2, <2>2
  <2>6. CASE x = 0
    <3>1. k \in Int /\ k \notin 1 .. m /\ ~moves
      BY <2>6
    <3>2. BrowseInv' /\ Cursor!GoTo(r)
      BY <1>5, <3>1
    <3>3. r \notin Cursor!Visible
      BY <2>1, <2>6, NoRecord
    <3> QED
      BY <1>4, <3>2, <3>3
  <2>7. CASE x = 1 /\ i = 1
    <3>1. k \in Int /\ k \notin 1 .. m
      BY <2>7
    <3>2. ~moves
      BY <2>3, <2>4, <2>5, <2>7
    <3>3. BrowseInv' /\ Cursor!GoTo(r)
      BY <1>5, <3>1, <3>2
    <3>4. Cursor!Within(Cursor!Rank(r) - 1) = 1
      <4>1. Cursor!Rank(r) - 1 = 0
        BY <2>1, <2>7
      <4> QED
        BY <1>2, <4>1
    <3>5. r = v[1] /\ r \in Cursor!Visible
      BY <2>1, <2>2, <2>7
    <3>6. Cursor!GoTo(v[1])
      BY <3>3, <3>5
    <3> QED
      BY <1>4, <3>3, <3>4, <3>5, <3>6
  <2>8. CASE x = 1 /\ i # 1
    <3> DEFINE c == FromRow(v[i], n)
               j == i - 1
               row == 1
    <3>1. moves
      <4>1. Skip(area.recs, v[i], n) = v[i - 1]
        BY <2>4, <2>5, <2>8
      <4>2. v[i - 1] # v[i]
        <5>1. i - 1 \in 1 .. l /\ i \in 1 .. l
          BY <2>5, <2>8
        <5>2. Cursor!Rank(v[i - 1]) = i - 1 /\ Cursor!Rank(v[i]) = i
          BY <1>2, <5>1, RankIs
        <5> QED
          BY <2>2, <5>2
      <4> QED
        BY <2>3, <2>8, <4>1, <4>2
    <3>2. OnChange(SetCursel(c, row))
      BY <1>1, <2>3, <3>1
    <3>3. j \in 1 .. l /\ i + n <= l /\ (IF i + n < 1 THEN 1 ELSE i + n) = j /\ j + row - 1 = j /\ j \in Nat
      <4> HIDE DEF l
      <4> QED
        BY <1>2, <2>2, <2>5, <2>8
    <3> HIDE DEF n, j
    <3>4. /\ OnPage(c, v, Len(area.recs)) /\ IsView(c, Len(area.recs))
          /\ c.rangeMax = PageFrom(v, j) /\ c.rows = Len(PageFrom(v, j))
      BY <1>3, <3>3, FromRowIs
    <3>5. row \in 1 .. Len(PageFrom(v, j))
      <4>1. Len(PageFrom(v, j)) \in 1 .. PageLength
        <5> HIDE DEF v
        <5> QED
          BY <1>2, <3>3, PageIs
      <4> QED
        BY <4>1
    <3> HIDE DEF c, row
    <3>6. BrowseInv' /\ Cursor!GoTo(v[j + row - 1])
      BY <1>1, <3>2, <3>3, <3>4, <3>5, RowOfPage
    <3>7. BrowseInv' /\ Cursor!GoTo(v[j])
      BY <3>3, <3>6
    <3>8. Cursor!Within(Cursor!Rank(r) - 1) = j /\ r \in Cursor!Visible
      <4>1. Cursor!Rank(r) - 1 = j /\ r \in Cursor!Visible /\ Cursor!Rank(r) - 1 \in Int
        BY <2>1, <2>2, <2>8 DEF j
      <4>2. ~ (j < 1) /\ ~ (j > l)
        <5> HIDE DEF l
        <5> QED
          BY <1>2, <3>3
      <4> HIDE DEF l
      <4> QED
        BY <1>2, <4>1, <4>2
    <3> QED
      BY <1>4, <3>7, <3>8
  <2>9. CASE x # 0 /\ x # 1
    <3>1. k \in Int /\ k \in 1 .. m /\ ~moves
      BY <2>2, <2>9
    <3>2. OnChange(SetCursel(browse, k)) /\ browse.rangeMax[k] = v[i + k - 1]
      BY <1>1, <2>1, <3>1
    <3>3. k = x - 1
      OBVIOUS
    <3> HIDE DEF k
    <3>4. BrowseInv' /\ Cursor!GoTo(browse.rangeMax[k])
      BY <1>1, <3>1, <3>2, RowOfSame
    <3>5. Cursor!Within(Cursor!Rank(r) - 1) = i + k - 1 /\ r \in Cursor!Visible
      <4>1. Cursor!Rank(r) - 1 = i + k - 1 /\ r \in Cursor!Visible /\ i + k - 1 \in Int
        BY <2>1, <2>2, <2>9, <3>3
      <4>2. ~ (i + k - 1 < 1) /\ ~ (i + k - 1 > l)
        <5>1. i + x - 1 <= l
          BY <2>1, <2>9
        <5>2. i + k - 1 = i + x - 2 /\ i \in Nat /\ x \in Nat /\ x # 0 /\ x # 1 /\ 1 <= i /\ l \in Nat
          BY <1>2, <2>2, <2>9, <3>3
        <5> HIDE DEF l, x
        <5>3. i + x - 2 >= 1 /\ i + x - 2 <= l
          BY <5>1, <5>2
        <5> QED
          BY <5>2, <5>3
      <4> HIDE DEF l
      <4> QED
        BY <1>2, <4>1, <4>2
    <3>6. Cursor!GoTo(v[i + k - 1])
      BY <3>2, <3>4
    <3> QED
      BY <1>4, <3>4, <3>5, <3>6
  <2> QED
    BY <2>6, <2>7, <2>8, <2>9
<1> QED
  BY <1>1, <1>6, <1>7, <1>8, Showing

(* A record further. *)
LEMMA LineFurther ==
  ASSUME BrowseInv, BrowseDown
  PROVE  BrowseInv' /\ Cursor!LineDown
<1> DEFINE v == Visible(area.recs)
           l == Len(v)
           x == browse.sel
           m == browse.rows
           r == GetValue(browse)
           n == 1
           k == x + 1
<1>1. /\ Message /\ ~toRefresh /\ browse'.value = browse.value
      /\ x = PageLength => OnChange(ToLastRow(FromRow(browse.rangeMax[1], n)))
      /\ x # PageLength => OnChange(SetCursel(browse, k))
  BY KeysKeepValue DEF BrowseDown, Reading, Message
<1>2. /\ Eof(area.recs) = Len(area.recs) + 1 /\ v \in Seq(Nat) /\ l \in Nat /\ Len(area.recs) \in Nat
      /\ PageLength \in Nat /\ PageLength > 2
      /\ \A j \in Int : Cursor!Within(j) = IF j < 1 THEN 1 ELSE IF j > l THEN l ELSE j
  BY FileOf
<1>3. n \in Int
  OBVIOUS
<1>4. /\ r \in Cursor!Visible /\ Cursor!GoTo(v[Cursor!Within(Cursor!Rank(r) + 1)]) => Cursor!LineDown
      /\ r = 0 /\ Cursor!GoTo(Cursor!FirstRow) => Cursor!LineDown
      /\ r > Len(area.recs) /\ Cursor!GoTo(r) => Cursor!LineDown
  BY DEF Cursor!LineDown
<1>5. ASSUME x # PageLength, k \in Int
      PROVE  /\ BrowseInv'
             /\ k \in 1 .. m => Cursor!GoTo(browse.rangeMax[k])
             /\ k \notin 1 .. m => Cursor!GoTo(r)
  <2>1. OnChange(SetCursel(browse, k))
    BY <1>1, <1>5
  <2> HIDE DEF k
  <2> QED
    BY <1>1, <1>5, <2>1, RowOfSame
<1>6. CASE ShowsNothing
  <2>1. x = 0 /\ m = 0 /\ r = 0 /\ x # PageLength /\ Cursor!FirstRow = 0
    BY <1>2, <1>6 DEF ShowsNothing
  <2>2. k \in Int /\ k \notin 1 .. m
    BY <2>1
  <2>3. BrowseInv' /\ Cursor!GoTo(r)
    BY <1>5, <2>1, <2>2
  <2> QED
    BY <1>4, <2>1, <2>3
<1>7. CASE ShowsEof
  <2>1. /\ x # PageLength /\ m = 1
        /\ browse.rangeMax[1] = Eof(area.recs) /\ Cursor!FirstRow = Eof(area.recs)
        /\ \/ x = 0 /\ r = 0
           \/ x = 1 /\ r = Eof(area.recs)
    BY <1>2, <1>7 DEF ShowsEof
  <2>2. CASE x = 0 /\ r = 0
    <3>1. k \in Int /\ k \in 1 .. m /\ k = 1
      BY <2>1, <2>2
    <3>2. BrowseInv' /\ Cursor!GoTo(browse.rangeMax[k])
      <4> HIDE DEF k
      <4> QED
        BY <1>5, <2>1, <3>1
    <3>3. Cursor!GoTo(Cursor!FirstRow)
      BY <2>1, <3>1, <3>2
    <3> QED
      BY <1>4, <2>2, <3>2, <3>3
  <2>3. CASE x = 1 /\ r = Eof(area.recs)
    <3>1. k \in Int /\ k \notin 1 .. m
      BY <2>1, <2>3
    <3>2. BrowseInv' /\ Cursor!GoTo(r)
      <4> HIDE DEF k
      <4> QED
        BY <1>5, <2>1, <3>1
    <3>3. r > Len(area.recs)
      BY <1>2, <2>3
    <3> QED
      BY <1>4, <3>2, <3>3
  <2> QED
    BY <2>1, <2>2, <2>3
<1>8. ASSUME NEW i \in 1 .. l, ShowsFrom(i)
      PROVE  BrowseInv' /\ Cursor!LineDown
  <2>1. /\ m \in 1 .. PageLength /\ x \in 0 .. m
        /\ i + m - 1 <= l
        /\ m < PageLength => i + m - 1 = l
        /\ \A y \in 1 .. m : browse.rangeMax[y] = v[i + y - 1]
        /\ Cursor!FirstRow = v[i]
        /\ x = 0 => r = 0
        /\ x # 0 => r = v[i + x - 1] /\ r \in Cursor!Visible /\ Cursor!Rank(r) = i + x - 1
    BY <1>8 DEF ShowsFrom
  <2>2. i \in Nat /\ 1 <= i /\ i <= l /\ i + 1 - 1 = i /\ 1 \in 1 .. m /\ x \in Nat /\ m \in Nat /\ x <= m /\ m <= PageLength
    BY <1>2, <2>1
  <2>3. browse.rangeMax[1] = v[i]
    BY <2>1, <2>2
  <2>4. CASE x = 0
    <3>1. k \in Int /\ k \in 1 .. m /\ x # PageLength /\ k = 1
      BY <1>2, <2>2, <2>4
    <3>2. BrowseInv' /\ Cursor!GoTo(browse.rangeMax[k])
      <4> HIDE DEF k
      <4> QED
        BY <1>5, <3>1
    <3>3. Cursor!GoTo(Cursor!FirstRow)
      BY <2>1, <2>3, <3>1, <3>2
    <3> QED
      BY <1>4, <2>1, <2>4, <3>2, <3>3
  <2>5. CASE x # 0 /\ x # PageLength
    <3>1. k \in Int /\ k = x + 1
      BY <2>2
    <3>2. Cursor!Rank(r) + 1 = i + x /\ i + x \in Int /\ r \in Cursor!Visible
      BY <2>1, <2>2, <2>5
    <3>3. Cursor!Within(i + x) = IF i + x < 1 THEN 1 ELSE IF i + x > l THEN l ELSE i + x
      <4> HIDE DEF l
      <4> QED
        BY <1>2, <3>2
    <3>4. CASE x < m
      <4>1. k \in 1 .. m /\ i + k - 1 = i + x
        BY <2>2, <3>1, <3>4
      <4>2. browse.rangeMax[k] = v[i + x]
        BY <2>1, <4>1
      <4>3. Cursor!Within(i + x) = i + x
        <5>1. i + m - 1 <= l
          BY <2>1
        <5> HIDE DEF l, x, m
        <5>2. ~ (i + x < 1) /\ ~ (i + x > l)
          BY <1>2, <2>2, <3>4, <5>1
        <5> QED
          BY <3>3, <5>2
      <4> HIDE DEF k
      <4>4. BrowseInv' /\ Cursor!GoTo(v[i + x])
        BY <1>5, <2>5, <3>1, <4>1, <4>2
      <4> QED
        BY <1>4, <3>2, <4>3, <4>4
    <3>5. CASE ~ (x < m)
      <4>1. x = m /\ m < PageLength
        BY <1>2, <2>2, <2>5, <3>5
      <4>2. k \notin 1 .. m /\ i + m - 1 = l
        BY <2>1, <2>2, <3>1, <4>1
      <4>3. Cursor!Within(i + x) = l /\ i + x - 1 = l
        <5> HIDE DEF l, x, m
        <5>1. ~ (i + x < 1) /\ i + x > l /\ i + x - 1 = l
          BY <1>2, <2>2, <4>1, <4>2
        <5> QED
          BY <3>3, <5>1
      <4> HIDE DEF k
      <4>4. BrowseInv' /\ Cursor!GoTo(r)
        BY <1>5, <2>5, <3>1, <4>2
      <4>5. r = v[l]
        BY <2>1, <2>5, <4>3
      <4>6. Cursor!GoTo(v[l])
        BY <4>4, <4>5
      <4> QED
        BY <1>4, <3>2, <4>3, <4>4, <4>6
    <3> QED
      BY <3>4, <3>5
  <2>6. CASE x = PageLength
    <3> DEFINE j == i + 1
               c == FromRow(v[i], n)
               row == Len(PageFrom(v, j))
    <3>1. m = PageLength /\ x # 0
      BY <1>2, <2>2, <2>6
    <3>2. OnChange(ToLastRow(c))
      BY <1>1, <2>3, <2>6
    <3>3. i + n <= l /\ (IF i + n < 1 THEN 1 ELSE i + n) = j /\ j \in 1 .. l /\ j \in Nat
      <4>1. i + m - 1 <= l
        BY <2>1
      <4> HIDE DEF l, m
      <4> QED
        BY <1>2, <2>2, <3>1, <4>1
    <3> HIDE DEF n, j, v
    <3>4. /\ OnPage(c, v, Len(area.recs)) /\ IsView(c, Len(area.recs))
          /\ c.rangeMax = PageFrom(v, j) /\ c.rows = Len(PageFrom(v, j))
      BY <1>3, <3>3, FromRowIs DEF v
    <3>5. /\ row \in 1 .. PageLength /\ j + row - 1 <= l
          /\ row < PageLength => j + row - 1 = l
      BY <1>2, <3>3, PageIs
    <3>6. row \in 1 .. Len(PageFrom(v, j)) /\ OnChange(SetCursel(c, row))
      BY <3>2, <3>4, <3>5 DEF ToLastRow
    <3> HIDE DEF c, row
    <3>7. BrowseInv' /\ Cursor!GoTo(v[j + row - 1])
      BY <1>1, <3>3, <3>4, <3>6, RowOfPage DEF v
    <3>8. r \in Cursor!Visible /\ Cursor!Rank(r) + 1 = i + PageLength
      BY <1>2, <2>1, <2>2, <2>6, <3>1
    <3>9. Cursor!Within(i + PageLength) = j + row - 1
      <4> HIDE DEF l
      <4>1. Cursor!Within(i + PageLength) = IF i + PageLength < 1 THEN 1 ELSE IF i + PageLength > l THEN l ELSE i + PageLength
        <5>1. i + PageLength \in Int
          BY <1>2, <2>2
        <5> QED
          BY <1>2, <5>1
      <4>2. row = PageLength \/ row < PageLength
        BY <1>2, <3>5
      <4>3. IF i + PageLength < 1 THEN FALSE ELSE IF i + PageLength > l THEN j + row - 1 = l ELSE j + row - 1 = i + PageLength
        BY <1>2, <2>2, <3>5, <4>2 DEF j
      <4> QED
        BY <4>1, <4>3
    <3> QED
      BY <1>4, <3>7, <3>8, <3>9
  <2> QED
    BY <2>4, <2>5, <2>6
<1> QED
  BY <1>1, <1>6, <1>7, <1>8, Showing

(* A view that is brought to a visible record, or emptied. *)
LEMMA ValuedIs ==
  ASSUME NEW recs \in Seq(RecordStates), browse \in Views, NEW i \in 1 .. Len(Visible(recs)),
         NEW m \in 1 .. PageLength
  PROVE  LET v == Visible(recs)
             c == Valued(recs, v[i], m)
         IN  /\ OnPage(c, v, Len(recs)) /\ GetValue(c) = v[i] /\ c.value = v[i]
<1> DEFINE v == Visible(recs)
           l == Len(v)
           r == v[i]
           b == [browse EXCEPT !.value = r]
           n == 1 - m
           s == IF i + n < 1 THEN 1 ELSE i + n
           d == BrowseUpdate(recs, b, Skip(recs, r, n))
           c == Valued(recs, r, m)
<1>1. /\ v \in Seq(Nat) /\ l \in Nat /\ Len(recs) \in Nat /\ Eof(recs) = Len(recs) + 1
      /\ i \in Nat /\ 1 <= i /\ i <= l /\ r \in 1 .. Len(recs) /\ r \in Nat
  BY RecordsIs
<1>2. PageLength \in Nat /\ m \in Nat /\ 1 <= m /\ m <= PageLength
  BY BrowseAssumption
<1>3. c = SelectRecord(d, r)
  <2>1. r # Eof(recs)
    BY <1>1
  <2> HIDE DEF r
  <2> QED
    BY <2>1 DEF Valued
<1>4. b \in Views /\ Carries(b, r)
  <2> HIDE DEF r
  <2> QED
    BY <1>1 DEF Views, Carries
<1>5. /\ n \in Int /\ i + n <= l /\ s \in 1 .. l /\ i \in s .. l /\ i <= s + PageLength - 1
  <2> HIDE DEF l
  <2> QED
    BY <1>1, <1>2
<1> HIDE DEF n
<1>6. Skip(recs, r, n) = v[s]
  <2>1. Skip(recs, v[i], n) = IF i + n > l THEN Eof(recs) ELSE IF i + n < 1 THEN v[1] ELSE v[i + n]
    BY <1>5, SkipIs
  <2>2. ~ (i + n > l)
    <3> HIDE DEF l
    <3> QED
      BY <1>1, <1>5
  <2> HIDE DEF v, l
  <2> QED
    BY <2>1, <2>2
<1> HIDE DEF s, b
<1>7. d = BrowseUpdate(recs, b, v[s])
  BY <1>6
<1>12. c.value = r
  BY <1>3, <1>4, Carried DEF Carries
<1> HIDE DEF d
<1>8. OnPage(d, v, Len(recs)) /\ d.rangeMax = PageFrom(v, s)
  BY <1>4, <1>5, <1>7, DrawnAt
<1> HIDE DEF r
<1>9. \E j \in 1 .. Len(d.rangeMax) : d.rangeMax[j] = r
  <2> HIDE DEF v
  <2>1. \E j \in 1 .. Len(PageFrom(v, s)) : PageFrom(v, s)[j] = v[i]
    BY <1>1, <1>5, InPage DEF l
  <2> QED
    BY <1>8, <2>1 DEF r
<1> HIDE DEF c
<1>10. IsView(c, Len(recs)) /\ c.rangeMax = d.rangeMax /\ c.rows = d.rows /\ GetValue(c) = r
  BY <1>1, <1>3, <1>8, <1>9, SelectRecordIs DEF OnPage
<1>11. OnPage(c, v, Len(recs))
  BY <1>8, <1>10 DEF OnPage
<1> QED
  BY <1>10, <1>11, <1>12 DEF c, r

(* A view that is emptied. *)
LEMMA ValuedNone ==
  ASSUME NEW recs, NEW n \in Nat, IsView(browse, n), NEW m,
         Eof(recs) \in Nat
  PROVE  LET c == Valued(recs, Eof(recs), m)
         IN  /\ IsView(c, n) /\ c.rows = 0 /\ c.sel = 0 /\ GetValue(c) = 0 /\ Screen(c) = <<>>
             /\ c.value = Eof(recs)
<1> DEFINE c == Valued(recs, Eof(recs), m)
           b == [browse EXCEPT !.value = Eof(recs)]
<1>1. c = [b EXCEPT !.rows = 0, !.sel = 0]
  BY Zenon DEF Valued, ListViewReset
<1>2. browse \in Views
  BY DEF IsView
<1> HIDE DEF c
<1>3. c \in Views /\ c.rows = 0 /\ c.sel = 0 /\ c.rangeMax = browse.rangeMax /\ c.value = Eof(recs)
  <2>1. b \in Views /\ b.rangeMax = browse.rangeMax /\ b.value = Eof(recs)
    BY <1>2 DEF Views
  <2> HIDE DEF b
  <2> QED
    BY <1>1, <2>1 DEF Views
<1>4. IsView(c, n)
  BY <1>3 DEF IsView
<1>5. GetValue(c) = 0 /\ Screen(c) = <<>>
  BY <1>3, <1>4, ScreenIs
<1> QED
  BY <1>3, <1>4, <1>5 DEF c

(* The next state of a browse. *)
LEMMA NextInv ==
  ASSUME BrowseInv, area'.recs \in Seq(RecordStates),
         area' \in [recs : Seq(RecordStates), recno : Nat], area'.recno \in 1 .. Eof(area'.recs),
         set' = set, toRefresh' \in BOOLEAN, IsView(browse', Len(area'.recs)),
         ~toRefresh' /\ browse'.rows # 0 => OnPage(browse', Visible(area'.recs), Len(area'.recs))
  PROVE  /\ BrowseInv'
         /\ Visible(area.recs)' = Visible(area'.recs)
         /\ SubSeq(browse.rangeMax, 1, browse.rows)' = Screen(browse')
         /\ SubSeq(browse.rangeMax, 1, browse.rows) = Screen(browse)
         /\ GetValue(browse)' = GetValue(browse')
<1>1. Visible(area.recs)' = Visible(area'.recs)
  BY VisibleIs
<1>2. /\ SubSeq(browse.rangeMax, 1, browse.rows)' = Screen(browse')
      /\ SubSeq(browse.rangeMax, 1, browse.rows) = Screen(browse)
  BY DEF Screen
<1>3. GetValue(browse)' = GetValue(browse')
  BY DEF GetValue
<1>4. /\ area'.recno \in 1 .. Len(area'.recs) + 1
      /\ set' \in [deleted : BOOLEAN, sync : BOOLEAN, eachClick : BOOLEAN]
  BY DEF BrowseInv, Eof
<1>5. ~toRefresh' /\ browse'.rows # 0 => OnPage(browse', Visible(area.recs)', Len(area'.recs))
  BY <1>1
<1>6. BrowseInv'
  BY <1>4, <1>5 DEF BrowseInv, Eof
<1> QED
  BY <1>1, <1>2, <1>3, <1>6

(* A record is chosen. *)
LEMMA ChosenRecord ==
  ASSUME BrowseInv, NEW value, SetValue(value), Shows(value)
  PROVE  BrowseInv' /\ Cursor!Choose(value)
<1> DEFINE v == Visible(area.recs)
           m == PageLength \div 2
<1>1. Message /\ OnChange(Valued(area.recs, value, m))
  BY DEF SetValue, Reading
<1>2. area.recs \in Seq(RecordStates) /\ browse \in Views /\ Len(area.recs) \in Nat
  BY FileOf
<1>3. PICK i \in 1 .. Len(v) : v[i] = value
  <2>1. value \in 1 .. Len(area.recs) /\ ~Hidden(area.recs[value])
    BY <1>2, RecordsIs DEF Shows
  <2> QED
    BY <1>2, <2>1, RecordsIs
<1>4. m \in 1 .. PageLength
  BY BrowseAssumption
<1> HIDE DEF m
<1> DEFINE c == Valued(area.recs, v[i], m)
<1>5. OnPage(c, v, Len(area.recs)) /\ GetValue(c) = v[i] /\ c.value = v[i]
  BY <1>2, <1>4, ValuedIs
<1>6. OnChange(c)
  BY <1>1, <1>3
<1> HIDE DEF c
<1>7. BrowseInv' /\ Cursor!BroughtTo(GetValue(c))
  BY <1>1, <1>5, <1>6, GoesTo DEF OnPage
<1>8. v[i] \in Cursor!Visible /\ v[i] # 0
  BY <1>2, RankIs
<1>9. value \in Cursor!Visible /\ Cursor!BroughtTo(value)
  BY <1>3, <1>5, <1>7, <1>8
<1>10. GetValue(browse)' = value /\ browse'.value = value /\ value # 0
  BY <1>3, <1>5, <1>6, <1>8, <1>9 DEF OnChange, Cursor!BroughtTo
<1>11. Cursor!Chosen
  BY <1>10 DEF Cursor!Chosen
<1> QED
  BY <1>7, <1>9, <1>11 DEF Cursor!Choose

(* The place behind the records is chosen. *)
LEMMA ChosenNone ==
  ASSUME BrowseInv, SetValue(Eof(area.recs))
  PROVE  BrowseInv' /\ Cursor!ChooseNone
<1> DEFINE c == Valued(area.recs, Eof(area.recs), PageLength \div 2)
<1>1. ~toRefresh /\ toRefresh' = toRefresh /\ set' = set /\ OnChange(c)
  BY DEF SetValue, Reading, Message
<1>2. /\ area.recs \in Seq(RecordStates) /\ Len(area.recs) \in Nat /\ IsView(browse, Len(area.recs))
      /\ Eof(area.recs) = Len(area.recs) + 1 /\ Eof(area.recs) \in Nat
  BY FileOf
<1>3. IsView(c, Len(area.recs)) /\ c.rows = 0 /\ GetValue(c) = 0 /\ Screen(c) = <<>> /\ c.value = Eof(area.recs)
  BY <1>2, ValuedNone
<1> HIDE DEF c
<1>4. /\ browse' = c /\ notified' = 0
      /\ area' = IF ~set.sync THEN area ELSE [area EXCEPT !.recno = Len(area.recs) + 1]
  BY <1>1, <1>2, <1>3 DEF OnChange
<1>5. area \in [recs : Seq(RecordStates), recno : Nat] /\ area.recno \in 1 .. Eof(area.recs) /\ toRefresh \in BOOLEAN
  BY DEF BrowseInv
<1>6. /\ area'.recs = area.recs /\ area' \in [recs : Seq(RecordStates), recno : Nat]
      /\ area'.recno \in 1 .. Eof(area'.recs)
      /\ area'.recno = IF ~set.sync THEN area.recno ELSE Len(area.recs) + 1
  <2> DEFINE e == Len(area.recs) + 1
  <2>1. e \in Nat /\ e \in 1 .. e /\ Eof(area.recs) = e
    BY <1>2
  <2>2. area' = IF ~set.sync THEN area ELSE [area EXCEPT !.recno = e]
    BY <1>4
  <2> HIDE DEF e
  <2> QED
    BY <1>5, <2>1, <2>2 DEF e
<1>7. IsView(browse', Len(area'.recs)) /\ browse'.rows = 0 /\ area'.recs \in Seq(RecordStates) /\ toRefresh' \in BOOLEAN
  BY <1>1, <1>2, <1>3, <1>4, <1>5, <1>6
<1>8. /\ BrowseInv'
      /\ Visible(area.recs)' = Visible(area'.recs)
      /\ SubSeq(browse.rangeMax, 1, browse.rows)' = Screen(browse')
      /\ GetValue(browse)' = GetValue(browse')
  BY <1>1, <1>6, <1>7, NextInv
<1>9. Cursor!SameFile
  BY <1>1, <1>6, <1>8 DEF Cursor!SameFile
<1>10. Cursor!Tell
  BY <1>1, <1>3, <1>4, <1>6, <1>8 DEF Cursor!Tell
<1>11. Cursor!Chosen
  BY <1>2, <1>3, <1>4, <1>6, <1>8 DEF Cursor!Chosen
<1> QED
  BY <1>3, <1>4, <1>8, <1>9, <1>10, <1>11 DEF Cursor!ChooseNone

(* A click on a row. *)
LEMMA ClickedRow ==
  ASSUME BrowseInv, NEW row \in 1 .. browse.rows, Click(row)
  PROVE  BrowseInv' /\ Cursor!Click
<1> DEFINE b == [browse EXCEPT !.sel = row, !.value = browse.rangeMax[row]]
           n == Len(area.recs)
<1>1. /\ Message /\ ~toRefresh /\ toRefresh' = toRefresh /\ set' = set
      /\ IF browse.value # b.value \/ set.eachClick THEN OnChange(b) ELSE notified' = NotFired /\ area' = area
      /\ browse' = b
  BY DEF Click, Reading, Message, OnChange, NoChange
<1>2. n \in Nat /\ browse \in Views /\ IsView(browse, n)
  BY FileOf
<1>3. /\ browse.rangeMax \in Seq(Nat) /\ browse.rows \in Nat /\ Len(browse.rangeMax) \in Nat
      /\ browse.rows = 0 \/ browse.rows = Len(browse.rangeMax)
      /\ DOMAIN browse.rangeMax = 1 .. Len(browse.rangeMax)
  BY <1>2 DEF IsView, Views
<1>4. row \in Nat /\ row # 0 /\ row \in 0 .. browse.rows /\ row \in 1 .. Len(browse.rangeMax) /\ browse.rows # 0
      /\ browse.rows = Len(browse.rangeMax)
  BY <1>3
<1>5. browse.rangeMax[row] \in Nat
  BY <1>3, <1>4
<1>6. /\ b \in Views /\ b.rangeMax = browse.rangeMax /\ b.rows = browse.rows /\ b.sel = row
      /\ b.value = browse.rangeMax[row]
  <2> DEFINE r == browse.rangeMax[row]
  <2>1. r \in Nat /\ b = [browse EXCEPT !.sel = row, !.value = r]
    BY <1>5
  <2> HIDE DEF r, b
  <2>2. /\ b \in Views /\ b.rangeMax = browse.rangeMax /\ b.rows = browse.rows /\ b.sel = row
        /\ b.value = r
    BY <1>2, <1>4, <2>1 DEF Views
  <2> QED
    BY <2>2 DEF r
<1> HIDE DEF b
<1>7. IsView(b, n) /\ GetValue(b) = browse.rangeMax[row]
  BY <1>2, <1>4, <1>6 DEF IsView, GetValue
<1>8. Screen(browse) = browse.rangeMax
  BY <1>2, <1>4, ScreenIs
<1>9. GetValue(b) \in Cursor!Members(SubSeq(browse.rangeMax, 1, browse.rows))
  <2>1. SubSeq(browse.rangeMax, 1, browse.rows) = browse.rangeMax
    BY <1>8 DEF Screen
  <2> QED
    BY <1>3, <1>4, <1>7, <2>1 DEF Cursor!Members
<1>10. SubSeq(browse.rangeMax, 1, browse.rows)' = SubSeq(browse.rangeMax, 1, browse.rows)
  BY <1>1, <1>6
<1>11. GetValue(browse)' = GetValue(b)
  BY <1>1 DEF GetValue
<1>12. browse.rangeMax[row] # 0
  BY <1>2, <1>4 DEF IsView
<1>13. Cursor!Chosen /\ browse'.value = GetValue(browse)'
  BY <1>1, <1>6, <1>7, <1>11, <1>12 DEF Cursor!Chosen
<1>14. CASE browse.value # b.value \/ set.eachClick
  <2>1. BrowseInv' /\ Cursor!BroughtTo(GetValue(b))
    BY <1>1, <1>6, <1>7, <1>14, GoesTo
  <2>2. Cursor!SameFile /\ Cursor!Tell
    BY <2>1 DEF Cursor!BroughtTo
  <2>3. set.eachClick \/ GetValue(browse)' # browse.value
    BY <1>6, <1>7, <1>11, <1>14
  <2> QED
    BY <1>9, <1>10, <1>11, <1>13, <2>1, <2>2, <2>3 DEF Cursor!Click
<1>15. CASE ~ (browse.value # b.value \/ set.eachClick)
  <2>1. /\ area.recs \in Seq(RecordStates) /\ area \in [recs : Seq(RecordStates), recno : Nat]
        /\ area.recno \in 1 .. Eof(area.recs) /\ toRefresh \in BOOLEAN
        /\ OnPage(browse, Visible(area.recs), n)
    BY <1>1, <1>4 DEF BrowseInv
  <2>2. area' = area /\ OnPage(b, Visible(area.recs), n)
    BY <1>1, <1>6, <1>7, <1>15, <2>1 DEF OnPage
  <2>3. BrowseInv' /\ Visible(area.recs)' = Visible(area.recs)
    BY <1>1, <1>7, <2>1, <2>2, NextInv
  <2>4. Cursor!SameFile
    BY <1>1, <2>2, <2>3 DEF Cursor!SameFile
  <2>5. Cursor!Silent
    BY <1>1, <1>15, <2>2 DEF Cursor!Silent, Cursor!Untold, NotFired
  <2>6. ~ (set.eachClick \/ GetValue(browse)' # browse.value)
    BY <1>6, <1>7, <1>11, <1>15
  <2> QED
    BY <1>9, <1>10, <1>11, <1>13, <2>3, <2>4, <2>5, <2>6 DEF Cursor!Click
<1> QED
  BY <1>14, <1>15

(* A click below the rows. *)
LEMMA ClickedOutside ==
  ASSUME BrowseInv, ClickOutside
  PROVE  BrowseInv' /\ Cursor!ClickOutside
<1> DEFINE b == [browse EXCEPT !.sel = 0]
           n == Len(area.recs)
<1>1. /\ ~toRefresh /\ toRefresh' = toRefresh /\ set' = set /\ browse' = b /\ area' = area /\ notified' = NotFired
  BY DEF ClickOutside, Reading, Message, NoChange
<1>2. n \in Nat /\ browse \in Views /\ IsView(browse, n)
  BY FileOf
<1>3. b \in Views /\ b.rangeMax = browse.rangeMax /\ b.rows = browse.rows /\ b.sel = 0 /\ b.value = browse.value
  BY <1>2 DEF Views
<1> HIDE DEF b
<1>4. IsView(b, n) /\ GetValue(b) = 0
  <2>1. 0 \in 0 .. b.rows
    BY <1>3 DEF Views
  <2> QED
    BY <1>2, <1>3, <2>1 DEF IsView, GetValue
<1>5. /\ area.recs \in Seq(RecordStates) /\ area \in [recs : Seq(RecordStates), recno : Nat]
      /\ area.recno \in 1 .. Eof(area.recs) /\ toRefresh \in BOOLEAN
      /\ browse.rows # 0 => OnPage(browse, Visible(area.recs), n)
  BY <1>1 DEF BrowseInv
<1>6. b.rows # 0 => OnPage(b, Visible(area.recs), n)
  BY <1>3, <1>4, <1>5 DEF OnPage
<1>7. BrowseInv' /\ Visible(area.recs)' = Visible(area.recs)
  BY <1>1, <1>4, <1>5, <1>6, NextInv
<1>8. Cursor!SameFile
  BY <1>1, <1>7 DEF Cursor!SameFile
<1>9. SubSeq(browse.rangeMax, 1, browse.rows)' = SubSeq(browse.rangeMax, 1, browse.rows)
  BY <1>1, <1>3
<1>10. GetValue(browse)' = 0
  BY <1>1, <1>4 DEF GetValue
<1>11. Cursor!Silent /\ browse'.value = browse.value
  BY <1>1, <1>3 DEF Cursor!Silent, Cursor!Untold, NotFired
<1> QED
  BY <1>1, <1>7, <1>8, <1>9, <1>10, <1>11 DEF Cursor!ClickOutside

(* The program changes the file. *)
LEMMA FileChanged ==
  ASSUME BrowseInv, Change
  PROVE  BrowseInv' /\ Cursor!Work
<1> DEFINE old == area.recs
<1>1. PICK recs :
        /\ \/ recs = old \/ recs = Append(old, "live")
           \/ \E r \in DOMAIN old, state \in RecordStates : recs = [old EXCEPT ![r] = state]
        /\ \E recno \in PointersOf(recs) : area' = [recs |-> recs, recno |-> recno]
  BY DEF Change, LeavesFile
<1>2. PICK recno \in PointersOf(recs) : area' = [recs |-> recs, recno |-> recno]
  BY <1>1
<1>3. toRefresh' = TRUE /\ browse' = browse /\ notified' = NotFired /\ set' = set
  BY DEF Change, NoChange
<1>4. old \in Seq(RecordStates) /\ Len(old) \in Nat /\ IsView(browse, Len(old)) /\ browse \in Views
  BY FileOf
<1> HIDE DEF old
<1>5. recs \in Seq(RecordStates) /\ Len(recs) \in Nat /\ Len(old) <= Len(recs)
  <2>1. CASE recs = old
    BY <1>4, <2>1
  <2>2. CASE recs = Append(old, "live")
    <3>1. "live" \in RecordStates
      BY DEF RecordStates
    <3> QED
      BY <1>4, <2>2, <3>1, AppendProperties
  <2>3. CASE \E r \in DOMAIN old, state \in RecordStates : recs = [old EXCEPT ![r] = state]
    <3>1. PICK r \in DOMAIN old, state \in RecordStates : recs = [old EXCEPT ![r] = state]
      BY <2>3
    <3>2. r \in 1 .. Len(old)
      BY <1>4
    <3> QED
      BY <1>4, <3>1, <3>2, ExceptSeq
  <2> QED
    BY <1>1, <2>1, <2>2, <2>3
<1>6. recno \in Nat /\ recno \in 1 .. Eof(recs)
  <2>1. DOMAIN recs = 1 .. Len(recs) /\ Eof(recs) = Len(recs) + 1
    BY <1>5 DEF Eof
  <2>2. recno \in DOMAIN recs \/ recno = Eof(recs)
    BY <1>2 DEF PointersOf
  <2>3. recno \in 1 .. Len(recs) \/ recno = Len(recs) + 1
    BY <2>1, <2>2, Zenon
  <2> DEFINE n == Len(recs)
  <2>4. n \in Nat /\ Eof(recs) = n + 1 /\ (recno \in 1 .. n \/ recno = n + 1)
    BY <1>5, <2>1, <2>3
  <2> HIDE DEF n
  <2>5. recno \in Nat /\ recno \in 1 .. n + 1
    BY <2>4
  <2> QED
    BY <2>4, <2>5
<1>7. IsView(browse, Len(recs))
  <2>1. \A j \in 1 .. Len(browse.rangeMax) : browse.rangeMax[j] \in 1 .. Len(recs) + 1
    <3> SUFFICES ASSUME NEW j \in 1 .. Len(browse.rangeMax) PROVE browse.rangeMax[j] \in 1 .. Len(recs) + 1
      OBVIOUS
    <3>1. browse.rangeMax[j] \in 1 .. Len(old) + 1
      BY <1>4 DEF IsView
    <3> QED
      BY <1>4, <1>5, <3>1
  <2> QED
    BY <1>4, <2>1 DEF IsView
<1>8. area'.recs = recs /\ area'.recno = recno /\ area' \in [recs : Seq(RecordStates), recno : Nat]
  BY <1>2, <1>5, <1>6
<1>9. BrowseInv'
  BY <1>3, <1>5, <1>6, <1>7, <1>8, NextInv
<1>10. Cursor!Work
  <2>1. GetValue(browse)' = GetValue(browse)
    BY <1>3 DEF GetValue
  <2> QED
    BY <1>3, <2>1 DEF Cursor!Work, Cursor!Untold, NotFired
<1> QED
  BY <1>9, <1>10

(* Where a refresh starts to draw, if at is the record that it looks for. *)
StartFrom(recs, r, x) == IF x = 0 THEN r ELSE Skip(recs, r, 1 - x)

(* If that record is visible, the page holds it. *)
LEMMA RefreshVisible ==
  ASSUME NEW recs \in Seq(RecordStates), NEW i \in 1 .. Len(Visible(recs)), browse.sel \in 0 .. PageLength
  PROVE  LET v == Visible(recs)
             r == RefreshFrom(recs, v[i])
         IN  /\ r = v[i] /\ r # Eof(recs)
             /\ \E s \in 1 .. Len(v) : /\ StartFrom(recs, r, browse.sel) = v[s]
                                       /\ i \in s .. Len(v) /\ i <= s + PageLength - 1
<1> DEFINE v == Visible(recs)
           l == Len(v)
           at == v[i]
           x == browse.sel
<1>1. /\ l \in Nat /\ i \in Nat /\ 1 <= i /\ i <= l /\ Len(recs) \in Nat /\ Eof(recs) = Len(recs) + 1
      /\ at \in 1 .. Len(recs) /\ ~Hidden(recs[at])
  BY RecordsIs
<1>2. PageLength \in Nat /\ PageLength > 2 /\ x \in Nat /\ x <= PageLength
  BY BrowseAssumption
<1>3. at # Eof(recs) /\ recs[at] # "filtered" /\ ~ (set.deleted /\ recs[at] = "deleted")
  BY <1>1 DEF Hidden
<1>4. RefreshFrom(recs, at) = at
  <2> HIDE DEF at
  <2> QED
    BY <1>3 DEF RefreshFrom
<1>5. CASE x = 0
  <2>1. StartFrom(recs, at, x) = v[i]
    BY <1>5 DEF StartFrom
  <2>2. i \in i .. l /\ i <= i + PageLength - 1
    <3> HIDE DEF l
    <3> QED
      BY <1>1, <1>2
  <2> QED
    BY <1>3, <1>4, <2>1, <2>2
<1>6. CASE x # 0
  <2> DEFINE n == 1 - x
             s == IF i + n < 1 THEN 1 ELSE i + n
  <2>1. n \in Int /\ i + n <= l /\ ~ (i + n > l) /\ s \in 1 .. l /\ i \in s .. l /\ i <= s + PageLength - 1
    <3> HIDE DEF l, x
    <3> QED
      BY <1>1, <1>2, <1>6
  <2>2. StartFrom(recs, at, x) = Skip(recs, at, n)
    BY <1>6 DEF StartFrom
  <2> HIDE DEF n
  <2>3. Skip(recs, v[i], n) = IF i + n > l THEN Eof(recs) ELSE IF i + n < 1 THEN v[1] ELSE v[i + n]
    BY <2>1, SkipIs
  <2>4. StartFrom(recs, at, x) = v[s]
    <3> HIDE DEF v, l
    <3> QED
      BY <2>1, <2>2, <2>3 DEF at
  <2> HIDE DEF s
  <2> QED
    BY <1>3, <1>4, <2>1, <2>4
<1> QED
  BY <1>5, <1>6

(* If it is not, the page starts with a visible record, or the view is emptied. *)
LEMMA RefreshHidden ==
  ASSUME NEW recs \in Seq(RecordStates), NEW at \in 1 .. Eof(recs), browse.sel \in Nat,
         \A j \in 1 .. Len(Visible(recs)) : Visible(recs)[j] # at
  PROVE  LET v == Visible(recs)
             r == RefreshFrom(recs, at)
         IN  /\ r = Eof(recs) => \A j \in 1 .. Len(v) : ~ (v[j] > at)
             /\ r # Eof(recs) => \/ \E s \in 1 .. Len(v) : StartFrom(recs, r, browse.sel) = v[s]
                                 \/ v = <<>> /\ StartFrom(recs, r, browse.sel) = Eof(recs) /\ at # Eof(recs)
<1> DEFINE v == Visible(recs)
           l == Len(v)
           x == browse.sel
           r == RefreshFrom(recs, at)
           next == IF at = Eof(recs) \/ recs[at] # "filtered" THEN at ELSE Skip(recs, at, 1)
<1>1. /\ l \in Nat /\ Len(recs) \in Nat /\ Eof(recs) = Len(recs) + 1
      /\ \A j \in 1 .. l : v[j] \in Nat /\ v[j] \in 1 .. Len(recs) /\ ~Hidden(recs[v[j]])
      /\ v = <<>> <=> l = 0
      /\ \A y \in 1 .. Len(recs) : ~Hidden(recs[y]) => \E j \in 1 .. l : v[j] = y
  BY RecordsIs
<1>2. at \in Nat
  BY <1>1
<1>3. PICK k \in 0 .. l : InFront(v, at, k)
  BY <1>2, InFrontExists
<1>4. \A n \in Int : Skip(recs, at, n) = IF n = 0 THEN at
                                ELSE IF n > 0 THEN IF k + n <= l THEN v[k + n] ELSE Eof(recs)
                                ELSE IF k + n >= 0 THEN v[k + n + 1] ELSE GoTop(recs)
  BY <1>2, <1>3, SkipHidden
<1>5. GoTop(recs) = IF v = <<>> THEN Eof(recs) ELSE v[1]
  BY DEF GoTop
<1>6. \A j \in 1 .. l : v[j] # at
  OBVIOUS
<1>7. r = IF x > 1 THEN at
          ELSE IF next # Eof(recs) /\ set.deleted /\ recs[next] = "deleted" THEN GoTop(recs) ELSE next
  BY Zenon DEF RefreshFrom
<1> HIDE DEF v, l, r, next
<1>8. k \in Nat /\ k <= l
  BY <1>1
<1>9. at = Eof(recs) => \A j \in 1 .. l : ~ (v[j] > at)
  BY <1>1
<1>10. CASE x > 1
  <2>1. r = at
    BY <1>7, <1>10
  <2> DEFINE n == 1 - x
  <2>2. n \in Int /\ n < 0 /\ StartFrom(recs, r, x) = Skip(recs, at, n)
    BY <1>10, <2>1 DEF StartFrom
  <2> HIDE DEF n
  <2>3. Skip(recs, at, n) = IF k + n >= 0 THEN v[k + n + 1] ELSE GoTop(recs)
    BY <1>4, <2>2
  <2>4. CASE k + n >= 0
    <3>1. k + n + 1 \in 1 .. l
      BY <1>1, <1>8, <2>2, <2>4
    <3>2. StartFrom(recs, r, x) = v[k + n + 1]
      BY <2>2, <2>3, <2>4
    <3> QED
      BY <1>9, <2>1, <3>1, <3>2 DEF v, l, r
  <2>5. CASE ~ (k + n >= 0)
    <3>1. StartFrom(recs, r, x) = IF v = <<>> THEN Eof(recs) ELSE v[1]
      BY <1>5, <2>2, <2>3, <2>5
    <3>2. v # <<>> => 1 \in 1 .. l
      BY <1>1
    <3> QED
      BY <1>9, <2>1, <3>1, <3>2 DEF v, l, r
  <2> QED
    BY <2>4, <2>5
<1>11. ASSUME ~ (x > 1)
       PROVE  \A j \in 1 .. l : StartFrom(recs, v[j], x) = v[j]
  <2>1. x = 0 \/ x = 1
    BY <1>11
  <2>2. \A y : StartFrom(recs, y, x) = y
    BY <2>1 DEF StartFrom, Skip
  <2> QED
    BY <2>2
<1>12. CASE ~ (x > 1) /\ at = Eof(recs)
  <2>1. r = Eof(recs)
    BY <1>7, <1>12 DEF next
  <2> QED
    BY <1>9, <1>12, <2>1 DEF v, l, r
<1>13. CASE ~ (x > 1) /\ at # Eof(recs) /\ recs[at] # "filtered"
  <2>1. next = at
    BY <1>13 DEF next
  <2>2. at \in 1 .. Len(recs)
    BY <1>1, <1>13
  <2>3. Hidden(recs[at])
    BY <1>1, <1>6, <2>2
  <2>4. r = GoTop(recs)
    BY <1>7, <1>13, <2>1, <2>3 DEF Hidden
  <2>5. CASE v = <<>>
    <3>1. r = Eof(recs) /\ 1 .. l = {}
      BY <1>1, <1>5, <2>4, <2>5
    <3> QED
      BY <3>1 DEF v, l, r
  <2>6. CASE v # <<>>
    <3>1. r = v[1] /\ 1 \in 1 .. l
      BY <1>1, <1>5, <2>4, <2>6
    <3>2. v[1] \in 1 .. Len(recs) /\ StartFrom(recs, r, x) = v[1]
      BY <1>1, <1>11, <1>13, <3>1
    <3>3. r # Eof(recs)
      BY <1>1, <3>1, <3>2
    <3> QED
      BY <3>1, <3>2, <3>3 DEF v, l, r
  <2> QED
    BY <2>5, <2>6
<1>14. CASE ~ (x > 1) /\ at # Eof(recs) /\ recs[at] = "filtered"
  <2>1. next = IF k + 1 <= l THEN v[k + 1] ELSE Eof(recs)
    BY <1>4, <1>14 DEF next
  <2>2. CASE k + 1 <= l
    <3>1. k + 1 \in 1 .. l /\ next = v[k + 1]
      BY <1>1, <1>8, <2>1, <2>2
    <3>2. ~ (set.deleted /\ recs[next] = "deleted")
      BY <1>1, <3>1 DEF Hidden
    <3>3. r = v[k + 1]
      BY <1>7, <1>14, <3>1, <3>2
    <3>4. v[k + 1] \in 1 .. Len(recs) /\ StartFrom(recs, r, x) = v[k + 1]
      BY <1>1, <1>11, <1>14, <3>1, <3>3
    <3>5. r # Eof(recs)
      BY <1>1, <3>3, <3>4
    <3> QED
      BY <3>1, <3>4, <3>5 DEF v, l, r
  <2>3. CASE ~ (k + 1 <= l)
    <3>1. r = Eof(recs) /\ k = l
      BY <1>1, <1>7, <1>8, <1>14, <2>1, <2>3
    <3>2. \A j \in 1 .. l : ~ (v[j] > at)
      <4>1. \A j \in 1 .. l : v[j] < at
        BY <1>3, <3>1 DEF InFront
      <4> QED
        BY <1>1, <1>2, <4>1
    <3> QED
      BY <3>1, <3>2 DEF v, l, r
  <2> QED
    BY <2>2, <2>3
<1> QED
  BY <1>10, <1>12, <1>13, <1>14

(* What a refresh shows. *)
LEMMA RefreshShows ==
  ASSUME BrowseInv
  PROVE  LET v == Visible(area.recs)
             at == IF GetValue(browse) = 0 THEN area.recno ELSE GetValue(browse)
             c == Refreshed(area.recs, area.recno)
         IN  /\ IsView(c, Len(area.recs))
             /\ \/ OnPage(c, v, Len(area.recs))
                \/ /\ c.rows = 0 /\ \A j \in 1 .. Len(v) : v[j] # at /\ ~ (v[j] > at)
             /\ (\E j \in 1 .. Len(v) : v[j] = at) => GetValue(c) = at
             /\ ~ (\E j \in 1 .. Len(v) : v[j] = at) => GetValue(c) = 0
<1> DEFINE recs == area.recs
           v == Visible(recs)
           l == Len(v)
           N == Len(recs)
           at == IF GetValue(browse) = 0 THEN area.recno ELSE GetValue(browse)
           r == RefreshFrom(recs, at)
           start == StartFrom(recs, r, browse.sel)
           d == BrowseUpdate(recs, browse, start)
           c == Refreshed(recs, area.recno)
<1>1. /\ recs \in Seq(RecordStates) /\ N \in Nat /\ Eof(recs) = N + 1 /\ browse \in Views
      /\ IsView(browse, N) /\ v \in Seq(Nat) /\ l \in Nat /\ PageLength \in Nat /\ DOMAIN v = 1 .. l
      /\ v = <<>> <=> l = 0
  BY FileOf
<1>2. area.recno \in 1 .. Eof(recs) /\ browse.sel \in 0 .. PageLength /\ browse.sel \in Nat
  <2>1. area.recno \in 1 .. Eof(recs)
    BY DEF BrowseInv
  <2>2. browse.sel \in Nat /\ browse.rows \in Nat /\ browse.sel \in 0 .. browse.rows /\ browse.rows <= PageLength
    BY <1>1 DEF IsView, Views
  <2> QED
    BY <1>1, <2>1, <2>2
<1>3. at \in 1 .. Eof(recs)
  <2>1. GetValue(browse) \in 0 .. N + 1
    BY <1>1, ScreenIs
  <2> QED
    BY <1>1, <1>2, <2>1
<1>4. c = IF r = Eof(recs) THEN ListViewReset(browse) ELSE SelectRecord(d, at)
  BY Zenon DEF Refreshed, StartFrom
<1>5. \A j \in 1 .. l : v[j] \in 1 .. N /\ v[j] \in Nat
  BY <1>1, RecordsIs
<1> HIDE DEF at, c
<1>6. ASSUME r = Eof(recs)
      PROVE  IsView(c, N) /\ c.rows = 0 /\ GetValue(c) = 0
  <2>1. c = [browse EXCEPT !.rows = 0, !.sel = 0]
    BY <1>4, <1>6 DEF ListViewReset
  <2>2. c \in Views /\ c.rows = 0 /\ c.sel = 0 /\ c.rangeMax = browse.rangeMax
    BY <1>1, <2>1 DEF Views
  <2>3. IsView(c, N)
    BY <1>1, <2>2 DEF IsView
  <2> QED
    BY <1>1, <2>2, <2>3, ScreenIs
<1>7. ASSUME r # Eof(recs), OnPage(d, v, N)
      PROVE  /\ OnPage(c, v, N) /\ IsView(c, N)
             /\ (\E j \in 1 .. Len(d.rangeMax) : d.rangeMax[j] = at) => GetValue(c) = at
             /\ ~ (\E j \in 1 .. Len(d.rangeMax) : d.rangeMax[j] = at) => c = d
  <2>1. c = SelectRecord(d, at)
    BY <1>4, <1>7
  <2> HIDE DEF d, N
  <2>2. /\ IsView(c, N) /\ c.rangeMax = d.rangeMax /\ c.rows = d.rows
        /\ (\E j \in 1 .. Len(d.rangeMax) : d.rangeMax[j] = at) => GetValue(c) = at
        /\ ~ (\E j \in 1 .. Len(d.rangeMax) : d.rangeMax[j] = at) => c = d
    BY <1>1, <1>7, <2>1, SelectRecordIs DEF OnPage
  <2>3. OnPage(c, v, N)
    BY <1>7, <2>2 DEF OnPage
  <2> QED
    BY <2>2, <2>3
<1>8. ASSUME NEW i \in 1 .. l, v[i] = at
      PROVE  OnPage(c, v, N) /\ IsView(c, N) /\ GetValue(c) = at
  <2>1. /\ r = v[i] /\ r # Eof(recs)
        /\ \E s \in 1 .. l : start = v[s] /\ i \in s .. l /\ i <= s + PageLength - 1
    BY <1>1, <1>2, <1>8, RefreshVisible
  <2> HIDE DEF r, start, l, v
  <2>2. PICK s \in 1 .. l : start = v[s] /\ i \in s .. l /\ i <= s + PageLength - 1
    BY <2>1
  <2>3. d = BrowseUpdate(recs, browse, v[s])
    BY <2>2
  <2> HIDE DEF d
  <2>4. OnPage(d, v, N) /\ d.rangeMax = PageFrom(v, s)
    BY <1>1, <2>3, DrawnAt DEF v, l
  <2>5. \E j \in 1 .. Len(PageFrom(v, s)) : PageFrom(v, s)[j] = v[i]
    BY <1>1, <2>2, InPage DEF l
  <2>6. \E j \in 1 .. Len(d.rangeMax) : d.rangeMax[j] = at
    BY <1>8, <2>4, <2>5
  <2> HIDE DEF N
  <2> QED
    BY <1>7, <2>1, <2>4, <2>6
<1>9. ASSUME \A j \in 1 .. l : v[j] # at
      PROVE  /\ IsView(c, N) /\ GetValue(c) = 0
             /\ OnPage(c, v, N) \/ (c.rows = 0 /\ \A j \in 1 .. l : ~ (v[j] > at))
  <2>1. /\ r = Eof(recs) => \A j \in 1 .. l : ~ (v[j] > at)
        /\ r # Eof(recs) => \/ \E s \in 1 .. l : start = v[s]
                            \/ v = <<>> /\ start = Eof(recs) /\ at # Eof(recs)
    BY <1>1, <1>2, <1>3, <1>9, RefreshHidden
  <2>2. CASE r = Eof(recs)
    BY <1>6, <2>1, <2>2
  <2>3. CASE r # Eof(recs) /\ \E s \in 1 .. l : start = v[s]
    <3>1. PICK s \in 1 .. l : start = v[s]
      BY <2>3
    <3> HIDE DEF start, l, v
    <3>2. d = BrowseUpdate(recs, browse, v[s])
      BY <3>1
    <3> HIDE DEF d
    <3>3. OnPage(d, v, N) /\ d.rangeMax = PageFrom(v, s) /\ d.sel = 0
      BY <1>1, <3>2, DrawnAt DEF v, l
    <3>4. ~ (\E j \in 1 .. Len(d.rangeMax) : d.rangeMax[j] = at)
      <4> SUFFICES ASSUME NEW j \in 1 .. Len(PageFrom(v, s)), PageFrom(v, s)[j] = at PROVE FALSE
        BY <3>3
      <4>1. /\ s + Len(PageFrom(v, s)) - 1 <= l /\ Len(PageFrom(v, s)) \in 1 .. PageLength
            /\ PageFrom(v, s)[j] = v[s + j - 1]
        BY <1>1, PageIs DEF l
      <4> DEFINE n == Len(PageFrom(v, s))
      <4>2. n \in Nat /\ s + n - 1 <= l /\ j \in 1 .. n /\ s \in 1 .. l /\ l \in Nat
        BY <1>1, <4>1
      <4> HIDE DEF n
      <4>3. s + j - 1 \in 1 .. l
        BY <4>2
      <4> QED
        BY <1>9, <4>1, <4>3
    <3> HIDE DEF N
    <3>5. OnPage(c, v, N) /\ IsView(c, N) /\ c = d
      BY <1>7, <2>3, <3>3, <3>4
    <3>6. GetValue(c) = 0
      BY <3>3, <3>5 DEF GetValue
    <3> QED
      BY <3>5, <3>6
  <2>4. CASE r # Eof(recs) /\ v = <<>> /\ start = Eof(recs) /\ at # Eof(recs)
    <3> DEFINE n == 0
    <3>1. n \in Int
      OBVIOUS
    <3> HIDE DEF n, start
    <3>2. /\ Skip(recs, Eof(recs), n) = Eof(recs)
          /\ OnPage(BrowseUpdate(recs, browse, Skip(recs, Eof(recs), n)), v, N)
          /\ BrowseUpdate(recs, browse, Skip(recs, Eof(recs), n)).rangeMax = <<Eof(recs)>>
          /\ BrowseUpdate(recs, browse, Skip(recs, Eof(recs), n)).sel = 0
      BY <1>1, <2>4, <3>1, DrawnAtNone
    <3>3. d = BrowseUpdate(recs, browse, Skip(recs, Eof(recs), n))
      BY <2>4, <3>2
    <3> HIDE DEF d
    <3>4. OnPage(d, v, N) /\ d.rangeMax = <<Eof(recs)>> /\ d.sel = 0
      BY <3>2, <3>3
    <3>5. ~ (\E j \in 1 .. Len(d.rangeMax) : d.rangeMax[j] = at)
      BY <2>4, <3>4
    <3> HIDE DEF N
    <3>6. OnPage(c, v, N) /\ IsView(c, N) /\ c = d
      BY <1>7, <2>4, <3>4, <3>5
    <3>7. GetValue(c) = 0
      BY <3>4, <3>6 DEF GetValue
    <3> QED
      BY <3>6, <3>7
  <2> QED
    BY <2>1, <2>2, <2>3, <2>4
<1>10. CASE \E i \in 1 .. l : v[i] = at
  <2>1. OnPage(c, v, N) /\ IsView(c, N) /\ GetValue(c) = at
    BY <1>8, <1>10
  <2> QED
    BY <1>10, <2>1 DEF c, at
<1>11. CASE ~ (\E i \in 1 .. l : v[i] = at)
  <2>1. \A j \in 1 .. l : v[j] # at
    BY <1>11
  <2>2. /\ IsView(c, N) /\ GetValue(c) = 0
        /\ OnPage(c, v, N) \/ (c.rows = 0 /\ \A j \in 1 .. l : ~ (v[j] > at))
    BY <1>9, <2>1
  <2> QED
    BY <1>11, <2>1, <2>2 DEF c, at
<1> QED
  BY <1>10, <1>11

(* The browse is refreshed. *)
LEMMA RefreshedScreen ==
  ASSUME BrowseInv, BrowseRefresh
  PROVE  BrowseInv' /\ Cursor!Refresh
<1> DEFINE v == Visible(area.recs)
           l == Len(v)
           N == Len(area.recs)
           at == IF GetValue(browse) = 0 THEN area.recno ELSE GetValue(browse)
           c == Refreshed(area.recs, area.recno)
<1>1. /\ browse' = c /\ toRefresh' = FALSE /\ area' = area /\ notified' = NotFired /\ set' = set
      /\ browse'.value = browse.value
  <2>1. Carries(browse, browse.value)
    BY DEF BrowseInv, IsView, Views, Carries
  <2>2. Carries(ListViewReset(browse), browse.value)
    BY <2>1, Zenon DEF Carries, ListViewReset
  <2>3. Carries(c, browse.value)
    BY <2>1, <2>2, Carried, Zenon DEF Refreshed
  <2> QED
    BY <2>3 DEF BrowseRefresh, NoChange, Carries
<1>2. /\ IsView(c, N)
      /\ OnPage(c, v, N) \/ (c.rows = 0 /\ \A j \in 1 .. l : v[j] # at /\ ~ (v[j] > at))
      /\ (\E j \in 1 .. l : v[j] = at) => GetValue(c) = at
      /\ ~ (\E j \in 1 .. l : v[j] = at) => GetValue(c) = 0
  BY RefreshShows
<1>3. /\ area.recs \in Seq(RecordStates) /\ area \in [recs : Seq(RecordStates), recno : Nat]
      /\ area.recno \in 1 .. Eof(area.recs) /\ N \in Nat /\ DOMAIN v = 1 .. l
  BY FileOf DEF BrowseInv
<1> HIDE DEF c, at
<1>4. c.rows # 0 => OnPage(c, v, N)
  BY <1>2
<1>5. /\ BrowseInv'
      /\ Visible(area.recs)' = Visible(area'.recs)
      /\ SubSeq(browse.rangeMax, 1, browse.rows)' = Screen(browse')
      /\ GetValue(browse)' = GetValue(browse')
  BY <1>1, <1>2, <1>3, <1>4, NextInv
<1>6. Visible(area.recs)' = v /\ SubSeq(browse.rangeMax, 1, browse.rows)' = Screen(c) /\ GetValue(browse)' = GetValue(c)
  BY <1>1, <1>5
<1>7. at \in Cursor!Visible <=> \E j \in 1 .. l : v[j] = at
  <2>1. Cursor!Visible = {v[i] : i \in DOMAIN v}
    BY Zenon DEF Cursor!Visible, Cursor!Members
  <2> HIDE DEF v, l
  <2> QED
    BY <1>3, <2>1
<1>8. GetValue(c) = IF at \in Cursor!Visible THEN at ELSE 0
  BY <1>2, <1>7
<1>9. GetValue(c) \in Cursor!Members(Screen(c)) \cup {0} /\ Screen(c) = IF c.rows = 0 THEN <<>> ELSE c.rangeMax
  BY <1>2, <1>3, ScreenIs
<1>10. \/ Screen(c) \in Cursor!Pages(v, N)
       \/ at \notin Cursor!Visible /\ {i \in DOMAIN v : v[i] > at} = {} /\ Screen(c) = <<>>
  <2>1. CASE OnPage(c, v, N)
    <3>1. c.rangeMax \in Seq(Nat) /\ c.rows = Len(c.rangeMax) /\ c.rangeMax \in Cursor!Pages(v, N)
      BY <2>1 DEF OnPage, IsView, Views
    <3>2. Screen(c) = c.rangeMax
      BY <3>1, SubSeqFull DEF Screen
    <3> QED
      BY <3>1, <3>2
  <2>2. CASE c.rows = 0 /\ \A j \in 1 .. l : v[j] # at /\ ~ (v[j] > at)
    <3>1. at \notin Cursor!Visible
      BY <1>7, <2>2
    <3>2. {i \in DOMAIN v : v[i] > at} = {}
      <4> HIDE DEF v, l
      <4> QED
        BY <1>3, <2>2
    <3> QED
      BY <1>9, <2>2, <3>1, <3>2
  <2> QED
    BY <1>2, <2>1, <2>2
<1>11. Cursor!Refresh
  <2>1. /\ Len(area.recs)' = Len(area.recs) /\ Cursor!Silent /\ browse'.value = browse.value
        /\ set.sync' = set.sync /\ set.eachClick' = set.eachClick /\ ~toRefresh'
    BY <1>1 DEF Cursor!Silent, Cursor!Untold, NotFired
  <2>2. at = IF GetValue(browse) = 0 THEN area.recno ELSE GetValue(browse)
    BY DEF at
  <2> QED
    BY <1>6, <1>8, <1>9, <1>10, <2>1, <2>2 DEF Cursor!Refresh
<1> QED
  BY <1>5, <1>11

(* The visible records are told by what they are. *)
LEMMA VisibleOnce ==
  ASSUME NEW recs \in Seq(RecordStates), NEW s \in Seq(Nat), Increasing(s),
         \A i \in 1 .. Len(s) : s[i] \in 1 .. Len(recs) /\ ~Hidden(recs[s[i]]),
         \A r \in 1 .. Len(recs) : ~Hidden(recs[r]) => \E i \in 1 .. Len(s) : s[i] = r
  PROVE  Visible(recs) = s
<1> DEFINE v == Visible(recs)
           S == {r \in 1 .. Len(recs) : ~Hidden(recs[r])}
<1>1. Enumerates(s, S)
  <2>1. DOMAIN s = 1 .. Len(s)
    OBVIOUS
  <2> QED
    BY <2>1 DEF Enumerates
<1>2. Enumerates(v, S)
  <2>1. /\ v \in Seq(Nat) /\ DOMAIN v = 1 .. Len(v)
        /\ \A i \in 1 .. Len(v) : v[i] \in 1 .. Len(recs) /\ ~Hidden(recs[v[i]])
        /\ \A i, j \in 1 .. Len(v) : i < j => v[i] < v[j]
        /\ \A r \in 1 .. Len(recs) : ~Hidden(recs[r]) => \E i \in 1 .. Len(v) : v[i] = r
    BY RecordsIs
  <2> HIDE DEF v
  <2> QED
    BY <2>1 DEF Enumerates, Increasing
<1> HIDE DEF S, v
<1>3. v = s
  BY <1>1, <1>2, EnumeratedOnce
<1> QED
  BY <1>3 DEF v

(* A record that is added is the last visible one. *)
LEMMA VisibleAppend ==
  ASSUME NEW recs \in Seq(RecordStates)
  PROVE  /\ Append(recs, "live") \in Seq(RecordStates) /\ Len(Append(recs, "live")) = Len(recs) + 1
         /\ Visible(Append(recs, "live")) = Append(Visible(recs), Len(recs) + 1)
<1> DEFINE v == Visible(recs)
           l == Len(v)
           e == Len(recs) + 1
           new == Append(recs, "live")
           s == Append(v, e)
<1>1. /\ Len(recs) \in Nat /\ v \in Seq(Nat) /\ l \in Nat /\ DOMAIN v = 1 .. l
      /\ \A i \in 1 .. l : v[i] \in 1 .. Len(recs) /\ v[i] \in Nat /\ ~Hidden(recs[v[i]])
      /\ \A i, j \in 1 .. l : i < j => v[i] < v[j]
      /\ \A r \in 1 .. Len(recs) : ~Hidden(recs[r]) => \E i \in 1 .. l : v[i] = r
  BY RecordsIs
<1>2. /\ new \in Seq(RecordStates) /\ Len(new) = e
      /\ \A i \in 1 .. Len(recs) : new[i] = recs[i]
      /\ new[e] = "live"
  <2>1. "live" \in RecordStates
    BY DEF RecordStates
  <2> QED
    BY <2>1, AppendProperties
<1>3. e \in Nat
  BY <1>1
<1> HIDE DEF v, l, new
<1>4. s \in Seq(Nat) /\ Len(s) = l + 1 /\ (\A i \in 1 .. l : s[i] = v[i]) /\ s[l + 1] = e
  <2> HIDE DEF e
  <2> QED
    BY <1>1, <1>3, AppendProperties DEF l
<1>5. ~Hidden(new[e])
  BY <1>2 DEF Hidden
<1> HIDE DEF s
<1>6. \A i \in 1 .. l + 1 : i \in 1 .. l \/ i = l + 1
  BY <1>1
<1>7. Increasing(s)
  <2> SUFFICES ASSUME NEW i \in 1 .. l + 1, NEW j \in 1 .. l + 1, i < j PROVE s[i] < s[j]
    BY <1>4 DEF Increasing
  <2>1. i \in 1 .. l
    BY <1>1
  <2>2. CASE j \in 1 .. l
    BY <1>1, <1>4, <2>1, <2>2
  <2>3. CASE j = l + 1
    <3>1. v[i] \in Nat /\ v[i] \in 1 .. Len(recs) /\ s[i] = v[i] /\ s[j] = e
      BY <1>1, <1>4, <2>1, <2>3
    <3>2. v[i] < e
      BY <1>1, <3>1
    <3> QED
      BY <3>1, <3>2
  <2> QED
    BY <1>6, <2>2, <2>3
<1>8. \A i \in 1 .. Len(s) : s[i] \in 1 .. Len(new) /\ ~Hidden(new[s[i]])
  <2> SUFFICES ASSUME NEW i \in 1 .. l + 1 PROVE s[i] \in 1 .. e /\ ~Hidden(new[s[i]])
    BY <1>2, <1>4
  <2>1. CASE i \in 1 .. l
    <3>1. s[i] = v[i] /\ v[i] \in 1 .. Len(recs) /\ ~Hidden(recs[v[i]])
      BY <1>1, <1>4, <2>1
    <3>2. new[v[i]] = recs[v[i]] /\ v[i] \in 1 .. e
      BY <1>1, <1>2, <3>1
    <3> QED
      BY <3>1, <3>2
  <2>2. CASE i = l + 1
    BY <1>1, <1>3, <1>4, <1>5, <2>2
  <2> QED
    BY <1>6, <2>1, <2>2
<1>9. \A r \in 1 .. Len(new) : ~Hidden(new[r]) => \E i \in 1 .. Len(s) : s[i] = r
  <2> SUFFICES ASSUME NEW r \in 1 .. e, ~Hidden(new[r]) PROVE \E i \in 1 .. l + 1 : s[i] = r
    BY <1>2, <1>4
  <2>1. CASE r \in 1 .. Len(recs)
    <3>1. ~Hidden(recs[r])
      BY <1>2, <2>1
    <3>2. PICK i \in 1 .. l : v[i] = r
      BY <1>1, <2>1, <3>1
    <3>3. i \in 1 .. l + 1 /\ s[i] = r
      BY <1>1, <1>4, <3>2
    <3> QED
      BY <3>3
  <2>2. CASE r = e
    <3>1. l + 1 \in 1 .. l + 1
      BY <1>1
    <3> QED
      BY <1>4, <2>2, <3>1
  <2>3. r \in 1 .. Len(recs) \/ r = e
    BY <1>1
  <2> QED
    BY <2>1, <2>2, <2>3
<1> HIDE DEF e
<1>10. Visible(new) = s
  BY <1>2, <1>4, <1>7, <1>8, <1>9, VisibleOnce
<1> QED
  BY <1>2, <1>10 DEF new, s, v, e

(* The last rows with the row of the record that is added are a page. *)
LEMMA PageWithNew ==
  ASSUME NEW v \in Seq(Nat), NEW e \in Nat, NEW j \in 1 .. Len(v) + 1, NEW p \in Seq(Nat),
         Len(v) <= j + PageLength - 2, Len(p) = Len(v) - j + 1,
         \A x \in 1 .. Len(p) : p[x] = v[j + x - 1]
  PROVE  /\ Append(p, e) = PageFrom(Append(v, e), j)
         /\ Append(p, e) \in Seq(Nat) /\ Len(Append(p, e)) = Len(p) + 1 /\ Len(p) + 1 <= PageLength
         /\ Append(p, e)[Len(p) + 1] = e
         /\ \A n : Append(p, e) \in Cursor!Pages(Append(v, e), n)
<1> DEFINE l == Len(v)
           w == Append(v, e)
           q == Append(p, e)
           t == PageFrom(w, j)
           k == Len(p)
<1>1. l \in Nat /\ j \in Nat /\ 1 <= j /\ j <= l + 1 /\ k \in Nat /\ k = l - j + 1 /\ l <= j + PageLength - 2
  OBVIOUS
<1>2. PageLength \in Nat /\ PageLength > 2
  BY BrowseAssumption
<1>3. /\ w \in Seq(Nat) /\ Len(w) = l + 1 /\ (\A x \in 1 .. l : w[x] = v[x]) /\ w[l + 1] = e
      /\ q \in Seq(Nat) /\ Len(q) = k + 1 /\ (\A x \in 1 .. k : q[x] = p[x]) /\ q[k + 1] = e
  BY AppendProperties
<1>4. \A x \in 1 .. k : p[x] = v[j + x - 1]
  OBVIOUS
<1> HIDE DEF l, w, q, t, k
<1>5. j \in 1 .. Len(w)
  BY <1>1, <1>3
<1>6. /\ t \in Seq(Nat) /\ Len(t) \in 1 .. PageLength /\ j + Len(t) - 1 <= l + 1
      /\ Len(t) < PageLength => j + Len(t) - 1 = l + 1
      /\ \A x \in 1 .. Len(t) : t[x] = w[j + x - 1]
      /\ \A n : t \in Cursor!Pages(w, n)
  BY <1>3, <1>5, PageIs DEF t
<1>7. Len(t) = k + 1 /\ k + 1 <= PageLength
  <2> DEFINE n == Len(t)
  <2>1. /\ n \in Nat /\ n <= PageLength /\ j + n - 1 <= l + 1
        /\ n < PageLength => j + n - 1 = l + 1
    BY <1>2, <1>6
  <2> HIDE DEF n
  <2>2. n = k + 1 /\ k + 1 <= PageLength
    BY <1>1, <1>2, <2>1
  <2> QED
    BY <2>2 DEF n
<1>8. \A x \in 1 .. Len(q) : q[x] = t[x]
  <2> SUFFICES ASSUME NEW x \in 1 .. k + 1 PROVE q[x] = t[x]
    BY <1>3
  <2>1. t[x] = w[j + x - 1]
    BY <1>6, <1>7
  <2>2. CASE x \in 1 .. k
    <3>1. j + x - 1 \in 1 .. l
      BY <1>1, <2>2
    <3> QED
      BY <1>3, <1>4, <2>1, <2>2, <3>1
  <2>3. CASE x = k + 1
    <3>1. j + x - 1 = l + 1
      BY <1>1, <2>3
    <3> QED
      BY <1>3, <2>1, <2>3, <3>1
  <2> QED
    BY <1>1, <2>2, <2>3
<1>9. q = t
  BY <1>3, <1>6, <1>7, <1>8, SameNumbers
<1> QED
  BY <1>3, <1>6, <1>7, <1>9 DEF q, t, w, k

(* The page that a record is added behind: none, or the last rows. *)
AppendPage == IF browse.rows = 0 THEN browse ELSE FromRow(GoBottom(area.recs), 2 - PageLength)

(* The page that a new record is added to has room for it and ends with the last one. *)
LEMMA AppendPageIs ==
  ASSUME BrowseInv, ~Emptied
  PROVE  LET v == Visible(area.recs)
             c == AppendPage
         IN  /\ IsView(c, Len(area.recs)) /\ c.rows = Len(c.rangeMax)
             /\ browse.rows = 0 => c = browse /\ c.rangeMax = <<>>
             /\ browse.rows # 0 => OnPage(c, v, Len(area.recs)) /\ GetValue(c) = 0
             /\ \E j \in 1 .. Len(v) + 1 :
                  /\ Len(v) <= j + PageLength - 2
                  /\ Len(c.rangeMax) = Len(v) - j + 1
                  /\ \A x \in 1 .. Len(c.rangeMax) : c.rangeMax[x] = v[j + x - 1]
<1> DEFINE v == Visible(area.recs)
           l == Len(v)
           c == AppendPage
<1>1. /\ v \in Seq(Nat) /\ l \in Nat /\ (v = <<>> <=> l = 0) /\ PageLength \in Nat /\ PageLength > 2
      /\ IsView(browse, Len(area.recs))
  BY FileOf
<1>2. CASE browse.rows = 0
  <2>1. c = browse /\ browse.rangeMax = <<>>
    BY <1>2 DEF AppendPage, Emptied
  <2> DEFINE j == l + 1
  <2>2. j \in 1 .. l + 1 /\ l <= j + PageLength - 2 /\ l - j + 1 = 0
    <3> HIDE DEF l
    <3> QED
      BY <1>1
  <2>3. Len(browse.rangeMax) = 0 /\ 1 .. 0 = {}
    BY <2>1
  <2> HIDE DEF c, v, l, j
  <2>4. \E y \in 1 .. l + 1 : /\ l <= y + PageLength - 2 /\ Len(c.rangeMax) = l - y + 1
                              /\ \A x \in 1 .. Len(c.rangeMax) : c.rangeMax[x] = v[y + x - 1]
    BY <2>1, <2>2, <2>3
  <2> QED
    BY <1>1, <1>2, <2>1, <2>3, <2>4 DEF c, v, l
<1>3. CASE browse.rows # 0
  <2> DEFINE n == 2 - PageLength
             j == IF l + n < 1 THEN 1 ELSE l + n
             p == PageFrom(v, j)
  <2>1. l \in 1 .. l /\ 1 <= l
    BY <1>1, <1>3 DEF Emptied
  <2>2. /\ n \in Int /\ l + n <= l /\ j \in 1 .. l /\ j \in 1 .. l + 1 /\ j \in Nat
        /\ l <= j + PageLength - 2
    <3> HIDE DEF l
    <3> QED
      BY <1>1, <2>1
  <2>3. GoBottom(area.recs) = v[l]
    BY <1>1, <2>1 DEF GoBottom
  <2>4. c = FromRow(v[l], n)
    BY <1>3, <2>3 DEF AppendPage
  <2> HIDE DEF n, c
  <2>5. /\ OnPage(c, v, Len(area.recs)) /\ IsView(c, Len(area.recs)) /\ c.rangeMax = p
        /\ c.sel = 0 /\ c.rows = Len(p)
    BY <2>1, <2>2, <2>4, FromRowIs
  <2> HIDE DEF j, p, v, l
  <2>6. /\ Len(p) \in 1 .. PageLength /\ j + Len(p) - 1 <= l
        /\ Len(p) < PageLength => j + Len(p) - 1 = l
        /\ \A x \in 1 .. Len(p) : p[x] = v[j + x - 1]
    BY <1>1, <2>2, PageIs DEF p, l
  <2>7. Len(p) = l - j + 1
    <3> DEFINE m == Len(p)
    <3>1. /\ m \in Nat /\ m <= PageLength /\ j + m - 1 <= l
          /\ m < PageLength => j + m - 1 = l
      BY <1>1, <2>6
    <3> HIDE DEF m
    <3>2. m = l - j + 1
      BY <1>1, <2>2, <3>1
    <3> QED
      BY <3>2 DEF m
  <2>8. GetValue(c) = 0
    BY <2>5 DEF GetValue
  <2> QED
    BY <1>3, <2>2, <2>5, <2>6, <2>7, <2>8 DEF c, v, l
<1> QED
  BY <1>2, <1>3

(* It is drawn with the value of the browse. *)
LEMMA AppendPageCarries ==
  ASSUME BrowseInv
  PROVE  Carries(AppendPage, browse.value)
<1>1. Carries(browse, browse.value)
  BY DEF BrowseInv, IsView, Views, Carries
<1>2. \A r, n : Carries(FromRow(r, n), browse.value)
  BY <1>1, Carried DEF FromRow
<1> QED
  BY <1>1, <1>2, Zenon DEF AppendPage

(* No record could be added. *)
LEMMA AppendFailed ==
  ASSUME BrowseInv, ~AppendToNone, BrowseInPlaceAppend(TRUE)
  PROVE  BrowseInv' /\ Cursor!AppendFails
<1> DEFINE c == AppendPage
           v == Visible(area.recs)
           N == Len(area.recs)
<1>1. /\ ~toRefresh /\ toRefresh' = toRefresh /\ set' = set /\ ~Emptied
      /\ browse' = c /\ area' = area /\ notified' = NotFired
  BY DEF BrowseInPlaceAppend, Message, AppendPage, NoChange
<1>2. /\ IsView(c, N) /\ c.rows = Len(c.rangeMax)
      /\ browse.rows = 0 => c = browse
      /\ browse.rows # 0 => OnPage(c, v, N) /\ GetValue(c) = 0
  BY <1>1, AppendPageIs
<1> HIDE DEF c
<1>3. /\ area.recs \in Seq(RecordStates) /\ area \in [recs : Seq(RecordStates), recno : Nat]
      /\ area.recno \in 1 .. Eof(area.recs) /\ N \in Nat /\ toRefresh \in BOOLEAN
  BY FileOf DEF BrowseInv
<1>4. c.rows # 0 => OnPage(c, v, N)
  BY <1>2
<1>5. /\ BrowseInv'
      /\ Visible(area.recs)' = v
      /\ SubSeq(browse.rangeMax, 1, browse.rows)' = Screen(c)
      /\ SubSeq(browse.rangeMax, 1, browse.rows) = Screen(browse)
      /\ GetValue(browse)' = GetValue(c)
  <2>1. /\ BrowseInv'
        /\ Visible(area.recs)' = Visible(area'.recs)
        /\ SubSeq(browse.rangeMax, 1, browse.rows)' = Screen(browse')
        /\ SubSeq(browse.rangeMax, 1, browse.rows) = Screen(browse)
        /\ GetValue(browse)' = GetValue(browse')
    BY <1>1, <1>2, <1>3, <1>4, NextInv
  <2> QED
    BY <1>1, <2>1
<1>6. Cursor!SameFile
  BY <1>1, <1>5 DEF Cursor!SameFile
<1>7. \/ c = browse
      \/ Screen(c) \in Cursor!Pages(v, N) /\ GetValue(c) = 0
  <2>1. CASE browse.rows = 0
    BY <1>2, <2>1
  <2>2. CASE browse.rows # 0
    <3>1. c.rangeMax \in Seq(Nat) /\ c.rangeMax \in Cursor!Pages(v, N) /\ GetValue(c) = 0
      BY <1>2, <2>2 DEF OnPage, IsView, Views
    <3>2. Screen(c) = c.rangeMax
      BY <1>2, <3>1, SubSeqFull DEF Screen
    <3> QED
      BY <3>1, <3>2
  <2> QED
    BY <2>1, <2>2
<1>8. Cursor!Silent /\ browse'.value = browse.value
  <2>1. c.value = browse.value
    BY AppendPageCarries DEF c, Carries
  <2> QED
    BY <1>1, <2>1 DEF Cursor!Silent, Cursor!Untold, NotFired
<1>9. Cursor!AppendFails
  <2>1. CASE c = browse
    <3>1. GetValue(browse)' = GetValue(browse) /\ SubSeq(browse.rangeMax, 1, browse.rows)' = SubSeq(browse.rangeMax, 1, browse.rows)
      BY <1>5, <2>1
    <3> QED
      BY <1>1, <1>6, <1>8, <3>1 DEF Cursor!AppendFails
  <2>2. CASE Screen(c) \in Cursor!Pages(v, N) /\ GetValue(c) = 0
    BY <1>1, <1>5, <1>6, <1>8, <2>2 DEF Cursor!AppendFails
  <2> QED
    BY <1>7, <2>1, <2>2
<1> QED
  BY <1>5, <1>9

(* A record is added. *)
LEMMA AppendedOne ==
  ASSUME BrowseInv, ~AppendToNone, BrowseInPlaceAppend(FALSE)
  PROVE  BrowseInv' /\ Cursor!AppendOne
<1> DEFINE c == AppendPage
           v == Visible(area.recs)
           l == Len(v)
           N == Len(area.recs)
           e == N + 1
           d == AppendRow(c, e)
           b == ToLastRow(d)
           new == Append(area.recs, "live")
<1>1. /\ area.recs \in Seq(RecordStates) /\ area \in [recs : Seq(RecordStates), recno : Nat]
      /\ area.recno \in 1 .. N + 1 /\ N \in Nat /\ toRefresh \in BOOLEAN
      /\ v \in Seq(Nat) /\ l \in Nat /\ PageLength \in Nat /\ e \in Nat
      /\ Eof(area.recs) = e
  BY FileOf DEF BrowseInv
<1>2. /\ ~toRefresh /\ toRefresh' = toRefresh /\ set' = set /\ ~Emptied
      /\ browse' = b /\ notified' = GetValue(b)
      /\ area' = [recs |-> new, recno |-> IF set.sync THEN GetValue(b) ELSE area.recno]
  BY <1>1 DEF BrowseInPlaceAppend, Message, AppendPage
<1>3. /\ IsView(c, N) /\ c.rows = Len(c.rangeMax)
      /\ \E j \in 1 .. l + 1 :
           /\ l <= j + PageLength - 2
           /\ Len(c.rangeMax) = l - j + 1
           /\ \A x \in 1 .. Len(c.rangeMax) : c.rangeMax[x] = v[j + x - 1]
  BY <1>2, AppendPageIs
<1>4. /\ new \in Seq(RecordStates) /\ Len(new) = e /\ Visible(new) = Append(v, e)
  BY <1>1, VisibleAppend
<1> HIDE DEF c, v, l, N, new
<1>5. c \in Views /\ c.rangeMax \in Seq(Nat) /\ Len(c.rangeMax) \in Nat
  BY <1>3 DEF IsView, Views
<1>6. PICK j \in 1 .. l + 1 :
           /\ l <= j + PageLength - 2
           /\ Len(c.rangeMax) = l - j + 1
           /\ \A x \in 1 .. Len(c.rangeMax) : c.rangeMax[x] = v[j + x - 1]
  BY <1>3
<1> DEFINE p == c.rangeMax
           q == Append(p, e)
<1>7. /\ q \in Seq(Nat) /\ Len(q) = Len(p) + 1 /\ Len(p) + 1 <= PageLength
      /\ q[Len(p) + 1] = e
      /\ \A n : q \in Cursor!Pages(Append(v, e), n)
  <2> HIDE DEF p, e
  <2>1. /\ p \in Seq(Nat) /\ Len(p) = l - j + 1 /\ l <= j + PageLength - 2
        /\ \A x \in 1 .. Len(p) : p[x] = v[j + x - 1]
    BY <1>5, <1>6 DEF p
  <2>2. /\ v \in Seq(Nat) /\ e \in Nat /\ j \in 1 .. Len(v) + 1 /\ p \in Seq(Nat)
        /\ Len(v) <= j + PageLength - 2 /\ Len(p) = Len(v) - j + 1
        /\ \A x \in 1 .. Len(p) : p[x] = v[j + x - 1]
    BY <1>1, <2>1 DEF l
  <2>3. /\ Append(p, e) = PageFrom(Append(v, e), j)
        /\ Append(p, e) \in Seq(Nat) /\ Len(Append(p, e)) = Len(p) + 1 /\ Len(p) + 1 <= PageLength
        /\ Append(p, e)[Len(p) + 1] = e
        /\ \A n : Append(p, e) \in Cursor!Pages(Append(v, e), n)
    <3> HIDE DEF q
    <3> QED
      BY ONLY <2>2, PageWithNew
  <2> QED
    BY <2>3
<1>8. /\ d \in Views /\ d.rangeMax = q /\ d.rows = Len(q) /\ d.sel = c.sel
      /\ c.sel \in Nat
  <2> DEFINE n == Len(q)
  <2>1. d = [c EXCEPT !.rangeMax = q, !.rows = n] /\ n \in Nat
    <3>1. d = [c EXCEPT !.rangeMax = q, !.rows = c.rows + 1]
      BY Zenon DEF AppendRow
    <3>2. c.rows + 1 = n /\ n \in Nat
      BY <1>3, <1>5, <1>7
    <3> QED
      BY <3>1, <3>2
  <2> HIDE DEF d, q, n
  <2>2. d.rows = Len(q) <=> d.rows = n
    BY DEF n
  <2> QED
    BY <1>5, <1>7, <2>1, <2>2 DEF Views
<1>9. IsView(d, e)
  <2>1. \A x \in 1 .. Len(q) : q[x] \in 1 .. e + 1
    <3> SUFFICES ASSUME NEW x \in 1 .. Len(p) + 1 PROVE q[x] \in 1 .. e + 1
      BY <1>7
    <3>1. CASE x \in 1 .. Len(p)
      <4>1. p[x] \in 1 .. N + 1
        BY <1>3, <3>1 DEF IsView
      <4>2. q[x] = p[x]
        <5> HIDE DEF p, e
        <5> QED
          BY <1>1, <1>5, <3>1, AppendProperties DEF p
      <4> QED
        BY <1>1, <4>1, <4>2
    <3>2. CASE x = Len(p) + 1
      BY <1>1, <1>7, <3>2
    <3> QED
      BY <1>5, <3>1, <3>2
  <2>2. d.sel \in 0 .. d.rows
    <3>1. c.sel \in 0 .. Len(p) /\ Len(p) \in Nat
      BY <1>3, <1>5 DEF IsView
    <3> HIDE DEF p, q, d
    <3> QED
      BY <1>7, <1>8, <3>1
  <2> HIDE DEF d, q
  <2> QED
    BY <1>7, <1>8, <2>1, <2>2 DEF IsView
<1>10. /\ IsView(b, e) /\ b.rangeMax = q /\ b.rows = Len(q) /\ GetValue(b) = e
  <2> DEFINE k == Len(q)
  <2>1. k \in Int /\ k \in 1 .. d.rows /\ q[k] = e
    <3>1. Len(p) \in Nat
      BY <1>5
    <3> HIDE DEF p, d, q
    <3> QED
      BY <1>7, <1>8, <3>1
  <2>2. b = SetCursel(d, k)
    BY <1>8 DEF ToLastRow
  <2> HIDE DEF b, d, q, k
  <2>3. IsView(b, e) /\ b.rangeMax = d.rangeMax /\ b.rows = d.rows /\ GetValue(b) = d.rangeMax[k]
    <3> HIDE DEF e
    <3> QED
      BY <1>1, <1>9, <2>1, <2>2, SetCurselIs
  <2> QED
    BY <1>8, <2>1, <2>3
<1> HIDE DEF b, d, q
<1>11. OnPage(b, Append(v, e), e)
  BY <1>7, <1>10 DEF OnPage
<1>12. /\ area'.recs = new /\ area' \in [recs : Seq(RecordStates), recno : Nat]
       /\ area'.recno \in 1 .. e + 1
       /\ area'.recno = IF set.sync THEN e ELSE area.recno
  <2> DEFINE r == IF set.sync THEN e ELSE area.recno
  <2>1. r \in Nat /\ r \in 1 .. e + 1 /\ area' = [recs |-> new, recno |-> r]
    BY <1>1, <1>2, <1>10
  <2> HIDE DEF r
  <2>2. area'.recs = new /\ area' \in [recs : Seq(RecordStates), recno : Nat] /\ area'.recno = r
    BY <1>4, <2>1
  <2> QED
    BY <2>1, <2>2 DEF r
<1>13. Eof(area'.recs) = e + 1 /\ Len(area'.recs) = e
  BY <1>4, <1>12 DEF Eof
<1>14. /\ BrowseInv'
       /\ Visible(area.recs)' = Append(v, e)
       /\ SubSeq(browse.rangeMax, 1, browse.rows)' = Screen(b)
       /\ GetValue(browse)' = e
  <2>1. /\ area'.recs \in Seq(RecordStates) /\ area'.recno \in 1 .. Eof(area'.recs)
        /\ toRefresh' \in BOOLEAN /\ IsView(browse', Len(area'.recs))
        /\ OnPage(browse', Visible(area'.recs), Len(area'.recs))
    BY <1>1, <1>2, <1>4, <1>10, <1>11, <1>12, <1>13
  <2>2. /\ BrowseInv'
        /\ Visible(area.recs)' = Visible(area'.recs)
        /\ SubSeq(browse.rangeMax, 1, browse.rows)' = Screen(browse')
        /\ GetValue(browse)' = GetValue(browse')
    BY <1>2, <1>12, <2>1, NextInv
  <2> QED
    BY <1>2, <1>4, <1>10, <1>12, <2>2
<1>18. browse'.value = browse.value
  <2> DEFINE v0 == browse.value
  <2>1. Carries(c, v0)
    BY AppendPageCarries DEF c
  <2> HIDE DEF v0
  <2>2. Carries(d, v0)
    BY <2>1, Zenon DEF Carries, AppendRow, d
  <2>3. Carries(b, v0)
    BY <2>2, Carried DEF b, ToLastRow
  <2> QED
    BY <1>2, <2>3 DEF Carries, v0
<1>15. Screen(b) = q
  BY <1>7, <1>10, SubSeqFull DEF Screen
<1>16. Cursor!Tell
  <2>1. /\ notified' = e /\ area.recno' = IF set.sync THEN e ELSE area.recno
        /\ GetValue(browse)' = e /\ e # 0
    BY <1>1, <1>2, <1>10, <1>12, <1>14
  <2> QED
    BY <2>1 DEF Cursor!Tell
<1>17. Cursor!AppendOne
  <2>1. /\ Len(area.recs)' = Len(area.recs) + 1 /\ Len(area.recs)' = e
        /\ toRefresh' = toRefresh /\ set.sync' = set.sync /\ set.eachClick' = set.eachClick
    BY <1>2, <1>12, <1>13 DEF N
  <2>2. q[Len(q)] = e /\ q \in Cursor!Pages(Append(v, e), e)
    BY <1>7
  <2>3. Visible(area.recs)' = Append(Visible(area.recs), e)
    BY <1>14 DEF v
  <2> HIDE DEF e
  <2>4. SubSeq(browse.rangeMax, 1, browse.rows)' = q
    BY <1>14, <1>15
  <2> QED
    BY <1>2, <1>14, <1>16, <1>18, <2>1, <2>2, <2>3, <2>4 DEF Cursor!AppendOne, v
<1> QED
  BY <1>14, <1>17

(* The sequence of numbers without the one at k. *)
LEMMA WithoutIs ==
  ASSUME NEW v \in Seq(Nat), NEW k \in 1 .. Len(v),
         \A i, j \in 1 .. Len(v) : i < j => v[i] < v[j]
  PROVE  LET w == SubSeq(v, 1, k - 1) \o SubSeq(v, k + 1, Len(v))
         IN  /\ w \in Seq(Nat) /\ Len(w) = Len(v) - 1 /\ Increasing(w)
             /\ \A j \in 1 .. Len(v) - 1 : w[j] = v[IF j < k THEN j ELSE j + 1]
<1> DEFINE l == Len(v)
           s == SubSeq(v, 1, k - 1)
           t == SubSeq(v, k + 1, l)
           w == s \o t
<1>1. /\ l \in Nat /\ k \in Nat /\ 1 <= k /\ k <= l /\ (\A i \in 1 .. l : v[i] \in Nat)
      /\ \A i, j \in 1 .. l : i < j => v[i] < v[j]
  OBVIOUS
<1> HIDE DEF l
<1>2. s \in Seq(Nat) /\ Len(s) = k - 1 /\ \A j \in 1 .. k - 1 : s[j] = v[j]
  <2> DEFINE a == 1
             b == k - 1
  <2>1. a \in Int /\ b \in Int /\ (\A i \in a .. b : v[i] \in Nat) /\ a = 1
    BY <1>1
  <2> HIDE DEF a, b
  <2>2. /\ SubSeq(v, a, b) \in Seq(Nat)
        /\ Len(SubSeq(v, a, b)) = IF a <= b THEN b - a + 1 ELSE 0
        /\ \A i \in 1 .. b - a + 1 : SubSeq(v, a, b)[i] = v[a + i - 1]
    BY <2>1, SubSeqProperties
  <2>3. Len(SubSeq(v, a, b)) = k - 1
    BY <1>1, <2>1, <2>2 DEF b
  <2>4. \A j \in 1 .. k - 1 : j \in 1 .. b - a + 1 /\ a + j - 1 = j
    BY <1>1, <2>1 DEF b
  <2>5. \A j \in 1 .. k - 1 : SubSeq(v, a, b)[j] = v[j]
    BY <2>2, <2>4
  <2> QED
    BY <2>1, <2>2, <2>3, <2>5 DEF b
<1>3. t \in Seq(Nat) /\ Len(t) = l - k /\ \A j \in 1 .. l - k : t[j] = v[k + j]
  <2> DEFINE a == k + 1
  <2>1. a \in Int /\ l \in Int /\ (\A i \in a .. l : v[i] \in Nat)
    BY <1>1
  <2> HIDE DEF a
  <2>2. /\ SubSeq(v, a, l) \in Seq(Nat)
        /\ Len(SubSeq(v, a, l)) = IF a <= l THEN l - a + 1 ELSE 0
        /\ \A i \in 1 .. l - a + 1 : SubSeq(v, a, l)[i] = v[a + i - 1]
    BY <2>1, SubSeqProperties
  <2>3. Len(SubSeq(v, a, l)) = l - k
    BY <1>1, <2>1, <2>2 DEF a
  <2>4. \A j \in 1 .. l - k : j \in 1 .. l - a + 1 /\ a + j - 1 = k + j
    BY <1>1, <2>1 DEF a
  <2>5. \A j \in 1 .. l - k : SubSeq(v, a, l)[j] = v[k + j]
    BY <2>2, <2>4
  <2> QED
    BY <2>2, <2>3, <2>5 DEF a
<1> HIDE DEF s, t
<1>4. /\ w \in Seq(Nat) /\ Len(w) = l - 1
      /\ \A j \in 1 .. l - 1 : w[j] = IF j <= k - 1 THEN s[j] ELSE t[j - (k - 1)]
  <2>1. /\ w \in Seq(Nat) /\ Len(w) = Len(s) + Len(t)
        /\ \A j \in 1 .. Len(s) + Len(t) : w[j] = IF j <= Len(s) THEN s[j] ELSE t[j - Len(s)]
    BY <1>2, <1>3, ConcatProperties
  <2>2. Len(s) + Len(t) = l - 1 /\ Len(s) = k - 1
    BY <1>1, <1>2, <1>3
  <2> QED
    BY <2>1, <2>2
<1> HIDE DEF w
<1>5. \A j \in 1 .. l - 1 : w[j] = v[IF j < k THEN j ELSE j + 1]
  <2> SUFFICES ASSUME NEW j \in 1 .. l - 1 PROVE w[j] = v[IF j < k THEN j ELSE j + 1]
    OBVIOUS
  <2>1. CASE j < k
    <3>1. j <= k - 1 /\ j \in 1 .. k - 1
      BY <1>1, <2>1
    <3> QED
      BY <1>2, <1>4, <2>1, <3>1
  <2>2. CASE ~ (j < k)
    <3>1. ~ (j <= k - 1) /\ j - (k - 1) \in 1 .. l - k /\ k + (j - (k - 1)) = j + 1
      BY <1>1, <2>2
    <3> QED
      BY <1>3, <1>4, <2>2, <3>1
  <2> QED
    BY <2>1, <2>2
<1>6. Increasing(w)
  <2> SUFFICES ASSUME NEW i \in 1 .. l - 1, NEW j \in 1 .. l - 1, i < j PROVE w[i] < w[j]
    BY <1>4 DEF Increasing
  <2> DEFINE x == IF i < k THEN i ELSE i + 1
             y == IF j < k THEN j ELSE j + 1
  <2>1. x \in 1 .. l /\ y \in 1 .. l /\ x < y
    BY <1>1
  <2>2. w[i] = v[x] /\ w[j] = v[y]
    BY <1>5
  <2> HIDE DEF x, y
  <2> QED
    BY <1>1, <2>1, <2>2
<1> QED
  BY <1>4, <1>5, <1>6 DEF w, s, t, l

(* Deleting a visible record: it goes, or is visible as a deleted one. *)
LEMMA VisibleDelete ==
  ASSUME NEW recs \in Seq(RecordStates), NEW k \in 1 .. Len(Visible(recs)), set.deleted \in BOOLEAN
  PROVE  LET v == Visible(recs)
             new == [recs EXCEPT ![v[k]] = "deleted"]
         IN  /\ new \in Seq(RecordStates) /\ Len(new) = Len(recs)
             /\ ~set.deleted => Visible(new) = v
             /\ set.deleted => Visible(new) = SubSeq(v, 1, k - 1) \o SubSeq(v, k + 1, Len(v))
<1> DEFINE v == Visible(recs)
           l == Len(v)
           q == v[k]
           new == [recs EXCEPT ![q] = "deleted"]
           w == SubSeq(v, 1, k - 1) \o SubSeq(v, k + 1, l)
<1>1. /\ Len(recs) \in Nat /\ v \in Seq(Nat) /\ l \in Nat /\ DOMAIN v = 1 .. l
      /\ \A i \in 1 .. l : v[i] \in 1 .. Len(recs) /\ v[i] \in Nat /\ ~Hidden(recs[v[i]])
      /\ \A i, j \in 1 .. l : i < j => v[i] < v[j]
      /\ \A r \in 1 .. Len(recs) : ~Hidden(recs[r]) => \E i \in 1 .. l : v[i] = r
  BY RecordsIs
<1>2. k \in Nat /\ 1 <= k /\ k <= l /\ k \in 1 .. l
  BY <1>1
<1>3. q \in 1 .. Len(recs)
  BY <1>1
<1> HIDE DEF v, l, q
<1>4. /\ new \in Seq(RecordStates) /\ Len(new) = Len(recs)
      /\ \A j \in 1 .. Len(recs) : new[j] = IF j = q THEN "deleted" ELSE recs[j]
  <2>1. "deleted" \in RecordStates
    BY DEF RecordStates
  <2> QED
    BY <1>3, <2>1, ExceptSeq
<1> HIDE DEF new
<1>5. ASSUME ~set.deleted
      PROVE  Visible(new) = v
  <2>1. \A j \in 1 .. Len(recs) : Hidden(new[j]) <=> Hidden(recs[j])
    <3> SUFFICES ASSUME NEW j \in 1 .. Len(recs) PROVE Hidden(new[j]) <=> Hidden(recs[j])
      OBVIOUS
    <3>1. CASE j = q
      <4>1. ~Hidden(recs[q]) /\ new[q] = "deleted"
        BY <1>1, <1>2, <1>3, <1>4 DEF q
      <4> QED
        BY <1>5, <3>1, <4>1 DEF Hidden
    <3>2. CASE j # q
      BY <1>4, <3>2
    <3> QED
      BY <3>1, <3>2
  <2>2. Increasing(v)
    BY <1>1 DEF Increasing
  <2>3. \A i \in 1 .. Len(v) : v[i] \in 1 .. Len(new) /\ ~Hidden(new[v[i]])
    BY <1>1, <1>4, <2>1 DEF l
  <2>4. \A r \in 1 .. Len(new) : ~Hidden(new[r]) => \E i \in 1 .. Len(v) : v[i] = r
    BY <1>1, <1>4, <2>1 DEF l
  <2> QED
    BY <1>1, <1>4, <2>2, <2>3, <2>4, VisibleOnce
<1>6. ASSUME set.deleted
      PROVE  Visible(new) = w
  <2>1. /\ w \in Seq(Nat) /\ Len(w) = l - 1 /\ Increasing(w)
        /\ \A j \in 1 .. l - 1 : w[j] = v[IF j < k THEN j ELSE j + 1]
    <3> DEFINE y == SubSeq(v, 1, k - 1) \o SubSeq(v, k + 1, Len(v))
    <3>1. v \in Seq(Nat) /\ k \in 1 .. Len(v) /\ \A i, j \in 1 .. Len(v) : i < j => v[i] < v[j]
      BY <1>1, <1>2 DEF l
    <3>2. /\ y \in Seq(Nat) /\ Len(y) = Len(v) - 1 /\ Increasing(y)
          /\ \A j \in 1 .. Len(v) - 1 : y[j] = v[IF j < k THEN j ELSE j + 1]
      BY ONLY <3>1, WithoutIs
    <3>3. w = y
      BY DEF l
    <3> HIDE DEF w, y
    <3> QED
      BY <3>2, <3>3 DEF l
  <2> HIDE DEF w
  <2>2. Hidden(new[q])
    BY <1>3, <1>4, <1>6 DEF Hidden
  <2>3. \A i \in 1 .. Len(w) : w[i] \in 1 .. Len(new) /\ ~Hidden(new[w[i]])
    <3> SUFFICES ASSUME NEW i \in 1 .. l - 1 PROVE w[i] \in 1 .. Len(recs) /\ ~Hidden(new[w[i]])
      BY <1>4, <2>1
    <3> DEFINE x == IF i < k THEN i ELSE i + 1
    <3>1. x \in 1 .. l /\ x # k /\ (x < k \/ k < x)
      BY <1>1, <1>2
    <3>2. w[i] = v[x]
      BY <2>1
    <3> HIDE DEF x
    <3>3. v[x] \in 1 .. Len(recs) /\ ~Hidden(recs[v[x]]) /\ v[x] \in Nat /\ q \in Nat
      BY <1>1, <1>3, <3>1
    <3>4. v[x] # q
      <4>1. v[x] < q \/ q < v[x]
        BY <1>1, <1>2, <3>1 DEF q
      <4> QED
        BY <3>3, <4>1
    <3> QED
      BY <1>4, <3>2, <3>3, <3>4
  <2>4. \A r \in 1 .. Len(new) : ~Hidden(new[r]) => \E i \in 1 .. Len(w) : w[i] = r
    <3> SUFFICES ASSUME NEW r \in 1 .. Len(recs), ~Hidden(new[r]) PROVE \E i \in 1 .. l - 1 : w[i] = r
      BY <1>4, <2>1
    <3>1. r # q /\ ~Hidden(recs[r])
      <4>1. r # q
        BY <2>2
      <4> QED
        BY <1>4, <4>1
    <3>2. PICK x \in 1 .. l : v[x] = r
      BY <1>1, <3>1
    <3>3. x # k
      BY <3>1, <3>2 DEF q
    <3> DEFINE i == IF x < k THEN x ELSE x - 1
    <3>4. i \in 1 .. l - 1 /\ (IF i < k THEN i ELSE i + 1) = x
      BY <1>1, <1>2, <3>2, <3>3
    <3> HIDE DEF i
    <3>5. w[i] = v[x]
      BY <2>1, <3>4
    <3> QED
      BY <3>2, <3>4, <3>5
  <2> QED
    BY <1>4, <2>1, <2>3, <2>4, VisibleOnce
<1> QED
  BY <1>4, <1>5, <1>6 DEF new, w, v, l, q

(* The neighbours of a number in an ascending sequence. *)
LEMMA Neighbours ==
  ASSUME NEW v \in Seq(Nat), NEW k \in 1 .. Len(v),
         \A i, j \in 1 .. Len(v) : i < j => v[i] < v[j]
  PROVE  LET behind == {i \in DOMAIN v : v[i] > v[k]}
             before == {i \in DOMAIN v : v[i] < v[k]}
         IN  /\ k < Len(v) => behind # {} /\ (CHOOSE i \in behind : \A j \in behind : i <= j) = k + 1
             /\ k = Len(v) => behind = {}
             /\ k > 1 => before # {} /\ (CHOOSE i \in before : \A j \in before : i >= j) = k - 1
             /\ k = 1 => before = {}
<1> DEFINE l == Len(v)
           behind == {i \in DOMAIN v : v[i] > v[k]}
           before == {i \in DOMAIN v : v[i] < v[k]}
<1>1. /\ l \in Nat /\ k \in Nat /\ 1 <= k /\ k <= l /\ k \in 1 .. l /\ (\A i \in 1 .. l : v[i] \in Nat)
      /\ DOMAIN v = 1 .. l
      /\ \A i, j \in 1 .. l : i < j => v[i] < v[j]
  OBVIOUS
<1> HIDE DEF l
<1>2. \A i \in 1 .. l : v[i] > v[k] <=> i > k
  <2> SUFFICES ASSUME NEW i \in 1 .. l PROVE v[i] > v[k] <=> i > k
    OBVIOUS
  <2>1. v[i] \in Nat /\ v[k] \in Nat /\ (i < k => v[i] < v[k]) /\ (k < i => v[k] < v[i])
    BY <1>1
  <2>2. i < k \/ k < i \/ i = k
    BY <1>1
  <2> QED
    BY <1>1, <2>1, <2>2
<1>3. \A i \in 1 .. l : v[i] < v[k] <=> i < k
  <2> SUFFICES ASSUME NEW i \in 1 .. l PROVE v[i] < v[k] <=> i < k
    OBVIOUS
  <2>1. v[i] \in Nat /\ v[k] \in Nat /\ (i < k => v[i] < v[k]) /\ (k < i => v[k] < v[i])
    BY <1>1
  <2>2. i < k \/ k < i \/ i = k
    BY <1>1
  <2> QED
    BY <1>1, <2>1, <2>2
<1>4. behind = k + 1 .. l
  BY <1>1, <1>2
<1>5. before = 1 .. k - 1
  BY <1>1, <1>3
<1> HIDE DEF behind, before
<1>6. ASSUME k < l
      PROVE  behind # {} /\ (CHOOSE i \in behind : \A j \in behind : i <= j) = k + 1
  <2>1. k + 1 \in behind /\ \A j \in behind : k + 1 <= j
    BY <1>1, <1>4, <1>6
  <2>2. \A i \in behind : (\A j \in behind : i <= j) => i = k + 1
    <3>1. \A i \in behind : i \in Nat
      BY <1>1, <1>4
    <3> QED
      BY <1>1, <2>1, <3>1
  <2> QED
    BY <2>1, <2>2
<1>7. ASSUME k > 1
      PROVE  before # {} /\ (CHOOSE i \in before : \A j \in before : i >= j) = k - 1
  <2>1. k - 1 \in before /\ \A j \in before : k - 1 >= j
    BY <1>1, <1>5, <1>7
  <2>2. \A i \in before : (\A j \in before : i >= j) => i = k - 1
    <3>1. \A i \in before : i \in Nat
      BY <1>1, <1>5
    <3> QED
      BY <1>1, <2>1, <3>1
  <2> QED
    BY <2>1, <2>2
<1>8. (k = l => behind = {}) /\ (k = 1 => before = {})
  BY <1>1, <1>4, <1>5
<1> QED
  BY <1>6, <1>7, <1>8 DEF behind, before, l

(* Where the cursor goes. *)
LEMMA AfterDeleteIs ==
  ASSUME NEW recs \in Seq(RecordStates), NEW k \in 1 .. Len(Visible(recs)), set.deleted \in BOOLEAN
  PROVE  LET v == Visible(recs)
             new == [recs EXCEPT ![v[k]] = "deleted"]
             w == Visible(new)
             to == AfterDelete(new, v[k])
         IN  /\ ~set.deleted => to = v[k]
             /\ set.deleted /\ k < Len(v) => to = v[k + 1] /\ k \in 1 .. Len(w) /\ w[k] = to
             /\ set.deleted /\ k = Len(v) /\ k > 1 => to = v[k - 1] /\ k - 1 \in 1 .. Len(w) /\ w[k - 1] = to
             /\ set.deleted /\ k = Len(v) /\ k = 1 => to = Eof(new) /\ w = <<>>
             /\ set.deleted => \A j \in 1 .. Len(w) : w[j] # v[k]
<1> DEFINE v == Visible(recs)
           l == Len(v)
           q == v[k]
           new == [recs EXCEPT ![q] = "deleted"]
           w == Visible(new)
           to == AfterDelete(new, q)
           next == Skip(new, q, 1)
<1>1. /\ Len(recs) \in Nat /\ v \in Seq(Nat) /\ l \in Nat /\ DOMAIN v = 1 .. l
      /\ \A i \in 1 .. l : v[i] \in 1 .. Len(recs) /\ v[i] \in Nat
      /\ \A i, j \in 1 .. l : i < j => v[i] < v[j]
  BY RecordsIs
<1>2. k \in Nat /\ 1 <= k /\ k <= l /\ k \in 1 .. l /\ q \in Nat
  BY <1>1
<1>3. /\ new \in Seq(RecordStates) /\ Len(new) = Len(recs)
      /\ ~set.deleted => w = v
      /\ set.deleted => w = SubSeq(v, 1, k - 1) \o SubSeq(v, k + 1, Len(v))
  BY VisibleDelete
<1>4. to = IF next = Eof(new) THEN GoBottom(new)
           ELSE IF set.deleted THEN next ELSE Skip(new, next, -1)
  BY Zenon DEF AfterDelete
<1>5. GoBottom(new) = IF w = <<>> THEN Eof(new) ELSE w[Len(w)]
  BY DEF GoBottom
<1>6. Eof(new) = Len(recs) + 1 /\ \A i \in 1 .. Len(w) : w[i] \in 1 .. Len(recs) /\ w[i] \in Nat
  BY <1>3, RecordsIs
<1> HIDE DEF v, l, new, to, next
<1>7. ASSUME ~set.deleted
      PROVE  to = q
  <2>1. w = v /\ Len(w) = l
    BY <1>3, <1>7 DEF l
  <2> DEFINE n == 1
             m == -1
  <2>2. n \in Int /\ m \in Int /\ next = Skip(new, w[k], n)
    BY <2>1 DEF next
  <2>3. \A i \in 1 .. Len(w), x \in Int :
          Skip(new, w[i], x) = IF i + x > Len(w) THEN Eof(new) ELSE IF i + x < 1 THEN w[1] ELSE w[i + x]
    BY <1>3, SkipIs
  <2> HIDE DEF w
  <2>4. next = IF k + n > l THEN Eof(new) ELSE IF k + n < 1 THEN w[1] ELSE w[k + n]
    BY <1>2, <2>1, <2>2, <2>3
  <2>5. CASE k = l
    <3>1. next = Eof(new)
      BY <1>2, <2>4, <2>5
    <3>2. v # <<>>
      BY <1>2 DEF l
    <3> QED
      BY <1>4, <1>5, <2>1, <2>5, <3>1, <3>2 DEF q
  <2>6. CASE k # l
    <3>1. k + 1 \in 1 .. l /\ k + 1 + m = k /\ ~ (k + n > l) /\ ~ (k + n < 1) /\ ~ (k < 1) /\ ~ (k > l)
      BY <1>1, <1>2, <2>6
    <3>2. next = w[k + 1]
      BY <2>4, <3>1
    <3>3. next # Eof(new)
      <4>1. w[k + 1] \in 1 .. Len(recs)
        BY <1>6, <2>1, <3>1
      <4> QED
        BY <1>1, <1>6, <3>2, <4>1
    <3> HIDE DEF m
    <3>4. Skip(new, w[k + 1], m) = w[k]
      BY <2>1, <2>2, <2>3, <3>1
    <3>5. to = Skip(new, next, m)
      BY <1>4, <1>7, <3>3 DEF m
    <3> QED
      BY <2>1, <3>2, <3>4, <3>5 DEF q
  <2> QED
    BY <2>5, <2>6
<1>8. ASSUME set.deleted
      PROVE  /\ Len(w) = l - 1
             /\ \A j \in 1 .. l - 1 : w[j] = v[IF j < k THEN j ELSE j + 1]
  <2> DEFINE y == SubSeq(v, 1, k - 1) \o SubSeq(v, k + 1, Len(v))
  <2>1. v \in Seq(Nat) /\ k \in 1 .. Len(v) /\ \A i, j \in 1 .. Len(v) : i < j => v[i] < v[j]
    BY <1>1, <1>2 DEF l
  <2>2. /\ y \in Seq(Nat) /\ Len(y) = Len(v) - 1 /\ Increasing(y)
        /\ \A j \in 1 .. Len(v) - 1 : y[j] = v[IF j < k THEN j ELSE j + 1]
    BY ONLY <2>1, WithoutIs
  <2>3. w = y
    BY <1>3, <1>8
  <2> HIDE DEF w, y
  <2> QED
    BY <2>2, <2>3 DEF l
<1> HIDE DEF w, q
<1>9. ASSUME set.deleted
      PROVE  \A j \in 1 .. Len(w) : w[j] # q
  <2> SUFFICES ASSUME NEW j \in 1 .. l - 1 PROVE w[j] # q
    BY <1>8, <1>9
  <2> DEFINE x == IF j < k THEN j ELSE j + 1
  <2>1. x \in 1 .. l /\ (x < k \/ k < x)
    BY <1>1, <1>2
  <2>2. w[j] = v[x]
    BY <1>8, <1>9
  <2> HIDE DEF x
  <2>3. v[x] < q \/ q < v[x]
    BY <1>1, <1>2, <2>1 DEF q
  <2>4. v[x] \in Nat
    BY <1>1, <2>1
  <2> QED
    BY <1>2, <2>2, <2>3, <2>4
<1>10. ASSUME set.deleted
       PROVE  next = IF k <= l - 1 THEN w[k] ELSE Eof(new)
  <2> DEFINE i == k - 1
             n == 1
  <2>1. InFront(w, q, i)
    <3>1. \A j \in 1 .. k - 1 : w[j] < q
      <4> SUFFICES ASSUME NEW j \in 1 .. k - 1 PROVE w[j] < q
        OBVIOUS
      <4>1. j \in 1 .. l - 1 /\ j < k /\ j \in 1 .. l
        BY <1>1, <1>2
      <4> QED
        BY <1>1, <1>2, <1>8, <1>10, <4>1 DEF q
    <3>2. \A j \in k .. l - 1 : w[j] >= q
      <4> SUFFICES ASSUME NEW j \in k .. l - 1 PROVE w[j] >= q
        OBVIOUS
      <4>1. j \in 1 .. l - 1 /\ ~ (j < k) /\ j + 1 \in 1 .. l /\ k < j + 1
        BY <1>1, <1>2
      <4>2. w[j] = v[j + 1] /\ q < v[j + 1] /\ v[j + 1] \in Nat
        BY <1>1, <1>2, <1>8, <1>10, <4>1 DEF q
      <4> QED
        BY <1>2, <4>2
    <3>3. i + 1 = k /\ Len(w) = l - 1
      BY <1>2, <1>8, <1>10
    <3> QED
      BY <3>1, <3>2, <3>3 DEF InFront
  <2>2. i \in 0 .. Len(w) /\ n \in Int /\ n > 0 /\ n # 0 /\ i + n = k
    BY <1>1, <1>2, <1>8, <1>10
  <2>3. next = Skip(new, q, n)
    BY DEF next
  <2> HIDE DEF i, n
  <2>4. Skip(new, q, n) = IF n = 0 THEN q
                          ELSE IF n > 0 THEN IF i + n <= Len(w) THEN w[i + n] ELSE Eof(new)
                          ELSE IF i + n >= 0 THEN w[i + n + 1] ELSE GoTop(new)
    <3>1. \A j \in 1 .. Len(w) : w[j] # q
      BY <1>9, <1>10
    <3> QED
      BY <1>2, <1>3, <2>1, <2>2, <3>1, SkipHidden DEF w
  <2> QED
    BY <1>8, <1>10, <2>2, <2>3, <2>4
<1>11. ASSUME set.deleted, k < l
       PROVE  to = v[k + 1] /\ k \in 1 .. Len(w) /\ w[k] = to
  <2>1. k <= l - 1 /\ k \in 1 .. l - 1 /\ ~ (k < k)
    BY <1>1, <1>2, <1>11
  <2>2. next = w[k] /\ w[k] = v[k + 1] /\ Len(w) = l - 1
    BY <1>8, <1>10, <1>11, <2>1
  <2>3. next # Eof(new)
    <3>1. next \in 1 .. Len(recs)
      BY <1>6, <2>1, <2>2
    <3> QED
      BY <1>1, <1>6, <3>1
  <2> QED
    BY <1>4, <1>11, <2>1, <2>2, <2>3
<1>12. ASSUME set.deleted, k = l
       PROVE  to = IF w = <<>> THEN Eof(new) ELSE w[Len(w)]
  <2>1. ~ (k <= l - 1)
    BY <1>2, <1>12
  <2> QED
    BY <1>4, <1>5, <1>10, <1>12, <2>1
<1>13. ASSUME set.deleted, k = l, k > 1
       PROVE  to = v[k - 1] /\ k - 1 \in 1 .. Len(w) /\ w[k - 1] = to
  <2>1. Len(w) = k - 1 /\ k - 1 \in 1 .. l - 1 /\ k - 1 < k
    BY <1>1, <1>2, <1>8, <1>13
  <2>2. w[k - 1] = v[k - 1]
    BY <1>8, <1>13, <2>1
  <2>3. w # <<>>
    BY <1>13, <2>1
  <2> QED
    BY <1>12, <1>13, <2>1, <2>2, <2>3
<1>14. ASSUME set.deleted, k = l, k = 1
       PROVE  to = Eof(new) /\ w = <<>>
  <2>1. Len(w) = 0
    BY <1>8, <1>14
  <2>2. w \in Seq(Nat)
    BY <1>3, RecordsIs DEF w
  <2>3. w = <<>>
    BY <2>1, <2>2, EmptySeq
  <2> QED
    BY <1>12, <1>14, <2>3
<1> QED
  BY <1>7, <1>9, <1>11, <1>13, <1>14 DEF v, l, q, new, w, to

(* After a deletion, the view is brought to record to, or is emptied. *)
LEMMA AfterDeletion ==
  ASSUME BrowseInv, Message, NEW recs \in Seq(RecordStates), Len(recs) = Len(area.recs), NEW to,
         area' = [area EXCEPT !.recs = recs], browse' = Valued(recs, to, browse.sel),
         notified' = GetValue(browse'), browse.sel \in 1 .. PageLength,
         \/ \E i \in 1 .. Len(Visible(recs)) : to = Visible(recs)[i]
         \/ to = Eof(recs) /\ Visible(recs) = <<>>
  PROVE  /\ BrowseInv'
         /\ Visible(area.recs)' = Visible(recs)
         /\ SubSeq(browse.rangeMax, 1, browse.rows)' \in Cursor!Pages(Visible(recs), Len(area.recs))
         /\ GetValue(browse)' = IF to = Eof(recs) THEN 0 ELSE to
         /\ GetValue(browse)' \in Cursor!Members(SubSeq(browse.rangeMax, 1, browse.rows)') \cup {0}
         /\ notified' = GetValue(browse)' /\ Cursor!Chosen
         /\ Len(area.recs)' = Len(area.recs) /\ area'.recno = area.recno
         /\ ~toRefresh /\ toRefresh' = toRefresh /\ set' = set
<1> DEFINE v == Visible(recs)
           n == Len(recs)
           c == Valued(recs, to, browse.sel)
<1>1. ~toRefresh /\ toRefresh' = toRefresh /\ set' = set
  BY DEF Message
<1>2. /\ area \in [recs : Seq(RecordStates), recno : Nat] /\ area.recno \in 1 .. Eof(area.recs)
      /\ toRefresh \in BOOLEAN
  BY DEF BrowseInv
<1>3. Eof(recs) = n + 1 /\ Eof(recs) = Eof(area.recs) /\ Eof(recs) \in Nat /\ n \in Nat
  <2>1. n \in Nat
    BY RecordsIs
  <2> QED
    BY <2>1 DEF Eof
<1>4. IsView(browse, n) /\ browse \in Views
  BY FileOf
<1>5. /\ area'.recs = recs /\ area'.recno = area.recno
      /\ area' \in [recs : Seq(RecordStates), recno : Nat] /\ area'.recno \in 1 .. Eof(area'.recs)
  BY <1>2, <1>3
<1>6. /\ IsView(c, n) /\ (c.rows # 0 => OnPage(c, v, n)) /\ Screen(c) \in Cursor!Pages(v, n)
      /\ GetValue(c) = IF to = Eof(recs) THEN 0 ELSE to
      /\ c.value = to /\ to # 0
  <2>1. CASE \E i \in 1 .. Len(v) : to = v[i]
    <3>1. PICK i \in 1 .. Len(v) : to = v[i]
      BY <2>1
    <3> DEFINE m == browse.sel
               d == Valued(recs, v[i], m)
    <3>2. OnPage(d, v, n) /\ GetValue(d) = v[i] /\ d.value = v[i]
      <4>1. m \in 1 .. PageLength
        OBVIOUS
      <4> QED
        BY <1>4, <4>1, ValuedIs
    <3>3. d = c
      BY <3>1
    <3>4. v[i] # Eof(recs) /\ v[i] # 0
      <4>1. v[i] \in 1 .. n
        BY RecordsIs
      <4> QED
        BY <1>3, <4>1
    <3> HIDE DEF c, d, v, n
    <3>5. OnPage(c, v, n) /\ GetValue(c) = to /\ to # Eof(recs) /\ c.value = to /\ to # 0
      BY <3>1, <3>2, <3>3, <3>4
    <3>6. IsView(c, n) /\ c.rows = Len(c.rangeMax) /\ c.rangeMax \in Cursor!Pages(v, n)
      BY <3>5 DEF OnPage
    <3>7. Screen(c) = c.rangeMax
      BY <3>6, SubSeqFull DEF Screen, IsView, Views
    <3> QED
      BY <3>5, <3>6, <3>7
  <2>2. CASE to = Eof(recs) /\ v = <<>>
    <3> DEFINE m == browse.sel
               d == Valued(recs, Eof(recs), m)
    <3>1. IsView(d, n) /\ d.rows = 0 /\ d.sel = 0 /\ GetValue(d) = 0 /\ Screen(d) = <<>> /\ d.value = Eof(recs)
      BY <1>3, <1>4, ValuedNone
    <3>2. d = c
      BY <2>2
    <3>4. Eof(recs) # 0
      BY <1>3
    <3> HIDE DEF c, d, n
    <3>3. <<>> \in Cursor!Pages(v, n)
      BY <2>2 DEF Cursor!Pages
    <3> QED
      BY <2>2, <3>1, <3>2, <3>3, <3>4
  <2> QED
    BY <2>1, <2>2
<1> HIDE DEF c, v, n
<1>7. browse' = c
  BY DEF c
<1>8. /\ BrowseInv'
      /\ Visible(area.recs)' = Visible(area'.recs)
      /\ SubSeq(browse.rangeMax, 1, browse.rows)' = Screen(browse')
      /\ GetValue(browse)' = GetValue(browse')
  <2>1. /\ toRefresh' \in BOOLEAN /\ IsView(browse', Len(area'.recs))
        /\ ~toRefresh' /\ browse'.rows # 0 => OnPage(browse', Visible(area'.recs), Len(area'.recs))
        /\ area'.recs \in Seq(RecordStates)
    BY <1>1, <1>2, <1>5, <1>6, <1>7 DEF v, n
  <2> QED
    BY <1>1, <1>5, <2>1, NextInv
<1>9. GetValue(c) \in Cursor!Members(Screen(c)) \cup {0}
  BY <1>3, <1>6, ScreenIs
<1>10. Cursor!Chosen
  <2>1. Len(area.recs)' + 1 = Eof(recs)
    BY <1>3, <1>5 DEF n
  <2>2. GetValue(browse)' = IF to = Eof(recs) THEN 0 ELSE to
    BY <1>6, <1>7, <1>8
  <2> QED
    BY <1>6, <1>7, <2>1, <2>2 DEF Cursor!Chosen
<1> QED
  BY <1>1, <1>5, <1>6, <1>7, <1>8, <1>9, <1>10 DEF v, n

(* A row is deleted, or cannot be. *)
LEMMA RowDeleted ==
  ASSUME BrowseInv, NEW locked \in BOOLEAN, BrowseDelete(locked)
  PROVE  BrowseInv' /\ Cursor!Remove
<1> DEFINE value == GetValue(browse)
           old == area.recs
           recs == IF locked \/ value = Eof(old) THEN old ELSE [old EXCEPT ![value] = "deleted"]
           to == IF locked THEN value ELSE AfterDelete(recs, value)
           v == Visible(old)
           l == Len(v)
<1>1. /\ Message /\ ~toRefresh /\ browse.sel # 0
      /\ area' = [area EXCEPT !.recs = recs] /\ browse' = Valued(recs, to, browse.sel)
      /\ notified' = GetValue(browse')
  BY Zenon DEF BrowseDelete, Message
<1>2. /\ old \in Seq(RecordStates) /\ Len(old) \in Nat /\ IsView(browse, Len(old)) /\ browse \in Views
      /\ Eof(old) = Len(old) + 1 /\ v \in Seq(Nat) /\ l \in Nat /\ DOMAIN v = 1 .. l
  BY FileOf, RecordsIs
<1>3. set.deleted \in BOOLEAN
  BY DEF BrowseInv
<1>4. browse.sel \in 1 .. PageLength
  <2>1. /\ browse.sel \in Nat /\ browse.rows \in Nat /\ browse.sel \in 0 .. browse.rows
        /\ Len(browse.rangeMax) <= PageLength /\ Len(browse.rangeMax) \in Nat /\ PageLength \in Nat
        /\ browse.rows = 0 \/ browse.rows = Len(browse.rangeMax)
    BY <1>2, BrowseAssumption DEF IsView, Views
  <2> QED
    BY <1>1, <2>1
<1>5. \/ v = <<>> /\ value = Eof(old)
      \/ \E k \in 1 .. l : value = v[k]
  <2>1. ShowsNothing \/ ShowsEof \/ \E i \in 1 .. l : ShowsFrom(i)
    BY <1>1, Showing
  <2>2. CASE ShowsNothing
    BY <1>1, <2>2 DEF ShowsNothing
  <2>3. CASE ShowsEof
    BY <1>1, <2>3 DEF ShowsEof
  <2>4. CASE \E i \in 1 .. l : ShowsFrom(i)
    <3>1. PICK i \in 1 .. l : ShowsFrom(i)
      BY <2>4
    <3> QED
      BY <1>1, <3>1 DEF ShowsFrom
  <2> QED
    BY <2>1, <2>2, <2>3, <2>4
<1> HIDE DEF value, old, recs, to, v, l
<1>6. CASE v = <<>> /\ value = Eof(old)
  <2>1. recs = old
    BY <1>6 DEF recs
  <2>2. to = Eof(recs)
    <3>1. CASE locked
      BY <1>6, <2>1, <3>1 DEF to
    <3>2. CASE ~locked
      <4> DEFINE n == 1
      <4>1. n \in Int
        OBVIOUS
      <4> HIDE DEF n
      <4>2. GoBottom(old) = Eof(old) /\ Skip(old, Eof(old), n) = Eof(old)
        BY <1>2, <1>6, <4>1, DrawnAtNone DEF v
      <4>3. Skip(old, Eof(old), 1) = Eof(old)
        BY <4>2 DEF n
      <4> QED
        BY <1>6, <2>1, <3>2, <4>2, <4>3 DEF to, AfterDelete
    <3> QED
      BY <3>1, <3>2
  <2>3. Len(recs) = Len(area.recs) /\ recs \in Seq(RecordStates) /\ Visible(recs) = <<>>
    BY <1>2, <1>6, <2>1 DEF old, v
  <2>4. /\ BrowseInv'
        /\ Visible(area.recs)' = Visible(recs)
        /\ SubSeq(browse.rangeMax, 1, browse.rows)' \in Cursor!Pages(Visible(recs), Len(area.recs))
        /\ GetValue(browse)' = IF to = Eof(recs) THEN 0 ELSE to
        /\ notified' = GetValue(browse)' /\ Cursor!Chosen
        /\ Len(area.recs)' = Len(area.recs) /\ area'.recno = area.recno
        /\ ~toRefresh /\ toRefresh' = toRefresh /\ set' = set
    BY <1>1, <1>4, <2>2, <2>3, AfterDeletion
  <2>5. Visible(area.recs)' = Visible(area.recs) /\ GetValue(browse)' = 0 /\ GetValue(browse) # 0
    BY <1>2, <1>6, <2>1, <2>2, <2>4 DEF old, value
  <2>6. DOMAIN Visible(area.recs) = {} /\ Visible(area.recs) = <<>>
    BY <1>6 DEF v, old
  <2>7. ~ (GetValue(browse) \in Cursor!Members(Visible(area.recs)'))
    BY <2>5, <2>6 DEF Cursor!Members
  <2> QED
    BY <1>1, <2>1, <2>4, <2>5, <2>6, <2>7 DEF Cursor!Remove
<1>7. CASE \E k \in 1 .. l : value = v[k]
  <2>1. PICK k \in 1 .. l : value = v[k]
    BY <1>7
  <2>2. /\ value \in 1 .. Len(old) /\ value # Eof(old) /\ value # 0
        /\ \A i \in 1 .. l : v[i] \in 1 .. Len(old) /\ v[i] \in Nat
        /\ \A i, j \in 1 .. l : i < j => v[i] < v[j]
        /\ k \in Nat /\ 1 <= k /\ k <= l
    <3>1. /\ \A i \in 1 .. l : v[i] \in 1 .. Len(old) /\ v[i] \in Nat
          /\ \A i, j \in 1 .. l : i < j => v[i] < v[j]
      BY <1>2, RecordsIs DEF v, l
    <3> QED
      BY <1>2, <2>1, <3>1
  <2>3. value \in Cursor!Visible /\ Cursor!Rank(value) = k
    BY <1>2, <2>1, RankIs DEF v, l, old
  <2> DEFINE new == [old EXCEPT ![v[k]] = "deleted"]
             w == Visible(new)
             dest == AfterDelete(new, v[k])
  <2>4. /\ new \in Seq(RecordStates) /\ Len(new) = Len(old)
        /\ ~set.deleted => w = v
        /\ set.deleted => w = SubSeq(v, 1, k - 1) \o SubSeq(v, k + 1, l)
    BY <1>2, <1>3, <2>1, VisibleDelete DEF v, l
  <2>5. /\ ~set.deleted => dest = v[k]
        /\ set.deleted /\ k < l => dest = v[k + 1] /\ k \in 1 .. Len(w) /\ w[k] = dest
        /\ set.deleted /\ k = l /\ k > 1 => dest = v[k - 1] /\ k - 1 \in 1 .. Len(w) /\ w[k - 1] = dest
        /\ set.deleted /\ k = l /\ k = 1 => dest = Eof(new) /\ w = <<>>
        /\ set.deleted => \A j \in 1 .. Len(w) : w[j] # v[k]
    BY <1>2, <1>3, <2>1, AfterDeleteIs DEF v, l
  <2>6. /\ locked => recs = old /\ to = v[k]
        /\ ~locked => recs = new /\ to = dest
    BY <2>1, <2>2 DEF recs, to
  <2> HIDE DEF new, w, dest
  <2>7. recs \in Seq(RecordStates) /\ Len(recs) = Len(area.recs) /\ Eof(recs) = Len(old) + 1
    BY <1>2, <2>4, <2>6 DEF old, Eof
  <2>8. /\ locked \/ ~set.deleted => Visible(recs) = v
        /\ ~locked /\ set.deleted => Visible(recs) = w
    BY <2>4, <2>6 DEF v, w
  <2>9. \/ \E i \in 1 .. Len(Visible(recs)) : to = Visible(recs)[i]
        \/ to = Eof(recs) /\ Visible(recs) = <<>>
    <3>1. CASE locked \/ ~set.deleted
      BY <2>1, <2>5, <2>6, <2>8, <3>1 DEF l
    <3>2. CASE ~locked /\ set.deleted
      <4>1. k < l \/ (k = l /\ k > 1) \/ (k = l /\ k = 1)
        BY <1>2, <2>2
      <4> QED
        BY <2>5, <2>6, <2>8, <3>2, <4>1
    <3> QED
      BY <3>1, <3>2
  <2>10. /\ BrowseInv'
         /\ Visible(area.recs)' = Visible(recs)
         /\ SubSeq(browse.rangeMax, 1, browse.rows)' \in Cursor!Pages(Visible(recs), Len(area.recs))
         /\ GetValue(browse)' = IF to = Eof(recs) THEN 0 ELSE to
         /\ GetValue(browse)' \in Cursor!Members(SubSeq(browse.rangeMax, 1, browse.rows)') \cup {0}
         /\ notified' = GetValue(browse)' /\ Cursor!Chosen
         /\ Len(area.recs)' = Len(area.recs) /\ area'.recno = area.recno
         /\ ~toRefresh /\ toRefresh' = toRefresh /\ set' = set
    BY <1>1, <1>4, <2>7, <2>9, AfterDeletion
  <2> DEFINE behind == {i \in DOMAIN v : v[i] > v[k]}
             before == {i \in DOMAIN v : v[i] < v[k]}
             next == IF v[k] \in Cursor!Members(Visible(recs)) THEN v[k]
                     ELSE IF behind # {} THEN v[CHOOSE i \in behind : \A j \in behind : i <= j]
                     ELSE IF before # {} THEN v[CHOOSE i \in before : \A j \in before : i >= j]
                     ELSE 0
  <2>11. /\ k < l => behind # {} /\ (CHOOSE i \in behind : \A j \in behind : i <= j) = k + 1
         /\ k = l => behind = {}
         /\ k > 1 => before # {} /\ (CHOOSE i \in before : \A j \in before : i >= j) = k - 1
         /\ k = 1 => before = {}
    BY <1>2, <2>1, <2>2, Neighbours DEF l
  <2> DEFINE first == CHOOSE i \in behind : \A j \in behind : i <= j
             last == CHOOSE i \in before : \A j \in before : i >= j
  <2>12. next = IF to = Eof(recs) THEN 0 ELSE to
    <3>1. CASE locked \/ ~set.deleted
      <4>1. v[k] \in Cursor!Members(Visible(recs))
        BY <1>2, <2>1, <2>8, <3>1 DEF Cursor!Members
      <4>2. to = v[k] /\ to # Eof(recs)
        BY <1>2, <2>1, <2>2, <2>5, <2>6, <2>7, <3>1
      <4> QED
        BY <4>1, <4>2
    <3>2. CASE ~locked /\ set.deleted
      <4>1. v[k] \notin Cursor!Members(Visible(recs))
        <5>1. DOMAIN w = 1 .. Len(w)
          BY <2>4, RecordsIs DEF w
        <5> QED
          BY <2>5, <2>8, <3>2, <5>1 DEF Cursor!Members
      <4> HIDE DEF behind, before
      <4>2. CASE k < l
        <5>1. next = v[k + 1]
          BY <2>11, <4>1, <4>2
        <5>2. v[k + 1] \in 1 .. Len(old)
          BY <1>2, <2>2, <4>2
        <5> QED
          BY <1>2, <2>5, <2>6, <2>7, <3>2, <4>2, <5>1, <5>2
      <4>3. CASE k = l /\ k > 1
        <5>1. next = v[k - 1]
          BY <2>11, <4>1, <4>3
        <5>2. v[k - 1] \in 1 .. Len(old)
          BY <1>2, <2>2, <4>3
        <5> QED
          BY <1>2, <2>5, <2>6, <2>7, <3>2, <4>3, <5>1, <5>2
      <4>4. CASE k = l /\ k = 1
        <5>1. next = 0
          BY <2>11, <4>1, <4>4
        <5>2. Eof(new) = Eof(recs)
          BY <2>6, <3>2
        <5> QED
          BY <2>5, <2>6, <3>2, <4>4, <5>1, <5>2
      <4> QED
        BY <1>2, <2>2, <4>2, <4>3, <4>4
    <3> QED
      BY <3>1, <3>2
  <2>13. /\ v = Visible(area.recs) /\ v[k] = GetValue(browse)
    BY <2>1 DEF v, old, value
  <2> HIDE DEF behind, before, next
  <2>14. next = IF GetValue(browse) \in Cursor!Members(Visible(area.recs)') THEN GetValue(browse)
                ELSE IF behind # {} THEN Visible(area.recs)[CHOOSE i \in behind : \A j \in behind : i <= j]
                ELSE IF before # {} THEN Visible(area.recs)[CHOOSE i \in before : \A j \in before : i >= j]
                ELSE 0
    BY <2>10, <2>13 DEF next
  <2>15. /\ behind = {i \in DOMAIN Visible(area.recs) : Visible(area.recs)[i] > GetValue(browse)}
         /\ before = {i \in DOMAIN Visible(area.recs) : Visible(area.recs)[i] < GetValue(browse)}
    BY <2>13 DEF behind, before
  <2>16. GetValue(browse)' = next
    BY <2>10, <2>12
  <2>17. \/ Visible(area.recs)' = Visible(area.recs)
         \/ /\ GetValue(browse) \in Cursor!Visible
            /\ Visible(area.recs)' = Cursor!Without(Cursor!Rank(GetValue(browse)))
    <3>1. Visible(area.recs)' = v \/ Visible(area.recs)' = SubSeq(v, 1, k - 1) \o SubSeq(v, k + 1, l)
      BY <1>3, <2>4, <2>8, <2>10
    <3>2. Cursor!Without(k) = SubSeq(v, 1, k - 1) \o SubSeq(v, k + 1, l)
      BY <2>13 DEF Cursor!Without, l
    <3> QED
      BY <2>1, <2>3, <2>13, <3>1, <3>2
  <2>18. GetValue(browse) # 0 /\ ~toRefresh
    BY <1>1, <2>1, <2>2, <2>13
  <2> QED
    BY <2>10, <2>14, <2>15, <2>16, <2>17, <2>18 DEF Cursor!Remove
<1> QED
  BY <1>5, <1>6, <1>7

(* Before the first refresh nothing is shown. *)
LEMMA BrowseStart ==
  ASSUME BrowseInit
  PROVE  BrowseInv /\ Cursor!CursorInit
<1>1. PICK recs \in FileStates : \E recno \in PointersOf(recs) : area = [recs |-> recs, recno |-> recno]
  BY DEF BrowseInit
<1>2. PICK recno \in PointersOf(recs) : area = [recs |-> recs, recno |-> recno]
  BY <1>1
<1>3. /\ browse = [rangeMax |-> <<>>, rows |-> 0, sel |-> 0, atEnd |-> FALSE, value |-> 0]
      /\ notified = NotFired /\ toRefresh = TRUE
      /\ set \in [deleted : BOOLEAN, sync : BOOLEAN, eachClick : BOOLEAN]
  BY BrowseAssumption DEF BrowseInit
<1>4. recs \in Seq(RecordStates) /\ PageLength \in Nat
  BY BrowseAssumption
<1>5. Len(recs) \in Nat /\ DOMAIN recs = 1 .. Len(recs) /\ Eof(recs) = Len(recs) + 1
  BY <1>4 DEF Eof
<1> DEFINE n == Len(recs)
<1>6. recno \in 1 .. n \/ recno = n + 1
  BY <1>2, <1>5, Zenon DEF PointersOf
<1>7. area.recs = recs /\ area.recno = recno
  BY <1>2
<1> HIDE DEF n
<1>8. n \in Nat /\ recno \in Nat /\ recno \in 1 .. n + 1
  BY <1>5, <1>6 DEF n
<1>9. area \in [recs : Seq(RecordStates), recno : Nat] /\ area.recno \in 1 .. Eof(area.recs)
  BY <1>2, <1>4, <1>5, <1>7, <1>8 DEF n
<1> DEFINE none == <<>>
<1>10. none \in Seq(Nat) /\ Len(none) = 0
  OBVIOUS
<1> HIDE DEF none
<1>11. browse \in Views /\ browse.rangeMax = none /\ browse.rows = 0 /\ browse.sel = 0
  <2>1. browse = [rangeMax |-> none, rows |-> 0, sel |-> 0, atEnd |-> FALSE, value |-> 0]
    BY <1>3 DEF none
  <2> QED
    BY <1>10, <2>1 DEF Views
<1>12. IsView(browse, n)
  BY <1>4, <1>10, <1>11 DEF IsView
<1>13. BrowseInv
  <2>1. IsView(browse, Len(area.recs))
    BY <1>7, <1>12 DEF n
  <2> QED
    BY <1>3, <1>9, <2>1 DEF BrowseInv
<1>14. Screen(browse) = <<>> /\ GetValue(browse) = 0
  BY <1>8, <1>11, <1>12, ScreenIs
<1> QED
  BY <1>3, <1>13, <1>14 DEF Cursor!CursorInit, Screen, Cursor!Untold, NotFired

(* A step that changes nothing. *)
LEMMA BrowseStutter ==
  ASSUME BrowseInv, UNCHANGED browseVars
  PROVE  BrowseInv' /\ UNCHANGED Cursor!cursorVars
<1>1. area' = area /\ browse' = browse /\ notified' = notified /\ toRefresh' = toRefresh /\ set' = set
  BY DEF browseVars
<1>2. area.recs \in Seq(RecordStates)
  BY FileOf
<1>3. BrowseInv' /\ Visible(area.recs)' = Visible(area.recs)
  <2>1. /\ area'.recs \in Seq(RecordStates)
        /\ area' \in [recs : Seq(RecordStates), recno : Nat] /\ area'.recno \in 1 .. Eof(area'.recs)
        /\ toRefresh' \in BOOLEAN /\ IsView(browse', Len(area'.recs))
        /\ ~toRefresh' /\ browse'.rows # 0 => OnPage(browse', Visible(area'.recs), Len(area'.recs))
    BY <1>1, <1>2 DEF BrowseInv
  <2>2. BrowseInv' /\ Visible(area.recs)' = Visible(area'.recs)
    BY <1>1, <2>1, NextInv
  <2> QED
    BY <1>1, <2>2
<1>4. GetValue(browse)' = GetValue(browse)
  BY <1>1 DEF GetValue
<1> QED
  BY <1>1, <1>3, <1>4 DEF Cursor!cursorVars

(* Each command does what the cursor's does. *)
LEMMA EachCommand ==
  ASSUME BrowseInv
  PROVE  CommandsMoveTheCursor
<1>1. BrowseHome => Cursor!ToFirst
  BY HomeToFirst
<1>2. BrowseEnd => Cursor!ToLast
  BY EndToLast
<1>3. BrowseUp => Cursor!LineUp
  BY LineBack
<1>4. BrowseDown => Cursor!LineDown
  BY LineFurther
<1>5. BrowsePrior => Cursor!PageUp
  BY PriorPage
<1>6. BrowseNext => Cursor!PageDown
  BY NextPage
<1>7. ASSUME Shows(browse'.value), SetValue(browse'.value)
      PROVE  Cursor!Choose(browse'.value)
  BY <1>7, ChosenRecord
<1>8. ASSUME NEW fails \in BOOLEAN, BrowseDelete(fails)
      PROVE  Cursor!Remove
  BY <1>8, RowDeleted
<1>9. ASSUME NEW row \in 1 .. browse.rows, Click(row)
      PROVE  Cursor!Click
  BY <1>9, ClickedRow
<1> QED
  BY <1>1, <1>2, <1>3, <1>4, <1>5, <1>6, <1>7, <1>8, <1>9 DEF CommandsMoveTheCursor

(* Each step is one of the cursor's. *)
LEMMA EachStep ==
  ASSUME ~AppendToNone, BrowseInv, [BrowseStep]_browseVars
  PROVE  BrowseInv' /\ [Cursor!CursorNext]_(Cursor!cursorVars)
<1>1. CASE BrowseNext
  BY <1>1, NextPage DEF Cursor!CursorNext
<1>2. CASE BrowsePrior
  BY <1>2, PriorPage DEF Cursor!CursorNext
<1>3. CASE BrowseHome
  BY <1>3, HomeToFirst DEF Cursor!CursorNext
<1>4. CASE BrowseEnd
  BY <1>4, EndToLast DEF Cursor!CursorNext
<1>5. CASE BrowseUp
  BY <1>5, LineBack DEF Cursor!CursorNext
<1>6. CASE BrowseDown
  BY <1>6, LineFurther DEF Cursor!CursorNext
<1>7. ASSUME NEW value \in 1 .. Eof(area.recs), SetValue(value)
      PROVE  BrowseInv' /\ [Cursor!CursorNext]_(Cursor!cursorVars)
  <2>1. CASE Shows(value)
    <3>1. BrowseInv' /\ Cursor!Choose(value)
      BY <1>7, <2>1, ChosenRecord
    <3>2. GetValue(browse)' = value
      BY <3>1 DEF Cursor!Choose, Cursor!BroughtTo
    <3>3. Cursor!Choose(GetValue(browse)')
      BY <3>1, <3>2
    <3> QED
      BY <3>1, <3>3 DEF Cursor!CursorNext
  <2>2. CASE value = Eof(area.recs)
    <3>1. SetValue(Eof(area.recs))
      BY <1>7, <2>2
    <3> QED
      BY <3>1, ChosenNone DEF Cursor!CursorNext
  <2> QED
    BY <1>7, <2>1, <2>2 DEF SetValue
<1>8. ASSUME NEW row \in 1 .. browse.rows, Click(row)
      PROVE  BrowseInv' /\ [Cursor!CursorNext]_(Cursor!cursorVars)
  BY <1>8, ClickedRow DEF Cursor!CursorNext
<1>9. CASE ClickOutside
  BY <1>9, ClickedOutside DEF Cursor!CursorNext
<1>10. ASSUME NEW fails \in BOOLEAN, BrowseDelete(fails)
       PROVE  BrowseInv' /\ [Cursor!CursorNext]_(Cursor!cursorVars)
  BY <1>10, RowDeleted DEF Cursor!CursorNext
<1>11. ASSUME NEW fails \in BOOLEAN, BrowseInPlaceAppend(fails)
       PROVE  BrowseInv' /\ [Cursor!CursorNext]_(Cursor!cursorVars)
  <2>1. CASE fails = TRUE
    <3>1. BrowseInPlaceAppend(TRUE)
      BY <1>11, <2>1
    <3> QED
      BY <3>1, AppendFailed DEF Cursor!CursorNext
  <2>2. CASE fails = FALSE
    <3>1. BrowseInPlaceAppend(FALSE)
      BY <1>11, <2>2
    <3> QED
      BY <3>1, AppendedOne DEF Cursor!CursorNext
  <2> QED
    BY <2>1, <2>2
<1>12. CASE Change
  BY <1>12, FileChanged DEF Cursor!CursorNext
<1>13. CASE BrowseRefresh
  BY <1>13, RefreshedScreen DEF Cursor!CursorNext
<1>14. CASE UNCHANGED browseVars
  BY <1>14, BrowseStutter
<1> QED
  BY <1>1, <1>2, <1>3, <1>4, <1>5, <1>6, <1>7, <1>8, <1>9, <1>10, <1>11, <1>12, <1>13, <1>14 DEF BrowseStep

(* _BrowseHome to _BrowseDown, _BrowseSetValue, _BrowseDelete, the click,   *)
(* _BrowseInPlaceAppend and _BrowseRefresh, wherever the program leaves the *)
(* record pointer, for a file of any length: the page on the screen is      *)
(* drawn with SKIPs over hidden records and is one of consecutive visible   *)
(* ones, and each command moves the cursor as RecordCursor does.  The       *)
(* ON CHANGE procedure of a key and of a value that is set reads where the  *)
(* cursor is, and the record pointer is put back or brought to it.  A click *)
(* does both exactly if the record is not the last one clicked or set, or   *)
(* each click is asked for: not of every click that changes the record, and *)
(* of some that do not (ClickNeedsChange, which the run same_click refutes).*)
(* The assumption leaves out the records appended while an emptied list     *)
(* still has the numbers of before: there the new row does get the number   *)
(* of another record, and the theorem does not hold.                        *)
THEOREM BrowseKeepsTheCursor ==
  ASSUME ~AppendToNone
  PROVE  BrowseSpec => BrowseIsCursor
<1>1. BrowseInv /\ [BrowseStep]_browseVars => BrowseInv' /\ [Cursor!CursorNext]_(Cursor!cursorVars)
  BY EachStep
<1>2. BrowseInv => CommandsMoveTheCursor
  BY EachCommand
<1>3. BrowseInit => BrowseInv /\ Cursor!CursorInit
  BY BrowseStart
<1> QED
  BY <1>1, <1>2, <1>3, PTL DEF BrowseSpec, BrowseIsCursor, Cursor!CursorSpec
=============================================================================

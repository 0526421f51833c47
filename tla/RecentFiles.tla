---------------------------- MODULE RecentFiles ----------------------------
(***************************************************************************)
(* What a list of recently used files promises: the files opened last,     *)
(* each once, the latest first, and as many as there is room for; they are *)
(* there again when the program starts, as they were when it saved them.   *)
(***************************************************************************)
EXTENDS Naturals, Sequences

CONSTANTS
  Names,
  Room   \* 1 or more

VARIABLES
  running, \* the program
  recent,  \* the names that it shows
  saving,  \* it is writing them to a file
  stored,  \* the names that it would show if it started now
  left     \* the names that are in the file, also those of a cut save

recentVars == <<running, recent, saving, stored, left>>

Lists == {s \in UNION {[1 .. n -> Names] : n \in 0 .. Room} :
            \A i, j \in DOMAIN s : s[i] = s[j] => i = j}

Members(s) == {s[i] : i \in DOMAIN s}

(* The name comes to the front, from its place or from outside, and those  *)
(* before it move behind it.                                               *)
Place(s, name) ==
  IF name \in Members(s) THEN CHOOSE i \in DOMAIN s : s[i] = name ELSE Len(s) + 1
ToFront(s, name) ==
  [i \in DOMAIN s \cup {Place(s, name)} |->
     IF i = 1 THEN name ELSE IF i <= Place(s, name) THEN s[i - 1] ELSE s[i]]
Cut(s) == [i \in DOMAIN s \cap (1 .. Room) |-> s[i]]

RecentInit == ~running /\ recent = <<>> /\ ~saving /\ stored = <<>> /\ left = {}

StartUp ==
  /\ ~running /\ running'
  /\ recent' = stored
  /\ UNCHANGED <<saving, stored, left>>

OpenFile(name) ==
  /\ running /\ ~saving
  /\ recent' = Cut(ToFront(recent, name))
  /\ UNCHANGED <<running, saving, stored, left>>

Forget ==
  /\ running /\ ~saving
  /\ recent' = <<>>
  /\ UNCHANGED <<running, saving, stored, left>>

BeginSave ==
  /\ running /\ ~saving /\ saving'
  /\ UNCHANGED <<running, recent, stored, left>>

(* What is half written holds no names but those of before and after.  A   *)
(* name of before that is not shown may come back if the next save is cut  *)
(* as well.                                                                *)
WriteSome ==
  /\ saving
  /\ left' \subseteq left \cup Members(recent)
  /\ stored' \in Lists
  /\ Members(stored') \subseteq left'
  /\ UNCHANGED <<running, recent, saving>>

EndSave ==
  /\ saving /\ ~saving'
  /\ stored = recent /\ left = Members(recent)
  /\ UNCHANGED <<running, recent, stored, left>>

(* It ends or is killed, at any time *)
Stop ==
  /\ running /\ ~running'
  /\ recent' = <<>> /\ ~saving'
  /\ UNCHANGED <<stored, left>>

RecentNext ==
  \/ StartUp \/ Forget \/ BeginSave \/ WriteSome \/ EndSave \/ Stop
  \/ \E name \in Names : OpenFile(name)

RecentSpec == RecentInit /\ [][RecentNext]_recentVars
=============================================================================

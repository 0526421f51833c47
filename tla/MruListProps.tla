---------------------------- MODULE MruListProps ----------------------------
(***************************************************************************)
(* The menu of recent files and its ini file keep the promise of           *)
(* RecentFiles.                                                            *)
(***************************************************************************)
EXTENDS MruList

(* What the user sees and can choose: an item at its place, with the       *)
(* number of it, that opens the file it shows                              *)
Shown ==
  [k \in {k \in DOMAIN mru.menu : mru.menu[k].enabled} |->
     IF mru.menu[k].place = k THEN Upper[mru.menu[k].file] ELSE "misplaced"]

(* The names in the ini file up to the first hole, each where it is first  *)
NameSet == {Upper[f] : f \in Files}
ComesBefore(a, b) ==
  \E i \in DOMAIN Entries : Upper[Entries[i]] = a /\ \A j \in 1 .. i : Upper[Entries[j]] # b
Offered ==
  CHOOSE s \in UNION {[1 .. n -> NameSet] : n \in 0 .. MaxMru} :
    /\ {s[k] : k \in DOMAIN s} = {Upper[Entries[i]] : i \in DOMAIN Entries}
    /\ \A k, l \in DOMAIN s : k < l => ComesBefore(s[k], s[l])

Promise == INSTANCE RecentFiles WITH
  Names <- NameSet, Room <- MaxMru,
  running <- MenuDefined, recent <- Shown, saving <- saving > 0, stored <- Offered,
  left <- {Upper[ini[i]] : i \in {i \in DOMAIN ini : ini[i] # Empty}}

(* Whatever is opened, opened again under another case, cleared and saved, *)
(* and wherever the program is killed while it saves: the menu shows the   *)
(* last files, each once, in order, under the number and with the action   *)
(* of its place; no item is left in it that the list has dropped, and none *)
(* is removed in place of another (names and controls of removed items are *)
(* used again); and a complete save is what the next start shows.          *)
MenuIsRecentFiles == Promise!RecentSpec
=============================================================================

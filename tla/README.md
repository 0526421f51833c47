# Verification of Harbour MiniGUI (MgM)

TLA+ specifications, TLC configurations and TLAPS proofs for the core of
Harbour MiniGUI, the GUI library of this repository (`src/minigui/source`):
which windows exist, which of them takes input, which message loop ends when,
which event handler runs, which control a slot, an id or a name stands for, and
which record a BROWSE is on; and for the contributed libraries that keep a
protocol or a file format. All paths below are under `src/minigui/source`.

    tlc -workers 2 -config MCModal.cfg MCModal.tla      model-check a run
    tlapm HmgWindows_proofs.tla                         check the proofs of a module

## The system

A MiniGUI program is a single-threaded Harbour program. It defines windows and
controls, activates them, and then sits in a message loop; everything else
happens in callbacks (code blocks) that the window procedure `Events()` runs.
Nothing runs in parallel, and yet a great deal is interleaved: a callback may
issue any command, several commands pump messages (`ACTIVATE WINDOW` runs a
nested message loop, `SHOW`, `DO EVENTS` and the wait before `ON INIT` empty the
queue), and a message that is pumped runs another callback. The concurrency of
this code is a stack of unfinished calls, each holding indices, handles and
counters it read before the calls above it ran.

| component | state | operations | meets | what is hard |
|---|---|---|---|---|
| window table, `h_windows.prg` | parallel arrays `_HMG_aForm...`, one public variable `_<name>` per window, `_HMG_MainActive`, `_HMG_IsModalActive`, `_HMG_ActiveModalHandle`, one counter `_HMG_ACTIVATE_<id>` per multiple activation | DEFINE, ACTIVATE, RELEASE, SHOW, HIDE WINDOW, `ReleaseAllWindows` | posts WM_CLOSE to itself, runs the pumps | slots and handles are reused; modality is a linked list through parent handles; errors abort |
| dispatch, `Events()` in `h_events.prg` | event context `_HMG_This...`, saved on a stack | WM_CLOSE, WM_DESTROY, WM_SETFOCUS, WM_TIMER, ... | runs the callbacks, updates the table | indices captured before callbacks; WM_QUIT posted without an addressee |
| pumps, `c_windowsAPI.c`, `c_winapimisc.c` | the message queue and the quit flag of the thread (win32) | `DO MESSAGE LOOP`, `DO EVENTS`, `InkeyGUI` | call `Events()` | WM_QUIT goes to whichever pump runs next |
| ON / ONCE handlers, `c_windows.c` | per window two holders of 64 slots with a counter | ON, UPDATE, REMOVE APPEVENT and WINEVENT, EMIT | called by the window procedure before `Events()` | handlers that register, remove, emit or destroy while they run; the holder is freed by its counter |
| controls, `h_controlmisc.prg` and one file per control | parallel arrays `_HMG_aControl...`, ids | define, release, erase, enable, property setters | erased by WM_DESTROY, actions run by `Events()` | slots reused; timers and ids that outlive a control |
| timers and hot keys, `h_timer.prg`, `h_hotkey.prg` | entries of the controls table, registrations with win32 | define, release, enable, re-registration on WM_SETFOCUS | focus of windows | order of focus messages |
| BROWSE, `h_browse.prg` | the numbers of the records on the page, the row selected, `_HMG_aControlValue` | keys, clicks, value, delete, append, refresh | the record pointer of a work area, shared with the program | borders of the page and the file; hidden and deleted records |
| TREE, `h_tree.prg`, `c_tree.c`, `_AddItem`, `_DeleteItem` | the tree in win32; in its order the handles, ids and cargo of the items; memory per item | DEFINE TREE, add, delete, sort, cargo | the controls table | the order of an array is to follow that of a tree it never sees whole |
| text entry `h_textbox.prg`, `h_getbox.prg` | mask and buffer | editing | the controls table | boundaries of masks |
| initialisation, `h_init.prg` | all globals | defaults | everything | |
| recent files, `h_mru.prg` with `h_menu.prg` | STATIC list, menu items, their controls and public variables, an ini file | define, open, clear, save | the controls table, the ini file | names used again; a save that is cut short |
| contributed libraries | | | nothing of the above | |
| mail, `socket/tsmtp.prg` over `tsocket.prg` | a connection, the server's transaction | Connect, Send, Close | a server | answers of several lines, late or cut off; a Send that gives up |
| digests and base64, `hbaes/sha2.c`, `socket/md5c.c`, `hmac_md5.c`, `socket.c` | a context; none | update, finish; encode | | pieces, padding, overflow of the length; size of a buffer |
| encrypted files, `hbaes/aescrypt2.c` | two files | encrypt, decrypt | the disk | a full disk, a killed program, a damaged file |
| XML, `hbxml` | a tree, a file | add, save, read | | what Save adds, Read must take away |
| COPY to PostgreSQL, `HbPgSql/rddcopy.c` | a buffer, a COPY on the server | HB_PQCOPYFROMWA | a work area, a server | a record split by a full buffer, failures midway, a buffer that is not taken |
| `tget`, `TsBrowse`, `miniprint`, `HbOLE`, ... | own | own | own | |

Correctness, for the components modelled: the table never mixes two windows
up; the dialogs on the screen are a stack of which only the top takes input; a
WM_CLOSE handler finishes with the window it started with; an `ON RELEASE`
procedure runs once; WM_QUIT is posted at the last window of an activation, and
ends the message loop of that activation and no other; an `ACTIVATE WINDOW`
whose windows are gone returns; a handler stays registered until somebody takes
it away and a ONCE handler runs once; the memory of handlers is freed when, and
only when, the last one goes; slots, public variables, ids, timers and hot keys
of controls agree however often they are given out again; a browse is a cursor
on the visible records; the menu of recent files shows the last ones, each once.
`PROJECT.json` lists the components one by one,
the hazards with the line at which they bite, and the lines each definition
models.

## Modules

| module | contents |
|---|---|
| `HmgWindows` | window table, activation, closing, modality and pumps: one action per command, per turn of a library loop and per step of a message handler between two callbacks |
| `HmgWindowsProps` | its properties |
| `DialogStack` | abstract specification: the dialogs on the screen are a stack |
| `MCModal`, `MCGroups`, `MCReturns` | its instances for TLC |
| `AppEvents` | the two event holders of a window and nested dispatches |
| `AppEventsProps` | their properties |
| `EventRegistry` | abstract specification: tables from event ids to actions, of limited size |
| `HmgControls`, `HmgControlsProps` | the controls table with timers, hot keys and blinking labels, and its properties |
| `TreeControl`, `TreeControlProps` | the items of a TREE |
| `ItemTree` | abstract specification: a forest of items with ids and cargo |
| `MCControls` | the controls table and the items of a TREE for TLC, one in each behaviour |
| `Browse`, `BrowseProps` | the record window of a BROWSE |
| `RecordCursor` | abstract specification: a cursor on the visible records of a file |
| `MruList`, `MruListProps` | the list of recent files, its menu and its ini file |
| `RecentFiles` | abstract specification: the files opened last, each once |
| `MCParts` | WINEVENT handlers, recent files and BROWSE for TLC, one in each behaviour |
| `SmtpSession`, `CryptFile`, `StreamDigest`, `Base64`, `XmlDoc`, `PgCopy`, each with a module `...Props` | the contributed libraries |
| `MCStandalone` | the contributed libraries and the APPEVENT handlers for TLC, one of them in each behaviour |
| `HmgWindows_proofs`, `HmgModal_proofs`, `HmgReturns_proofs`, `Parts_proofs` (handlers and recent files), `HmgControls_proofs` (the controls table and BROWSE), `Tree_proofs`, `Crypt_proofs` (encrypted files and digests), `Text_proofs` (COPY, base64 and mail) | theorems and proofs |

`HmgWindowsProps` instantiates `DialogStack` with the chain of parent handles
from the active modal window; `AppEventsProps` instantiates `EventRegistry` with
the entries found by `AppEventScan`; `BrowseProps` instantiates `RecordCursor` with
the rows of the list view, `TreeControlProps` instantiates `ItemTree` with the
elements of the three arrays, and `MruListProps` instantiates `RecentFiles` with the
enabled items of the menu and the entries of the ini file. All five abstract
specifications are checked as PROPERTYs of the detailed ones.

### HmgWindows and the code

The variables are those of the code: `form` is the slice of the parallel arrays
`_HMG_aFormNames`, `Handles`, `Active`, `ParentHandle`, `ActivateId`; `nameVar`
the public variables; `counter` the public variables `_HMG_ACTIVATE_<id>`;
`queue` the posted WM_CLOSE messages and `quit` win32's quit flag. `stack` holds
the unfinished calls, the running one first:

| call | stands for |
|---|---|
| `User(ev, i)` | user code: the main procedure or a callback, with the event type and `_HMG_ThisIndex` of its context |
| `Loop(g)`, `Pump` | DO MESSAGE LOOP; DO EVENTS and the wait before ON INIT |
| `Activating(...)` | `_ActivateWindow` between two windows of its list |
| `InitCall(i)` | `_ProcessInitProcedure` while it pumps |
| `Closing(at, i, h, lp)` | WM_CLOSE for handle `h`, before and after its two callbacks, with the index `i` it found |
| `ReleasingAll(i)` | the loop of `ReleaseAllWindows` at slot `i` |

An action is what the code does between two points at which other code can run.
`MsgMiniGuiError` ends the program (`Abort`), as does `__Quit`.
Fields `loop` and `released` of a slot, and the numbers of loops, are
bookkeeping for the properties: no guard but the rules of section *Careful*
reads them.

*Careful.* Some properties do not hold for every program: the library leaves
rules to its user. With `Careful = TRUE` the commands of the user keep to four
rules, and the properties of the runs `modal`, `closing` and `returns` hold; without any one
of them TLC finds a violation. (Hiding a modal window that was activated on its
own leaves its message loop waiting, and the next WM_QUIT ends that loop instead
of another: `ReturnsAfterClose` is checked for windows that are closed.)
1. `ACTIVATE` is not used while a release is under way (posted WM_CLOSE or
   WM_QUIT), since a nested loop would take the WM_QUIT of the outer one.
2. `RELEASE` is for a window of the innermost activation or the main window,
   and for a modal window only when it is the active one.
3. `SHOW` is for an activated window that is hidden (SHOW of the active modal
   window makes it its own parent), and not while a window is closing.
4. `HIDE` of a modal window is for the active one, and not while a window is
   closing.

A further rule is in the `Uses` of these runs: callbacks do not call DO EVENTS. A
program whose ON RELEASE procedure does can be closed there a second time, and
runs ON RELEASE again.

The runs `groups`, `midnight` and `own_release` check what holds, or is said to
hold, without these rules.

### AppEvents and the code

`holder["ONCE"]` and `holder["ON"]` are the window properties of that name, with
the slots, the counter `used` and the flag `active` of `EVENTSHOLDER`; `calls` the
unfinished `AppEventOn` calls. `Window = "win"` selects the copies for WINEVENT,
which differ in two ways: message 0 is accepted, though it marks an empty slot,
and `WINEVENTSUPDATE` never reaches its branch for the whole holder. With
`Careful = TRUE` a program neither emits nor registers an event while its ONCE
handler runs: otherwise the handler runs twice, or the new handler is removed
in place of the old one. `runs` counts runs for the properties.

### HmgControls and the code

`ctl` is the slice of the arrays `_HMG_aControl...` that timers, hot keys and labels
use; `index` the public variables `_<window>_<name>`, 0 after `_EraseControl`;
`osTimers` and `osKeys` what SetTimer, KillTimer, RegisterHotKey and
UnregisterHotKey leave in win32, which knows windows and ids but no slots;
`front` is GetForegroundWindow. Every call of the program and every message is
one action, since none of them pumps. `GetControlFree` takes the first erased
slot and `GetId` any id that no control has, as `_GetId` repeats its random
numbers until that is so. A procedure of the program may make any call at any
time, so the action of a timer is not modelled apart from its tick.

`careful`, chosen at the start, stands for a program that disables a timer
before it releases it alone, and switches BLINK on at run time only if no slot
before the label's is free. Other programs leave timers running in win32 and
can be ended by a runtime error (run `blink`); `IndexIsExact`, `IdsAreUnique`,
`NoOrphanHotKey`, `KeysFollowFocus` and `BlinkPaired` hold for them as well.
`focus`, `since` and `fired` are bookkeeping for the properties.

### TreeControl and the code

`children` is the tree of win32 (external: a function from each item to its
children in their order, 0 above those without a parent), `lparam` the blocks that
`AddTreeItemLPARAM` allocates, one per item. `pageMap`, `picture` and `headClick` are
the arrays of the control. A program names an item by its position in the map
or, with ITEMIDS (`itemIds`), by its id. `_AddItem` lets win32 append the item to its
parent and then walks through win32's tree to count the items in front of it
(`PositionFrom`); `_DeleteItem` takes out as many elements as win32 has items less;
`TreeItemSort` reorders win32's tree and leaves the arrays, where the items below an
item stay next to it. Texts are in the order of the handles; errors of the
program end it (`ItemError`).

The walk counts an item with its first child and goes on behind that child, so
children of a first child are missed. The run therefore excludes additions in
front of which there are such (`DeepAdds = FALSE`, `WalkSeesAll`). With
`DeepAdds = TRUE` TLC finds this after five items: in a tree T - A - B - C, where
each is the only child of the one before, a second child N of T gets position 4,
and the map reads T, A, B, N, C. Deleting A then takes A, B and N out of the map and
leaves the deleted C in it, though `_AddItem` is to "Determine Position of New
Item" (`h_controlmisc.prg:691`).

An ON CHANGE procedure that runs while the selected item is being deleted finds
win32 ahead of the map; procedures are assumed not to change the tree there. The
selection, images, expanding, dialog templates and the end of the control (which
frees no block) are left out.

### Browse and the code

`area` is the work area: its records, each live, deleted or filtered out, and the
record pointer. `browse.rangeMax` is `_HMG_aControlRangeMax`, the numbers of the
records on the page; `rows` and `sel` are what the list view has; `atEnd` is
`_HMG_aControlContainerHandle`, `value` is `_HMG_aControlValue`. GO TOP, GO BOTTOM
and SKIP are operators on the records (external). Every key, click, assignment of
the value, deletion, append and refresh is one action with the ON CHANGE
procedure at its end, where `notified` is what that procedure could read, or
`NotFired` if the message ran none. A click runs it if the record differs from
`_HMG_aControlValue`, the record last clicked or set; `RecordCursor` keeps that
one as `valued`, beside the cursor, and its `Click` fires exactly then. After
the program has changed the file (`Change`, any records, any record pointer) it
refreshes before the next message.

Left to the program: natural order, a page of more than two rows, no commands to
the browse in ON CHANGE, no value that SET DELETED hides, a filter that a new
record passes. Of other stations only locks and a failing append are modelled,
not their changes to the file. MDI children, browses in dialog procedures, the
position of the scroll bar, and cell editing are left out.

### MruList and the code

`mru` is the program's memory: the STATIC variables of `h_mru.prg` and the menu
with the controls and public variables that `h_menu.prg` makes for it. An item is
found by name through a public variable, and both outlive it, which is the
hazard. `ini` is the file; `SaveMRUFileList` writes it entry by entry
(`WriteEntry`), and `Exit` may come between two of them. The window of the list
is the only one with a main menu, since `_InsertMenuItem` names items after
`_HMG_xMainMenuParentName`. Each Clear makes later names longer (`MaxClears`);
Harbour cuts names at 63 characters, which is beyond the bound.

### The contributed libraries

* `SmtpSession`: `pc` is the answer TSmtp waits for; each method is the sequence
  of actions `After...` between two answers; `ReadLine` and `ReadNothing` are
  GetLines over ReceiveLine. The server (external) answers commands in order; it
  may refuse, shut the connection at any time, or answer late. `program` fixes at
  the start whether refused recipients are ignored and which one trouble may come:
  timeouts, a line with a single dot in the mail, or refusals by 550 and 554,
  which Send takes for successes. The properties are claimed without these three
  (`Clean`), and the actions show what happens with them.
* `CryptFile`: encryption and decryption block by block, with reads and writes
  that fail, a program that is killed, and files that are cut or damaged
  afterwards. AES and SHA-256 are ideal: what another key made is never equal.
* `StreamDigest`: the contexts of SHA-256 and MD5 and both HMACs, with the two
  words of the length and the padding. The state is the sequence of blocks
  hashed so far; the sizes are scaled down so that a length overflows a word.
* `Base64`: encoding with line breaks and the buffer computed for it, decoding.
* `XmlDoc`: adding nodes, Save with escapes and indentation, Read with the
  parser's trimming and decoding. Files that cannot be created or opened are told
  from others neither by Save (.T.) nor by Read (an empty document), and what
  comes of a file whose first element is missing or is a CDATA section is open
  (`JunkRead`), since the parser goes on behind its end. It uses RECURSIVE operators (trees), so nothing
  is proved about it.
* `PgCopy`: the buffer, the quoting, the COPY and every point at which reading
  or sending may fail. On a nonblocking connection (`blocking` is FALSE;
  `PQSETNONBLOCKING`, `postgres.c:934`) PQputCopyData may return 0 for a buffer
  that it has not taken. The code compares with -1 only (`rddcopy.c:76`, 97, 120,
  425) and empties the buffer: its records are missing, and .T. is returned if the
  server can make rows of the rest. `trouble` is "dropped" then, and
  `CopyAllOrNothing` claims a true .T. of the other copies only. The connection
  stays as it is during a copy, and the end of the copy (PQputCopyEnd) is always
  sent.

## Runs

| run | what it checks | bounds |
|---|---|---|
| `modal` | types; the parent handles link the dialogs (`ModalChain`); only the top takes input unless its release is pending; `DialogStack` | main and two modal windows, one NOAUTORELEASE, one with ON INIT, both with ON RELEASE, one with ON INTERACTIVECLOSE; 4 handles, depth 8, 2 posted messages |
| `closing` | a WM_CLOSE handler keeps its slot; ON RELEASE runs once; a loop ends only when its windows are gone | main and two modal windows that are both asked and released, alone or together with main; 4 handles, depth 9, 2 posted messages |
| `groups` | table, counter and WM_QUIT of multiple activations, for programs that break any rule | main, child and modal window, 3 handles, depth 4, 1 posted message |
| `returns` | an activation whose windows are gone returns, with fairness | as `groups`, depth 6, 2 posted messages |
| `controls` | slots, public variables, ids, timers and hot keys agree, in careful and careless programs; the map of a TREE follows the tree of win32 (`MapFollowsTree`), and its items implement `ItemTree` | 2 windows, 1 name, 1 key, 3 slots, 3 ids, global hot keys only in a program careful with its timers (nothing joins the two settings but the slots and ids); 5 items on 4 levels, one with a cargo, sorted in two ways |
| `parts` | WINEVENT handlers implement `EventRegistry`; the menu of recent files implements `RecentFiles`; a browse implements `RecordCursor` | 2 slots, messages 0 to 3, so that a holder is full; 4 files, two of them equal but for case, a list of 2, 6 controls, 2 clears; a page of 3 rows, files of 1 and 4 records that grow to 5, 2 changes of the file |
| `standalone` | APPEVENT handlers: counter, slots and holders, handlers kept, ONCE once, `EventRegistry`; mail sessions, encrypted files, digests, base64, XML, COPY | 2 slots, 2 events, dispatch depth 2; 2 sends to 2 recipients, answers of 2 lines; texts of up to 3 bytes, two of the longest, in blocks of 2; messages of 10 bytes in blocks of 4, words modulo 8; strings of 4 bytes, lines of up to 4; 4 items; 2 records in a buffer of 4, connections of both kinds |
| `lost_quit` | violated: `ActivateReturns` when user code calls DO EVENTS | main and modal window |
| `midnight` | violated: `QuitAtLast` when an activation id is 0 | as `groups` |
| `own_release` | violated: `NoOwnRelease` when a control's action runs inside ON RELEASE | as `groups`, depth 7 |
| `blink` | violated: `BlinkCloses` when a label starts to blink at run time | as `controls`, careless programs |
| `same_click` | violated: `ClickNeedsChange`, ON CHANGE for a click on the row that is selected | as `parts` |

Three windows are enough for a dialog above a dialog above the main window, for
an activation of two windows beside one of one window, and for a slot to be
reused while an index to it is held. The handles are no more than needed for
every window to be destroyed and defined again under its own or another's
handle, and are interchangeable (symmetry, in the runs without liveness). The
depth counts unfinished calls: 8 or 9 allow a dialog opened from the handler of a
dialog opened from the main loop, with a WM_CLOSE handler and its ON RELEASE on
top; above it user code starts nothing new, and everything started finishes.
Two slots and three messages fill a holder, two nested dispatches are the
smallest re-entry. Three slots hold a label, its timer and one control more, in
any order; two windows want the same key. Five items are as many as the walk of
`_AddItem` needs to go wrong if it may. A page of three rows over five records
has a border on each side, and records behind it that are hidden, deleted or new.
A list of two drops its last file, and six controls are enough for a name to be
used again after a clear. Blocks of four bytes with a length of two need both
forms of padding, and ten bytes of two bits overflow the low word. The parts of
`standalone` and `parts` and the two of `controls` share no state, so checking one of them in
each behaviour loses nothing. Deadlock is not checked: `status` "exit" or "error" and a
full bound stop a program.

*Fairness.* `WF(Library)` and `WF(Return)`: the thread keeps running and every
procedure of the user returns. That is what the code has: there is one thread,
it never blocks but in GetMessage, and a step of the library is enabled only
when it is at the head of the stack. No fairness is assumed of the user's input
or of the commands; a program may stay in its message loop for ever.
In `standalone`, `WF(Client)` and `WF(Serve)`: the thread that reads goes on, and the
server answers what it was asked as long as the connection is up. `CallReturns`
says that nothing more is needed: the end of the connection, a wait that times
out and answers of any number of lines all make the call return.
`ActivateReturns` is checked where WM_QUIT cannot be swallowed (`returns`: no
DO EVENTS, SHOW or ON INIT, which pump before or beside the message loop, and
no multiple activation with a visible modal window); `lost_quit` shows what
happens otherwise.

## Disagreements found

* `lost_quit`: DOEVENTS retrieves WM_QUIT and drops it, so the loop that was
  to end (`h_events.prg:3808-3811`) does not.
* `midnight`: `_GenActivateId` can return 0, which `WM_DESTROY` takes for "not
  multi-activated" (`h_windows.prg:1807`, `h_events.prg:3813`).
* `own_release`: the test that refuses the release of a window in its own ON
  RELEASE compares a window index with a control index
  (`h_windows.prg:2388`, `h_windows.prg:1898`).
* `blink`: `ChangeLog.txt:11453` says that closing a form with a label made to
  blink at run time was fixed; it still fails if the timer's slot comes first
  (`h_controlmisc.prg:3726`).
* `same_click`: `ChangeLog.txt:1709` says that ON CHANGE no longer fires for a
  click without a change of the row. The click compares with `_HMG_aControlValue`
  (`h_events.prg:2745`), which keys and appends do not update: after a key has
  moved the selection, a click on the selected row fires. (The other way round, a
  click that goes back to the record last clicked or set fires nothing though the
  keys had moved the value away: nothing in the repository says otherwise, and
  `RecordCursor!Click` states it.)

Not stated as runs, since nothing in the repository says otherwise: a first
handler with NOACTIVE switches off all handlers of the window until an update;
the result of an ON handler replaces that of the ONCE handler; a WINEVENT
handler for message 0 is overwritten by the next registration.

The position of a new item of a TREE (`h_controlmisc.prg:691`) is wrong behind a
first child that has children; section *TreeControl and the code* gives the
sequence, `DeepAdds = TRUE` shows it and the run excludes it.

Of BROWSE, seen while modelling it and without a run of their own:
* A list emptied by a value behind the last record keeps its numbers in
  `rangeMax`; a record appended in place then gets the first free row but the last
  number, so `GetValue` gives another record. `AppendToNone = TRUE` shows it; the
  run excludes it.
* Refresh may empty the list or lose the selection if the record under the cursor
  is hidden; Delete puts the record pointer back after ON CHANGE, so BROWSESYNC
  does not follow a deletion. `RecordCursor` says so.

## Proofs

For every value of the constants that satisfies `WindowsAssumption`,
`AppEventsAssumption`, `MruAssumption`, `HmgControlsAssumption`, `BrowseAssumption`, `TreeAssumption`, `SmtpAssumption`, `CryptAssumption`,
`DigestAssumption`, `PgCopyAssumption` and `Base64Assumption` (evaluated by TLC in the runs of their modules):

| theorem | says |
|---|---|
| `WindowsTypeCorrect` | `Spec => []TypeOK` |
| `TableAlwaysConsistent` | `Spec => []TableConsistent`: names, slots, handles, screen and queue agree, for any program |
| `CounterAlwaysExact` | `Spec => []CounterIsExact`: the counters of multiple activations, for any program |
| `QuitOnlyAtLast` | if `0 \notin ActivateIds`, `Spec => QuitAtLast`, an action property |
| `ModalWindowsChain`, `OnlyTopDialogTakesInput`, `ClosingKeepsItsSlot`, `WindowsReleasedOnce` | if `DialogProgram`, `Spec => []ModalChain`, `[]OnlyTopTakesInput`, `[]CloseKeepsItsSlot`, `[]ReleasedOnce` |
| `DialogsFormAStack` | if `DialogProgram`, `Spec => DialogsAreAStack`: the library implements `DialogStack` |
| `LoopsEndAfterTheirWindows` | if `ClosingProgram`, `Spec => ReturnsAfterClose`, an action property: an activation returns when its windows are gone |
| `EventsTypeCorrect`, `UsedAlwaysExact`, `OneSlotPerEventAlways` | `Spec => []EventsTypeOK`, `[]UsedIsExact`, `[]OneSlotPerEvent` |
| `NoEmptyHolderAlways` | for APPEVENT (`Window = "app"`), `Spec => []NoEmptyHolder` |
| `HoldersAreARegistry` | `Spec => SlotsAreARegistry`: the slots, for both kinds of events and any program, implement `EventRegistry` |
| `HandlersAlwaysKept` | if `0 \notin Accepted`, `Spec => HandlersKept`, an action property |
| `OnceHandlersRunOnce` | if also `Careful`, `Spec => OnceIsOnce`, an action property: the handler removed after a ONCE dispatch is the one that ran |
| `MenuKeepsRecentFiles` | `MruSpec => MenuIsRecentFiles`: the menu and its ini file implement `RecentFiles`, wherever a save is cut |
| `ControlsTypes`, `IndexLeadsToItsControl`, `IdsStayUnique`, `TimersRunWhileEnabled`, `NoHotKeyIsLeft`, `HotKeysFollowFocus`, `LabelsKeepTheirTimers`, `CarefulProgramsRun`, `OnceIsOnce` | the types and each invariant of the run `controls` about the table: `Spec => []ControlsTypeOK`, `[]IndexIsExact`, `[]IdsAreUnique`, `[]TimersMatch`, `[]NoOrphanHotKey`, `[]KeysFollowFocus`, `[]BlinkPaired`, `[]NoRuntimeError`, `[]OnceTicksOnce` |
| `BrowseKeepsTheCursor` | if `~AppendToNone`, `BrowseSpec => BrowseIsCursor`: a browse implements `RecordCursor`, and each command is the cursor's of that name, for files of any length and pages of more than two rows. Clicks run ON CHANGE by the rule of `RecordCursor!Click`, not always when the cursor moves |
| `TreeMapFollows` | if `~DeepAdds`, `TreeSpec => []MapFollowsTree`: any number of items on any number of levels, added, deleted and sorted in any order |
| `TreeIsAForest` | if `~DeepAdds`, `TreeSpec => ItemsAreATree`: the arrays of a TREE implement `ItemTree` |
| `SmtpTypeCorrect`, `AnswersTakenInStep`, `MailsGoWhereSent` | `MailSpec => []SmtpTypeOK`, `[]AnswersInStep`, `[]RecipientsOfThisSend` |
| `SendIsTrue` | `MailSpec => SendTellsTheTruth`, an action property |
| `GenuineOpens` | `CryptSpec => []OpensIfGenuine`: files of any length, cut off, lengthened, spoilt in one block or with two blocks exchanged between two calls |
| `StreamHasItsDigest` | `DigestSpec => []StreamIsDigest`: messages of any length in pieces of any length, also when they overflow a word, for SHA-256, MD5 and their HMACs |
| `CopiesAllOrNothing` | `PgSpec => []CopyAllOrNothing`: records of any number and values, a buffer of any length above two, failures at any point, and buffers lost on nonblocking connections, where .T. is claimed to be true only if none was |
| `EncodingIsDecoded` | `Base64Spec => []EncodingFitsAndDecodes`: strings and lines of any length |

`TypeOK` is not inductive: that a slot index stored in a call stays a slot, that
the window found by a name is live, and that a posted message has an addressee
all need the consistency of the table, and the other way round the consistency
needs the types. The proof therefore carries
`WindowsInv == TableInv /\ StateInv /\ ModalInv /\ ScreenInv /\ QueueInv /\ StackInv`
through every action, one lemma per action, each split along the parts the
action can disturb. The step that matters is DestroyWindow: the slot found by
handle is cleared, the name variable of *that* slot is reset and the posted
messages of the handle are discarded together; dropping any one breaks the
invariant. Each kind of call is typed by a lemma, so that an action that pushes
a call cites one fact.

For the counters the invariant is `CountersInv`. `CounterIsExact` is not inductive:
while an ACTIVATE of several windows is on the stack, its counter already counts
windows that have not got its id yet, and ON INIT of one of them may close
another before the next is reached. `CountInv` therefore says that the counter of
an id is the number of windows in the table with that id plus what the one call
that activates under it still owes (`Owed`). That nobody else pays this debt needs
`LoopInv` (the windows of a message loop have one id) and `StackOk` (an ACTIVATE in
progress owns its loop, a simple one an unused one). Most actions only push or
pop calls that owe nothing: `Follows` reduces such a step to the shape of the
stack. `DestroyCounts` and `ActivateNextCounts` are the two that move a
window between the terms. After a run-time error nothing is claimed.
`QuitOnlyAtLast` follows from the invariant: only DestroyWindow posts WM_QUIT, and
it does so when the counter of the window's id drops to zero. With an id of 0 the
argument fails, and so does the library (run `midnight`).

The theorems about modal windows have a hypothesis, `DialogProgram`: the windows
of the program are the main one and modal ones, none has an ON INIT procedure, no
dialog both is NOAUTORELEASE and asks ON INTERACTIVECLOSE, callbacks use neither
DO EVENTS, DO MESSAGE LOOP nor NOWAIT, and the rules of *Careful* are kept.
The run `closing` is such a program. Each clause is needed: without any one of
them, on a main and two modal windows, TLC finds a state in which the parent
handles do not link the dialogs or a WM_CLOSE handler has lost its window. (Some programs outside of
it are safe all the same: the run `modal` has a dialog with ON INIT and one that
both asks and stays, and its properties hold within its bounds.) Nothing bounds
the number of dialogs, the nesting or the order of events.

The invariant, `DialogInv`, says that there is a sequence `t` of slots, the chain of
the open dialogs with the active one first, for which `Dialog(t)` holds.
`ChainInv(t)` links parents and visibility to `t`; `OnlyTop` says who is disabled. That an event leaves this true is
a matter of what else is under way, and there lies the work. A WM_CLOSE handler
that is waiting for ON INTERACTIVECLOSE or ON RELEASE goes on to hide or destroy
the window it found, and must find it on top. What runs meanwhile may open dialogs, each
in a nested loop, and only returns when they are gone. `Markers` states this: seen from
the handler, the dialogs above its own are just those of the message loops above it
on the stack (`Level`), and every loop above a handler has one dialog of its own, as
long as it is not about to end (`HasDialog`). `PendingInv` says that whatever
is posted is for the active dialog or for one that has just been hidden, that
WM_QUIT is only on its way while a pump runs, and so that none is for a
dialog below. `ShapeOk` says which calls can be neighbours on the stack, `MainInv`
that the main window outlives the dialogs, and `ActInv` that nothing is closing while
windows are activated. Each action either keeps `t`, or takes its head away, or
puts a slot in front (`NextDialog`), and these are the three kinds of steps of
`DialogStack`; `HandlesKept` adds that no window changes its handle meanwhile.
That `Below`, which is defined by recursion, follows `t` is shown by induction on a
set of natural numbers (`BelowIs`).

That an activation returns only when its windows are gone (`ReturnsAfterClose`) needs `DialogInv` and
`ClosingProgram` besides: the program does not hide windows or show hidden ones again,
every dialog is released when it is closed, and no activation has the id 0. A loop ends by WM_QUIT alone
(`LoopEndsByQuit`), and WM_QUIT carries no address: whichever loop pumps next takes it. `QuitInv` says that
when it is posted, the windows of the loop on top are gone. To keep it, DestroyWindow must have counted the window
of that very loop, and so the invariant, `ReturnInv`, says for the chain `t` of the open dialogs that they and the
activations on the stack are nested alike (`Nested`): each dialog was opened by an activation that is still there
(`HasActivation`), they are in the same order (`SameOrder`), and between two of these activations there is none
without a dialog (`NoGaps`); only the lowest dialog can be one of several windows activated together
(`Alone`, `PumpsLow`). The running activation may be without a dialog (`Vacant`), before it has one or after WM_QUIT is
posted. `NestedStep`, `StartNested` and `EndNested` say which changes of the stack keep the nesting.

For the holders the invariant is `EventsInv`: each holder is `Consistent`, which
says that its counter equals the number of occupied slots and that no two slots
have the same event. `RegisterConsistent` and `RemoveConsistent` do the
arithmetic on finite sets. `NoEmptyHolder` adds `Allocated`: an allocated holder
has a counter above zero. It fails for WINEVENT, where a holder can be allocated
for message 0 without being counted, hence the assumption of the theorem.

That the holders implement `EventRegistry` is a step simulation under `RegistryInv`:
a command finds the slot of its event if there is one, so every Register, UpdateEvent,
RemoveEvent and end of a ONCE dispatch changes the entry of its event and no other.
`Named` (no dispatch under way is of event 0) is what `HandlersKept`
needs besides. It is why event 0 is excluded there: WINEVENT accepts a handler
for message 0, and the removal after its ONCE dispatch,
`WinEventRemove( hWnd, "ONCE", 0 )`, is the call that removes all.
`OnceIsOnce` speaks of a handler and of the dispatch that is to remove it, with any
number of dispatches in between, so `RunsInv` adds `Frames` (no event has two ONCE
dispatches in progress of which one runs its handler) and `Counts` (a handler has run once
while its dispatch is in it and never before).

The menu of recent files implements `RecentFiles` under `MruInv`: the program does not run, or
its menu is in order (`MruOk`), and the entries that a save under way has passed are those of the list.
`MruOk` has three parts. `Linked`: the menu has an item for each entry of the list, at the same position, found through
the public variable of the entry's name; the numbers in the names are all different. Public variables
of removed items are still there and lead to ids that no item has, so a name is only safe to use again because
`InsertMenuItem` gives its variable a new value (`PublicAdded`), and because `FreeSlot` finds a number that
no entry has (`FreeSlotIs`; with `NextSlot` the lemma is false). `Placed`: the items show
and open the files of their places. It is false in between, when a new item is in front and the others still
have their old numbers; `RenumberIs` restores it. `Apart`: no name is twice in the list. With these `AddMRUItemIs` says that opening a file
is `ToFront` and `Cut`, whatever had to be removed for it, and `ClearIs` that one item stays, which is disabled.
What the next start would show is read from a file that may be cut anywhere, and may then name a file twice, under
different case. `Sorted` describes the list read from any such file (each name once, where it is first), `SortedOnce` that
there is only one, `LoadedIs` that the loop of `_DefineMruItem` makes it, and `SavedIs` that after a complete
save it is the list that was saved. The recursive functions of the model (`Renumber`, `FirstOnly`, `Loaded`) are followed by
induction on a set of natural numbers.

For the controls it is `ControlsInv`: the types and the eight invariants together with `SlotInv`
(what a slot of each type holds, and that a ONCE timer that has ticked is
disabled), `KeysInv` (a window has a key once, because `_DefineHotKey` releases the
one before) and `LaterInv` (in a careful program the timer of a label is in a slot
behind it). They need each other: that a slot can be given to another control is
only safe because `BlinkPaired` says that no variable of an earlier label of that
slot is left, and a key that the window with the focus lacks in win32 would have
to belong to another control of the same window. Erasing is the difficult step: a set of slots
is erased together with the timers of its labels, and lemma `EraseKeeps` shows
that everything survives if the set is `Closed` under that relation.
`ReleaseControl` and `DestroyWindow` each show that theirs is; in the latter
`LaterInv` excludes the runtime error. `DefineKeeps` does the same for
definitions.

A browse implements `RecordCursor` under `BrowseInv`: the numbers in `rangeMax` are those of records of the
file, there are no more than a page of them, the row selected is one of those on the screen, and, unless the
program has changed the file since, what is on the screen is a page of consecutive visible records
(`OnPage`). That is what makes the next command safe, since the library has no place in the file but these
numbers: it goes to the record of the first or last row, SKIPs, and draws from there. `Showing`
says what a browse can then show (nothing, the row behind a file in which nothing is visible, or the page from record
number i on), and the proof goes through these three for every key. The lemmas under it are about the
work area. `VisibleOnce` says that the visible records are the only ascending sequence of all
of them, `SkipIs` and `SkipHidden` where SKIP comes to from a visible or a hidden record, `PageIs`
and `DrawnAt` what `_BrowseUpdate` draws. The borders are where it could fail: a page
further than the last record (`NextPage`), a page or line back from the first (`PriorPage`, `LineBack`), a refresh at a
record that is no longer visible (`RefreshHidden`), the place of a new record (`PageWithNew`). For a
deletion `VisibleDelete` says which records are left and `AfterDeleteIs` that the cursor comes to the next of
them or the last; SKIP from the deleted record, which is itself hidden then, makes this different under
SET DELETED. An append to a list that was emptied is excluded by the hypothesis: there the numbers in `rangeMax` are not those of the
rows. The proof works on the visible records as a recursive function that is followed by induction on a set of
natural numbers.

For a TREE the invariant, `TreeInv`, says that the tree of win32 is a hierarchy in which the items
below one have greater handles (`IsForest`; handles are given out in order, and an item never moves), that the map
holds each of its items once (`IsMapOf`), and that the map is in tree order (`InTreeOrder`): an item comes
before those below it, and what stands between an item and one below it is below it too. A branch is then
a block of places that starts with its item, and this is all that `_DeleteItem` relies on when it takes out as many
elements as win32 has items less (`BranchInMap`). `MapFollowsTree` alone is not inductive: between DEFINE TREE and END
TREE items are appended at the end of the map, which is their place only because
the branches of the open nodes reach to it (`OpenAtTheEnd`); and with ITEMIDS the program names an item
by an id in `picture`, which must be the id of the item at that place (`IdsAgree`). An item added anywhere keeps the
order if it is put behind the whole branch of its parent (`InsertedOrder`); `_AddItem` gets there
by its walk through win32's tree. `WalkCounts` says that the walk counts
every item below the parent if no first child there has children (`SeesAll`): from any item `x` at which the
walk arrives, it has still to count `x` and what is below or behind it (`FromHere`), and each step takes away the item,
and its first child if it has one (`FromItsChild`), until only the new one is left (`FromTheLast`). Where a first
child has children the lemma is false, as is the theorem, hence its hypothesis `~DeepAdds` (section *TreeControl and
the code*). Sorting moves children among each other, and a branch of the map stays a block however win32 orders it
(`SortItemsKeeps`).
For the refinement of `ItemTree`, `UnderIsBranch` shows that its least set that holds an item and all below it is the
branch that win32 deletes; `GrownNodes` and `CutNodes` that parents, ids and cargos of all other items are what they were.
The recursion of `Above` and `Climb` is followed by induction on sets of natural numbers.

For a mail session it is `SessionInv`: `SmtpWellFormed` (types, and nothing under way
without a connection), `Naming` (the recipients a session names belong to the current
Send) and, as long as no answer came late (`Clean`), `CleanInv`. The latter tells where the
one outstanding command is: on its way to the server (`Asked`), answered, with
the lines not yet read (`Told`), lost with the connection (`Cut`), or there is none
(`Between`); and what the server has of the mail at each step (`Transaction`). `AnswersInStep`
alone is not inductive: without `Transaction` an answer may be in step and still
be about a mail the server does not have.

For an encrypted file it is `CryptInv`: between calls any file may be there, but a MAC
only the MAC of the file made last; during a call `Encrypting` and `Decrypting` relate
offset, cipher chain and output to the blocks already done. That decryption of a genuine file
writes its text, for every length, is an induction that the steps of the loop carry out
(`EncryptsBlock`, `DecryptsBlock`); that it fails for every other is `MacTells`.

For a digest it is `DigestInv`: a context that is not finished has taken in the message,
behind the inner pad if there is a key (`TakenIn`): its counter is the length of what it
took modulo two words (`Counted`), the whole blocks of it are hashed and the rest is at the
front of the buffer (`HashedAndHeld`). `UpdateKeeps` is the heart of it. The buffer fills up
where the *counter* says, not where the message does; that they agree although the counter
overflows is `FilledIs`, and needs a word to be a whole number of blocks
(`DigestAssumption`; blocks of 512 bits and words of 32 bits in the code). `ZerosAre` and `LengthIs` are about the
padding, `HmacFinishedIs` about a context that is used three times in a row.

For the COPY it is `PgInv`: what was sent, followed by what is in the buffer and read as the server
reads it, gives the records written so far and the row at hand. The server can tell a row from
the next although values hold tabs, line ends and backslashes: the lemmas about `Quoted`
and the server's reading show that one undoes the other, for values of any length and wherever
the buffer is cut. If not all fields are copied no row ever ends, so the server refuses
every record. Once a buffer was dropped nothing of this is left, and the invariant only says so
(`trouble`); what the table then has is what the server read. The folds that write and read are unfolded by lemmas of their own (`FoldAppend`,
`FoldConcat`), proved by induction on sets of indices.

For base64 the invariant, `Base64Inv`, only says which call made what; the work is in the lemmas about
one call. Where a group is put depends on the line breaks before it, so `StartsAre` and `StartsGrow`
place the groups one behind the other and `CharOfGroup` finds the group of each character. That
the buffer is large enough is `BreaksFit`: the groups followed by a break are counted by an injection into
the lines the code reserves room for, one more than `nLen / nSubLen`; without that one more
it is false. `GroupsWithoutBreaks` removes the breaks group by group, and `PlainDecodes` decodes the rest,
four characters at a time (`SextetsOfBytes`).

Only model-checked: `NoOwnRelease`, the properties of XML documents (`SavedOpens`,
`SaveSettles`), and liveness (`ActivateReturns`, `CallReturns`), which the proof system
does not cover. The module `XmlDoc` is beyond it: what Save writes and Read makes of it is
defined by RECURSIVE operators over documents nested in one another.

## Abstractions

* Names, handles, message numbers and code blocks are model values or small
  numbers. User code is arbitrary: any command of `Uses`, in any order.
* win32: posted messages are returned before WM_QUIT and WM_QUIT before input;
  messages posted to a window are discarded when it is destroyed; WM_QUIT is a
  flag, not a message. A window takes input when visible and enabled; WM_TIMER
  reaches disabled windows as well.
* The wait before ON INIT (`SuppressKeyAndMouseEvents`: DO EVENTS and
  `InkeyGUI`) is one pump. The message boxes of SET INTERACTIVECLOSE are a
  choice; no other message is dispatched while they are open.
* `_HMG_InteractiveClose` is set and restored within `_ReleaseWindow`; only the
  release of the main window, which does not return, leaves it at 1.
* The focus moves when the system says so (`Focus`): the focus that SHOW and
  ACTIVATE give to a control of the window is not followed.
* Not modelled: panels, split children and MDI children, notify icons, the
  compatibility switch `_HMG_MainWindowFirst`, GOTFOCUS / LOSTFOCUS procedures
  and the errors they raise, `WINDOW_ACTIVATE` blocks, the exception for
  `_ALERT` in ON RELEASE, the test of the ESC key in WM_CLOSE, the WM_CLOSE
  that `_OnFlashExit` posts to a flashing dialog, the debugger's activation,
  WM_QUERYENDSESSION, failures of SetProp.

## Not modelled

* Win32 wrappers, drawing, printing and report generators: one system call after
  another, with no state or order of their own to check.
* Of the controls, those whose state is kept by win32 (GRID, TAB, TOOLBAR, COMBO,
  LISTBOX, EDIT, ...), and of BROWSE the editing of cells and index orders.
* Text entry (`h_textbox.prg`, `h_getbox.prg`) and `tget`: planned.
* MDI windows: their order of activation is kept by win32.
* `tpop3.prg`, `thttp.prg` and `tftp.prg` (a minimal client of FTP without
  retransmission): they add no state to the socket below them. The loops of
  `TPop3` have no exit when the connection ends (`tpop3.prg:218`), which three
  lines show without a model.
* `TsBrowse`, the property grid, OLE, ADO, cabinet files, the debugger: ported or
  vendored code.

## Plan

Done: windows, activation, modality, pumps; event holders; controls with timers,
hot keys and blinking labels; TREE; BROWSE; recent files; the contributed libraries
with a protocol or a file format. Proved: the invariants of windows, holders and
controls that hold for every program, the counters of multiple activations and when
they post WM_QUIT, the registry that the holders implement and what becomes of their
handlers, the stack of dialogs and when their activations return, the list of recent files, the cursor of a BROWSE, the map of a TREE and its items, mail sessions, encrypted files, digests, the COPY of a table, and base64.

Left, in this order:
1. A composition of windows and controls: WM_DESTROY erases the controls of a
   window while the action of one of them is on the stack.
2. `TextMask`: masked entry of `h_textbox.prg` over short masks and inputs.
3. The pages of TAB and of folder dialogs (`h_folder.prg`, `c_folder.c`), and POP3
   with its loops bounded.

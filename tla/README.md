# Verification of taski

taski keeps the checkbox tasks of a vault of Markdown notes in a SQLite index, shows them in
a terminal UI and a CLI, and writes the user's changes back into the notes.  The notes
belong to the user: an editor (Obsidian) writes them at the same time.  This directory holds
TLA+ models of the parts of taski where that can go wrong, the TLC configurations that check
them on small instances, and proofs, checked by TLAPS, of the theorems that matter most.

All paths below are relative to the repository; `lib.rs` without a crate is
`crates/taski-daemon/src/lib.rs`.

## 1. Inventory

### Components

| component | state | operations | correct when |
|---|---|---|---|
| **note parser and line rewrites** (`crates/taski-core`) | none | `parse_tasks`, `taski_skip_enabled`, `rewrite_emoji_date` and its wrappers, `toggle_bullet`, `permute_lines`, `extract_lines`, `remove_lines` | a rewrite changes what was asked and nothing else; a permutation loses and invents no line |
| **index** (`crates/taski-db`: `tasks`, `note_contents`; `index_note`, `scan_vault`, `handle_debounced_event` in `lib.rs`) | a row per task with a surrogate id, the hash of the note it was read from; the cached body of each note; the watcher and its undelivered events | scan, re-index, delete, reconcile ids by text | the rows of a note are the tasks of one content of it; an id never changes its text; a stale note has an event on its way |
| **action queue** (`pending_actions`) | one row per request, `pending`, `done` or `failed` | enqueue, fetch in order, resolve, prune after 7 days | served in order, resolved once, never lost |
| **write-back** (`process_*`, `atomic_write`, `atomic_create` in `lib.rs`) | the action in hand, temp files beside the notes | judge an action against index and note, write a temp file, look again, rename, re-index, resolve | never writes a note that is not what was judged; a retry does not write twice; every action ends |
| **capture** (`process_quick_add`, its undo, `process_add_note`) | ids and dates inside the text, the section of task notes at the end of a note | append to the inbox, take it back, append a note and link it | nothing but the added line changes; an undo removes one such line of today; a note is found by its link |
| **lock, shutdown, launcher** (`lock.rs`, `shutdown.rs`, `crates/taski/src/main.rs`) | `daemon.lock`, the shutdown flag, the daemon thread | attach or spawn, standalone daemon, TUI only, quit, join | one engine at a time; "quit" means that everything has landed |
| **one-shot commands** (`crates/taski/src/cli.rs`) | the id of the action waited for | look at the lock, act as the daemon for one drain or enqueue and wait at most 10 s | the command ends, and its action is served |
| **TUI** (`crates/taski-tui`) | the tasks of the last poll (every 750 ms), the view, the cursor, filters, groups and lanes, modals, move mode, the last action, the tracked actions | keys that change the view, gestures that enqueue, undo, notices of refusals | every task that passes the filters is on the screen once per group; the gesture hits the task the user sees; no refusal goes unseen |
| **texts on the screen** (`TextInput`, `split_links`, `wrap_spans`, `expand_tabs`) | the text of a dialog and the cursor in it | the editing keys, soft wrap, links shortened to labels | the cursor is where the next character goes; nothing is lost by wrapping; a click on a label opens its link |
| **configuration, themes, install scripts, skill** | none shared | read once at the start | |

### How they interact

The clients (TUIs and commands) and the daemon share nothing but the SQLite file: clients
read `tasks` and append to `pending_actions`, the daemon does everything else.  The daemon
and the editor share nothing but the files: there is no lock between them, only the hash
stored with the rows (ADR-0004), the second look right before the rename, and the watcher's
events, debounced and without a kind.  The engine is one thread; it alternates between
events (`handle_debounced_event`) and a drain (`process_pending_actions`) and looks at the
shutdown flag in between.  Which process runs the engine is decided by a `flock` (ADR-0008):
the standalone daemon, a thread of `taski`, or a command for one drain.

What is hard: every step of the daemon may be followed by a save of the editor or by a kill;
an action is judged on an index that describes an older note, on behalf of a user who saw a
still older index; the retry of an action meets its own write; several processes start and
quit at once.  `PROJECT.json` lists these hazards one by one, at the line where each bites,
with the properties that watch it.

## 2. The modules

| module | models | of the code |
|---|---|---|
| `TaskLine` | one line as a record; flip with stamps, reschedule, bullet toggle; the lines capture adds | `taski-core`, `process_action_at`, `append_new_note_block` |
| `NoteText` | a note as a sequence of lines; fences, opt-out, what is indexed; splice, permute, extract, remove | `taski-core` |
| `NoteCapture` | where a quick add goes in the inbox, what its undo takes, the section of task notes | `process_quick_add_at`, `process_quick_add_undo_at`, `process_add_note` |
| `TaskIndex` | rows, and the reconciliation of the rows of a note with new contents | `reconcile_note` |
| `Requests` | what each gesture and command enqueues, from the tasks a client has read; what an undo asks for | TUI gestures, `cli.rs`, `taski-db` |
| `PendingActions` | the variables of the write-back core; the queue; what the daemon makes of an action | `taski-db`, `process_*` |
| `WriteBack` | the state machine: clients, editor, scan, watcher, drain, writes, failures, kills, restarts | `run_daemon`, `run_watch_loop`, `atomic_write` |
| `VaultQueue` | the abstract specification: a vault that changes only by the editor's hand or for the oldest unresolved action | the promise of ADR-0002 |
| `WriteBackProperties` | the properties of the core, and the refinement mapping to `VaultQueue` | |
| `Launcher`, `LauncherProperties` | processes, lock, flag, last drain, commands; the engine reduced to its life cycle | `main.rs`, `lock.rs`, `shutdown.rs`, `cli.rs` |
| `TaskView` | the screen as a function of tasks and options: filters, groups, board, each row with its place in the order; where the cursor goes | `build_view`, `build_kanban_view`, `reconcile_view_selection`, `all_tasks` |
| `Tui`, `TuiProperties` | a session of the TUI: refreshes, keys, modals, move mode, undo, tracked actions | `App` and `run_loop` |
| `TextInput` | the line editor of the dialogs, wrapped and scrolled | `TextInput`, `edit_input`, `draw_input_dialog` |
| `LineSyntax` | the syntax of a task line, bullets, indentation and tags, character by character | `task_captures`, `toggle_bullet`, `count_indent`, `extract_tags`, `expand_tabs` |
| `ListRow` | links in a text, a row wrapped to a width, where its links are then | `split_links`, `wrap_spans` |
| `Calendar` | the local date at a time | `civil_from_days`, `ymd_from_unix_local` |
| `Texts`, `TextProperties` | the inputs of these four, and what they are to give | |
| `Samples`, `MCWriteBack`, `MCTui`, `MCTexts` | vaults, editor contents and texts for TLC | |
| `Requests_proofs`, `WriteBack_proofs`, `Writes_proofs`, `Queue_proofs` | theorems of the core: notes, rows and requests; types and index; writes; order of the queue | |
| `Launcher_proofs`, `Tui_proofs` | theorems of the launcher and of the TUI's session | |
| `Texts_proofs`, `Rows_proofs` | theorems on texts: dialogs, the syntax of a line, dates; links and wrapped rows | |

`WriteBack` extends `PendingActions`, which extends `NoteCapture`, `Requests`, `TaskIndex` and those
below; `Tui` extends `TaskView`, which extends the same `Requests`.  So the two sides of the queue are
composed through one definition of what may be asked: `WriteBack` lets its clients enqueue any
of the `Requests` of any list they have read, and `AsksWhatTheCoreAllows` shows that the TUI, with its groups,
filters and move mode, asks nothing else.

### State and actions of `WriteBack`

`note` and `temp` are the files, `rows`, `nextId`, `cached` and `queue` the three tables,
`seen[c]` what client `c` read last.  `pc` is where the daemon is: `boot` (sweep and scan),
`tick` (the loop), `drain` (the next action), `write`, `check`, `rename` (inside
`atomic_write`), `finish` (re-index and resolve).  Its steps are cut where another actor
can see the difference:

* An action is judged in one step, `TakeWrite`, `TakeSatisfied` or `TakeRefused`: the lookups
  by id and by location, the reading of the note, the hash check, the checks of the line.
  Nobody but the daemon writes `rows`, and between the lookup and the reading only the editor
  can step in, which is the same as its stepping in before.  The second file an archive move
  reads is read in the same step for the same reason: it is another file than the first.
* `WriteTemp`, `CheckPassed` or `CheckFailed`, and `Rename` are the file operations of
  `atomic_write`; `atomic_create` has no check.
* `Reindex` and `CacheBody` are the two transactions of `index_note`; `Resolve` the update of
  the action.
* `TakeError`, `WriteError`, `IndexError`, `DrainError` are the error paths of these, each
  with what the code does then (mark failed, log and go on, abandon the drain), `Crash` a
  kill at any point.  A `Launch` sweeps the temp files and scans all over again.

A save of the editor replaces a whole note.  Contents are chosen per run from a small set.

The actions of capture go through the same steps: a quick add and its undo plan one write of
the inbox, or the creation of it; a task note plans one write with the link in the task's line and the
note in its block.  Only the judgement differs, and it is in `QuickAddWrites`, `UndoWrites` and `NoteWrites`.

### State and actions of `Launcher`

A session is a slot in which one process after the other runs: `mode` is what its main thread
does, `engine` what the engine does, if it has one.  `TakeLock` is the `flock` test-and-set;
`RunCombined`, `RunDaemon`, `RunTui` and `Submit` are the entries of `main`.  `Quit` is the hook
that sets the flag, `Join` the end of the process after its thread, `Leave` the return of
`run_daemon` that drops the guard.  `Tick` is one turn of the loop, and decides whether the
drain that follows is the last.  `EngineFails` (an error or a panic, caught below the TUI),
`DrainFails`, `WatchEnds` (the watcher's channel closed) and `Kill` are its failures.

### State and actions of `Tui`

`tasks`, `view` and `sel` are the tasks of the last refresh, the rows of the list and the cursor; `opts` what
the view shows; `mode` who gets the keys (the list, a prompt, a modal, move mode).  There is an action per
key: the ones of the list rebuild the view (`Rebuild`, which is `rebuild` and moves the cursor with
`Reconcile`), open a modal, or enqueue.  `Refresh` is the poll, a list and the recent resolutions, suspended
in move mode as in `run_loop`.  `Scan`, `Answer` and `OtherClient` are the environment: what the daemon
finds in a note, how it resolves the oldest action, and others that fill the queue.
What the loops of `build_view` and `build_kanban_view` push one after the other, `TaskView` says as a set of
rows that know their place, a triple of lane, group and number in the list; the screen is `Arranged`, that
set in the order of the places.
What the view reads of a text or a path (tags, priority, due date, file name, folder, matches of a
search) is given by tables of names and notes.

### History variables

`writer` (whose write is a note's last change, and where), `raced` (the editor saved in the
instant between the last check and the rename, which no code can tell), `gap` (notes whose
state the scan missed: changed between scan and watch, deleted while no daemon ran, or failed
to be indexed), the field `saw` of an action (the text the user acted on), and `broken` in
`Launcher` (engines that did not complete their last drain), and `own`, `told`, `dropped` and `start` in
`Tui` (its actions, the failures it showed, the actions it gave up tracking, the list move mode began with, or
the task the note modal was opened on while that stays on the screen).  No guard reads them.

## 3. What is checked

| run | instance | shows |
|---|---|---|
| `gestures` | a task and a line with malformed dates; the editor opts the note out, fences the task, makes it a bullet; flips, reschedules, bullet toggles; 1 failure; fairness | one-line actions change one line and in it what they should (`OneLineRewrite`); a retry does not write the same line twice (`SameLineOnce`); actions, events and shutdowns come to an end |
| `capture` | an inbox with task notes and yesterday's task, an archive not there yet; the editor rearranges, deletes or opts out the inbox, indents a line of today or leaves one behind a text; 2 quick adds, undos or notes, 1 failure | captures only add (`QuickAddOnlyAdds`), and not more often than they were interrupted (`QuickAddRepeats`); an undo takes a line of today, or the end of one, that nobody has gone on with (`UndoTakesBack`); a note is under the heading its task links to (`NoteIsFound`); an id keeps its text though tasks are swapped and pasted twice (`IdKeepsText`); the core implements `VaultQueue` (`InOrderOnce`); temp files belong to a write or to a failure (`TempsAccountedFor`); the index is a snapshot (`IndexIsSnapshot`); staleness is covered by an event or is one of the recorded exceptions (`StaleIsCovered`) |
| `bulk` | a note of four lines and its archive; flips, reorders and archive moves, 1 save, 1 failure | `TypeOK`; the rename is guarded (`CheckedRename`); `ReorderKeepsLines`, `ArchiveNeverLoses` |
| `sessions` | three sessions, 1 interactive action and one per command, 1 failure; fairness | one engine (`SingleWriter`), complete last drain (`QuitLands`), commands and quits end |
| `tui` | two notes of one file name in two folders, a task with two tags; 3 keys or scans besides cursor moves; a queue with room for 2 recent resolutions and 2 tracked actions; fairness | the screen is complete (`ScreenIsComplete`), the cursor and the note modal stay with their task while it is on the screen (`CursorStays`, `NoteKeepsItsTask`), Esc undoes a move (`CancelRestores`), refusals and outcomes are seen (`RefusalsSurface`, `OutcomesLearned`), and what is asked is what the core expects (`AsksWhatTheCoreAllows`) |
| `algorithms` | all texts up to 5 to 10 characters of a small alphabet; all edits of a dialog of 3 columns; 20 days around the turns of months, years, leap years and eras in four time zones | each function agrees with a definition without loops |

`IndexIsSnapshot` and `StaleIsCovered` are checked on `capture`, whose two notes are created, rewritten, opted out and
deleted, by the daemon and by the editor.

Six more runs show where a document promises what the code does not keep; each ends in a
counterexample (PROJECT.json quotes the documents):

| run | property | what happens |
|---|---|---|
| `wrong_task` | `HitsTheTaskMeant` | the task of an action was deleted or reworded; the fallback to its line finds another task and flips it |
| `stale_reorder` | `ReordersWhatWasSeen` | the note is saved and indexed again while a task is being moved: the hash is fresh, and lines the user did not see are moved |
| `replay_reorder` | `AppliedOnce` | a kill between rename and resolve; the restart scans first, so the conflict check passes and the permutation is applied again |
| `undo_after_edit` | `UndoRefusesEdited` | the inbox is edited between a quick add and its undo; the undo judges the inbox as it finds it, and removes a last line that says what was added |
| `toggle_twice` | `TogglesBack` | a task whose text begins with a bracket, such as a link, loses it when the toggle to a bullet is undone |
| `two_commands` | `CommandsWork` | a command takes another command's lock for a daemon's and waits for nobody |

### Observations

Seen while modelling; the ones without a run of their own are recorded here.

* `ApplyOutcome` promises (`lib.rs:562`) that a refused action leaves the vault untouched.  An archive move
  that is refused in its second phase (`lib.rs:1669`) has written its block to the archive.
* ADR-0004 calls a replayed flip idempotent.  With two tasks of one text it is not: the stamp gives the
  first a new id, the second gets the old one at the next scan, and the replay flips it as well.
* "Obsidian edits are never silently overwritten" (ADR-0004, line 28) has an exception that ADR-0014 (line 75) takes for
  none: an inbox or archive that the editor creates after it was found missing is overwritten by `atomic_create`
  (`lib.rs:1878`), which does not look again.
* `task_captures` gives nothing for a box followed by two or more blanks and nothing else, which the expression in its
  comment (`crates/taski-core/src/lib.rs:894`) matches with the last blank as the text.  `CapturesAgree` and `CapturesRead`
  state what the code does: they except a text of blanks.
* "No further enqueues are possible" once the flag is set (`lib.rs:415`): attached TUIs and commands go on.
  What a session has enqueued *itself* has landed when it is over (`QuitLands`); what others enqueue may wait.
* The refresh after move mode does not "fire immediately" (`taski-tui/src/lib.rs:2084`) unless the interval has
  passed meanwhile.
* Grouped by tag, a refresh moves the cursor from the second occurrence of a task to its first; it is
  on the task, which is all that `CursorStays` says.
* When the task leaves the screen while the note modal is open, the note goes to the task the cursor
  has moved to, even if the first one is back by then; `NoteKeepsItsTask` says "as long as it has stayed".
* An action whose resolution is no longer among the 64 most recent when the TUI looks stays tracked for good;
  `OutcomesLearned` says "as long as it is among them".
* Two quick reorders of one note before a refresh compose wrongly: both name the lines of the same list.
* The undo of a quick add looks for the end of the task list, not for a line of it (`lib.rs:1344`): what stands
  before the text by then, an indentation or another text, stays and joins the next line (`lib.rs:1356`).
* `[[x|]]` has an empty label and vanishes from the row.  In a very narrow pane a word is cut that
  would fit the next line without the blank before it.

**Bounds.** `MaxActions`, `MaxEdits` and `MaxFaults` bound the enqueued actions, the saves and the
failures; each guard names its bound.  Two actions are enough for the order of the queue and for an
action that meets the write of the one before; one save can fall into each window between
two steps.  One failure, of any kind at any step, is followed by a full recovery.  Three sessions give
a holder, one that finds the lock held, and one that comes when it is released.  The editor's
contents are chosen for what they do to an action already enqueued: move its task, copy its
text, delete it, opt the note out, fence it, create the archive first.  Three counted keys or scans of
the TUI (`MaxSteps`; moving the cursor, unfolding and typing are free) are enough to filter or group, start something
and have the list change below it; two recent resolutions and two tracked actions stand for the 64 of the code, so
that both limits are passed.  A dialog of three columns has full rows, wide characters that do not fit and a second row to
scroll; the texts are long enough for a link after an embed, a task line after a quote, a word longer than a row.

**Deadlock** is checked in all runs but `two_commands`, which has no new processes once its
actions are enqueued, and the two on texts (`algorithms`, `toggle_twice`), which end when the texts are complete.  A state without a step would be one in which not even a client can poll.

**Fairness.** `WriteBack` assumes weak fairness of the daemon's own step and of the handling of
each event: one thread loops for ever, and `recv_timeout` delivers what is queued before the next
drain.  Nothing is assumed of the editor, the clients, the user or the failures; progress
is claimed "unless the daemon is down", since nobody has to launch it.  `Launcher` assumes weak
fairness of the engine and of the main thread of each session.  `Tui` assumes weak fairness of the
part of a refresh that forgets what is resolved: the loop polls for as long as it runs, except in move mode.  Clients enqueue
finitely often in every run, so a drain that is kept busy for ever by new actions is outside
what the liveness properties say (the code's loop would indeed not return from it).

## 4. What is proved

The theorems hold for every set of notes, names, days, clients and sessions, every initial
vault, everything an editor may save, every table of tags, priorities and search results, all limits and all
bounds, under the assumptions the modules name: `TokenAssumption` (absent and malformed dates are not days),
`RequestAssumption` (what may be asked for is well formed), `VaultAssumption` (the initial vault and the editor's contents
are contents), `ViewAssumption` (the tables of the view are tables, and each order lists a key once),
`SessionAssumption` (a session begins with an index that is a snapshot; a task has a description; the limits
are not zero), `LauncherAssumption`, and for the texts `InputAssumption` (a character takes at most two columns, a dialog has
two columns and one row at least) and `SampleAssumption` (what the samples are made of; of rows: no character without
a width, narrow blanks, an indentation of narrow characters, as the checkbox and the blanks before a task are; a list of three columns
at least).  One theorem has a hypothesis of its own, `QuickAddsCounted`: the inbox
is not the archive.  They are two files in the configuration, with different defaults (`task-inbox.md`,
`task-archive.md`, `crates/taski-config/src/lib.rs:237`); if a user makes them one, archiving copies lines into the inbox.

The core:

| theorem | property | argument |
|---|---|---|
| `WriteBack_proofs!Typing` | `TypeOK` | inductive as it stands: the program counter implies what is in hand.  It rests on `Requests_proofs` (the operators on notes yield notes, requests are actions, a reconciliation leaves a finite set of rows) |
| `WriteBack_proofs!SnapshotAlways` | `IndexIsSnapshot` | the reconciliation of one note turns a snapshot into a snapshot, and leaves the other notes alone; everything else leaves the rows alone or removes all those of a note |
| `WriteBack_proofs!IdentityAlways` | `IdKeepsText` | needs more than itself (`IdInv`): the index is a snapshot, and every id in a list of a client or in an action has been given out, that is, is below `nextId`, while a new row takes an id from `nextId` on.  A matched row keeps its text because rows match by text |
| `WriteBack_proofs!StalenessCovered` | `StaleIsCovered` | must speak of the time before the watch (`CoverInv`): from the start of the scan on every note is fresh, still to be scanned, has an event to come, or is in `gap`; the scan is over when the watch begins, and the daemon's own write has its event like any other |
| `Writes_proofs!RenameIsChecked` | `CheckedRename` | the temp file holds what was judged from the write of the temp file on; the target is the base unless `raced` (`CheckInv`) |
| `Writes_proofs!OneLineAlways` | `OneLineRewrite` | by `WriteInv`, see below: the plan is one write, of one replaced line of its base |
| `Writes_proofs!RetriedLineIsLeft` | `SameLineOnce` | the line a flip or a reschedule has written, and nobody has touched since, says what the action wants (`WrittenInv`); an action that is satisfied, or whose expectation fails, plans no write of that line |
| `Writes_proofs!ReorderPermutes` | `ReorderKeepsLines` | the new order is a bijection of the places, so each line is there as often as before |
| `Writes_proofs!ArchiveCopiesFirst` | `ArchiveNeverLoses` | an extracted line is in the block; removing lines makes no other line less frequent; the second write of the plan is made only when the first one was (`HalfMoved`) |
| `Writes_proofs!QuickAddsOneLine` | `QuickAddOnlyAdds` | the plan inserts one line in its base, before the notes on the tasks |
| `Writes_proofs!UndoTakesOneLine` | `UndoTakesBack` | the plan removes the last line of the task list, or its end, if that says what was added; what stands before it stays alone or joins the line after it, and no other task comes or goes |
| `Writes_proofs!NotesAreFound` | `NoteIsFound` | what is added keeps the order and the fences of what was there (`EmbeddedTasks`: the parser finds the same tasks), and the id is on a line of the task and on the heading that was put in the block |
| `Writes_proofs!TempFilesAccounted` | `TempsAccountedFor` | `TempInv`: captures are of the inbox, and a write that is checked has a base |
| `Queue_proofs!QueueImplemented` | `InOrderOnce` | the refinement: the resolved actions are a prefix of the queue and the action in hand is the next one, so a rename maps to `Write`, a resolution to `Resolve`, a save to `Edit`, all the rest to a stutter |
| `Queue_proofs!QuickAddsCounted` | `QuickAddRepeats` | `RepeatInv`: the bound holds of the inbox and of every base a write under way was judged on, because a write adds to its base and not to what the editor has saved since; each failure pays for one repetition |

`WriteInv` is `TypeOK`, `IndexIsSnapshot`, `CheckInv`, `PlanInv` and `WrittenInv`.  `PlanInv` is what makes the rest possible:
while a write is under way its plan was judged right for the action in hand, or is the second half of an archive move
whose first half has been made.  The judgement (`Judged`) speaks of the write, its base and its body alone,
so that neither the editor nor the index can disturb it; the rename then turns it into a statement about the note.
What the judgement needs of permuted, extracted, removed and inserted lines is in `Requests_proofs`, as facts about
how often a line is there (`Spots`): injections between places, which need no induction over sequences.

The launcher:

| theorem | property | argument |
|---|---|---|
| `Launcher_proofs!LauncherTyping` | `LauncherTypeOK` | inductive as it stands |
| `Launcher_proofs!OneEngine` | `SingleWriter` | an engine implies that its session holds the lock (`LockInv`) |
| `Launcher_proofs!LastDrainIsComplete` | `QuitLands` | `QuitInv`: before the quit the engine has no reason to stop, after it the flag is set, so it leaves through the last drain only, which ends on an empty queue, and the session enqueues no more |

The TUI, all from one inductive invariant (`Tui_proofs!SessionInvariant`: `TuiTypeOK`, `ViewInv`, `MoveInv`, `NoteInv`,
`TrackInv` and `AsksWhatTheCoreAllows`):

| theorem | property | argument |
|---|---|---|
| `SessionTypes` | `TuiTypeOK` | `Reconcile` gives a row of the list whenever there is one; `Latest` keeps the tracked actions within their limit |
| `NothingIsLost` | `ScreenIsComplete` | the places of the rows are all different, so the screen is a bijection of them (`ScreenIs`), with a lane before its headers and a header before its tasks and no other header between (`ScreenIsGood`).  Moving a task permutes a run of task rows below one header, which keeps all that (`Rearranged`) |
| `AsksAreAllowed` | `AsksWhatTheCoreAllows` | the tasks in hand are one snapshot of the index and no task is twice in a run (`GoodView`), so the lines of a move are different lines of one note, with its hash; an archive names the closed ones |
| `FailuresAreShown` | `RefusalsSurface` | `TrackInv`: every action of the session is tracked, dropped, done, or failed with a failure at least as new shown |
| `CursorFollowsTask` | `CursorStays` | one case per key: `Reconcile` finds the task if it is there, a moved task is moved with the cursor, all else leaves both alone |
| `NoteFollowsTask` | `NoteKeepsItsTask` | `NoteInv`: the task the modal was opened on is under the cursor as long as it has stayed on the screen, because the only thing that can change the screen under a modal is a refresh |
| `EscTakesMoveBack` | `CancelRestores` | `MoveInv` (`Moving`): while a task is moved the run it is in holds the rows it held, the order noted is that of the start, and the ids in it are different, so choosing by id gives the start back |

`AsksAreAllowed` is one half of the composition of TUI and core for every value of the constants: `WriteBack` lets its clients
enqueue `Requests` of lists they have read, and the theorem says the TUI enqueues nothing else.

The texts, for texts, rows and alphabets of any size (`Texts_proofs`, and `Rows_proofs` for the last three):

| theorem | property | argument |
|---|---|---|
| `TextsTyped` | `TextsTypeOK` | inductive as it stands, one case per editing key |
| `CursorShown` | `CursorOnScreen` | a place of the text is in one row, the row of the cursor is among those shown, and it has room for the next character, because otherwise the next row would begin there (`RowsAre`, `RowExists`, `NextHasRoom`, `CursorIsOnScreen`) |
| `UpAndDown` | `VerticalMoves` | the target is the last place of the row above or below that is not further right, and there is one (`VerticalTarget`) |
| `CapturesRead` | `CapturesAgree` | a line matches the expression with a text that is more than blanks exactly when the scan reads it; with every repetition as long as it can be there is one such reading (`ReadingsAre`); a tab goes on to the next multiple of four, in the count as on the screen (`IndentShown`) |
| `TagsAreFound` | `TagsFound` | a tag begins where a word does (`TagsAreWords`), and putting it into the list keeps the list without repetition (`PushIs`) |
| `DatesFollow` | `DaysFollow` | the year of a day of the era is the one it lies in (`YearOfDay`), by the lengths of the years; the rest is arithmetic on months and on leap years (`NextDay`, `NextYear`) |
| `LinksAreFound` | `LinksFound` | what the scan has behind it is a chain of plain pieces and links, whatever comes next (`FollowsExists`, `SplitIs`); what reads as a link in a piece reads as one in the whole text (`ParseIs`) |
| `RowsKeepText` | `RowKeepsText` | an invariant of the loop of `wrap_spans` (`Laid`): line *r* is the indentation and the places *from[r]* to *to[r]* of the row, and from each line to the next the places go on, except for a blank, and inside a word only if it is too long.  Each of the four things a step can do keeps it: `PutOn`, `PutDrop`, `PutCut`, `PutCarry` |
| `HitsFound` | `HitsAreLabels` | on a line laid out like this the cells of a label are consecutive, and the columns before wrapping tell them, and those left of them, from all others (`LabelOnLine`, `TakenPart`, `ColumnsPart`) |

The last two use one more invariant, `NarrowPrefix` (the indentation stays narrow).  Lists narrower than three columns are
left out because there a wide character may not fit on any line, and characters without a width because one that follows a
full line stays on it together with the columns it does not take: `wrap_spans` looks at the sum only.

The prover has no induction to instantiate, so what the loops and the recursive functions of these modules yield is proved from the least
number principle (`Least`, `Induct`) and from two facts shown once: a fold over a sequence has a run, the values it passes
through, and it is the last of them (`RunExists`, `LoopIs`, `IterIs`).  For each fold of the model there is a lemma
that says that it is such a `Loop` (`ColumnsIsLoop`, `TagsIsLoop`, `UsedIsLoop`, `WrapIsLoop`, ...), and after that only `Induct` is used.

The inductive invariants of the core and the launcher have been checked by TLC on small instances before their proofs, that of the TUI
on all states of the run `tui`, and the statements about texts on all samples of the run `algorithms`.

Model-checked only:

* Liveness (`EveryActionResolved`, `EventsHandled`, `ShutdownEnds`, `CommandEnds`, `QuitEnds`, `OutcomesLearned`): fairness
  is beyond the proof system.
* The six properties that do not hold (`HitsTheTaskMeant`, `ReordersWhatWasSeen`, `AppliedOnce`, `UndoRefusesEdited`,
  `TogglesBack`, `CommandsWork`).

## 5. Simplifications

* The body of a task is a record: a name and three dates, each a day, absent or malformed.
  The order of the tokens in a line and everything else in it are part of the name.  Line terminators are left
  out, as every rewrite keeps them; that the last line of a note may have none is left out as well
  (an undo of a quick add refuses it then).  `text_hash` and `note_hash` are modelled by what they are hashes of.
* A plain line with the char and the text of a task stands for a line that ends with what a quick add writes and begins
  with something else (`EndsWith`); that a rest of this kind could be a heading or a task is left out.
* `generate_note_id` looks for an id that no heading of the note has, and so does `Unused`; an id of another note
  may come up again.
* `Today` is one day: notes may hold lines of yesterday, but midnight does not pass between an action and its
  undo.  In the core, tags, priorities, due and start dates are part of a name; in `Tui` they are read from tables.
* Notes are always text.  Note paths that are hidden or excluded are not notes; the purge of
  excluded directories, the pruning of resolved actions and `--once` are left out.
  A failing sweep at the start would leave a temp file that the next write of the note overwrites.
* `reconcile_note` reads the old rows before its transaction begins; with one engine nobody writes them
  in between, which is what `SingleWriter` is about.
* A toggle on a note without rows reads the cached body; that body and the rows are
  modelled as the two transactions they are.
* Timeouts have no length: a command may give up at any time, the loop may turn at any time.
* A command's request is built from its own reading of the index before it takes the lock; in
  `WriteBack` it is a client like the TUI, with a view from an earlier poll.
* In `Launcher` the engine only empties the queue; what it does to notes is `WriteBack`'s.

* In `Tui` a refresh reads the tasks and the resolutions in one step: two reads of the code, between which only the
  can step in, and the second is not used for the first.  An error of either ends the session and is left out.
  The recent resolutions are those latest in the queue; the code sorts them by time, which is the same unless
  the clock is set back.

Not modelled: of the TUI the help overlay, the context pane, the exit, opening a note in Obsidian, layout,
colours and midnight; configuration, themes, install scripts and the skill; the exclusion of directories, notes that
stop being UTF-8, `--once`, pruning and migration.

## 6. Plan

Done: the core with capture, its abstract specification and the refinement; the launcher; the TUI's session; the
texts on the screen; their properties, runs and the theorems above.

1. **Composition**: `Launcher`'s engine with `VaultQueue`'s queue, so that commands see refusals.
2. **Reference definitions**: `permute_lines`, `remove_lines`, `extract_lines` and `reconcile_note` as the loops
   they are, in a module that only TLC reads, compared with the declarative operators on all small inputs.
3. **The rest of the TUI**: the context pane and its window of lines, the help overlay.
4. **Midnight**: a day that turns while an action waits, for the undo of a quick add (`lib.rs:1318`).
5. **Proofs**: all safety properties of the core, the launcher, the session and the texts are theorems.  Next: that a
   task list read by a client satisfies what `SessionAssumption` asks of a scan (the composition of `Tui` with
   `WriteBack`, of which `AsksAreAllowed` is one half).

## 7. Running

    tlc -config bulk.cfg MCWriteBack.tla
    tlc -config sessions.cfg LauncherProperties.tla
    tlc -config tui.cfg MCTui.tla
    tlc -config algorithms.cfg MCTexts.tla
    tlapm WriteBack_proofs.tla
    tlapm Rows_proofs.tla

A run of `PROJECT.json` names its module, its configuration, what is expected and the
properties; each property of a passing run has a mutant of the code under which TLC finds it violated.

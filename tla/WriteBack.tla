------------------------------ MODULE WriteBack ------------------------------
(***************************************************************************)
(* The write-back core of taski: a vault of notes that an editor also      *)
(* writes, clients that enqueue actions, and the daemon, which indexes the *)
(* vault and is the only component of taski that writes it.                *)
(*                                                                         *)
(* The daemon is one thread.  Its steps are cut where another actor can    *)
(* see the difference: a file is read and judged, the temp file is         *)
(* written, the target is read again, the temp file is renamed over it,    *)
(* each SQLite transaction commits.  Reading a note is merged with the     *)
(* transaction that commits what was parsed from it: only the editor can   *)
(* come in between, and it does not touch the index.                       *)
(***************************************************************************)
EXTENDS PendingActions

PC == {"down", "boot", "tick", "drain", "write", "check", "rename", "finish"}

Own == [by |-> 0, line |-> 0]    \* nobody's write: the editor's, or none yet

Init ==
    /\ note = InitialVault /\ temp = [n \in Notes |-> Missing]
    /\ rows = {} /\ nextId = 1 /\ cached = [n \in Notes |-> Missing]
    /\ queue = <<>>
    /\ seen = [c \in Clients |-> {}]
    /\ pc = "down" /\ cur = 0 /\ plan = <<>> /\ reindex = <<>> /\ verdict = "done"
    /\ half = {} /\ scan = {} /\ watching = FALSE /\ events = {}
    /\ stopping = FALSE /\ final = FALSE
    /\ edits = 0 /\ faults = 0
    /\ writer = [n \in Notes |-> Own] /\ raced = FALSE /\ gap = {}

-----------------------------------------------------------------------------
\* The clients: they see the index only, and touch the queue only.

Poll(c) ==
    /\ seen' = [seen EXCEPT ![c] = rows]
    /\ UNCHANGED <<vault, index, queue, process, bounds, history>>

Enqueue(c) ==
    /\ Len(queue) < MaxActions
    /\ \E a \in Gestures(c) : queue' = Append(queue, a)
    /\ UNCHANGED <<vault, index, seen, process, bounds, history>>

-----------------------------------------------------------------------------
\* The editor: it saves, creates or deletes a note whenever it likes.  A watcher
\* that is registered hears of it.

Heard(n) == IF watching THEN events \cup {n} ELSE events

EditorSave(n) ==
    /\ edits < MaxEdits
    /\ edits' = edits + 1
    /\ \E c \in EditorContents[n] \ {note[n]} : note' = [note EXCEPT ![n] = c]
    /\ events' = Heard(n)
    /\ writer' = [writer EXCEPT ![n] = Own]
    /\ raced' = (raced \/ (pc = "rename" /\ Head(plan).note = n))
    /\ gap' = IF pc = "boot" /\ n \notin scan THEN gap \cup {n} ELSE gap
    /\ UNCHANGED <<temp, index, queue, seen, pc, cur, plan, reindex, verdict, half,
                   scan, watching, stopping, final, faults>>

-----------------------------------------------------------------------------
\* Indexing: index_note and the removal of a deleted note, two transactions each.

Reconcile(n, c) ==
    /\ rows' = Reconciled(rows, nextId, n, c)
    /\ nextId' = NextId(rows, nextId, n, c)

\* The first transaction of index_note.  A note that is gone changes nothing; one
\* that opts out loses its rows and keeps its cached body.
IndexNote(n) ==
    IF note[n] = Missing
    THEN UNCHANGED <<rows, nextId, half>>
    ELSE /\ Reconcile(n, note[n])
         /\ half' = IF Skipped(note[n]) THEN {} ELSE {[note |-> n, body |-> note[n]]}

ForgetNote(n) ==
    /\ rows' = rows \ RowsOf(rows, n)
    /\ half' = {[note |-> n, body |-> Missing]}
    /\ UNCHANGED nextId

\* The second transaction: the note_contents row.
CacheBody ==
    /\ \E h \in half : cached' = [cached EXCEPT ![h.note] = h.body]
    /\ half' = {}
    /\ UNCHANGED <<vault, rows, nextId, queue, seen, pc, cur, plan, reindex, verdict,
                   scan, watching, events, stopping, final, bounds, history>>

-----------------------------------------------------------------------------
\* Starting and stopping.

\* Mutant: nobody looks for the temp files a killed daemon left.
LaunchUnswept ==
    /\ pc = "down"
    /\ pc' = "boot"
    /\ scan' = Notes
    /\ UNCHANGED <<vault, index, queue, seen, cur, plan, reindex, verdict, half, watching,
                   events, stopping, final, bounds, history>>

\* run_daemon sweeps the temp files before it scans.
Launch ==
    /\ pc = "down"
    /\ pc' = "boot"
    /\ scan' = Notes
    /\ temp' = [n \in Notes |-> Missing]
    /\ UNCHANGED <<note, index, queue, seen, cur, plan, reindex, verdict, half, watching,
                   events, stopping, final, bounds, history>>

\* The initial scan walks the files there are: it says nothing of a deleted note.
ScanNote(n) ==
    /\ pc = "boot" /\ half = {} /\ n \in scan
    /\ scan' = scan \ {n}
    /\ IndexNote(n)
    /\ gap' = IF note[n] = Missing /\ RowsOf(rows, n) # {} THEN gap \cup {n} ELSE gap \ {n}
    /\ UNCHANGED <<vault, cached, queue, seen, pc, cur, plan, reindex, verdict, watching,
                   events, stopping, final, bounds, writer, raced>>

\* Mutant: the watcher is not registered.
StartDeaf ==
    /\ pc = "boot" /\ half = {} /\ scan = {}
    /\ pc' = "tick"
    /\ UNCHANGED <<vault, index, queue, seen, cur, plan, reindex, verdict, half, scan,
                   watching, events, stopping, final, bounds, history>>

StartWatch ==
    /\ pc = "boot" /\ half = {} /\ scan = {}
    /\ pc' = "tick"
    /\ watching' = TRUE
    /\ UNCHANGED <<vault, index, queue, seen, cur, plan, reindex, verdict, half, scan,
                   events, stopping, final, bounds, history>>

\* Mutant: the deletion of a note is not told from a change.
HandleAsChange(n) ==
    /\ pc = "tick" /\ half = {} /\ n \in events
    /\ events' = events \ {n}
    /\ IndexNote(n)
    /\ gap' = gap \ {n}
    /\ UNCHANGED <<vault, cached, queue, seen, pc, cur, plan, reindex, verdict, scan,
                   watching, stopping, final, bounds, writer, raced>>

\* Mutant: a note that opts out of taski is put off, for ever.
HandleUnlessSkipped(n) ==
    /\ pc = "tick" /\ half = {} /\ n \in events
    /\ note[n] = Missing \/ ~Skipped(note[n])
    /\ events' = events \ {n}
    /\ IF note[n] = Missing THEN ForgetNote(n) ELSE IndexNote(n)
    /\ gap' = gap \ {n}
    /\ UNCHANGED <<vault, cached, queue, seen, pc, cur, plan, reindex, verdict, scan,
                   watching, stopping, final, bounds, writer, raced>>

HandleEvent(n) ==
    /\ pc = "tick" /\ half = {} /\ n \in events
    /\ events' = events \ {n}
    /\ IF note[n] = Missing THEN ForgetNote(n) ELSE IndexNote(n)
    /\ gap' = gap \ {n}
    /\ UNCHANGED <<vault, cached, queue, seen, pc, cur, plan, reindex, verdict, scan,
                   watching, stopping, final, bounds, writer, raced>>

Shutdown ==
    /\ pc # "down" /\ ~stopping
    /\ stopping' = TRUE
    /\ UNCHANGED <<vault, index, queue, seen, pc, cur, plan, reindex, verdict, half, scan,
                   watching, events, final, bounds, history>>

\* What is left of a daemon that is gone, whatever it was doing.
Gone ==
    /\ pc' = "down" /\ cur' = 0 /\ plan' = <<>> /\ reindex' = <<>> /\ verdict' = "done"
    /\ half' = {} /\ scan' = {} /\ watching' = FALSE /\ events' = {}
    /\ stopping' = FALSE /\ final' = FALSE
    /\ raced' = FALSE /\ gap' = {}

-----------------------------------------------------------------------------
\* Draining the queue: process_pending_actions.

StartDrain ==
    /\ pc = "tick" /\ half = {}
    /\ Pending # {} \/ stopping
    /\ pc' = "drain"
    /\ final' = stopping
    /\ UNCHANGED <<vault, index, queue, seen, cur, plan, reindex, verdict, half, scan,
                   watching, events, stopping, bounds, history>>

\* Mutant: the loop goes on after the last drain.
EndDrainAndGoOn ==
    /\ pc = "drain" /\ Pending = {}
    /\ pc' = "tick"
    /\ UNCHANGED <<vault, index, queue, seen, cur, plan, reindex, verdict, half, scan,
                   watching, events, stopping, final, bounds, history>>

EndDrain ==
    /\ pc = "drain" /\ Pending = {}
    /\ IF final
       THEN Gone /\ UNCHANGED writer
       ELSE /\ pc' = "tick"
            /\ UNCHANGED <<cur, plan, reindex, verdict, half, scan, watching, events,
                           stopping, final, history>>
    /\ UNCHANGED <<vault, index, queue, seen, bounds>>

\* Judging the oldest action: the next three.  What to index afterwards is known
\* already; for an archive move the archive comes first.
Take ==
    /\ pc = "drain" /\ Pending # {}
    /\ cur' = Oldest
    /\ UNCHANGED <<vault, index, queue, seen, half, scan, watching, events, stopping,
                   final, history>>

TakeWrite ==
    /\ Take
    /\ plan' \in Writes(queue[Oldest])
    /\ pc' = "write"
    /\ UNCHANGED <<reindex, verdict, bounds>>

TakeSatisfied ==
    /\ Take
    /\ Satisfied(queue[Oldest])
    /\ pc' = "finish" /\ verdict' = "done"
    /\ reindex' = <<queue[Oldest].note>>
    /\ UNCHANGED <<plan, bounds>>

TakeRefused ==
    /\ Take
    /\ Writes(queue[Oldest]) = {} /\ ~Satisfied(queue[Oldest])
    /\ pc' = "finish" /\ verdict' = "failed"
    /\ UNCHANGED <<plan, reindex, bounds>>

-----------------------------------------------------------------------------
\* One write of the plan: atomic_write, or atomic_create when there is no target.

Job == Head(plan)    \* the write under way

\* It is atomic_create's: there was no target to read, and none is looked for again.
Creates == Job.base = Missing

WriteTemp ==
    /\ pc = "write"
    /\ temp' = [temp EXCEPT ![Job.note] = Job.body]
    /\ pc' = IF Creates THEN "rename" ELSE "check"
    /\ UNCHANGED <<note, index, queue, seen, cur, plan, reindex, verdict, half, scan,
                   watching, events, stopping, final, bounds, history>>

\* The write under way is given up and the action fails.  atomic_write removes its
\* temp file, atomic_create does not.
GiveUp ==
    /\ temp' = IF Creates THEN temp ELSE [temp EXCEPT ![Job.note] = Missing]
    /\ plan' = <<>>
    /\ pc' = "finish" /\ verdict' = "failed"
    /\ raced' = FALSE

\* Mutant: nobody looks again before the rename.
CheckNothing ==
    /\ pc = "check"
    /\ pc' = "rename"
    /\ UNCHANGED <<vault, index, queue, seen, cur, plan, reindex, verdict, half, scan,
                   watching, events, stopping, final, bounds, history>>

\* The target is read again: the last look before the rename.
CheckPassed ==
    /\ pc = "check" /\ note[Job.note] = Job.base
    /\ pc' = "rename"
    /\ UNCHANGED <<vault, index, queue, seen, cur, plan, reindex, verdict, half, scan,
                   watching, events, stopping, final, bounds, history>>

CheckFailed ==
    /\ pc = "check" /\ note[Job.note] # Job.base
    /\ GiveUp
    /\ UNCHANGED <<note, index, queue, seen, cur, reindex, half, scan, watching, events,
                   stopping, final, bounds, writer, gap>>

\* After the last write the notes are indexed: an archive move, the archive first.
AfterWrites(a) == IF a.type = "archive" THEN <<Archive, a.note>> ELSE <<a.note>>

Rename ==
    /\ pc = "rename"
    /\ note' = [note EXCEPT ![Job.note] = temp[Job.note]]
    /\ temp' = [temp EXCEPT ![Job.note] = Missing]
    /\ events' = Heard(Job.note)
    /\ writer' = [writer EXCEPT ![Job.note] = [by |-> cur, line |-> Job.line]]
    /\ raced' = FALSE
    /\ plan' = Tail(plan)
    /\ IF Tail(plan) # <<>>
       THEN pc' = "write" /\ UNCHANGED <<reindex, verdict>>
       ELSE /\ pc' = "finish" /\ verdict' = "done"
            /\ reindex' = AfterWrites(queue[cur])
    /\ UNCHANGED <<index, queue, seen, cur, half, scan, watching, stopping, final,
                   bounds, gap>>

-----------------------------------------------------------------------------
\* Finishing an action: the notes it wrote are indexed again, then it is resolved.

Reindex ==
    /\ pc = "finish" /\ half = {} /\ reindex # <<>>
    /\ IndexNote(Head(reindex))
    /\ reindex' = Tail(reindex)
    /\ UNCHANGED <<vault, cached, queue, seen, pc, cur, plan, verdict, scan, watching,
                   events, stopping, final, bounds, history>>

\* Mutant: only success is recorded.
ResolveDone ==
    /\ pc = "finish" /\ half = {} /\ reindex = <<>>
    /\ queue' = [queue EXCEPT ![cur].state = IF verdict = "done" THEN "done" ELSE @]
    /\ pc' = "drain" /\ cur' = 0
    /\ UNCHANGED <<vault, index, seen, plan, reindex, verdict, half, scan, watching, events,
                   stopping, final, bounds, history>>

\* Mutant: an action on no task is not resolved.
ResolveOnTask ==
    /\ pc = "finish" /\ half = {} /\ reindex = <<>>
    /\ queue' = [queue EXCEPT ![cur].state = IF queue[cur].task # 0 THEN verdict ELSE @]
    /\ pc' = "drain" /\ cur' = 0
    /\ UNCHANGED <<vault, index, seen, plan, reindex, verdict, half, scan, watching, events,
                   stopping, final, bounds, history>>

Resolve ==
    /\ pc = "finish" /\ half = {} /\ reindex = <<>>
    /\ queue' = [queue EXCEPT ![cur].state = verdict]
    /\ pc' = "drain" /\ cur' = 0
    /\ UNCHANGED <<vault, index, seen, plan, reindex, verdict, half, scan, watching, events,
                   stopping, final, bounds, history>>

-----------------------------------------------------------------------------
\* Failures.  An I/O or SQLite error is logged and the daemon goes on.

Failing ==
    /\ faults < MaxFaults
    /\ faults' = faults + 1

\* Before an action has a write under way: it is marked failed.
TakeError ==
    /\ Failing /\ Take
    /\ pc' = "finish" /\ verdict' = "failed"
    /\ UNCHANGED <<plan, reindex, edits>>

WriteError ==
    /\ Failing
    /\ pc \in {"write", "check", "rename"}
    /\ GiveUp
    /\ UNCHANGED <<note, index, queue, seen, cur, reindex, half, scan, watching, events,
                   stopping, final, edits, writer, gap>>

\* A note that should be indexed is not, in whichever of its transactions.  Only for a
\* deleted note the second is made when the first fails.
IndexError ==
    /\ Failing
    /\ \/ /\ half # {} /\ half' = {}
          /\ UNCHANGED <<reindex, scan, events, gap>>
       \/ /\ half = {} /\ pc = "finish" /\ reindex # <<>>
          /\ reindex' = Tail(reindex)
          /\ UNCHANGED <<half, scan, events, gap>>
       \/ \E n \in scan : /\ half = {} /\ pc = "boot"
                         /\ scan' = scan \ {n} /\ gap' = gap \cup {n}
                         /\ UNCHANGED <<half, reindex, events>>
       \/ \E n \in events : /\ half = {} /\ pc = "tick"
                           /\ events' = events \ {n} /\ gap' = gap \cup {n}
                           /\ \/ half' = {}
                              \/ note[n] = Missing /\ half' = {[note |-> n, body |-> Missing]}
                           /\ UNCHANGED <<reindex, scan>>
    /\ UNCHANGED <<vault, index, queue, seen, pc, cur, plan, verdict, watching, stopping,
                   final, edits, writer, raced>>

\* Fetching the pending actions fails, or resolving one: the drain is abandoned, and
\* the action is still pending.
DrainError ==
    /\ Failing
    /\ pc = "drain" \/ (pc = "finish" /\ half = {} /\ reindex = <<>>)
    /\ IF final
       THEN Gone /\ UNCHANGED writer
       ELSE /\ pc' = "tick" /\ cur' = 0
            /\ UNCHANGED <<plan, reindex, verdict, half, scan, watching, events, stopping,
                           final, history>>
    /\ UNCHANGED <<vault, index, queue, seen, edits>>

\* The daemon is killed.  What is on disk stays: the vault, its temp files, SQLite.
Crash ==
    /\ Failing
    /\ pc # "down"
    /\ Gone
    /\ UNCHANGED <<vault, index, queue, seen, edits, writer>>

-----------------------------------------------------------------------------
Client == \E c \in Clients : Poll(c) \/ Enqueue(c)
Editor == \E n \in Notes : EditorSave(n)
User   == Launch \/ Shutdown
Fault  == TakeError \/ WriteError \/ IndexError \/ DrainError \/ Crash

\* What the daemon does by itself; delivering events is kept apart for fairness.
Daemon ==
    \/ \E n \in Notes : ScanNote(n)
    \/ StartWatch \/ CacheBody
    \/ StartDrain \/ TakeWrite \/ TakeSatisfied \/ TakeRefused \/ EndDrain
    \/ WriteTemp \/ CheckPassed \/ CheckFailed \/ Rename \/ Reindex \/ Resolve

Watcher == \E n \in Notes : HandleEvent(n)

Next == Client \/ Editor \/ User \/ Fault \/ Daemon \/ Watcher

\* The daemon keeps running its loop and the watcher delivers; nobody has to launch,
\* edit, poll or enqueue, and nothing has to fail.
Fairness == WF_vars(Daemon) /\ \A n \in Notes : WF_vars(HandleEvent(n))

Spec     == Init /\ [][Next]_vars
FairSpec == Spec /\ Fairness
=============================================================================

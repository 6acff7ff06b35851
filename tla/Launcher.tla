------------------------------ MODULE Launcher ------------------------------
(***************************************************************************)
(* The processes of taski on one vault: interactive sessions, standalone   *)
(* daemons and one-shot commands, and the lock file that is to keep the    *)
(* daemon engine (run_daemon, or one drain of the queue) in one of them.   *)
(* The engine is reduced to its life cycle and to the queue it empties;    *)
(* what it does to the notes is WriteBack's.                               *)
(*                                                                         *)
(* A session is a slot in which one process after the other runs.          *)
(***************************************************************************)
EXTENDS Naturals, Sequences, FiniteSets

CONSTANTS Sessions,
          Nobody,                  \* holds the lock when it is free
          MaxActions, MaxFaults    \* bounds

ASSUME LauncherAssumption == /\ Nobody \notin Sessions
                             /\ MaxActions \in Nat /\ MaxFaults \in Nat

VARIABLES
    mode,     \* what the main thread of each session is doing
    engine,   \* what its engine is doing
    holder,   \* the session that has the lock
    signal,   \* its shutdown flag is set
    queue,    \* table pending_actions: who enqueued it, and whether it is resolved
    own,      \* the action a command has enqueued and waits for, 0 if none
    faults,   \* bound
    broken    \* history: sessions whose engine did not complete its last drain

vars == <<mode, engine, holder, signal, queue, own, faults, broken>>

\* "combined" and "attached" are TUIs, with an engine of their own or without; "quit" is
\* a combined one whose TUI is gone; "command" holds the lock, "sending" found it held,
\* "waiting" has enqueued its action.
Modes == {"off", "combined", "attached", "quit", "daemon", "command", "sending", "waiting"}

\* "boot" stands for the sweep and the scan, "final" for the drain after the signal,
\* "index" and "oneshot" for the re-index and the drain of a command, "leaving" for the
\* time from the last look at the queue to the release of the lock.
Engines == {"none", "boot", "tick", "drain", "final", "index", "oneshot", "leaving"}

Entry == [by : Sessions, state : {"pending", "resolved"}]

Pending == {k \in DOMAIN queue : queue[k].state = "pending"}
Oldest(k) == \A j \in Pending : k <= j

Init ==
    /\ mode = [p \in Sessions |-> "off"] /\ engine = [p \in Sessions |-> "none"]
    /\ holder = Nobody
    /\ signal = [p \in Sessions |-> FALSE]
    /\ queue = <<>> /\ own = [p \in Sessions |-> 0]
    /\ faults = 0 /\ broken = {}

-----------------------------------------------------------------------------
\* Starting.  The lock is taken in one atomic test-and-set.

\* m: the mode with the lock, e: the engine it then starts.
TakeLock(p, m, e) ==
    /\ mode[p] = "off" /\ holder = Nobody
    /\ holder' = p
    /\ mode' = [mode EXCEPT ![p] = m] /\ engine' = [engine EXCEPT ![p] = e]
    /\ broken' = broken \ {p}
    /\ UNCHANGED <<signal, queue, own, faults>>

\* The lock is held by another: m is the mode without an engine.
FindHeld(p, m) ==
    /\ mode[p] = "off" /\ holder # Nobody
    /\ mode' = [mode EXCEPT ![p] = m]
    /\ UNCHANGED <<engine, holder, signal, queue, own, faults, broken>>

\* taski: attach or spawn.  taski daemon: refuses when the lock is held.
RunCombined(p) == TakeLock(p, "combined", "boot") \/ FindHeld(p, "attached")
RunDaemon(p)   == TakeLock(p, "daemon", "boot")

\* taski tui: no look at the lock at all.
RunTui(p) ==
    /\ mode[p] = "off"
    /\ mode' = [mode EXCEPT ![p] = "attached"]
    /\ UNCHANGED <<engine, holder, signal, queue, own, faults, broken>>

\* taski done, schedule, add, ...: the lock is looked at before the action is enqueued.
Submit(p) == Len(queue) < MaxActions
             /\ (TakeLock(p, "command", "index") \/ FindHeld(p, "sending"))

-----------------------------------------------------------------------------
\* The interactive sessions.

Append1(p) == queue' = Append(queue, [by |-> p, state |-> "pending"])

Enqueue(p) ==
    /\ mode[p] \in {"combined", "attached"}
    /\ Len(queue) < MaxActions
    /\ Append1(p)
    /\ UNCHANGED <<mode, engine, holder, signal, own, faults, broken>>

\* Mutant: the session gives the lock back as soon as its TUI is gone.
QuitAndUnlock(p) ==
    \/ /\ mode[p] = "combined"
       /\ mode' = [mode EXCEPT ![p] = "quit"]
       /\ signal' = [signal EXCEPT ![p] = TRUE]
       /\ holder' = IF holder = p THEN Nobody ELSE holder
       /\ UNCHANGED <<engine, queue, own, faults, broken>>
    \/ /\ mode[p] = "attached"
       /\ mode' = [mode EXCEPT ![p] = "off"]
       /\ UNCHANGED <<engine, holder, signal, queue, own, faults, broken>>

\* The quit hook of a combined session sets the flag; an attached one just leaves.
Quit(p) ==
    \/ /\ mode[p] = "combined"
       /\ mode' = [mode EXCEPT ![p] = "quit"]
       /\ signal' = [signal EXCEPT ![p] = TRUE]
       /\ UNCHANGED <<engine, holder, queue, own, faults, broken>>
    \/ /\ mode[p] = "attached"
       /\ mode' = [mode EXCEPT ![p] = "off"]
       /\ UNCHANGED <<engine, holder, signal, queue, own, faults, broken>>

\* Ctrl-C on a standalone daemon.
Interrupt(p) ==
    /\ mode[p] = "daemon" /\ ~signal[p]
    /\ signal' = [signal EXCEPT ![p] = TRUE]
    /\ UNCHANGED <<mode, engine, holder, queue, own, faults, broken>>

\* The main thread joins the daemon thread, and the process ends.
Join(p) ==
    /\ mode[p] = "quit" /\ engine[p] = "none"
    /\ mode' = [mode EXCEPT ![p] = "off"]
    /\ signal' = [signal EXCEPT ![p] = FALSE]
    /\ UNCHANGED <<engine, holder, queue, own, faults, broken>>

-----------------------------------------------------------------------------
\* The engine.

Turn(p, from, to) ==
    /\ engine[p] = from
    /\ engine' = [engine EXCEPT ![p] = to]
    /\ UNCHANGED <<mode, holder, signal, queue, own, faults, broken>>

Scanned(p) == Turn(p, "boot", "tick")

\* Mutant: the flag is looked at after the drain only, and ends the loop at once.
TickWithoutDrain(p) == Turn(p, "tick", IF signal[p] THEN "leaving" ELSE "drain")

\* Mutant: the flag is not looked at.
TickDeaf(p) == Turn(p, "tick", "drain")

\* One turn of the watch loop: the flag decides whether its drain is the last one.
Tick(p) == Turn(p, "tick", IF signal[p] THEN "final" ELSE "drain")

\* One action of process_pending_actions, applied or refused.
Resolve(p) ==
    /\ engine[p] \in {"drain", "final", "oneshot"}
    /\ \E k \in Pending : Oldest(k) /\ queue' = [queue EXCEPT ![k].state = "resolved"]
    /\ UNCHANGED <<mode, engine, holder, signal, own, faults, broken>>

\* It found no pending action.
EndDrain(p) ==
    /\ Pending = {}
    /\ \/ Turn(p, "drain", "tick")
       \/ Turn(p, "final", "leaving")
       \/ Turn(p, "oneshot", "leaving")

\* Mutant: the lock is released, and the daemon's process hangs about.
DroppedOnly(p, m) ==
    /\ engine' = [engine EXCEPT ![p] = "none"]
    /\ holder' = IF holder = p THEN Nobody ELSE holder
    /\ UNCHANGED <<mode, signal, own, queue>>

\* The guard is dropped, and the lock with it.  A standalone daemon ends, a command goes
\* on to wait for its action.
Dropped(p, m) ==
    /\ engine' = [engine EXCEPT ![p] = "none"]
    /\ holder' = IF holder = p THEN Nobody ELSE holder
    /\ mode' = [mode EXCEPT ![p] = m]
    /\ signal' = IF m = "off" THEN [signal EXCEPT ![p] = FALSE] ELSE signal
    /\ own' = IF m = "off" THEN [own EXCEPT ![p] = 0] ELSE own
    /\ UNCHANGED queue

Leave(p) ==
    /\ engine[p] = "leaving"
    /\ \/ mode[p] = "daemon" /\ Dropped(p, "off")
       \/ mode[p] = "command" /\ Dropped(p, "waiting")
       \/ mode[p] \in {"combined", "quit"} /\ Dropped(p, mode[p])
    /\ UNCHANGED <<faults, broken>>

-----------------------------------------------------------------------------
\* The commands.

\* With the lock: the note is indexed, then the action is enqueued and drained.
IndexAndEnqueue(p) ==
    /\ engine[p] = "index"
    /\ engine' = [engine EXCEPT ![p] = "oneshot"]
    /\ Append1(p) /\ own' = [own EXCEPT ![p] = Len(queue) + 1]
    /\ UNCHANGED <<mode, holder, signal, faults, broken>>

\* Without it: the action is enqueued for the engine of another.
Send(p) ==
    /\ mode[p] = "sending"
    /\ mode' = [mode EXCEPT ![p] = "waiting"]
    /\ Append1(p) /\ own' = [own EXCEPT ![p] = Len(queue) + 1]
    /\ UNCHANGED <<engine, holder, signal, faults, broken>>

Report(p) ==
    /\ mode' = [mode EXCEPT ![p] = "off"] /\ own' = [own EXCEPT ![p] = 0]
    /\ UNCHANGED <<engine, holder, signal, queue, faults, broken>>

\* wait_for: the action is resolved, or its time is up.
Answered(p) == mode[p] = "waiting" /\ own[p] \notin Pending /\ Report(p)

\* Mutant: the time is up only for an engine that is there.
TimedOutWhileHeld(p) ==
    mode[p] = "waiting" /\ own[p] \in Pending /\ holder # Nobody /\ Report(p)

TimedOut(p) == mode[p] = "waiting" /\ own[p] \in Pending /\ Report(p)

-----------------------------------------------------------------------------
\* Failures.

Failing == faults < MaxFaults /\ faults' = faults + 1

\* The engine returns an error or panics: the guard is dropped.  A combined session goes
\* on without an engine, with its flag set; the others end.
EngineFails(p) ==
    /\ Failing /\ engine[p] # "none"
    /\ engine' = [engine EXCEPT ![p] = "none"]
    /\ holder' = IF holder = p THEN Nobody ELSE holder
    /\ mode' = [mode EXCEPT ![p] = IF @ \in {"combined", "quit"} THEN @ ELSE "off"]
    /\ signal' = [signal EXCEPT ![p] = mode[p] \in {"combined", "quit"}]
    /\ own' = [own EXCEPT ![p] = 0]
    /\ broken' = broken \cup {p}
    /\ UNCHANGED queue

\* A drain ends early: the loop logs it and goes on, the last time to the exit.
DrainFails(p) ==
    /\ Failing /\ engine[p] \in {"drain", "final"}
    /\ engine' = [engine EXCEPT ![p] = IF @ = "drain" THEN "tick" ELSE "leaving"]
    /\ broken' = IF engine[p] = "final" THEN broken \cup {p} ELSE broken
    /\ UNCHANGED <<mode, holder, signal, queue, own>>

\* The watcher's channel is closed: the loop ends without a last drain.
WatchEnds(p) ==
    /\ Failing /\ engine[p] = "tick"
    /\ engine' = [engine EXCEPT ![p] = "leaving"]
    /\ broken' = broken \cup {p}
    /\ UNCHANGED <<mode, holder, signal, queue, own>>

\* The process is killed: the system takes its lock away.
Kill(p) ==
    /\ Failing /\ mode[p] # "off"
    /\ Dropped(p, "off")
    /\ UNCHANGED broken

-----------------------------------------------------------------------------
User(p)   == \/ RunCombined(p) \/ RunDaemon(p) \/ RunTui(p) \/ Submit(p)
             \/ Enqueue(p) \/ Quit(p) \/ Interrupt(p)
Engine(p) == Scanned(p) \/ Tick(p) \/ Resolve(p) \/ EndDrain(p) \/ Leave(p)
Main(p)   == Join(p) \/ IndexAndEnqueue(p) \/ Send(p) \/ Answered(p) \/ TimedOut(p)
Fault(p)  == EngineFails(p) \/ DrainFails(p) \/ WatchEnds(p) \/ Kill(p)

Next == \E p \in Sessions : User(p) \/ Engine(p) \/ Main(p) \/ Fault(p)

\* A process runs on: its engine loops, its main thread joins, waits and reports.
\* Nobody has to start, quit or enqueue anything.
Fairness == \A p \in Sessions : WF_vars(Engine(p)) /\ WF_vars(Main(p))

Spec     == Init /\ [][Next]_vars
FairSpec == Spec /\ Fairness
=============================================================================

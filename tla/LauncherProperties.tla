------------------------- MODULE LauncherProperties -------------------------
(***************************************************************************)
(* What the lock and the shutdown handshake promise.                       *)
(***************************************************************************)
EXTENDS Launcher

\* Every variable has its type, and a session's engine fits what its main thread does.
LauncherTypeOK ==
    /\ mode \in [Sessions -> Modes] /\ engine \in [Sessions -> Engines]
    /\ holder \in Sessions \cup {Nobody}
    /\ signal \in [Sessions -> BOOLEAN]
    /\ queue \in Seq(Entry)
    /\ own \in [Sessions -> Nat]
    /\ faults \in Nat /\ broken \in SUBSET Sessions
    /\ \A p \in Sessions :
         /\ mode[p] \in {"off", "attached", "sending", "waiting"} => engine[p] = "none"
         /\ mode[p] = "daemon" => engine[p] \in {"boot", "tick", "drain", "final", "leaving"}
         /\ mode[p] = "command" => engine[p] \in {"index", "oneshot", "leaving"}

\* ADR-0008: at no time two engines run, whoever starts, quits, fails or is killed when:
\* two of them would collide on the temp file of a note and on the reconciliation.
SingleWriter ==
    \A p, q \in Sessions : engine[p] # "none" /\ engine[q] # "none" => p = q

\* ADR-0007: when a combined session is over, everything its user did has landed, or
\* has been refused: its last drain leaves no action of the session pending, unless
\* the engine failed.
QuitLands ==
    \A p \in Sessions :
        mode[p] = "quit" /\ engine[p] = "none" /\ p \notin broken =>
            \A k \in Pending : queue[k].by # p

\* A command ends, with or without a daemon, and whatever becomes of the daemon.
CommandEnds == \A p \in Sessions : mode[p] \in {"command", "sending", "waiting"} ~> mode[p] = "off"

\* A session that is told to quit ends: the join waits for the turn of the loop and the
\* last drain, and no longer.
QuitEnds == \A p \in Sessions : mode[p] = "quit" ~> mode[p] = "off"

-----------------------------------------------------------------------------
\* What the documents promise, and the code does not keep.

\* The skill: "Writes work with or without the Taski daemon running".  When nothing fails,
\* the action a command waits for is resolved.
Commands == \E p \in Sessions : Submit(p) \/ Engine(p) \/ Main(p)
CommandsSpec == Init /\ [][Commands]_vars /\ Fairness

CommandsWork ==
    \A p \in Sessions : \A k \in 1..MaxActions :
        mode[p] = "waiting" /\ own[p] = k ~> k \notin Pending
=============================================================================

--------------------------- MODULE Launcher_proofs ---------------------------
(***************************************************************************)
(* Whatever the number of sessions, at most one engine runs, and a session *)
(* that is over leaves none of its actions pending.                        *)
(***************************************************************************)
EXTENDS LauncherProperties, TLAPS

\* Types and the agreement of modes and engines hold in every step.
THEOREM LauncherTyping == Spec => []LauncherTypeOK
<1>1. Init => LauncherTypeOK
  BY LauncherAssumption DEF Init, LauncherTypeOK, Modes, Engines
<1>2. LauncherTypeOK /\ [Next]_vars => LauncherTypeOK'
  <2> SUFFICES ASSUME LauncherTypeOK, [Next]_vars PROVE LauncherTypeOK'
    OBVIOUS
  <2> USE DEF LauncherTypeOK, Modes, Engines
  <2>0. CASE UNCHANGED vars
    BY <2>0 DEF vars
  <2>1. ASSUME NEW p \in Sessions, User(p) PROVE LauncherTypeOK'
    <3>1. ASSUME NEW m \in {"combined", "daemon"}, TakeLock(p, m, "boot") PROVE LauncherTypeOK'
      BY <3>1 DEF TakeLock
    <3>2. CASE TakeLock(p, "command", "index")
      BY <3>2 DEF TakeLock
    <3>3. ASSUME NEW m \in {"attached", "sending"}, FindHeld(p, m) PROVE LauncherTypeOK'
      BY <3>3 DEF FindHeld
    <3>4. CASE RunTui(p)
      BY <3>4 DEF RunTui
    <3>5. CASE Enqueue(p)
      BY <3>5 DEF Enqueue, Append1, Entry
    <3>6. CASE Quit(p)
      BY <3>6 DEF Quit
    <3>7. CASE Interrupt(p)
      BY <3>7 DEF Interrupt
    <3> QED BY <2>1, <3>1, <3>2, <3>3, <3>4, <3>5, <3>6, <3>7 DEF User, RunCombined, RunDaemon, Submit
  <2>2. ASSUME NEW p \in Sessions, Engine(p) PROVE LauncherTypeOK'
    <3>1. CASE Scanned(p)
      BY <3>1 DEF Scanned, Turn
    <3>2. CASE Tick(p)
      BY <3>2 DEF Tick, Turn
    <3>3. CASE Resolve(p)
      <4>1. PICK k \in Pending : queue' = [queue EXCEPT ![k].state = "resolved"]
        BY <3>3 DEF Resolve
      <4>2. k \in DOMAIN queue /\ queue[k] \in Entry
        BY <4>1 DEF Pending
      <4>3. [queue[k] EXCEPT !.state = "resolved"] \in Entry
        BY <4>2 DEF Entry
      <4>4. queue' \in Seq(Entry)
        BY <4>1, <4>2, <4>3
      <4> QED BY <3>3, <4>4 DEF Resolve
    <3>4. CASE EndDrain(p)
      BY <3>4 DEF EndDrain, Turn
    <3>5. CASE Leave(p)
      <4>1. CASE mode[p] = "daemon" /\ Dropped(p, "off")
        BY <3>5, <4>1 DEF Leave, Dropped
      <4>2. CASE mode[p] = "command" /\ Dropped(p, "waiting")
        BY <3>5, <4>2 DEF Leave, Dropped
      <4>3. CASE mode[p] \in {"combined", "quit"} /\ Dropped(p, mode[p])
        BY <3>5, <4>3 DEF Leave, Dropped
      <4> QED BY <3>5, <4>1, <4>2, <4>3 DEF Leave
    <3> QED BY <2>2, <3>1, <3>2, <3>3, <3>4, <3>5 DEF Engine
  <2>3. ASSUME NEW p \in Sessions, Main(p) PROVE LauncherTypeOK'
    <3>1. CASE Join(p)
      BY <3>1 DEF Join
    <3>2. CASE IndexAndEnqueue(p)
      BY <3>2 DEF IndexAndEnqueue, Append1, Entry
    <3>3. CASE Send(p)
      BY <3>3 DEF Send, Append1, Entry
    <3>4. CASE mode[p] = "waiting" /\ Report(p)
      BY <3>4 DEF Report
    <3> QED BY <2>3, <3>1, <3>2, <3>3, <3>4 DEF Main, Answered, TimedOut
  <2>4. ASSUME NEW p \in Sessions, Fault(p) PROVE LauncherTypeOK'
    <3>1. CASE EngineFails(p)
      BY <3>1, LauncherAssumption DEF EngineFails, Failing
    <3>2. CASE DrainFails(p)
      BY <3>2, LauncherAssumption DEF DrainFails, Failing
    <3>4. CASE WatchEnds(p)
      BY <3>4, LauncherAssumption DEF WatchEnds, Failing
    <3>3. CASE Kill(p)
      BY <3>3, LauncherAssumption DEF Kill, Failing, Dropped
    <3> QED BY <2>4, <3>1, <3>2, <3>3, <3>4 DEF Fault
  <2> QED BY <2>0, <2>1, <2>2, <2>3, <2>4 DEF Next
<1> QED BY <1>1, <1>2, PTL DEF Spec

-----------------------------------------------------------------------------

\* The engine runs under the lock only: the guard is moved into run_daemon.
LockInv == \A p \in Sessions : engine[p] # "none" => holder = p

\* The first engine keeps the lock until it has left the vault alone, so no session that
\* is started meanwhile gets one of its own.
THEOREM OneEngine == Spec => []SingleWriter
<1>1. Init => LockInv
  BY DEF Init, LockInv
<1>2. LauncherTypeOK /\ LockInv /\ [Next]_vars => LockInv'
  <2> SUFFICES ASSUME LauncherTypeOK, LockInv, [Next]_vars PROVE LockInv'
    OBVIOUS
  <2> USE DEF LockInv, LauncherTypeOK
  <2>0. CASE UNCHANGED vars
    BY <2>0 DEF vars
  <2>1. ASSUME NEW p \in Sessions, NEW m, NEW e, TakeLock(p, m, e) PROVE LockInv'
    BY <2>1, LauncherAssumption DEF TakeLock
  <2>2. ASSUME NEW p \in Sessions, UNCHANGED <<engine, holder>> PROVE LockInv'
    BY <2>2
  <2>3. ASSUME NEW p \in Sessions, Engine(p) PROVE LockInv'
    <3>1. CASE Resolve(p)
      BY <3>1 DEF Resolve
    <3>2. ASSUME NEW f \in Engines \ {"none"}, NEW t, Turn(p, f, t) PROVE LockInv'
      BY <3>2 DEF Turn
    <3>3. CASE Leave(p)
      BY <3>3 DEF Leave, Dropped
    <3> QED BY <2>3, <3>1, <3>2, <3>3 DEF Engine, Scanned, Tick, EndDrain, Engines
  <2>4. ASSUME NEW p \in Sessions, Fault(p) PROVE LockInv'
    <3>1. CASE EngineFails(p)
      BY <3>1 DEF EngineFails
    <3>2. CASE DrainFails(p)
      BY <3>2 DEF DrainFails
    <3>4. CASE WatchEnds(p)
      BY <3>4 DEF WatchEnds
    <3>3. CASE Kill(p)
      BY <3>3 DEF Kill, Dropped
    <3> QED BY <2>4, <3>1, <3>2, <3>3, <3>4 DEF Fault
  <2>5. ASSUME NEW p \in Sessions, IndexAndEnqueue(p) PROVE LockInv'
    BY <2>5 DEF IndexAndEnqueue
  <2>6. ASSUME NEW p \in Sessions, User(p) PROVE LockInv'
    BY <2>6, <2>1, <2>2 DEF User, RunCombined, RunDaemon, RunTui, Submit, FindHeld, Enqueue,
                            Quit, Interrupt
  <2>7. ASSUME NEW p \in Sessions, Main(p) PROVE LockInv'
    BY <2>7, <2>2, <2>5 DEF Main, Join, Send, Answered, TimedOut, Report
  <2> QED BY <2>0, <2>3, <2>4, <2>6, <2>7 DEF Next
<1>3. LockInv => SingleWriter
  BY DEF LockInv, SingleWriter
<1> QED BY <1>1, <1>2, <1>3, LauncherTyping, PTL DEF Spec

-----------------------------------------------------------------------------

\* Before the quit the engine of a combined session has no reason to stop; after it the
\* flag is set, so that it cannot leave but through the last drain, which it ends with an
\* empty queue; and a session whose TUI is gone enqueues no more.
QuitInv ==
    \A p \in Sessions :
       /\ signal[p] => mode[p] \in {"combined", "quit", "daemon"}
       /\ mode[p] = "combined" /\ p \notin broken =>
            engine[p] \in {"boot", "tick", "drain"} /\ ~signal[p]
       /\ mode[p] = "quit" /\ p \notin broken =>
            /\ signal[p]
            /\ engine[p] \in {"none", "leaving"} => \A k \in Pending : queue[k].by # p

\* An action appended by a session that still can is none of a session that has quit.
LEMMA AppendedByAnother ==
    ASSUME LauncherTypeOK, NEW p \in Sessions, NEW q \in Sessions, p # q, Append1(q),
           \A k \in Pending : queue[k].by # p
    PROVE  \A k \in Pending' : queue'[k].by # p
  BY DEF LauncherTypeOK, Append1, Pending, Entry

\* "Quit" means that everything the user did has landed.
THEOREM LastDrainIsComplete == Spec => []QuitLands
<1>1. Init => QuitInv
  BY DEF Init, QuitInv
<1>2. LauncherTypeOK /\ QuitInv /\ [Next]_vars => QuitInv'
  <2> SUFFICES ASSUME LauncherTypeOK, QuitInv, [Next]_vars PROVE QuitInv'
    OBVIOUS
  <2> USE DEF QuitInv, LauncherTypeOK
  <2>0. CASE UNCHANGED vars
    BY <2>0 DEF vars, Pending
  <2>1. ASSUME NEW p \in Sessions, User(p) PROVE QuitInv'
    <3>1. ASSUME NEW m \in {"combined", "daemon"}, TakeLock(p, m, "boot") PROVE QuitInv'
      BY <3>1 DEF TakeLock, Pending
    <3>2. CASE TakeLock(p, "command", "index")
      BY <3>2 DEF TakeLock, Pending
    <3>3. ASSUME NEW m \in {"attached", "sending"}, FindHeld(p, m) PROVE QuitInv'
      BY <3>3 DEF FindHeld, Pending
    <3>4. CASE RunTui(p)
      BY <3>4 DEF RunTui, Pending
    <3>5. CASE Enqueue(p)
      BY <3>5, AppendedByAnother DEF Enqueue
    <3>6. CASE Quit(p)
      <4>1. Pending' = Pending /\ queue' = queue /\ engine' = engine /\ broken' = broken
        BY <3>6 DEF Quit, Pending
      <4>2. CASE mode[p] = "combined"
        <5>1. mode' = [mode EXCEPT ![p] = "quit"] /\ signal' = [signal EXCEPT ![p] = TRUE]
          BY <3>6, <4>2 DEF Quit
        <5> QED BY <4>1, <4>2, <5>1
      <4>3. CASE mode[p] = "attached"
        <5>1. mode' = [mode EXCEPT ![p] = "off"] /\ signal' = signal
          BY <3>6, <4>3 DEF Quit
        <5> QED BY <4>1, <4>3, <5>1
      <4> QED BY <3>6, <4>2, <4>3 DEF Quit
    <3>7. CASE Interrupt(p)
      BY <3>7 DEF Interrupt, Pending
    <3> QED BY <2>1, <3>1, <3>2, <3>3, <3>4, <3>5, <3>6, <3>7 DEF User, RunCombined, RunDaemon, Submit
  <2>2. ASSUME NEW p \in Sessions, Engine(p) PROVE QuitInv'
    <3>1. CASE Scanned(p)
      BY <3>1 DEF Scanned, Turn, Pending
    <3>2. CASE Tick(p)
      BY <3>2 DEF Tick, Turn, Pending
    <3>3. CASE Resolve(p)
      <4>1. Pending' \in SUBSET Pending /\ \A k \in Pending' : queue'[k].by = queue[k].by
        BY <3>3 DEF Resolve, Pending
      <4> QED BY <3>3, <4>1 DEF Resolve
    <3>4. CASE EndDrain(p)
      BY <3>4 DEF EndDrain, Turn, Pending
    <3>5. CASE Leave(p)
      <4>1. Pending' = Pending /\ queue' = queue /\ broken' = broken
        BY <3>5 DEF Leave, Dropped, Pending
      <4>2. CASE mode[p] = "daemon" /\ Dropped(p, "off")
        BY <4>1, <4>2 DEF Dropped
      <4>3. CASE mode[p] = "command" /\ Dropped(p, "waiting")
        BY <4>1, <4>3 DEF Dropped
      <4>4. CASE mode[p] \in {"combined", "quit"} /\ Dropped(p, mode[p])
        BY <3>5, <4>1, <4>4 DEF Leave, Dropped, Modes
      <4> QED BY <3>5, <4>2, <4>3, <4>4 DEF Leave
    <3> QED BY <2>2, <3>1, <3>2, <3>3, <3>4, <3>5 DEF Engine
  <2>3. ASSUME NEW p \in Sessions, Main(p) PROVE QuitInv'
    <3>1. CASE Join(p)
      BY <3>1 DEF Join, Pending
    <3>2. CASE IndexAndEnqueue(p)
      BY <3>2, AppendedByAnother DEF IndexAndEnqueue
    <3>3. CASE Send(p)
      BY <3>3, AppendedByAnother DEF Send
    <3>4. CASE mode[p] = "waiting" /\ Report(p)
      BY <3>4 DEF Report, Pending
    <3> QED BY <2>3, <3>1, <3>2, <3>3, <3>4 DEF Main, Answered, TimedOut
  <2>4. ASSUME NEW p \in Sessions, Fault(p) PROVE QuitInv'
    <3>1. CASE EngineFails(p)
      BY <3>1 DEF EngineFails, Failing, Pending
    <3>2. CASE DrainFails(p)
      BY <3>2 DEF DrainFails, Failing, Pending
    <3>4. CASE WatchEnds(p)
      BY <3>4 DEF WatchEnds, Failing, Pending
    <3>3. CASE Kill(p)
      <4>1. Pending' = Pending /\ queue' = queue /\ broken' = broken
        BY <3>3 DEF Kill, Dropped, Pending
      <4> QED BY <3>3, <4>1 DEF Kill, Dropped
    <3> QED BY <2>4, <3>1, <3>2, <3>3, <3>4 DEF Fault
  <2> QED BY <2>0, <2>1, <2>2, <2>3, <2>4 DEF Next
<1>3. QuitInv => QuitLands
  BY DEF QuitInv, QuitLands
<1> QED BY <1>1, <1>2, <1>3, LauncherTyping, PTL DEF Spec
=============================================================================

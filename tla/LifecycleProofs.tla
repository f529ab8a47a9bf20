--------------------------- MODULE LifecycleProofs ---------------------------
(***************************************************************************)
(* Theorems about Lifecycle.tla, for any number of concurrent AlphaGSM     *)
(* processes, any waiting times and any faults: the loops of stop stay in  *)
(* their bounds, and on docker and tmux one name has at most one server.   *)
(* Then what holds for one command at a time, and on the subprocess        *)
(* backend that no living server is forgotten.                             *)
(***************************************************************************)
EXTENDS Lifecycle, TLAPS

USE SettingsAssumption, BoundsAssumption

\* What the counters of stop are worth at each point.
Loop ==
  \A c \in Clis :
    /\ pc[c] \in {"stop", "restorecheck"} => minute[c] = 0
    /\ pc[c] \in {"dostop", "poll", "lastpoll"} => minute[c] < MaxWait
    /\ pc[c] = "poll" => poll[c] < Polls

\* Which way of starting a server belongs to which backend.
Routes ==
  \A c \in Clis :
    /\ pc[c] \in {"inspect", "rm", "run", "killrm"} => Backend = "docker"
    /\ pc[c] \in {"launch", "pidwrite"} => Backend = "subprocess"
    /\ pc[c] = "spawn" => Backend # "docker"
    /\ pc[c] = "pidwrite" => seen[c] \in Incarnations

\* The container's name, and tmux's session name, belong to one server.
Named ==
  /\ Backend = "docker" => Alive \subseteq {container}
  /\ Backend = "tmux" => OneServer

\* The configuration says one of the four backends.
LEMMA BackendKnown == TypeOK => Backend \in Backends /\ Console \in BOOLEAN
  BY DEF TypeOK, Backend, Console, Setting

IInv == TypeOK /\ Loop /\ Routes /\ Named

LEMMA InitOK == Init => IInv
  <1> SUFFICES ASSUME Init PROVE IInv
    OBVIOUS
  <1>1. None \notin Incarnations /\ Unread \notin Incarnations
    BY DEF None, Unread, Incarnations
  <1>2. cmd \in [Clis -> Commands]
    BY DEF Init, Commands
  <1>3. TypeOK
    BY <1>2 DEF Init, TypeOK, Points
  <1>4. Loop /\ Routes
    BY DEF Init, Loop, Routes
  <1>5. Named
    BY DEF Init, Named, Alive, OneServer
  <1>6. QED
    BY <1>3, <1>4, <1>5 DEF IInv

-----------------------------------------------------------------------------
(* is_running leaves the servers alone and keeps what the tracks are.       *)
LEMMA RunningTracks ==
  ASSUME TypeOK, NEW c \in Clis, NEW up \in BOOLEAN, Running(c, up)
  PROVE  /\ pidfile' \in Incarnations \cup {None}
         /\ seen' \in [Clis -> Incarnations \cup {None, Unread}]
         /\ \A d \in Clis \ {c} : seen'[d] = seen[d]
  BY DEF TypeOK, Running, tracks

\* A command that only moves on: what is left to show is where it goes.
Moves(c, label) ==
  /\ label \in Points
  /\ pc' = [pc EXCEPT ![c] = label]
  /\ outcome' \in [Clis -> {"none", "ok", "error", "crash"}]

LEMMA GotoMoves ==
  ASSUME TypeOK, NEW c \in Clis, NEW label \in Points, Goto(c, label)
  PROVE  Moves(c, label)
  BY DEF Goto, Moves, TypeOK

LEMMA EndMoves ==
  ASSUME TypeOK, NEW c \in Clis, NEW how \in {"ok", "error", "crash"}, End(c, how)
  PROVE  Moves(c, "idle")
  BY DEF End, Moves, TypeOK, Points

\* Where an error of stop, and a return of stop, lead.
LEMMA RaisesMoves ==
  ASSUME TypeOK, NEW c \in Clis, StopRaises(c)
  PROVE  \E label \in {"files", "idle"} : Moves(c, label)
  BY GotoMoves, EndMoves DEF StopRaises, Points

LEMMA ReturnsMoves ==
  ASSUME TypeOK, NEW c \in Clis, StopReturns(c)
  PROVE  \E label \in {"files", "idle", "start"} : Moves(c, label)
  BY GotoMoves, EndMoves DEF StopReturns, Points

\* Moving to a point that neither counts minutes nor starts a server keeps
\* the counters' and the routes' invariants.
Neutral == {"idle", "start", "ports", "killcheck", "kill",
            "afterkill", "wipecheck", "files"}

LEMMA NeutralKeeps ==
  ASSUME TypeOK, Backend' = Backend, Loop, Routes, NEW c \in Clis, NEW label \in Neutral, Moves(c, label),
         UNCHANGED loop, \A d \in Clis \ {c} : seen'[d] = seen[d]
  PROVE  Loop' /\ Routes'
  BY DEF TypeOK, Loop, Routes, Neutral, Moves, loop

\* The acts that decide: one lemma for the counters and the routes.
LEMMA ControlStep ==
  ASSUME IInv, NEW c \in Clis, Begin(c) \/ Step(c) \/ Crash(c), UNCHANGED setting
  PROVE  Loop' /\ Routes' /\ TypeOK'
<1> USE DEF IInv
<1> Backend' = Backend
  BY DEF Backend
<1>1. CASE Begin(c)
  <2>1. PICK command \in Commands, a \in BOOLEAN :
          /\ cmd' = [cmd EXCEPT ![c] = command]
          /\ again' = [again EXCEPT ![c] = a]
          /\ pc' = [pc EXCEPT ![c] = First(command)]
    BY <1>1 DEF Begin
  <2>2. First(command) \in {"start", "stop", "killcheck", "wipecheck", "restorecheck"}
    BY DEF First
  <2>3. Loop' /\ Routes'
    BY <1>1, <2>1, <2>2 DEF Begin, TypeOK, Loop, Routes, world
  <2>4. TypeOK'
    BY <1>1, <2>1, <2>2 DEF Begin, TypeOK, Points, world
  <2>5. QED
    BY <2>3, <2>4
<1>2. CASE Crash(c)
  <2>1. Moves(c, "idle")
    BY <1>2, EndMoves DEF Crash
  <2>2. TypeOK'
    BY <1>2, <2>1 DEF Crash, TypeOK, Moves, world, tracks, loop, task
  <2>3. Loop' /\ Routes'
    BY <1>2, <2>1, NeutralKeeps DEF Crash, Neutral, tracks, loop
  <2>4. QED
    BY <2>2, <2>3
<1>3. CASE ReadPid(c)
  BY <1>3 DEF ReadPid, TypeOK, Loop, Routes, ProbePoints, world, loop, task
\* The checks that count nothing.
<1>4. CASE StartCheck(c) \/ KillCheck(c) \/ AfterKill(c) \/ WipeCheck(c)
  <2>1. PICK up \in BOOLEAN : Running(c, up)
    BY <1>4 DEF StartCheck, KillCheck, AfterKill, WipeCheck
  <2>2. \E label \in Neutral : Moves(c, label)
    BY <1>4, GotoMoves, EndMoves, RaisesMoves, ReturnsMoves
    DEF StartCheck, KillCheck, AfterKill, WipeCheck, Neutral, Points
  <2>3. UNCHANGED <<world, loop, task>>
    BY <1>4 DEF StartCheck, KillCheck, AfterKill, WipeCheck
  <2>4. TypeOK'
    BY <2>1, <2>2, <2>3, RunningTracks DEF TypeOK, Moves, world, loop, task
  <2>5. Loop' /\ Routes'
    BY <2>1, <2>2, <2>3, RunningTracks, NeutralKeeps
  <2>6. QED
    BY <2>4, <2>5
<1>5. CASE LaunchCheck(c) \/ StopCheck(c) \/ RestoreCheck(c)
  <2>1. PICK up \in BOOLEAN : Running(c, up)
    BY <1>5 DEF LaunchCheck, StopCheck, RestoreCheck
  <2>2. \/ \E label \in Neutral : Moves(c, label)
        \/ pc[c] = "launch" /\ Moves(c, "spawn")
        \/ pc[c] = "stop" /\ Moves(c, "dostop")
        \/ pc[c] = "restorecheck" /\ Moves(c, "stop")
    BY <1>5, GotoMoves, EndMoves, RaisesMoves DEF LaunchCheck, StopCheck, RestoreCheck, Neutral, Points
  <2>3. UNCHANGED <<world, loop, task>>
    BY <1>5 DEF LaunchCheck, StopCheck, RestoreCheck
  <2>4. TypeOK'
    BY <2>1, <2>2, <2>3, RunningTracks DEF TypeOK, Moves, world, loop, task
  <2>5. ASSUME NEW label \in Neutral, Moves(c, label) PROVE Loop' /\ Routes'
    BY <2>1, <2>3, <2>5, RunningTracks, NeutralKeeps
  <2>6. ASSUME \A label \in Neutral : ~Moves(c, label) PROVE Loop' /\ Routes'
    <3>1. \A d \in Clis \ {c} : seen'[d] = seen[d]
      BY <2>1, RunningTracks
    <3>2. QED
      BY <2>2, <2>3, <2>6, <3>1 DEF TypeOK, Loop, Routes, Moves, loop
  <2>7. QED
    BY <2>4, <2>5, <2>6
<1>6. CASE AssertPorts(c)
  <2>1. \/ Moves(c, "idle")
        \/ Backend = "subprocess" /\ Moves(c, "launch")
        \/ Backend = "docker" /\ Moves(c, "inspect")
        \/ Backend # "docker" /\ Moves(c, "spawn")
    BY <1>6, GotoMoves, EndMoves DEF AssertPorts, Points
  <2>2. TypeOK'
    BY <1>6, <2>1 DEF AssertPorts, TypeOK, Moves, world, tracks, loop, task
  <2>3. Loop' /\ Routes'
    BY <1>6, <2>1 DEF AssertPorts, TypeOK, Loop, Routes, Moves, tracks, loop
  <2>4. QED
    BY <2>2, <2>3
<1>7. CASE Inspect(c)
  <2>1. (\E label \in {"run", "rm"} : Moves(c, label)) \/ Moves(c, "idle")
    BY <1>7, GotoMoves, EndMoves DEF Inspect, Points
  <2>2. TypeOK'
    BY <1>7, <2>1 DEF Inspect, TypeOK, Moves, world, tracks, loop, task
  <2>3. Loop' /\ Routes'
    BY <1>7, <2>1 DEF Inspect, TypeOK, Loop, Routes, Moves, tracks, loop
  <2>4. QED
    BY <2>2, <2>3
<1>8. CASE Remove(c) \/ Run(c) \/ RunRefused(c)
  <2>1. \/ Moves(c, "idle")
        \/ pc[c] = "rm" /\ Moves(c, "run")
    BY <1>8, GotoMoves, EndMoves DEF Remove, Run, RunRefused, Points
  <2>2. /\ UNCHANGED <<tracks, loop, task>>
        /\ server' \in [Incarnations -> {"new", "up", "asked", "gone"}]
        /\ container' \in Incarnations \cup {None}
    BY <1>8 DEF Remove, Run, RunRefused, TypeOK, StopNamed, world
  <2>3. TypeOK'
    BY <2>1, <2>2 DEF TypeOK, Moves, tracks, loop, task
  <2>4. Loop' /\ Routes'
    BY <2>1, <2>2 DEF TypeOK, Loop, Routes, Moves, tracks, loop
  <2>5. QED
    BY <2>3, <2>4
<1>9. CASE Spawn(c)
  <2>1. PICK i \in Incarnations :
          /\ server' = [server EXCEPT ![i] = "up"]
          /\ seen' = [seen EXCEPT ![c] = IF Backend = "subprocess" THEN i ELSE @]
    BY <1>9 DEF Spawn
  <2>2. \/ Backend = "subprocess" /\ Moves(c, "pidwrite")
        \/ Moves(c, "idle")
    BY <1>9, GotoMoves, EndMoves DEF Spawn, Points
  <2>3. UNCHANGED <<container, pidfile, loop, task>>
    BY <1>9 DEF Spawn
  <2>4. TypeOK'
    BY <2>1, <2>2, <2>3 DEF TypeOK, Moves, loop, task
  <2>5. Loop' /\ Routes'
    BY <2>1, <2>2, <2>3 DEF TypeOK, Loop, Routes, Moves, loop
  <2>6. QED
    BY <2>4, <2>5
<1>10. CASE SpawnRefused(c) \/ ReplaceFiles(c)
  <2>1. \E label \in Neutral : Moves(c, label)
    BY <1>10, GotoMoves, EndMoves DEF SpawnRefused, ReplaceFiles, Neutral, Points
  <2>2. UNCHANGED <<world, tracks, loop, task>>
    BY <1>10 DEF SpawnRefused, ReplaceFiles
  <2>3. TypeOK'
    BY <2>1, <2>2 DEF TypeOK, Moves, world, tracks, loop, task
  <2>4. Loop' /\ Routes'
    BY <2>1, <2>2, NeutralKeeps DEF tracks
  <2>5. QED
    BY <2>3, <2>4
<1>11. CASE WritePid(c)
  <2>1. Moves(c, "idle")
    BY <1>11, EndMoves DEF WritePid
  <2>2. pidfile' \in Incarnations
    BY <1>11 DEF WritePid, Routes
  <2>3. TypeOK'
    BY <1>11, <2>1, <2>2 DEF WritePid, TypeOK, Moves, world, loop, task
  <2>4. Loop' /\ Routes'
    BY <1>11, <2>1, NeutralKeeps DEF WritePid, Neutral
  <2>5. QED
    BY <2>3, <2>4
<1>12. CASE DoStop(c)
  <2>1. PICK i \in Incarnations : server' = [server EXCEPT ![i] = "asked"]
    BY <1>12 DEF DoStop
  <2>2. Moves(c, "poll")
    BY <1>12, GotoMoves DEF DoStop, Points
  <2>3. TypeOK'
    BY <1>12, <2>1, <2>2 DEF DoStop, TypeOK, Moves, tracks, task
  <2>4. Loop' /\ Routes'
    BY <1>12, <2>2 DEF DoStop, TypeOK, Loop, Routes, Moves, tracks
  <2>5. QED
    BY <2>3, <2>4
<1>12a. CASE DoStopFails(c)
  <2>1. server' \in [Incarnations -> {"new", "up", "asked", "gone"}]
    BY <1>12a DEF DoStopFails, TypeOK
  <2>2. Moves(c, "kill")
    BY <1>12a, GotoMoves DEF DoStopFails, Points
  <2>3. UNCHANGED <<container, tracks, loop, task>>
    BY <1>12a DEF DoStopFails
  <2>4. TypeOK'
    BY <2>1, <2>2, <2>3 DEF TypeOK, Moves, tracks, loop, task
  <2>5. Loop' /\ Routes'
    BY <2>2, <2>3, NeutralKeeps DEF Neutral, tracks
  <2>6. QED
    BY <2>4, <2>5
<1>13. CASE PollAgain(c)
  <2>1. PICK up \in BOOLEAN : Running(c, up)
    BY <1>13 DEF PollAgain
  <2>2. \/ /\ poll' = [poll EXCEPT ![c] = @ + 1]
           /\ \/ poll[c] + 1 < Polls /\ Moves(c, "poll")
              \/ Moves(c, "lastpoll")
        \/ UNCHANGED poll /\ \E label \in Neutral : Moves(c, label)
    BY <1>13, GotoMoves, ReturnsMoves DEF PollAgain, Points, Neutral
  <2>3. pc[c] = "poll" /\ UNCHANGED <<world, minute, task>>
    BY <1>13 DEF PollAgain
  <2>4. TypeOK'
    BY <2>1, <2>2, <2>3, RunningTracks DEF TypeOK, Loop, Moves, world, task
  <2>5. Loop' /\ Routes'
    <3>1. \A d \in Clis \ {c} : seen'[d] = seen[d]
      BY <2>1, RunningTracks
    <3>2. QED
      BY <2>2, <2>3, <3>1 DEF TypeOK, Loop, Routes, Moves, Neutral
  <2>6. QED
    BY <2>4, <2>5
<1>14. CASE MinuteOver(c)
  <2>1. PICK up \in BOOLEAN : Running(c, up)
    BY <1>14 DEF MinuteOver
  <2>2. \/ /\ minute' = [minute EXCEPT ![c] = @ + 1]
           /\ \/ minute[c] + 1 < MaxWait /\ Moves(c, "dostop")
              \/ Moves(c, "kill")
        \/ UNCHANGED minute /\ \E label \in Neutral : Moves(c, label)
    BY <1>14, GotoMoves, ReturnsMoves DEF MinuteOver, NextMinute, Points, Neutral
  <2>3. pc[c] = "lastpoll" /\ UNCHANGED <<world, poll, task>>
    BY <1>14 DEF MinuteOver
  <2>4. TypeOK'
    BY <2>1, <2>2, <2>3, RunningTracks DEF TypeOK, Loop, Moves, world, task
  <2>5. Loop' /\ Routes'
    <3>1. \A d \in Clis \ {c} : seen'[d] = seen[d]
      BY <2>1, RunningTracks
    <3>2. QED
      BY <2>2, <2>3, <3>1 DEF TypeOK, Loop, Routes, Moves, Neutral
  <2>6. QED
    BY <2>4, <2>5
<1>15. CASE StopContainer(c)
  <2>1. Moves(c, "killrm")
    BY <1>15, GotoMoves DEF StopContainer, Points
  <2>2. UNCHANGED <<container, tracks, loop, task>> /\ Backend = "docker"
    BY <1>15 DEF StopContainer
  <2>3. server' \in [Incarnations -> {"new", "up", "asked", "gone"}]
    BY <1>15 DEF StopContainer, StopNamed, TypeOK
  <2>4. TypeOK'
    BY <2>1, <2>2, <2>3 DEF TypeOK, Moves, tracks, loop, task
  <2>5. Loop' /\ Routes'
    BY <2>1, <2>2 DEF TypeOK, Loop, Routes, Moves, tracks, loop
  <2>6. QED
    BY <2>4, <2>5
<1>16. CASE KillSession(c) \/ KillByPidfile(c) \/ RemoveContainer(c)
  <2>1. \E label \in Neutral : Moves(c, label)
    BY <1>16, GotoMoves, RaisesMoves
    DEF KillSession, KillByPidfile, RemoveContainer, Neutral, Points
  <2>2. UNCHANGED <<seen, loop, task>>
    BY <1>16 DEF KillSession, KillByPidfile, RemoveContainer, tracks
  <2>3. /\ server' \in [Incarnations -> {"new", "up", "asked", "gone"}]
        /\ container' \in Incarnations \cup {None}
        /\ pidfile' \in Incarnations \cup {None}
    BY <1>16 DEF KillSession, KillByPidfile, RemoveContainer, TypeOK, StopNamed, tracks, world
  <2>4. TypeOK'
    BY <2>1, <2>2, <2>3 DEF TypeOK, Moves, loop, task
  <2>5. Loop' /\ Routes'
    BY <2>1, <2>2, NeutralKeeps
  <2>6. QED
    BY <2>4, <2>5
<1>17. QED
  BY <1>1, <1>2, <1>3, <1>4, <1>5, <1>6, <1>7, <1>8, <1>9, <1>10, <1>11, <1>12, <1>12a,
     <1>13, <1>14, <1>15, <1>16 DEF Step

-----------------------------------------------------------------------------
\* Named survives every step after which no new server lives under the same
\* container name.
LEMMA FewerKeeps ==
  ASSUME Named, Alive' \subseteq Alive, UNCHANGED container, Backend' = Backend
  PROVE  Named'
  BY DEF Named, OneServer

\* docker rm -f leaves no server alive.
LEMMA RemovalKeeps ==
  ASSUME TypeOK, Named, StopNamed, container' = None, Backend = "docker", Backend' = Backend
  PROVE  Named'
  <1>1. Alive' = {}
    BY DEF TypeOK, Named, Alive, StopNamed, None, Incarnations
  <1>2. QED
    BY <1>1 DEF Named

LEMMA NamedStep ==
  ASSUME IInv, [Next]_vars
  PROVE  Named'
<1> USE DEF IInv
<1> Backend' = Backend
  BY DEF Backend, Next, vars
<1>1. CASE UNCHANGED vars
  BY <1>1, FewerKeeps DEF vars, world, Alive
<1>2. CASE \E i \in Incarnations : Exit(i)
  <2>1. Alive' \subseteq Alive
    BY <1>2 DEF Exit, Alive, TypeOK
  <2>2. QED
    BY <1>2, <2>1, FewerKeeps DEF Exit
<1>3. ASSUME NEW c \in Clis, Begin(c) \/ Step(c) \/ Crash(c) PROVE Named'
  <2>1. CASE UNCHANGED world
    BY <2>1, FewerKeeps DEF world, Alive
  <2>2. CASE Remove(c)
    BY <2>2, RemovalKeeps DEF Remove, Routes
  <2>3. CASE Run(c)
    <3>1. PICK i \in Incarnations : server' = [server EXCEPT ![i] = "up"] /\ container' = i
      BY <2>3 DEF Run
    <3>2. Backend = "docker" /\ container = None
      BY <2>3 DEF Run, Routes, ContainerNameFree
    <3>3. Alive = {}
      BY <3>2 DEF Named, Alive, None, Incarnations
    <3>4. Alive' = {i}
      BY <3>1, <3>3 DEF Alive, TypeOK
    <3>5. QED
      BY <3>1, <3>2, <3>4 DEF Named
  <2>4. CASE RunRefused(c)
    <3>1. CASE UNCHANGED world
      BY <3>1, <2>1
    <3>2. CASE ContainerNameFree /\ ~UNCHANGED world
      <4>1. PICK i \in Incarnations : server' = [server EXCEPT ![i] = "gone"] /\ container' = i
        BY <2>4, <3>2 DEF RunRefused
      <4>2. Backend = "docker" /\ Alive = {}
        BY <2>4, <3>2 DEF RunRefused, Routes, ContainerNameFree, Named, Alive, None, Incarnations
      <4>3. Alive' = {}
        BY <4>1, <4>2 DEF Alive, TypeOK
      <4>4. QED
        BY <4>2, <4>3 DEF Named
    <3>3. QED
      BY <2>4, <3>1, <3>2 DEF RunRefused
  <2>5. CASE Spawn(c)
    <3>1. PICK i \in Incarnations : server' = [server EXCEPT ![i] = "up"]
      BY <2>5 DEF Spawn
    <3>2. Backend # "docker" /\ (Backend = "tmux" => Alive = {})
      BY <2>5 DEF Spawn, Routes, NameFree
    <3>3. Alive' = Alive \cup {i}
      BY <3>1 DEF Alive, TypeOK
    <3>4. QED
      BY <3>2, <3>3 DEF Named, OneServer
  <2>6. CASE DoStop(c) \/ DoStopFails(c) \/ KillSession(c) \/ KillByPidfile(c) \/ StopContainer(c)
    <3>1. Alive' \subseteq Alive
      <4>1. CASE DoStop(c) \/ DoStopFails(c)
        BY <4>1 DEF DoStop, DoStopFails, CanSend, Alive, TypeOK
      <4>2. CASE KillSession(c) \/ KillByPidfile(c) \/ StopContainer(c)
        BY <4>2 DEF KillSession, KillByPidfile, StopContainer, StopNamed, Alive, TypeOK
      <4>3. QED
        BY <2>6, <4>1, <4>2
    <3>2. UNCHANGED container
      BY <2>6 DEF DoStop, DoStopFails, KillSession, KillByPidfile, StopContainer
    <3>3. QED
      BY <3>1, <3>2, FewerKeeps
  <2>7. CASE RemoveContainer(c) /\ ~UNCHANGED world
    <3>1. StopNamed /\ container' = None
      BY <2>7 DEF RemoveContainer
    <3>2. CASE Backend = "docker"
      BY <3>1, <3>2, RemovalKeeps
    <3>3. CASE Backend # "docker"
      <4>1. Alive' \subseteq Alive
        BY <3>1 DEF StopNamed, Alive
      <4>2. QED
        BY <3>3, <4>1 DEF Named, OneServer
    <3>4. QED
      BY <3>2, <3>3
  <2>8. CASE Begin(c) \/ Crash(c) \/ ReadPid(c) \/ StartCheck(c) \/ AssertPorts(c)
              \/ LaunchCheck(c) \/ Inspect(c) \/ SpawnRefused(c) \/ WritePid(c)
    BY <2>1, <2>8 DEF Begin, Crash, ReadPid, StartCheck, AssertPorts, LaunchCheck,
       Inspect, SpawnRefused, WritePid
  <2>9. CASE StopCheck(c) \/ PollAgain(c) \/ MinuteOver(c) \/ KillCheck(c)
              \/ AfterKill(c) \/ WipeCheck(c) \/ RestoreCheck(c) \/ ReplaceFiles(c)
    BY <2>1, <2>9 DEF StopCheck, PollAgain, MinuteOver, KillCheck,
       AfterKill, WipeCheck, RestoreCheck, ReplaceFiles
  <2>10. QED
    BY <1>3, <2>1, <2>2, <2>3, <2>4, <2>5, <2>6, <2>7, <2>8, <2>9 DEF Step
<1>4. QED
  BY <1>1, <1>2, <1>3 DEF Next

LEMMA InvStep == IInv /\ [Next]_vars => IInv'
<1> SUFFICES ASSUME IInv, [Next]_vars PROVE IInv'
  OBVIOUS
<1>1. Named' /\ setting' \in Settings
  BY NamedStep DEF IInv, TypeOK, Next, vars
<1>2. CASE UNCHANGED vars
  BY <1>1, <1>2 DEF IInv, TypeOK, Loop, Routes, Backend, vars, world, tracks, loop, task
<1>3. CASE UNCHANGED setting /\ \E i \in Incarnations : Exit(i)
  <2>1. TypeOK'
    BY <1>1, <1>3 DEF IInv, Exit, TypeOK, tracks, loop, task
  <2>2. Loop' /\ Routes'
    BY <1>3 DEF IInv, Exit, Loop, Routes, Backend, tracks, loop, task
  <2>3. QED
    BY <1>1, <2>1, <2>2 DEF IInv
<1>4. CASE UNCHANGED setting /\ \E c \in Clis : Begin(c) \/ Step(c) \/ Crash(c)
  BY <1>1, <1>4, ControlStep DEF IInv
<1>5. QED
  BY <1>2, <1>3, <1>4 DEF Next

-----------------------------------------------------------------------------
(* The theorems *)

LEMMA Invariance == Spec => []IInv
  BY InitOK, InvStep, PTL DEF Spec

\* The variables keep their types: in particular the loops of Server.stop
\* never count beyond their bounds.
THEOREM TypeCorrect == Spec => []TypeOK
  <1>1. IInv => TypeOK
    BY DEF IInv
  <1>2. QED
    BY <1>1, Invariance, PTL

\* On docker and tmux, whose names are unique, a server never runs twice,
\* however many commands are given at once and whatever fails.
THEOREM NamesExclude == Spec => []NamesKeepOneServer
  <1>1. IInv => NamesKeepOneServer
    BY DEF IInv, Named, OneServer, NamesKeepOneServer
  <1>2. QED
    BY <1>1, Invariance, PTL

-----------------------------------------------------------------------------
(* One command at a time, on a backend that knows its server by name.       *)

Lone(c) ==
  /\ Clis = {c}
  /\ Backend # "subprocess" /\ "probe" \notin Faults

NothingFails == "backend" \notin Faults
ConsoleWorks == Backend = "docker" => Console

\* Past these points the command relies on nothing running.
Quiet == {"ports", "inspect", "rm", "run", "spawn", "afterkill"}

\* The command that can be at a point.
Fits(c) ==
  /\ pc[c] = "killcheck" => cmd[c] = "kill"
  /\ pc[c] \in {"start", "launch", "files", "wipecheck", "restorecheck"} \cup (Quiet \ {"afterkill"})
       => cmd[c] \notin {"stop", "kill"}

LoneInv(c) ==
  /\ OneServer
  /\ Fits(c)
  /\ pc[c] \in Quiet => Alive = {}
  /\ pc[c] = "files" /\ (cmd[c] = "update" => NothingFails) => Alive = {}
  /\ pc[c] = "idle" /\ cmd[c] \in {"stop", "kill"} /\ outcome[c] = "ok" => Alive = {}
  /\ pc[c] \in {"poll", "lastpoll"} => \A i \in Alive : server[i] = "asked"
  /\ pc[c] = "kill" /\ cmd[c] # "kill" /\ ConsoleWorks /\ NothingFails =>
       \A i \in Alive : server[i] = "asked" /\ minute[c] = MaxWait

LEMMA LoneInit ==
  ASSUME NEW c, Lone(c), Init
  PROVE  LoneInv(c)
  <1>1. pc[c] = "idle" /\ cmd[c] = "start"
    BY DEF Init, Lone
  <1>2. Alive = {}
    BY DEF Init, Alive
  <1>3. QED
    BY <1>1, <1>2 DEF LoneInv, OneServer, Quiet, Fits

\* is_running tells the truth.
LEMMA ProbeIsTrue ==
  ASSUME IInv, NEW c, Lone(c), Running(c, FALSE)
  PROVE  Alive = {} /\ UNCHANGED tracks
  BY DEF IInv, Named, Lone, Running

\* Once nothing lives, no promise is left to keep.
LEMMA NothingLives ==
  ASSUME NEW c, Alive' = {}, Fits(c)'
  PROVE  LoneInv(c)'
  BY DEF LoneInv, OneServer

LEMMA FitsStep ==
  ASSUME NEW c \in Clis, TypeOK, Fits(c), Step(c)
  PROVE  Fits(c)'
<1>1. cmd' = cmd
  BY DEF Step, ReadPid, StartCheck, AssertPorts, LaunchCheck, Inspect, Remove, Run,
     RunRefused, Spawn, SpawnRefused, WritePid, StopCheck, DoStop, DoStopFails, PollAgain,
     MinuteOver, KillCheck, KillSession, KillByPidfile, StopContainer, RemoveContainer,
     AfterKill, WipeCheck, RestoreCheck, ReplaceFiles, task
<1> DEFINE Own == {"start", "launch", "files", "wipecheck", "restorecheck"}
                    \cup (Quiet \ {"afterkill"})
<1>2. ASSUME NEW label \in Points, Goto(c, label), label # "killcheck",
             label \in Own => cmd[c] \notin {"stop", "kill"}
      PROVE  Fits(c)'
  BY <1>1, <1>2 DEF Goto, Fits, TypeOK
<1>3. ASSUME NEW how, End(c, how) PROVE Fits(c)'
  BY <1>3 DEF End, Fits, TypeOK, Quiet
<1>4. StopRaises(c) => Fits(c)'
  BY <1>2, <1>3 DEF StopRaises, Points
<1>5. StopReturns(c) => Fits(c)'
  BY <1>2, <1>3 DEF StopReturns, Points
<1>6. CASE ReadPid(c)
  BY <1>1, <1>6 DEF ReadPid, Fits
<1>7. CASE StartCheck(c) \/ AssertPorts(c) \/ LaunchCheck(c) \/ Inspect(c) \/ Remove(c)
  <2>1. cmd[c] \notin {"stop", "kill"}
    BY <1>7 DEF StartCheck, AssertPorts, LaunchCheck, Inspect, Remove, Fits, Quiet
  <2>2. QED
    BY <1>2, <1>3, <1>7, <2>1 DEF StartCheck, AssertPorts, LaunchCheck, Inspect, Remove, Points
<1>8. CASE Run(c) \/ RunRefused(c) \/ SpawnRefused(c) \/ WritePid(c)
  BY <1>3, <1>8 DEF Run, RunRefused, SpawnRefused, WritePid
<1>9. CASE Spawn(c) \/ StopCheck(c) \/ DoStop(c) \/ DoStopFails(c) \/ KillCheck(c) \/ StopContainer(c)
  BY <1>2, <1>3, <1>4, <1>9
  DEF Spawn, StopCheck, DoStop, DoStopFails, KillCheck, StopContainer, Points, Quiet
<1>10. CASE PollAgain(c) \/ MinuteOver(c)
  BY <1>2, <1>5, <1>10 DEF PollAgain, MinuteOver, NextMinute, Points, Quiet
<1>11. CASE KillSession(c) \/ KillByPidfile(c) \/ RemoveContainer(c) \/ AfterKill(c)
  BY <1>2, <1>4, <1>5, <1>11 DEF KillSession, KillByPidfile, RemoveContainer, AfterKill, Points, Quiet
<1>12. CASE WipeCheck(c) \/ RestoreCheck(c) \/ ReplaceFiles(c)
  <2>1. cmd[c] \notin {"stop", "kill"}
    BY <1>12 DEF WipeCheck, RestoreCheck, ReplaceFiles, Fits, Quiet
  <2>2. QED
    BY <1>2, <1>3, <1>12, <2>1 DEF WipeCheck, RestoreCheck, ReplaceFiles, Points
<1>13. QED
  BY <1>6, <1>7, <1>8, <1>9, <1>10, <1>11, <1>12 DEF Step

LEMMA LoneStep ==
  ASSUME NEW c, Lone(c), IInv, LoneInv(c), [Next]_vars
  PROVE  LoneInv(c)'
<1> USE DEF IInv
<1> UNCHANGED <<Backend, Console, Faults, NothingFails, ConsoleWorks>>
  BY DEF Next, vars, Backend, Console, Faults, NothingFails, ConsoleWorks
<1> c \in Clis
  BY DEF Lone
<1>0. Step(c) => Fits(c)'
  BY FitsStep DEF LoneInv
<1>1. CASE UNCHANGED vars
  BY <1>1 DEF LoneInv, Fits, OneServer, Alive, vars, world, loop, task
<1>2. CASE \E i \in Incarnations : Exit(i)
  <2>1. PICK i \in Incarnations : server' = [server EXCEPT ![i] = "gone"]
    BY <1>2 DEF Exit
  <2>2. Alive' \subseteq Alive /\ \A j \in Alive' : server'[j] = server[j]
    BY <2>1 DEF Alive, TypeOK
  <2>3. UNCHANGED <<pc, outcome, cmd, minute>>
    BY <1>2 DEF Exit, loop, task
  <2>4. QED
    BY <2>2, <2>3 DEF LoneInv, Fits, OneServer
<1>3. CASE Begin(c)
  <2>1. PICK command \in Commands : cmd'[c] = command /\ pc'[c] = First(command)
    BY <1>3 DEF Begin, TypeOK
  <2>2. UNCHANGED server
    BY <1>3 DEF Begin, world
  <2>3. pc'[c] \in {"start", "stop", "killcheck", "wipecheck", "restorecheck"}
        /\ (pc'[c] = "killcheck" => cmd'[c] = "kill")
        /\ (pc'[c] \notin {"killcheck", "stop"} => cmd'[c] \notin {"stop", "kill"})
    BY <2>1 DEF First, Commands
  <2>4. QED
    BY <2>2, <2>3 DEF LoneInv, Fits, OneServer, Alive, Quiet
<1>4. CASE Crash(c)
  <2>1. pc'[c] = "idle" /\ outcome'[c] = "crash" /\ UNCHANGED server
    BY <1>4 DEF Crash, End, TypeOK, world
  <2>2. QED
    BY <2>1 DEF LoneInv, Fits, OneServer, Alive, Quiet
\* The commands that found nothing running.
<1>5. CASE /\ Running(c, FALSE)
           /\ \/ StartCheck(c) \/ LaunchCheck(c) \/ StopCheck(c) \/ PollAgain(c)
              \/ MinuteOver(c) \/ KillCheck(c) \/ AfterKill(c) \/ WipeCheck(c)
              \/ RestoreCheck(c)
  <2>1. Alive = {}
    BY <1>5, ProbeIsTrue
  <2>2. UNCHANGED server
    BY <1>5 DEF StartCheck, LaunchCheck, StopCheck, PollAgain, MinuteOver, KillCheck,
       AfterKill, WipeCheck, RestoreCheck, world
  <2>3. Alive' = {}
    BY <2>1, <2>2 DEF Alive
  <2>4. QED
    BY <1>0, <1>5, <2>3, NothingLives DEF Step
\* The commands that found the server running.
<1>6. CASE /\ Running(c, TRUE)
           /\ \/ StartCheck(c) \/ LaunchCheck(c) \/ WipeCheck(c) \/ AfterKill(c)
              \/ RestoreCheck(c) \/ StopCheck(c) \/ KillCheck(c)
  <2>1. Alive # {} /\ ~Running(c, FALSE)
    BY <1>6 DEF Running, Lone, Alive
  <2>2. ~AfterKill(c)
    BY <2>1 DEF LoneInv, Quiet, AfterKill
  <2>3. UNCHANGED <<server, cmd>>
    BY <1>6 DEF StartCheck, LaunchCheck, WipeCheck, AfterKill, RestoreCheck, StopCheck, KillCheck, world, task
  <2>4. \/ pc'[c] = "idle" /\ outcome'[c] = "error"
        \/ pc'[c] \in {"stop", "dostop"}
        \/ pc'[c] = "kill" /\ pc[c] = "killcheck"
    BY <1>6, <2>1, <2>2 DEF StartCheck, LaunchCheck, WipeCheck, RestoreCheck, StopCheck,
       KillCheck, Goto, End, TypeOK
  <2>5. QED
    BY <2>3, <2>4 DEF LoneInv, Fits, OneServer, Alive, Quiet
<1>7. CASE Running(c, TRUE) /\ (PollAgain(c) \/ MinuteOver(c))
  <2>1. ~Running(c, FALSE)
    BY <1>7 DEF Running, Lone, Alive
  <2>2. UNCHANGED <<server, cmd>>
    BY <1>7 DEF PollAgain, MinuteOver, world, task
  <2>3. \/ pc'[c] \in {"poll", "lastpoll", "dostop"}
        \/ pc'[c] = "kill" /\ minute'[c] = MaxWait
    <3>1. CASE PollAgain(c)
      BY <2>1, <3>1 DEF PollAgain, Goto, TypeOK
    <3>2. CASE MinuteOver(c)
      <4>1. minute[c] \in Nat /\ minute[c] < MaxWait
        BY <3>2 DEF MinuteOver, Loop, TypeOK
      <4>2. minute'[c] = minute[c] + 1 /\ pc'[c] = NextMinute(c)
        BY <2>1, <3>2 DEF MinuteOver, Goto, TypeOK
      <4>3. QED
        BY <4>1, <4>2 DEF NextMinute
    <3>3. QED
      BY <1>7, <3>1, <3>2
  <2>4. pc[c] \in {"poll", "lastpoll"}
    BY <1>7 DEF PollAgain, MinuteOver
  <2>5. QED
    BY <2>2, <2>3, <2>4 DEF LoneInv, Fits, OneServer, Alive, Quiet
<1>8. CASE DoStop(c)
  <2>1. PICK i \in Alive : server' = [server EXCEPT ![i] = "asked"]
    BY <1>8 DEF DoStop, CanSend
  <2>2. Alive = {i}
    BY <2>1 DEF LoneInv, OneServer
  <2>3. Alive' = {i} /\ server'[i] = "asked"
    BY <2>1, <2>2 DEF Alive, TypeOK
  <2>4. pc'[c] = "poll"
    BY <1>8 DEF DoStop, Goto, TypeOK
  <2>5. QED
    BY <2>3, <2>4 DEF LoneInv, Fits, OneServer, Quiet
\* A server that takes no console input is not alive, unless sending fails.
<1>9. CASE DoStopFails(c)
  <2>1. UNCHANGED <<cmd, minute>> /\ pc'[c] = "kill"
    BY <1>9 DEF DoStopFails, Goto, TypeOK, loop, task
  <2>2. Alive' = Alive
    BY <1>9 DEF DoStopFails, CanSend, TypeOK, Alive
  <2>3. CASE ConsoleWorks /\ NothingFails
    <3> Alive \subseteq Incarnations
      BY DEF Alive
    <3>1. Backend = "docker" => Alive = {}
      BY <1>9, <2>3 DEF DoStopFails, CanSend, ConsoleWorks, NothingFails, Named
    <3>2. Backend # "docker" => Alive = {}
      BY <1>9, <2>3, BackendKnown DEF DoStopFails, CanSend, NothingFails, Lone, Alive, Backends
    <3>3. QED
      BY <1>0, <1>9, <2>2, <3>1, <3>2, NothingLives DEF Step
  <2>4. CASE ~(ConsoleWorks /\ NothingFails)
    BY <1>0, <1>9, <2>1, <2>2, <2>4 DEF LoneInv, OneServer, Step, Quiet
  <2>5. QED
    BY <2>3, <2>4
<1>10. CASE AssertPorts(c) \/ Inspect(c) \/ SpawnRefused(c)
  <2>1. Alive = {} /\ UNCHANGED server
    BY <1>10 DEF AssertPorts, Inspect, SpawnRefused, LoneInv, Quiet, world
  <2>2. Alive' = {}
    BY <2>1 DEF Alive
  <2>3. QED
    BY <1>0, <1>10, <2>2, NothingLives DEF Step
<1>11. CASE Remove(c) \/ RunRefused(c)
  <2>1. Alive = {} /\ Alive' = {}
    BY <1>11 DEF Remove, RunRefused, LoneInv, Quiet, StopNamed, Alive, Lone, TypeOK, world
  <2>2. QED
    BY <1>0, <1>11, <2>1, NothingLives DEF Step
<1>12. CASE Run(c) \/ Spawn(c)
  <2>1. Alive = {}
    BY <1>12 DEF Run, Spawn, LoneInv, Quiet
  <2>2. PICK i \in Incarnations : server' = [server EXCEPT ![i] = "up"]
    BY <1>12 DEF Run, Spawn
  <2>3. Alive' = {i}
    BY <2>1, <2>2 DEF Alive, TypeOK
  <2>4. pc'[c] = "idle" /\ cmd'[c] \notin {"stop", "kill"}
    BY <1>12 DEF Run, Spawn, Goto, End, TypeOK, task, Lone, LoneInv, Fits, Quiet
  <2>5. QED
    BY <2>3, <2>4 DEF LoneInv, Fits, OneServer, Quiet
<1>13. CASE WritePid(c) \/ KillByPidfile(c) \/ ReadPid(c)
  BY <1>13 DEF WritePid, KillByPidfile, ReadPid, Routes, Lone
<1>14. CASE KillSession(c)
  <2>1. CASE Alive' = {}
    BY <1>0, <1>14, <2>1, NothingLives DEF Step
  <2>2. CASE "backend" \in Faults /\ StopRaises(c) /\ UNCHANGED server
    <3>1. UNCHANGED <<server, cmd>> /\ Alive' = Alive /\ ~NothingFails
      BY <1>14, <2>2 DEF KillSession, task, Alive, NothingFails
    <3>2. \/ cmd[c] = "update" /\ pc'[c] = "files"
          \/ pc'[c] = "idle" /\ outcome'[c] = "error"
      BY <2>2 DEF StopRaises, Goto, End, TypeOK
    <3>3. QED
      BY <1>0, <1>14, <3>1, <3>2 DEF LoneInv, OneServer, Step, Quiet
  <2>3. QED
    <3>1. Alive' = {} \/ ("backend" \in Faults /\ StopRaises(c) /\ UNCHANGED server)
      BY <1>14 DEF KillSession, LoneInv, OneServer, Alive, TypeOK
    <3>2. QED
      BY <2>1, <2>2, <3>1
<1>15. CASE StopContainer(c)
  <2>1. Alive' \subseteq Alive /\ pc'[c] = "killrm"
    BY <1>15 DEF StopContainer, StopNamed, Goto, Alive, TypeOK
  <2>2. QED
    BY <1>0, <1>15, <2>1 DEF LoneInv, OneServer, Step, Quiet
<1>16. CASE RemoveContainer(c)
  <2>1. Alive \subseteq {container}
    BY <1>16 DEF RemoveContainer, Routes, Named
  <2>2. ASSUME StopNamed PROVE Alive' = {}
    BY <2>1, <2>2 DEF StopNamed, Alive, TypeOK, Incarnations
  <2>3. ASSUME container = None, UNCHANGED world PROVE Alive' = {}
    BY <2>1, <2>3 DEF world, Alive, None, Incarnations
  <2>4. CASE Alive' = {}
    BY <1>0, <1>16, <2>4, NothingLives DEF Step
  <2>5. CASE "backend" \in Faults /\ StopRaises(c) /\ UNCHANGED world
    <3>1. UNCHANGED <<server, cmd>> /\ Alive' = Alive /\ ~NothingFails
      BY <1>16, <2>5 DEF RemoveContainer, world, task, Alive, NothingFails
    <3>2. \/ cmd[c] = "update" /\ pc'[c] = "files"
          \/ pc'[c] = "idle" /\ outcome'[c] = "error"
      BY <2>5 DEF StopRaises, Goto, End, TypeOK
    <3>3. QED
      BY <1>0, <1>16, <3>1, <3>2 DEF LoneInv, OneServer, Step, Quiet
  <2>6. QED
    BY <1>16, <2>2, <2>3, <2>4, <2>5 DEF RemoveContainer
<1>17. CASE ReplaceFiles(c)
  <2>1. UNCHANGED <<server, cmd>> /\ Alive' = Alive
    BY <1>17 DEF ReplaceFiles, world, task, Alive
  <2>2. \/ pc'[c] = "start"
        \/ pc'[c] = "idle" /\ cmd'[c] \notin {"stop", "kill"}
    BY <1>17, <2>1 DEF ReplaceFiles, Goto, End, TypeOK, LoneInv, Fits
  <2>3. QED
    BY <1>0, <1>17, <2>1, <2>2 DEF LoneInv, OneServer, Step, Quiet
<1>18. CASE Step(c)
  <2>1. CASE StartCheck(c) \/ LaunchCheck(c) \/ StopCheck(c) \/ KillCheck(c) \/ AfterKill(c)
             \/ WipeCheck(c) \/ RestoreCheck(c)
    BY <1>5, <1>6, <2>1 DEF StartCheck, LaunchCheck, StopCheck, KillCheck, AfterKill,
       WipeCheck, RestoreCheck
  <2>2. CASE PollAgain(c) \/ MinuteOver(c)
    BY <1>5, <1>7, <2>2 DEF PollAgain, MinuteOver
  <2>3. QED
    BY <1>8, <1>9, <1>10, <1>11, <1>12, <1>13, <1>14, <1>15, <1>16, <1>17, <1>18, <2>1, <2>2 DEF Step
<1>19. QED
  BY <1>1, <1>2, <1>3, <1>4, <1>18 DEF Next, Lone

\* Configurations never change, so that Lone stays as it began.
LEMMA LoneSafety ==
  ASSUME NEW c \in Clis, Clis = {c}
  PROVE  Spec => [](Lone(c) => LoneInv(c))
  <1>1. Init => (Lone(c) => LoneInv(c))
    BY LoneInit
  <1>2. IInv /\ (Lone(c) => LoneInv(c)) /\ [Next]_vars => (Lone(c) => LoneInv(c))'
    <2> SUFFICES ASSUME IInv, Lone(c) => LoneInv(c), [Next]_vars, Lone(c)' PROVE LoneInv(c)'
      OBVIOUS
    <2>1. Lone(c)
      BY DEF Lone, Next, vars, Backend, Faults
    <2>2. QED
      BY <2>1, LoneStep
  <1>3. QED
    BY <1>1, <1>2, Invariance, PTL DEF Spec

\* With one command at a time no name ever has two live servers, whatever
\* fails and wherever a command is interrupted.
THEOREM AloneOneServer == Spec => []AloneKeepsOneServer
  <1>1. ASSUME NEW c \in Clis, Clis = {c} PROVE Spec => []AloneKeepsOneServer
    <2>1. (Lone(c) => LoneInv(c)) => AloneKeepsOneServer
      BY <1>1 DEF LoneInv, Lone, AloneKeepsOneServer, ByName
    <2>2. QED
      BY <1>1, <2>1, LoneSafety, PTL
  <1>2. ASSUME ~OneAtATime PROVE Spec => []AloneKeepsOneServer
    <2>1. AloneKeepsOneServer
      BY <1>2 DEF AloneKeepsOneServer, ByName
    <2>2. QED
      BY <2>1, PTL
  <1>3. QED
    BY <1>1, <1>2 DEF OneAtATime

\* With one command at a time a stop or kill that reports success has left no
\* server alive, whatever fails.
THEOREM AloneStopsStop == Spec => []AloneStops
  <1>1. ASSUME NEW c \in Clis, Clis = {c} PROVE Spec => []AloneStops
    <2>1. (Lone(c) => LoneInv(c)) => AloneStops
      BY <1>1 DEF LoneInv, Lone, AloneStops, StoppedIsStopped, ByName
    <2>2. QED
      BY <1>1, <2>1, LoneSafety, PTL
  <1>2. ASSUME ~OneAtATime PROVE Spec => []AloneStops
    <2>1. AloneStops
      BY <1>2 DEF AloneStops, ByName
    <2>2. QED
      BY <2>1, PTL
  <1>3. QED
    BY <1>1, <1>2 DEF OneAtATime

\* With one command at a time, files are replaced only while nothing runs,
\* wherever the commands are interrupted; update's, while commands of the
\* backend do not fail.
THEOREM AloneFilesAreQuiet == Spec => []FilesAreQuiet
  <1>1. ASSUME NEW c \in Clis, Clis = {c} PROVE Spec => []FilesAreQuiet
    <2>1. (Lone(c) => LoneInv(c)) => FilesAreQuiet
      BY <1>1 DEF LoneInv, Lone, FilesAreQuiet, ByName, NothingFails
    <2>2. QED
      BY <1>1, <2>1, LoneSafety, PTL
  <1>2. ASSUME ~OneAtATime PROVE Spec => []FilesAreQuiet
    <2>1. FilesAreQuiet
      BY <1>2 DEF FilesAreQuiet, ByName
    <2>2. QED
      BY <2>1, PTL
  <1>3. QED
    BY <1>1, <1>2 DEF OneAtATime

\* With one command at a time, stop kills only a server that was asked to quit
\* and was waited for through all the minutes, whatever their number, unless a
\* command of the backend failed.
THEOREM AloneStopIsPatient == Spec => []StopIsPatient
  <1>1. ASSUME NEW c \in Clis, Clis = {c} PROVE Spec => []StopIsPatient
    <2>1. (Lone(c) => LoneInv(c)) => StopIsPatient
      BY <1>1 DEF LoneInv, Lone, StopIsPatient, TakesInput, KillsAfterAsking, ByName, ConsoleWorks, NothingFails
    <2>2. QED
      BY <1>1, <2>1, LoneSafety, PTL
  <1>2. ASSUME ~OneAtATime PROVE Spec => []StopIsPatient
    <2>1. StopIsPatient
      BY <1>2 DEF StopIsPatient, TakesInput, ByName
    <2>2. QED
      BY <2>1, PTL
  <1>3. QED
    BY <1>1, <1>2 DEF OneAtATime
-----------------------------------------------------------------------------
(* One command at a time on the subprocess backend, nothing failing.        *)

Plain(c) == Clis = {c} /\ Backend = "subprocess" /\ Faults = {}

\* What is known of an incarnation that lives.
Remembered(c, i) ==
  i = pidfile \/ server[i] = "asked" \/ (pc[c] = "pidwrite" /\ seen[c] = i)

\* The PID read for is_running is still the file's, and a server is started
\* only when the file is gone.
PlainInv(c) ==
  /\ \A i \in Alive : Remembered(c, i)
  /\ pc[c] \in ProbePoints /\ seen[c] # Unread => seen[c] = pidfile
  /\ pc[c] \notin ProbePoints \cup {"pidwrite", "idle"} => seen[c] = Unread
  /\ pc[c] \in {"spawn", "pidwrite"} => pidfile = None

LEMMA PlainInit ==
  ASSUME NEW c, Plain(c), Init
  PROVE  PlainInv(c)
  <1>1. pc[c] = "idle" /\ seen[c] = Unread /\ Alive = {}
    BY DEF Init, Plain, Alive
  <1>2. QED
    BY <1>1 DEF PlainInv, ProbePoints

\* A step that leaves the servers and the PID file alone, and the command
\* without a PID in its hands.
LEMMA PlainMove ==
  ASSUME NEW c, Plain(c), PlainInv(c), pc[c] \notin {"spawn", "pidwrite"},
         server' = server, pidfile' = pidfile, seen'[c] = Unread,
         pc'[c] \notin {"spawn", "pidwrite"}
  PROVE  PlainInv(c)'
  <1>1. Alive' = Alive
    BY DEF Alive
  <1>2. QED
    BY <1>1 DEF PlainInv, Remembered

\* What is_running does to the file, and what it tells: a process found dead
\* leaves no PID behind.
LEMMA PlainRunning ==
  ASSUME TypeOK, NEW c, Plain(c), PlainInv(c), pc[c] \in ProbePoints,
         NEW up \in BOOLEAN, Running(c, up), server' = server,
         pc'[c] # "pidwrite", pc'[c] = "spawn" => ~up
  PROVE  PlainInv(c)'
  <1>1. /\ seen[c] = pidfile /\ up = (seen[c] \in Alive)
        /\ pidfile' = IF up \/ seen[c] = None THEN pidfile ELSE None
        /\ seen'[c] = Unread
    BY DEF Running, Plain, PlainInv, TypeOK
  <1>2. Alive' = Alive /\ Alive \subseteq Incarnations /\ None \notin Incarnations
    BY DEF Alive, None, Incarnations
  <1>3. ~up => pidfile' = None /\ pidfile \notin Alive
    BY <1>1
  <1>4. up => pidfile' = pidfile
    BY <1>1
  <1>5. pc[c] # "pidwrite"
    BY DEF ProbePoints
  <1>6. \A i \in Alive : i = pidfile \/ server[i] = "asked"
    BY <1>5 DEF PlainInv, Remembered
  <1>7. \A i \in Alive' : Remembered(c, i)'
    BY <1>2, <1>3, <1>4, <1>6 DEF Remembered
  <1>8. QED
    BY <1>1, <1>3, <1>7 DEF PlainInv

LEMMA PlainStep ==
  ASSUME NEW c, Plain(c), IInv, PlainInv(c), [Next]_vars
  PROVE  PlainInv(c)'
<1> USE DEF IInv
<1> c \in Clis /\ Backend = "subprocess" /\ Faults = {}
  BY DEF Plain
<1>1. CASE UNCHANGED vars
  <2>1. UNCHANGED <<server, pidfile, seen, pc>> /\ Alive' = Alive
    BY <1>1 DEF vars, world, tracks, Alive
  <2>2. QED
    BY <2>1 DEF PlainInv, Remembered
<1>2. CASE \E i \in Incarnations : Exit(i)
  <2>1. PICK i \in Incarnations : server' = [server EXCEPT ![i] = "gone"]
    BY <1>2 DEF Exit
  <2>2. Alive' \subseteq Alive /\ \A j \in Alive' : server'[j] = server[j]
    BY <2>1 DEF Alive, TypeOK
  <2>3. UNCHANGED <<pc, seen, pidfile>>
    BY <1>2 DEF Exit, tracks
  <2>4. QED
    BY <2>2, <2>3 DEF PlainInv, Remembered
<1>3. CASE Begin(c)
  <2>1. /\ pc[c] = "idle" /\ UNCHANGED <<server, pidfile>> /\ seen'[c] = Unread
        /\ \E command \in Commands : pc'[c] = First(command)
    BY <1>3 DEF Begin, TypeOK, world
  <2>2. pc'[c] \notin {"spawn", "pidwrite"}
    BY <2>1 DEF First
  <2>3. QED
    BY <2>1, <2>2, PlainMove
<1>4. CASE ReadPid(c)
  <2>1. /\ pc[c] \in ProbePoints /\ UNCHANGED <<server, pidfile, pc>>
        /\ seen'[c] = pidfile
    BY <1>4 DEF ReadPid, TypeOK, world
  <2>2. Alive' = Alive /\ pc[c] # "pidwrite" /\ pc[c] # "spawn"
    BY <2>1 DEF Alive, ProbePoints
  <2>3. QED
    BY <2>1, <2>2 DEF PlainInv, Remembered
\* The probes: only a start goes on to a spawn, when it has found nothing.
<1>5. CASE \/ StartCheck(c) \/ LaunchCheck(c) \/ StopCheck(c) \/ PollAgain(c)
           \/ MinuteOver(c) \/ KillCheck(c) \/ AfterKill(c) \/ WipeCheck(c)
           \/ RestoreCheck(c)
  <2> USE DEF StartCheck, LaunchCheck, StopCheck, PollAgain, MinuteOver, KillCheck,
          AfterKill, WipeCheck, RestoreCheck
  <2>1. pc[c] \in ProbePoints
    BY <1>5 DEF ProbePoints
  <2>2. server' = server
    BY <1>5 DEF world
  <2>3. PICK up \in BOOLEAN : /\ Running(c, up)
                              /\ \/ LaunchCheck(c) /\ pc'[c] = "spawn" /\ up = FALSE
                                 \/ pc'[c] \notin {"spawn", "pidwrite"}
    <3> USE DEF Goto, End, TypeOK
    <3>1. CASE LaunchCheck(c)
      BY <3>1
    <3>2. CASE StartCheck(c) \/ KillCheck(c) \/ WipeCheck(c) \/ RestoreCheck(c)
      BY <3>2
    <3>3. CASE StopCheck(c) \/ AfterKill(c)
      BY <3>3 DEF StopRaises, StopReturns
    <3>4. CASE PollAgain(c) \/ MinuteOver(c)
      BY <3>4 DEF StopReturns, NextMinute
    <3>5. QED
      BY <1>5, <3>1, <3>2, <3>3, <3>4
  <2>4. QED
    BY <2>1, <2>2, <2>3, PlainRunning
<1>6. CASE AssertPorts(c) \/ DoStopFails(c) \/ ReplaceFiles(c)
  <2>1. /\ pc[c] \in {"ports", "dostop", "files"} /\ UNCHANGED <<server, pidfile, seen>>
        /\ pc'[c] \in {"idle", "launch", "kill", "start"}
    BY <1>6 DEF AssertPorts, DoStopFails, ReplaceFiles, Goto, End, TypeOK, world, tracks
  <2>2. seen'[c] = Unread
    BY <2>1 DEF PlainInv, ProbePoints
  <2>3. QED
    BY <2>1, <2>2, PlainMove
<1>7. CASE Spawn(c)
  <2>1. PICK i \in Incarnations :
          /\ server' = [server EXCEPT ![i] = "up"]
          /\ seen'[c] = i
    BY <1>7 DEF Spawn, TypeOK
  <2>2. pc[c] = "spawn" /\ pc'[c] = "pidwrite" /\ pidfile' = pidfile /\ pidfile = None
    BY <1>7 DEF Spawn, Goto, TypeOK, PlainInv
  <2>3. \A j \in Alive' : j = i \/ (j \in Alive /\ server'[j] = server[j])
    BY <2>1 DEF Alive, TypeOK
  <2>4. \A j \in Alive : j = pidfile \/ server[j] = "asked"
    BY <2>2 DEF PlainInv, Remembered
  <2>5. \A j \in Alive' : Remembered(c, j)'
    BY <2>1, <2>2, <2>3, <2>4 DEF Remembered
  <2>6. QED
    BY <2>2, <2>5 DEF PlainInv, ProbePoints
<1>8. CASE WritePid(c)
  <2>1. pidfile' = seen[c] /\ pc'[c] = "idle" /\ UNCHANGED <<server, seen>> /\ pc[c] = "pidwrite"
    BY <1>8 DEF WritePid, End, TypeOK, world
  <2>2. Alive' = Alive /\ Alive \subseteq Incarnations /\ None \notin Incarnations
    BY <2>1 DEF Alive, None, Incarnations
  <2>3. pidfile = None
    BY <2>1 DEF PlainInv
  <2>4. \A i \in Alive : server[i] = "asked" \/ i = seen[c]
    BY <2>2, <2>3 DEF PlainInv, Remembered
  <2>5. QED
    BY <2>1, <2>2, <2>4 DEF PlainInv, Remembered, ProbePoints
<1>9. CASE KillByPidfile(c)
  <2>1. pc[c] = "kill" /\ seen' = seen /\ pc'[c] \in {"afterkill", "files", "idle"}
    BY <1>9 DEF KillByPidfile, StopRaises, Goto, End, TypeOK
  <2>2. seen'[c] = Unread
    BY <2>1 DEF PlainInv, ProbePoints
  <2>3. CASE pidfile = None /\ UNCHANGED <<server, pidfile>>
    BY <2>1, <2>2, <2>3, PlainMove
  <2>4. CASE /\ pidfile # None /\ pidfile' = None
             /\ server' = [server EXCEPT ![pidfile] = IF pidfile \in Alive THEN "asked" ELSE @]
    <3>1. \A i \in Alive' : i \in Alive /\ (i = pidfile => server'[i] = "asked")
                            /\ (i # pidfile => server'[i] = server[i])
      BY <2>4 DEF Alive, TypeOK
    <3>2. \A i \in Alive : i = pidfile \/ server[i] = "asked"
      BY <2>1 DEF PlainInv, Remembered
    <3>3. \A i \in Alive' : Remembered(c, i)'
      BY <3>1, <3>2 DEF Remembered
    <3>4. QED
      BY <2>1, <2>2, <2>4, <3>3 DEF PlainInv
  <2>5. QED
    BY <1>9, <2>3, <2>4 DEF KillByPidfile
\* Nothing else can happen on this backend when nothing fails.
<1>10. ~(\/ Inspect(c) \/ Remove(c) \/ Run(c) \/ RunRefused(c) \/ KillSession(c)
         \/ StopContainer(c) \/ RemoveContainer(c) \/ Crash(c))
  BY DEF Inspect, Remove, Run, RunRefused, KillSession, StopContainer, RemoveContainer, Crash, Routes
<1>11. ~SpawnRefused(c) /\ ~DoStop(c)
  BY DEF SpawnRefused, NameFree, DoStop, CanSend
<1>12. QED
  BY <1>1, <1>2, <1>3, <1>4, <1>5, <1>6, <1>7, <1>8, <1>9, <1>10, <1>11 DEF Next, Step, Plain

\* With one command at a time on the subprocess backend, and nothing failing,
\* no start, stop or tidying of the PID file loses a living server.
THEOREM AloneRemembers == Spec => []NoServerIsForgotten
  <1>1. ASSUME NEW c \in Clis, Clis = {c} PROVE Spec => []NoServerIsForgotten
    <2>1. Init => (Plain(c) => PlainInv(c))
      BY PlainInit
    <2>2. IInv /\ (Plain(c) => PlainInv(c)) /\ [Next]_vars => (Plain(c) => PlainInv(c))'
      <3> SUFFICES ASSUME IInv, Plain(c) => PlainInv(c), [Next]_vars, Plain(c)' PROVE PlainInv(c)'
        OBVIOUS
      <3>1. Plain(c)
        BY DEF Plain, Next, vars, Backend, Faults
      <3>2. QED
        BY <3>1, PlainStep
    <2>3. (Plain(c) => PlainInv(c)) => NoServerIsForgotten
      BY <1>1 DEF Plain, PlainInv, Remembered, NoServerIsForgotten
    <2>4. QED
      BY <2>1, <2>2, <2>3, Invariance, PTL DEF Spec
  <1>2. ASSUME ~OneAtATime PROVE Spec => []NoServerIsForgotten
    <2>1. NoServerIsForgotten
      BY <1>2 DEF NoServerIsForgotten
    <2>2. QED
      BY <2>1, PTL
  <1>3. QED
    BY <1>1, <1>2 DEF OneAtATime
=============================================================================

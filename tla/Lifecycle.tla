------------------------------ MODULE Lifecycle ------------------------------
(***************************************************************************)
(* The life of one game server: the commands of src/server/server.py that  *)
(* start, stop, kill and restart it or replace its files, each a separate  *)
(* AlphaGSM process (a CLI), over the four backends that hold the server's *)
(* process: GNU screen, tmux, plain subprocesses with a PID file, docker.  *)
(*                                                                         *)
(* An incarnation is one start of the game server.  "up" serves, "asked"   *)
(* was told to quit (console input, SIGTERM) and may take its time or      *)
(* never obey, "gone" has exited.                                          *)
(***************************************************************************)
EXTENDS Integers, FiniteSets

CONSTANTS Clis,          \* AlphaGSM processes that may run at the same time
          Settings,      \* configurations to consider
          MaxWait,       \* jmax: minutes of do_stop (5 in the code, or less)
          Polls,         \* is_running polls per minute (6 in the code)
          MaxStarts,     \* bound: incarnations
          MaxCommands    \* bound: commands per CLI

Backends == {"screen", "tmux", "subprocess", "docker"}
FaultKinds == {"crash", "backend", "probe"}

\* backend: where the configuration has the server's process; console: docker's
\* stop_mode is exec-console, not docker-stop; faults: what may go wrong besides:
\* interrupts, failures of what screen, tmux or docker are told to do ("backend")
\* and of what they are asked ("probe").
Setting == [backend : Backends, console : BOOLEAN, faults : SUBSET FaultKinds]

ASSUME SettingsAssumption == Settings \subseteq Setting
ASSUME BoundsAssumption ==
  /\ MaxWait \in Nat \ {0} /\ Polls \in Nat \ {0}
  /\ MaxStarts \in Nat /\ MaxCommands \in Nat
  /\ MaxStarts >= MaxCommands * Cardinality(Clis)  \* no start is held up by the bound

Incarnations == 1..MaxStarts
None == 0
Unread == -1
Commands == {"start", "stop", "restart", "kill", "wipe", "restore", "update"}

VARIABLES
  setting,     \* the configuration, which never changes
  server,      \* incarnation -> "new", "up", "asked", "gone"
  container,   \* the incarnation whose container bears the server's name
  pidfile,     \* the incarnation whose PID is in the PID file
  seen,        \* CLI -> the PID it has read from the PID file, or started
  pc, cmd,     \* CLI -> where it is, and the command it runs
  again,       \* CLI -> update is to start the server afterwards
  minute, poll,  \* CLI -> the loop counters j and i of stop
  outcome,     \* CLI -> how its last command ended
  used         \* CLI -> commands begun

world == <<server, container>>
tracks == <<pidfile, seen>>
loop == <<minute, poll>>
task == <<cmd, again, used>>
vars == <<setting, world, tracks, loop, task, pc, outcome>>

Backend == setting.backend
Console == setting.console
Faults == setting.faults

Points == {"idle", "start", "ports", "launch", "inspect", "rm", "run", "spawn",
           "pidwrite", "stop", "dostop", "poll", "lastpoll", "killcheck",
           "kill", "killrm", "afterkill", "wipecheck", "restorecheck", "files"}
\* Where the next thing to do is to ask is_running.
ProbePoints == {"start", "launch", "stop", "poll", "lastpoll", "killcheck",
                "afterkill", "wipecheck", "restorecheck"}

Init ==
  /\ setting \in Settings
  /\ server = [i \in Incarnations |-> "new"]
  /\ container = None /\ pidfile = None
  /\ seen = [c \in Clis |-> Unread]
  /\ pc = [c \in Clis |-> "idle"]
  /\ cmd \in [Clis -> {"start"}]
  /\ again = [c \in Clis |-> FALSE]
  /\ minute = [c \in Clis |-> 0] /\ poll = [c \in Clis |-> 0]
  /\ outcome = [c \in Clis |-> "none"]
  /\ used = [c \in Clis |-> 0]

Alive == {i \in Incarnations : server[i] \in {"up", "asked"}}
IsNext(i) == server[i] = "new" /\ \A j \in Incarnations : server[j] = "new" => i <= j

-----------------------------------------------------------------------------
(* Control. *)

Goto(c, label) == pc' = [pc EXCEPT ![c] = label] /\ UNCHANGED outcome
End(c, how) == /\ pc' = [pc EXCEPT ![c] = "idle"]
               /\ outcome' = [outcome EXCEPT ![c] = how]

StopErrorIgnored(c) ==
  IF cmd[c] \in {"stop", "kill"} THEN End(c, "ok") ELSE Goto(c, "files")

\* The exception leaves the command, except that update swallows whatever
\* its stop raised and goes on to the files.
StopRaises(c) ==
  IF cmd[c] = "update" THEN Goto(c, "files") ELSE End(c, "error")

\* stop (or kill) returned: what the command does next.
StopReturns(c) ==
  \/ cmd[c] \in {"stop", "kill"} /\ End(c, "ok")
  \/ cmd[c] = "restart" /\ Goto(c, "start")
  \/ cmd[c] \in {"update", "restore"} /\ Goto(c, "files")

First(command) ==
  CASE command = "start" -> "start"
    [] command \in {"stop", "restart", "update"} -> "stop"
    [] command = "kill" -> "killcheck"
    [] command = "wipe" -> "wipecheck"
    [] OTHER -> "restorecheck"

\* A new AlphaGSM process.  It runs one command, and none starts the server
\* before it stops it: the Popen registry of subprocess_backend.py is empty
\* whenever is_running, send_input or kill look into it.
Begin(c) ==
  /\ pc[c] = "idle" /\ used[c] < MaxCommands
  /\ \E command \in Commands, a \in BOOLEAN :
       /\ a => command = "update"
       /\ cmd' = [cmd EXCEPT ![c] = command]
       /\ again' = [again EXCEPT ![c] = a]
       /\ pc' = [pc EXCEPT ![c] = First(command)]
  /\ outcome' = [outcome EXCEPT ![c] = "none"]
  /\ used' = [used EXCEPT ![c] = @ + 1]
  /\ minute' = [minute EXCEPT ![c] = 0] /\ poll' = [poll EXCEPT ![c] = 0]
  /\ seen' = [seen EXCEPT ![c] = Unread]
  /\ UNCHANGED <<world, pidfile>>

-----------------------------------------------------------------------------
(* is_running, which on the subprocess backend also tidies up: it removes   *)
(* whatever PID file is there once it has found its process dead.  The       *)
(* others cannot tell "none of that name" from a question that failed.       *)

ReadPid(c) ==
  /\ Backend = "subprocess"
  /\ pc[c] \in ProbePoints
  /\ seen[c] = Unread
  /\ seen' = [seen EXCEPT ![c] = pidfile]
  /\ UNCHANGED <<world, pidfile, loop, task, pc, outcome>>

Running(c, up) ==
  \/ /\ Backend \in {"screen", "tmux"}
     /\ up = (Alive # {}) \/ (~up /\ "probe" \in Faults)
     /\ UNCHANGED tracks
  \/ /\ Backend = "docker"
     /\ up = (container \in Alive) \/ (~up /\ "probe" \in Faults)
     /\ UNCHANGED tracks
  \/ /\ Backend = "subprocess" /\ seen[c] # Unread
     /\ up = (seen[c] \in Alive)
     /\ pidfile' = IF up \/ seen[c] = None THEN pidfile ELSE None
     /\ seen' = [seen EXCEPT ![c] = Unread]

-----------------------------------------------------------------------------
(* Server.start and the backends' start. *)

StartUnchecked(c) ==
  /\ pc[c] = "start"
  /\ \E up \in BOOLEAN : Running(c, up)
  /\ Goto(c, "ports")
  /\ UNCHANGED <<world, loop, task>>

StartCheck(c) ==
  /\ pc[c] = "start"
  /\ \/ Running(c, TRUE) /\ End(c, "error")
     \/ Running(c, FALSE) /\ Goto(c, "ports")
  /\ UNCHANGED <<world, loop, task>>

\* _assert_start_ports_available: PortClaims.tla has what it decides.
AssertPorts(c) ==
  /\ pc[c] = "ports"
  /\ \/ End(c, "error")
     \/ Goto(c, CASE Backend = "subprocess" -> "launch"
                  [] Backend = "docker" -> "inspect"
                  [] OTHER -> "spawn")
  /\ UNCHANGED <<world, tracks, loop, task>>

\* SubprocessBackend.start asks is_running again.
LaunchCheck(c) ==
  /\ pc[c] = "launch"
  /\ \/ Running(c, TRUE) /\ End(c, "error")
     \/ Running(c, FALSE) /\ Goto(c, "spawn")
  /\ UNCHANGED <<world, loop, task>>

\* ContainerRuntime.start: an exited container of the name is removed, a
\* running one is an error.
Inspect(c) ==
  /\ pc[c] = "inspect"
  /\ \/ /\ container = None \/ "probe" \in Faults
        /\ Goto(c, "run")
     \/ container # None /\ container \notin Alive /\ Goto(c, "rm")
     \/ container \in Alive /\ End(c, "error")
  /\ UNCHANGED <<world, tracks, loop, task>>

\* docker rm -f: the container that bears the name now is killed and removed.
StopNamed == server' = [i \in Incarnations |->
                          IF i = container /\ i \in Alive THEN "gone" ELSE server[i]]
Remove(c) ==
  /\ pc[c] = "rm"
  /\ StopNamed
  /\ container' = None
  /\ Goto(c, "run")
  /\ UNCHANGED <<tracks, loop, task>>

\* docker run --name: refused while the name is taken.  When it fails after
\* that, a created container that never ran keeps the name.
AnyContainerName == TRUE
ContainerNameFree == container = None

Run(c) ==
  /\ pc[c] = "run" /\ ContainerNameFree
  /\ \E i \in Incarnations :
       /\ IsNext(i)
       /\ server' = [server EXCEPT ![i] = "up"]
       /\ container' = i
  /\ End(c, "ok")
  /\ UNCHANGED <<tracks, loop, task>>

RunRefused(c) ==
  /\ pc[c] = "run"
  /\ \/ ~ContainerNameFree /\ UNCHANGED world
     \/ /\ ContainerNameFree /\ "backend" \in Faults
        /\ \E i \in Incarnations :
             /\ IsNext(i)
             /\ server' = [server EXCEPT ![i] = "gone"]
             /\ container' = i
  /\ End(c, "error")
  /\ UNCHANGED <<tracks, loop, task>>

\* screen starts another session of the same name; tmux refuses it; the
\* subprocess backend records the PID afterwards.
NameFree == Backend = "tmux" => Alive = {}

Spawn(c) ==
  /\ pc[c] = "spawn" /\ NameFree
  /\ \E i \in Incarnations :
       /\ IsNext(i)
       /\ server' = [server EXCEPT ![i] = "up"]
       /\ seen' = [seen EXCEPT ![c] = IF Backend = "subprocess" THEN i ELSE @]
  /\ IF Backend = "subprocess" THEN Goto(c, "pidwrite") ELSE End(c, "ok")
  /\ UNCHANGED <<container, pidfile, loop, task>>

SpawnRefused(c) ==
  /\ pc[c] = "spawn"
  /\ (~NameFree \/ "backend" \in Faults)
  /\ End(c, "error")
  /\ UNCHANGED <<world, tracks, loop, task>>

ForgetPid(c) ==
  /\ pc[c] = "pidwrite"
  /\ End(c, "ok")
  /\ UNCHANGED <<world, tracks, loop, task>>

WritePid(c) ==
  /\ pc[c] = "pidwrite"
  /\ pidfile' = seen[c]
  /\ End(c, "ok")
  /\ UNCHANGED <<world, seen, loop, task>>

-----------------------------------------------------------------------------
(* Server.stop. *)

StopCheck(c) ==
  /\ pc[c] = "stop"
  /\ \/ Running(c, TRUE) /\ Goto(c, "dostop")
     \/ Running(c, FALSE) /\ StopRaises(c)
  /\ UNCHANGED <<world, loop, task>>

\* The backend can put input on the console of incarnation i.
CanSend(c, i) ==
  /\ i \in Alive
  /\ \/ Backend \in {"screen", "tmux"}
     \/ Backend = "docker" /\ Console /\ i = container

\* do_stop types the module's quit command.
DoStop(c) ==
  /\ pc[c] = "dostop"
  /\ \E i \in Incarnations :
       /\ CanSend(c, i)
       /\ server' = [server EXCEPT ![i] = "asked"]
  /\ poll' = [poll EXCEPT ![c] = 0]
  /\ Goto(c, "poll")
  /\ UNCHANGED <<container, tracks, minute, task>>

\* The backend takes no input, or the command fails this time, heard or not:
\* "fall through to kill".
DoStopFails(c) ==
  /\ pc[c] = "dostop"
  /\ \/ /\ "backend" \in Faults \/ \A i \in Incarnations : ~CanSend(c, i)
        /\ UNCHANGED server
     \/ /\ "backend" \in Faults
        /\ \E i \in Incarnations : CanSend(c, i) /\ server' = [server EXCEPT ![i] = "asked"]
  /\ Goto(c, "kill")
  /\ UNCHANGED <<container, tracks, loop, task>>

PollUncounted(c) ==
  /\ pc[c] = "poll"
  /\ \/ Running(c, TRUE) /\ Goto(c, "poll")
     \/ Running(c, FALSE) /\ StopReturns(c)
  /\ UNCHANGED <<world, loop, task>>

PollAgain(c) ==
  /\ pc[c] = "poll"
  /\ \/ /\ Running(c, TRUE)
        /\ poll' = [poll EXCEPT ![c] = @ + 1]
        /\ Goto(c, IF poll[c] + 1 < Polls THEN "poll" ELSE "lastpoll")
     \/ /\ Running(c, FALSE)
        /\ StopReturns(c)
        /\ UNCHANGED poll
  /\ UNCHANGED <<world, minute, task>>

NextMinuteEarly(c) == IF minute[c] + 2 < MaxWait THEN "dostop" ELSE "kill"
NextMinuteGivesUp(c) == IF minute[c] + 1 < MaxWait THEN "dostop" ELSE "afterkill"
NextMinute(c) == IF minute[c] + 1 < MaxWait THEN "dostop" ELSE "kill"

MinuteOver(c) ==
  /\ pc[c] = "lastpoll"
  /\ \/ /\ Running(c, TRUE)
        /\ minute' = [minute EXCEPT ![c] = @ + 1]
        /\ Goto(c, NextMinute(c))
     \/ /\ Running(c, FALSE)
        /\ StopReturns(c)
        /\ UNCHANGED minute
  /\ UNCHANGED <<world, poll, task>>

-----------------------------------------------------------------------------
(* Runtime.kill, for stop and for the kill command. *)

KillCheck(c) ==
  /\ pc[c] = "killcheck"
  /\ \/ Running(c, TRUE) /\ Goto(c, "kill")
     \/ Running(c, FALSE) /\ End(c, "error")
  /\ UNCHANGED <<world, loop, task>>

\* screen -X quit, tmux kill-session: the session's process goes at once;
\* without a session, or when quit fails, the backend's ProcessError escapes.
KillSession(c) ==
  /\ pc[c] = "kill" /\ Backend \in {"screen", "tmux"}
  /\ \/ /\ \E i \in Alive : server' = [server EXCEPT ![i] = "gone"]
        /\ Goto(c, "afterkill")
     \/ /\ Alive = {} \/ "backend" \in Faults
        /\ StopRaises(c)
        /\ UNCHANGED server
  /\ UNCHANGED <<container, tracks, loop, task>>

\* SIGTERM to the recorded PID, and the record is dropped at once.
KillByPidfile(c) ==
  /\ pc[c] = "kill" /\ Backend = "subprocess"
  /\ \/ /\ pidfile # None
        /\ server' = [server EXCEPT ![pidfile] =
                        IF pidfile \in Alive THEN "asked" ELSE @]
        /\ pidfile' = None
        /\ Goto(c, "afterkill")
     \/ /\ pidfile = None
        /\ StopRaises(c)
        /\ UNCHANGED <<server, pidfile>>
  /\ UNCHANGED <<container, seen, loop, task>>

\* docker stop: SIGTERM, SIGKILL after ten seconds; its errors are ignored.
StopContainer(c) ==
  /\ pc[c] = "kill" /\ Backend = "docker"
  /\ \/ StopNamed
     \/ "backend" \in Faults /\ UNCHANGED server
  /\ Goto(c, "killrm")
  /\ UNCHANGED <<container, tracks, loop, task>>

\* docker rm -f, whose error is the command's.
RemoveContainer(c) ==
  /\ pc[c] = "killrm"
  /\ \/ /\ container # None
        /\ StopNamed
        /\ container' = None
        /\ Goto(c, "afterkill")
     \/ /\ container = None \/ "backend" \in Faults
        /\ StopRaises(c)
        /\ UNCHANGED world
  /\ UNCHANGED <<tracks, loop, task>>

AfterKill(c) ==
  /\ pc[c] = "afterkill"
  /\ \/ Running(c, TRUE) /\ StopRaises(c)
     \/ Running(c, FALSE) /\ StopReturns(c)
  /\ UNCHANGED <<world, loop, task>>

-----------------------------------------------------------------------------
(* The commands that replace the server's files. *)

WipeUnchecked(c) ==
  /\ pc[c] = "wipecheck"
  /\ \E up \in BOOLEAN : Running(c, up)
  /\ Goto(c, "files")
  /\ UNCHANGED <<world, loop, task>>

WipeCheck(c) ==
  /\ pc[c] = "wipecheck"
  /\ \/ Running(c, TRUE) /\ End(c, "error")
     \/ Running(c, FALSE) /\ Goto(c, "files")
  /\ UNCHANGED <<world, loop, task>>

RestoreCheck(c) ==
  /\ pc[c] = "restorecheck"
  /\ \/ Running(c, TRUE) /\ Goto(c, "stop")
     \/ Running(c, FALSE) /\ Goto(c, "files")
  /\ UNCHANGED <<world, loop, task>>

\* rm -rf, the extraction of the archive, steamcmd: done, or failed half-way.
ReplaceFiles(c) ==
  /\ pc[c] = "files"
  /\ \/ IF again[c] THEN Goto(c, "start") ELSE End(c, "ok")
     \/ End(c, "error")
  /\ UNCHANGED <<world, tracks, loop, task>>

-----------------------------------------------------------------------------
(* The game server, and what else may happen. *)

\* It exits by itself, or obeys.
Exit(i) ==
  /\ i \in Alive
  /\ server' = [server EXCEPT ![i] = "gone"]
  /\ UNCHANGED <<container, tracks, loop, task, pc, outcome>>

\* The AlphaGSM process is interrupted (Ctrl-C, a closed terminal).
Crash(c) ==
  /\ "crash" \in Faults
  /\ pc[c] # "idle"
  /\ End(c, "crash")
  /\ UNCHANGED <<world, tracks, loop, task>>

Step(c) ==
  \/ ReadPid(c)
  \/ StartCheck(c) \/ AssertPorts(c) \/ LaunchCheck(c) \/ Inspect(c)
  \/ Remove(c) \/ Run(c) \/ RunRefused(c) \/ Spawn(c) \/ SpawnRefused(c)
  \/ WritePid(c)
  \/ StopCheck(c) \/ DoStop(c) \/ DoStopFails(c) \/ PollAgain(c)
  \/ MinuteOver(c)
  \/ KillCheck(c) \/ KillSession(c) \/ KillByPidfile(c)
  \/ StopContainer(c)
  \/ RemoveContainer(c) \/ AfterKill(c)
  \/ WipeCheck(c) \/ RestoreCheck(c) \/ ReplaceFiles(c)

Next ==
  /\ \/ \E c \in Clis : Begin(c) \/ Step(c) \/ Crash(c)
     \/ \E i \in Incarnations : Exit(i)
  /\ UNCHANGED setting

Spec == Init /\ [][Next]_vars

\* A CLI is never suspended for ever.  Nothing makes the game server exit.
FairSpec == Spec /\ \A c \in Clis : WF_vars(Step(c) /\ UNCHANGED setting)

-----------------------------------------------------------------------------
(* Properties *)

TypeOK ==
  /\ setting \in Settings
  /\ server \in [Incarnations -> {"new", "up", "asked", "gone"}]
  /\ container \in Incarnations \cup {None}
  /\ pidfile \in Incarnations \cup {None}
  /\ seen \in [Clis -> Incarnations \cup {None, Unread}]
  /\ pc \in [Clis -> Points]
  /\ cmd \in [Clis -> Commands]
  /\ again \in [Clis -> BOOLEAN]
  /\ minute \in [Clis -> 0..MaxWait] /\ poll \in [Clis -> 0..Polls]
  /\ outcome \in [Clis -> {"none", "ok", "error", "crash"}]
  /\ used \in [Clis -> 0..MaxCommands]

\* start, docstring: "Won't start it if the server is already running."  One
\* name never has two live servers.
OneServer == \A i, j \in Alive : i = j

\* docker's and tmux's names are unique: two servers never live under one,
\* whichever commands run at once.
NamesKeepOneServer == Backend \in {"docker", "tmux"} => OneServer

\* One command at a time, on a backend that knows its server by name.
OneAtATime == \E c \in Clis : Clis = {c}
ByName == OneAtATime /\ Backend # "subprocess"

\* One command at a time never leads to two servers.
AloneKeepsOneServer == ByName /\ "probe" \notin Faults => OneServer

\* stop and kill that return without an error have left no server behind:
\* nothing else runs, so it stays so until the next command.
StoppedIsStopped ==
  \A c \in Clis :
    pc[c] = "idle" /\ cmd[c] \in {"stop", "kill"} /\ outcome[c] = "ok" => Alive = {}

AloneStops == ByName /\ "probe" \notin Faults => StoppedIsStopped

\* wipe, restore and update touch the files only while no server uses them.
\* update goes on when it could not stop the server: for it, only while the
\* backend's commands do not fail.
FilesAreQuiet ==
  ByName /\ "probe" \notin Faults =>
    \A c \in Clis :
      pc[c] = "files" /\ (cmd[c] = "update" => "backend" \notin Faults) => Alive = {}

\* stop kills only a server that was asked to quit through all its minutes and
\* did not.
KillsAfterAsking ==
  \A c \in Clis : pc[c] = "kill" /\ cmd[c] # "kill" =>
    \A i \in Alive : server[i] = "asked" /\ minute[c] = MaxWait

TakesInput == ByName /\ (Backend = "docker" => Console)

\* Where the console takes the quit command, and the backend's commands do not
\* fail, stop is patient.
StopIsPatient == TakesInput /\ Faults \subseteq {"crash"} => KillsAfterAsking

\* No server is forgotten: what lives is in the PID file, about to be written
\* there, or has been sent SIGTERM.
NoServerIsForgotten ==
  Backend = "subprocess" /\ OneAtATime /\ Faults = {} =>
    \A i \in Alive :
      \/ i = pidfile
      \/ server[i] = "asked"
      \/ \E c \in Clis : pc[c] = "pidwrite" /\ seen[c] = i

\* Every command ends, whatever the game server does and whatever fails.
CommandEnds == \A c \in Clis : pc[c] # "idle" ~> pc[c] = "idle"

\* Once stop has found the server running, the server ends, even if it never
\* reacts to its quit command.
StopEndsTheServer ==
  ByName /\ Faults = {} => \A c \in Clis : pc[c] = "dostop" ~> Alive = {}
=============================================================================

# AlphaGSM in TLA+

AlphaGSM manages game servers on a host: it installs, configures, starts, stops, backs up and updates them. Every
command is a short-lived Python process (`alphagsm SERVER COMMAND ...`). Between commands the system lives only in
files (one JSON store per server, the download database, PID files, the crontab) and in other processes (GNU screen or
tmux sessions, plain subprocesses, docker containers). There is hardly a lock anywhere. What is hard to get right is
therefore what happens between two reads and writes of these files and processes: by two commands at once, by a command
that is interrupted, or by the game server itself. These modules model that.

Paths below are those of the repository, where the Python code is under `src/`. All bounds and abstractions are named in
the modules.

## 1. Inventory

| component | code | state | operations | hard behaviour | what makes it correct |
|---|---|---|---|---|---|
| shared download cache | `downloader/downloader.py`, `alphagsm-downloads` | database file, copy of it, lock file, directories | `getpathifexists`, `getpath`, `generatepath`, `download`, re-execution through sudo | lookup without the lock, crashes of the holder, failing writes and downloads, other users | one directory per request, only complete ones, no line lost, answers stay true, waiters end |
| server lifecycle | `server/server.py` | none of its own; the loop counters of `stop` | `start`, `stop`, `kill`, `restart`, `wipe`, `restore`, `update` | check and act apart, two users, a server that does not obey, interrupts | one live server per name, a successful stop means stopped, files change only while nothing runs |
| runtimes | `server/runtime.py` | docker containers by name | start, stop, kill, inspect, remove | docker commands that fail or do not answer | as above |
| process backends | `screen/` | sessions, PID file, registry of the process | `start_screen`, `send_to_screen`, `kill`, `check_screen_exists` | PID file written after the launch, dropped before the end | as above; no server is forgotten |
| port claims | `server/port_manager.py`, `set`, `setup`, `start` of `server/server.py` | stored ports, addresses, policies | claims, conflicts, probe of live sockets, group shift | the check and the save are apart, a launched server has not bound yet, other programs take ports, failed setups keep their data | launched servers share no endpoint, explicit ports stay, groups move together, a finished setup is free of conflicts |
| commands for several servers | `core/multiplexer.py`, `run_multi` of `core/main.py`, `alphagsm-internal` | processes, streams, buffers, statuses of two multiplexers | `process`, `addtomultiafter`, `transfer`, merging of statuses | children write, block, close and die on their own; `waitpid(-1)` | output once and in order, nobody left behind, true statuses, the run ends |
| JSON data store | `server/data.py` | one file per server | `load`, `save` | truncate and write, whole-store saves | only commands that overlap lose changes; a kill costs at most the command's own store |
| boot activation and backup schedules | `activate`, `deactivate` of `server/server.py`, `backup --activate` of `gamemodules/minecraft/custom.py` | the user's one crontab | read, change, write back | no lock; the command is started or stopped apart from the edit | each active server in one `@reboot` line; others' lines stay |
| backups | `utils/backups/backups.py`, `gamemodules/minecraft/custom.py` | archives named by profile and time, save state of the game | schedule, archive, expire, restore, save-off/save-on bracket | a kill or a failing docker command inside the bracket, two at once, calendar arithmetic | expiry removes only what is too old; saving is on again afterwards |
| log rotation | `screen/backend.py` `_rotatelogs` | numbered log files | delete, rename | interruption between renames | the newest logs are kept in order |
| update of an installed tree | `utils/updatefs.py`, `fileutils.py` | three directory trees | `update`, `checkandcleartrees` | local changes against two versions | no local change is lost |
| downloader modules | `downloadermodules/` | a `.part` file | download, retries, unpack | retries | as needed by the cache |
| SteamCMD and archive installation | `utils/steamcmd.py`, `archive_install.py`, `github_releases.py` | the installed files | download, retries, copying | external flakes, interruption | the program's file is where the start command looks |
| command line | `core/main.py`, `utils/cmdparse/` | none | parsing, dispatch, statuses | merging statuses | - |
| server names and modules | `server/gamemodules.py`, `_findmodule` | none | import by name, aliases, `disabled_servers.conf` | - | - |
| queries | `utils/query.py`, `query` and `info` | none | network questions with fallbacks | timeouts; asking where nobody listens | change nothing; ask where the program was told to listen |
| settings | `utils/settings/` | none after start | read files | - | - |
| game modules | `gamemodules/` (233 importable ones), `valve_server.py`, `proton.py` | the keys of a server's store, the program's own configuration | `configure`, `install`, `update`, `checkvalue`, `get_start_command`, `get_container_spec`, `get_query_address`, `do_stop` | one hook gives what another reads, in 233 files written by hand; setup, set and update while the server runs | no key is missing, choices last, containers publish what programs are told |
| legacy screen functions | `screen/screen.py`, `tail.py` | - | not used by the facade | - | - |
| docker wrapper | `alphagsm-docker` | - | shell script around the manager's container | - | - |

How they interact: a command loads its server's store, imports the game module the store names, and calls the
module's hooks. `setup` runs the module's `configure` and the port manager, then `install`, which asks the download cache.
`start` and `set` ask the port manager, which reads the stores of all servers and probes the host's sockets. `start`,
`stop` and the file-changing commands go through a runtime to a backend. A command for several servers starts one
`alphagsm-internal` per server and multiplexes their output.

## 2. What is modelled

| module | what it models | composition |
|---|---|---|
| `DownloadCache` | abstract: a growing function from requests to directories | refined by `Downloader` |
| `Downloader` | `getpath` and all it calls, one action per system call that others can see | `ImplementsCache` through `INSTANCE DownloadCache` with the cache read off the database |
| `Lifecycle` | the commands over one server with its runtime and backend: server, runtime and screen code composed | the configuration (backend, docker's stop mode, faults) is a variable chosen at the start |
| `Ports` | `set`, `setup` and `start` with stores, claims, sockets and other programs | the kind of game module is a variable chosen at the start |
| `Multiplexer` | one `run_multi`: parent, both multiplexers, children, pipes, statuses | - |
| `Games` | what a game module is to the core: a record of the keys its hooks give, take and read | extended by the catalogue |
| `ValveGames`, `WindowsGames`, `SteamGames`, `SteamGames2`, `ArchiveGames`, `AllGames` | that record for each of the 233 game modules, by where their files come from | `AllGames` collects them in `Shipped` |
| `GameServer` | one server of any game: setup, set, start, stop, restart, update, one after the other | the catalogue is a constant, `MCGameServer` takes `Shipped` for it |
| `Records` | abstract: records of servers, and which are booted or backed up | refined by `Registry` |
| `Registry` | the JSON files and the crontab under overlapping commands | `ImplementsRecords` through `INSTANCE Records` |
| `Backups` | `dobackup` with the archives of `backups.py`, the server and the calendar | - |
| `LogRotation` | `_rotatelogs` and the start it belongs to | - |
| `MCLifecycle`, `MCPorts`, `MCMultiplexer`, `MCGameServer`, `MCRegistry`, `MCBackups` | values of the constants for TLC | extend the modules |
| the modules `...Proofs` | theorems | extend the modules |

Operators named with words such as `Mutant`, `Unchecked`, `Ignored`, `Live`, `Any`, `Once`, `Only` or `Late` next to the definition they vary
are not part of the system. They are plausible mistakes in it, and each is used to show that a property would notice the mistake.

### Downloader

State: `db`, `update`, `lock`, `dirs` are the files; `pc`, `key`, `path` the local state of each process; `answer` the last
path handed out. The unlocked lookup, the creation of a missing database, the polling of the lock file with
`open(..., "x")`, the second lookup, `generatepath`, the downloader module, copying, writing, renaming and unlocking are
actions. A kill may come between any two, and removes nothing. Failing writes, downloads and permissions follow the
`finally` clause. A process of another user looks the request up, and runs the rest as the owner's sudo child.
Left out: dates, the active flag (never cleared), quoting.

### Lifecycle

An incarnation is one start of the game server. `Start*`, `Launch*`, `Inspect`, `Remove`, `Run`, `Spawn`, `WritePid` follow
`Server.start` into the four backends. `StopCheck`, `DoStop`, `PollAgain`, `MinuteOver`, `KillCheck`, `Kill*`, `AfterKill`
follow `Server.stop` with both of its loops, and `kill`. `WipeCheck`, `RestoreCheck` and `ReplaceFiles` stand for the
commands that replace files, in the Valve and Minecraft forms where the hooks differ. Every `is_running` is a step of its own, and on the
subprocess backend it is two: reading the PID file and asking the kernel. The faults of a setting are what may go wrong: `"crash"` (interrupts), `"probe"` (a question to
docker, screen or tmux that fails and answers "not running", as the code makes it) and `"backend"` (a command to them that fails, also the one that
asks the server to quit: `DoStopFails`, after which `stop` kills at once). Left out: the content of the files, log capture, tmux's lookup of a session by a prefix of its
name (section 7), the game-specific ways of quitting.

### Ports

`store` is each server's JSON file, `cmd` the running command with its copy of it, `live` the launched processes with
the data they were launched with, `aliens` the sockets of other programs. `Claims` follows `collect_claim_set`, `Clash`
`_endpoint_conflicts`, `Overlap` `hosted_ips_overlap`, and `FreeOffsets` with `Distance` the candidates of `recommend_shift`. `set` is
check and save; `setup` is configure, check (free, refused, hopeless, shift) and install; `start` is check and launch. `armarserver`
and `valheim` supply what a module's `configure` and its neighbouring query port do. Left out: the ports published by a container (they
repeat the stored ones; `GameServer` has them), other hooks, unreadable stores (`Registry` has those).

### Multiplexer

Output is a sequence of tokens, so that a read can cut a line or the marker anywhere. The marker is the first that stands alone on a line
(`MarkerBefore`), as the comparison of whole lines in `_internal_is_running` has it, and `Shown` is the output without it. `mux` holds what the two
`Multiplexer` objects hold: processes, streams, processes without streams, streams with buffered data. `Check`, `Select`,
`Read`, `Poll`, `WaitPid` and `Return` are the parts of one call of `process()`, with the children running between them;
`Spawn`, `Transfer` and `Nothing` are `addtomultiafter`; `ProcessAll` and `Finish` the rest of `run_multi`. A child closes its
pipe before it becomes a zombie, as every exiting process does, and blocks while its pipe is full. `subprocess` takes status 0 for a child it cannot wait for any
more. If no child is left, `waitpid(-1)` raises `ChildProcessError`: the parent is then "crashed", which the model shows to be
possible when an earlier server's child was reaped under the temporary multiplexer. Left out: `removeproc`, a second stream for one process (neither is used by `run_multi`; with two
streams `transfer` skips one, since it walks over a list that it shortens), the same server named twice.

### Games and GameServer

The modules under `gamemodules/` are data to the core, and so they are here: a `Game` is the record of the keys of the data
store that `configure` leaves (`gives`, and anew each time `forced`), `checkvalue` takes (`numbers`, and `words`, which can be
the text `DELETE`), `get_start_command` subscripts (`needs`); of the ports that the program is told of at every start (`tells`), that
`install` writes to its own configuration (`writes`), that the container publishes and the query asks; and
of where its files come from, what its `update` does and how it is asked to stop. Each record was read off the module's hooks. `Game(how, ports, numbers, words)` is the usual module,
where all of this follows from the lists of keys, and a record states what differs. 40 of the 43 Valve games are instances of `ValveServer`, as they are of
`define_valve_server_module`. `disabled_servers.conf` keeps a user from 131 of the modules until its line is removed (`server.py:97`); they are modelled like the others.

`GameServer` follows one server. `present`, `chosen`, `explicit`, `deleted` are the keys of the store by their history; `written` and
`unwritten` the ports that the program's configuration file has, or has never had since they changed; `installed` whether the program's file is there;
`heard`, `shown` what the running program was told and its container publishes; `changed` what is stale under a running program.
Values are not modelled, only whether they are old. `Setup` is configure, port claims and install, with an
interruption before the end; it does not ask whether the server runs. `Set` and `Delete` are `doset`. `Update` stops
the server and goes on whatever came of it, as `update` of the Valve modules does; those 43 are the only ones that `run_command` finds an `update` for.
The 143 other modules that list the command have no function in `command_functions`: it ends in a `KeyError` and changes nothing (section 6). 47 modules do not list it.
Which platform's depot SteamCMD is asked for is not modelled.

The theorems need, and TLC checks for the shipped catalogue, two assumptions about it (`KeysAssumption`,
`EndpointsAssumption`). The lists of exceptions in `MCGameServer` are what the code does not keep: section 6.

### Registry

`file` is each server's JSON file: a whole store, none, one just truncated (`Emptied`), or two texts over each other (`Torn`). A save is two
steps, `Empty` and `Write`, of the whole store with one key changed. A command may save as often as it likes; a save of the
code that has several new keys at once (`setup`) is modelled by one with one new key, since which changes of others it overwrites does not depend on how many are its
own. `boot` and `planned` are the lines of the crontab, which a command reads whole (`ReadTable`) and
later replaces whole. `raced` and `crossed` note that another command wrote meanwhile; no guard reads them. The variable `alone`,
chosen at the start, restricts the user to one command at a time: the refinement is claimed for that case only. A kill while a
command saves loses that server's record, which `Records` allows as `Lose`.

### Backups

A backup asks (`Ask`), sleeps, lists the archives, chooses the profile (`Scheduled`), zips, removes what is out of date profile by
profile, and tells the server to save again (`Finally`). An error anywhere in the `try`, or Ctrl-C, goes through `Finally`; Ctrl-C before or in it, and a kill, do not
(`muted`). So it is with the backend's failures: a check that docker does not answer reads as "not running" (`runtime.py:1061`), so that `Check` may pass a running server by
(which counts as `disturbed`) and `Finally` may leave one unsaved; a failing `docker exec` raises (`runtime.py:1176`), in `Ask`, whether the server has heard it or
not, and in `Finally` (both `muted`). A killed backup's `zip` goes on by itself. The calendar is that of Python's `datetime`, with the year and month arithmetic of
`applydelta`, and ends with the year 9999, beyond which
`datetime` raises. Lifetimes are inherited from
base profiles. Targets and exclusions are left out. The clock stands while a backup runs, since two backups of interest are hours apart. The subprocess backend, on
which `save-off` cannot be sent from another process, fails at `Ask` always.

### LogRotation

`logs` maps the number in a file's name to the log it holds, and logs are numbered by age. `List` takes the directory once and
decides what to remove and to shift; the removals, the renames and the retirement of the current log are steps between which another start or an interrupt
may come. The current log of a start that failed is kept, as the code does.

## 3. Runs

All bounds are values of constants, in the `.cfg` files and `MC` modules.

| run | what it asks | bounds, and why they are enough | result |
|---|---|---|---|
| `downloader` | safety and liveness of the cache, and the refinement | 3 processes (one of another user), 2 requests, 2 directories, one call each, every fault: two processes meet in every pair of steps while a third is dead or waiting, and directories run out | holds, 84,640 states |
| `lifecycle_alone` | one command at a time on the four backends | 3 commands, 2 minutes of 2 polls, every single fault: each loop is entered, repeated and left, each command follows each other | holds, 37,577 states |
| `lifecycle_shared` | two users of one docker or tmux server | 2 users, 2 commands each, questions that are not answered, on docker also commands that fail, symmetry | holds, 382,567 states |
| `lifecycle_stopped` | a successful `stop` or `kill` on the subprocess backend left nothing running | 1 user | violated: the PID file goes after SIGTERM, whether the server dies or not |
| `ports_alone` | one command at a time | 2 servers, 2 keys, ports 1 to 3, shifts up to 2, 5 kinds of modules, symmetry on servers; the ports are few so that every group soon meets a neighbour and a limit | holds, 2,249,360 states |
| `ports_deleted` | no `set` puts a server in conflict with one it was apart from | 2 servers, one user, a host with two addresses | violated: with one port on different addresses, DELETE of one's bind address widens its claim onto the other's, unchecked |
| `multiplexer` | one command for two servers | 2 servers, 6 outputs (silent, a message only, marker first, late, twice, within a line, more than a pipe holds, a part line), 2 failing statuses, pipe and chunk of 3 tokens: a pipe fills, the marker is cut, data follows it in one read | holds, 832,436 states |
| `multiplexer_reaped` | a collected status is the command's | 2 servers, 3 outputs | violated: `waitpid(-1)` takes the status away |
| `games` | one server of each of 233 games, with and without docker | every game; one `set` or `DELETE` of any key, after and before any other command: each property speaks of one key at a time, so a second edit adds nothing new | holds, 163,104 states |
| `registry` | overlapping commands, and one at a time, on stores and crontab | 2 servers, 2 keys, 2 commands, 2 boot lines, 2 values set, kills anywhere, symmetry: two writers of one file, and a reader between | holds, 2,433,475 states |
| `backups` | a scheduled backup and a user's | 2 commands, 2 profiles, 4 configurations, 2 archives, 6 times around year's end, short months and 29 February: each unit of lifetime is exceeded and just not; every check and command of the backend may fail | holds, 2,404,896 states |
| `logs` | two starts of a name | 2 starters, `keeplogs` 0 to 3, 6 logs: the numbers fill, leave gaps and are filled again | holds, 2,035 states |

The lost status of `multiplexer_reaped` needs a child that is slow to become a zombie after it
closed its pipe. That is rare, but it turns a failure into a reported success.

Properties worth a reader's time:

* Downloader: `DirectoriesHaveOneWriter`, `LinesAreDurable` (also against the process that creates a missing
  database late), `DatabaseSound` (one line per request and directory, only complete directories, answers that stay true), `StaleLockIsForever` (what
  a killed holder costs), `EveryCallEnds`.
* Lifecycle: `NamesKeepOneServer`, `FilesAreQuiet`, `StopIsPatient`, `NoServerIsForgotten`, `StopEndsTheServer`. What is claimed
  only for one command at a time (`OneAtATime`), or only without some fault, says so, because the code gives no more: `StopIsPatient` supposes that
  the backend's commands and questions do not fail, `FilesAreQuiet` of `update` that its commands do not.
* Ports: `LaunchedApart`, although stores of failed setups and unchecked deletions do clash; `EveryoneHeard` for a user who lets
  each server come up; `ExplicitStays`, `GroupMoves` (one offset for all, within the legal range), `SetupSettles` over steps.
* Multiplexer: `OutputIsWhole`, `NobodyLeftBehind`, `SilenceMeansReady`, `RunEnds`, and `WaitsAreAnswered`: where the parent
  blocks, a child can go on, though other children are blocked on pipes that nobody reads then.
* GameServer: `QueriesArrive` relates what is asked to what the running program was told, through any sequence of setups, edits,
  updates and restarts; `ChoicesStay` through any number of setups.
* Registry: `OnlyOverlapsLose` (a command that nobody raced with keeps everybody's changes), `OnceAtBoot` (even lost updates
  never boot a server twice), and the refinement.
* Backups: `SavingComesBack` however a backup ends (but for what section 6 says of failing commands), `LifetimesHold` on every day of the calendar.
* LogRotation: `OnlyOldLogsGo` also after gaps in the numbers, `NewestFirst` and `FewLogs` whatever overlaps.

## 4. Fairness

* `Downloader`: weak fairness of each process's own steps (polling included): processes are scheduled by the kernel. There is no fairness on
  faults, or on beginning a call. `EveryCallEnds` excludes only runs in which a holder was killed. Waiters may lose
  every race for the lock, but calls are finitely many, so weak fairness suffices.
* `Lifecycle`: weak fairness of each command. Nothing makes the game server exit, neither by itself nor when asked; that is
  why `StopEndsTheServer` rests on the final kill.
* `Multiplexer`: weak fairness of the parent and of each child. A child ends once its output is taken; that is an assumption about
  the commands, which for `stop` is `CommandEnds` of `Lifecycle`.
* The other modules state no liveness: their commands have no loop that waits for anybody.

Runs that end in states where everyone is done, or where the bounds are used up, say `CHECK_DEADLOCK FALSE`. `ports_alone`, `registry` and `backups`
check for deadlock.

## 5. What is proved

Every invariant and every action property of the passing runs is a theorem, and so are both refinements. The proofs hold for every value of the
constants that satisfies the named assumptions of the module (`...Assumption`). Each module's type invariant is a theorem and is checked by no run
(that of `Registry` says that a command never works on half a store).

* `DownloaderProofs`: `MutualExclusion`, `DatabaseSound`, `LinesAreDurable`, `StaleLockIsForever`, and that
  `Downloader` implements `DownloadCache`. Mutual exclusion is not inductive by itself. `IInv` ties the lock file to its
  holder's program point and the holder to what it has done: the request is not in the database while it downloads, its directory
  is partial and then complete, the copy is empty and then the database with the new line (`HolderInv`). `DirectoriesHaveOneWriter` (theorem
  `OneWriter`) needs besides that no two processes ever drew the same directory (`Drawn`). In the refinement `Rename` is
  `Fill`, returning is `Reply`, everything else stutters.
* `LifecycleProofs`: the bounds of the loops of `stop` (`Loop`), and `NamesKeepOneServer` for any number of concurrent
  commands, from `Named`: what lives on docker is the container that bears the name. For one command at a time,
  `LoneInv` says at which points nothing is alive (`Quiet`), that a polled server was asked to quit, and that a kill comes after the last minute.
  It gives `AloneKeepsOneServer`, `AloneStops`, `FilesAreQuiet`, `StopIsPatient`, and `NoServerIsForgotten` on the subprocess
  backend without faults (`AloneRemembers`), since the PID that a check has in its hands is still the file's, and a server is started only when the file is gone (`PlainInv`).
* `PortsProofs`: types, for any number of concurrent commands. For one at a time `LaunchedApart`, `ExplicitStays`, `GroupMoves`
  and `SetupSettles`, from `AloneInv`: a command's copy is what the file holds, apart from the keys `set` is about to write
  (`CopyIsCurrent`); a check's verdict still holds when it is acted on (`CheckedIsApart`); an unedited server runs with what is stored
  (`UneditedIsStored`). `EveryoneHeard` is proved for a user who lets each server come up: what a start probed
  stays free until the server it launched has bound (`HeardInv`; valheim, with its query port on the loopback address, has no
  address to set, `BesideAssumption`). This is exactly what concurrency breaks (section 6).
* `MultiplexerProofs`: types of all variables (`TypesCorrect`) and all five safety invariants of the run. For `NobodyLeftBehind` and
  `FailuresAreReal`, `IInv` says that every unreaped child is known to one of the multiplexers (`Known`), that the temporary one has at
  most one process and only while a marker is awaited (`Awaited`), and that a collected status is the command's own or 0 (`Collected`).
  For `OutputIsWhole`, `TInv` says where the text is: what a stream buffers is the piece of the output from the beginning of a line up to
  what was read, what was printed is all that comes before that piece, without the marker, and the marker is awaited exactly while it does
  not stand before the piece. That chunks cut at line ends give the output cut at once rests on lemmas about `Cut`, whose
  first and last positions come from the well-founded order of the naturals. `SilenceMeansReady` adds that a
  process is handed over only with its marker read (`Marked`, `Warning`); `WaitsAreAnswered` that a process
  without a stream has closed its pipe and that a multiplexer waits only for processes it has (`Waits`).
* `GameServerProofs`: all four properties of the run, for any catalogue that meets the assumptions, so also for a game that is
  added later. `StoreInv` says whose keys the store has and that the ones configure gives are there or were deleted; `RunInv`
  what a running program was told, up to the keys that changed since.
* `RegistryProofs`: `TypeOK`, `OnceAtBoot`, `OnlyOverlapsLose` for any number of commands, and that one command at a time
  implements `Records`. `IInv` says that the tables commands hold were read whole (`Typed`), that their boot lines are apart (`Apart`), and what a
  command alone knows of the file it writes. In the refinement a save counts when it is written, or when it is killed, as `Lose`.
* `BackupsProofs`: `SavingComesBack` and `LoneZipsAreQuiet` for any number of backups, from `IInv`: the server is quiet from `Ask`
  on while nobody came between (`Quiet`), and one who came between, or a check that was not answered, marked everyone concerned (`Company`);
  whoever was let down by a command of the backend has said so in `muted`.
  `LifetimesHold` for any profiles that meet `ConfigsAssumption`: what an expiry has doomed is past its lifetime, and what is still
  there is doomed, of a profile still to come, or within its lifetime (`LifeInv`), whatever other backups make and remove meanwhile.
* `LogRotationProofs`: `NewestFirst` and `FewLogs` for any starts at all, and `OnlyOldLogsGo` for starts that do not overlap, by counting the
  files below a number (finite-set theorems); `IInv` says that the highest file still to be shifted has a free number above.

Only model-checked: liveness under fairness, which is out of the prover's reach: `EveryCallEnds`, `CommandEnds`,
`StopEndsTheServer` and `RunEnds`. Of the last, `WaitsAreAnswered` is the part that can be stated of a state, and it is proved.

## 6. Where code, documentation and expectation part

Three runs are violated, each with its lines in `PROJECT.json`: `kill` on the subprocess backend
(`subprocess_backend.py:152`), the unchecked DELETE that widens a claim (`server.py:1243`), and the lost status (`multiplexer.py:207`).

Not runs of their own, but met on the way. In the core:

* A second lookup that finds the request runs `return Path`, an undefined name (`downloader.py:236`): the call ends with `NameError`, and still unlocks.
* One `docker exec` that fails is taken for "backend can't send input cross-invocation" (`server.py:512`): `stop` kills the server at once, whatever `max_stop_wait` says.
* 143 modules list `update` and define it, and leave `command_functions` empty, which has the "Implementation function for every command in `commands`"
  (`skills/server-lifecycle/SKILL.md:99`): `alphagsm SERVER update` ends in a `KeyError` (`server.py:455`), although their pages tell the user to run it
  (`docs/servers/satisfactory.md:54`).
  104 of these modules are in `disabled_servers.conf`, 39 are not.
* Two concurrent `start`s on screen both pass the check (`server.py:481`); two concurrent `set`s both pass theirs (`server.py:1253`).
* `doset` would use an undefined `server` if a module had `postset` (`server.py:1268`); none has.
* `_parsecmd` takes a name of digits only for a count (`server.py:1373`). `create` over an existing server overwrites its store. A store
  that is not JSON ends a command with an uncaught `ValueError` (`server.py:365`).
* `set container_name` while the container runs loses it; `set runtime` is overridden by the metadata the next load resolves.
* A store without `port` makes `query` fail even if there is a `queryport` (`server.py:672`): starbound's.
* `install_archive` skips the download whenever `current_url` equals `url`, even after an interrupted copy that left the executable.

In backups and logs:

* A failing `zip` prints an error and the backup succeeds (`backups.py:160`). One zip with an unreadable name blocks every backup
  (`backups.py:137`), although `list_backups` tolerates it. A profile that was removed leaves archives that end the expiry (`backups.py:165`).
* On 29 February a lifetime of years raises `ValueError` after the archive is made, and a schedule entry of years prevents it.
* `save-off` survives a killed backup until the next one ends. It also survives a `docker inspect` or `docker exec` that fails at the end of the backup (`custom.py:497`);
  an inspect that fails at its beginning lets a world be zipped while the server saves it (`custom.py:489`).
* `update` goes on after a kill that failed and rewrites the files of the live server (`valve_server.py:515`).

In the games (the constants of `MCGameServer` list those that matter to the properties):

* The `update` functions no command reaches (see above) have flaws of their own: those of aska, astroneer and starrupture (`askaserver.py:98`) ask for the native
  depot, where `install` has the Windows one.
* A Source game's start writes `srcds_run_64` into `exe_name` over `srcds_run`, also where the user set that (`valve_server.py:539`).
* 17 GoldSrc games tell the program a `sourcetvport` that is set, and no container publishes it. The query ports of valheim and miscreated (`port` + 1), kf2server's `queryport`
  and teamfortress2's `port` + 1 and + 5 are not published either.
* ts3server, terraria and bedrock resolve `version` and `url` anew at each setup, over the user's values.
* `checkvalue` of bungeecord compares a list with `"exe_name"`; counterstrike2, counterstrikeglobaloffensive and teamfortress2 have none.
* 46 modules have no `update` or `restart`, though their pages list them. Documented default ports differ from the code's (ts3server 10011 and 9987, aska 27016 and 27015).
* staxelserver refuses `do_stop` with a `ServerError` that `Server.stop` does not expect; its page says how to stop it (`docs/servers/staxelserver.md:40`).
* Some 169 modules type their stop command through screen whatever the runtime; under docker that fails and `stop` kills the container.

## 7. Not modelled

* `updatefs`: three trees and local changes; used for Minecraft servers only, and several of its branches end in `NameError`. A model of the branches that run would be an algorithm on
  trees without concurrency, which its unit tests reach better.
* tmux's lookup of a session by a prefix of its name (`tmux_backend.py:105`): the models give servers names of which none is a prefix of another.
* The PID file under two users of the subprocess backend: `NoServerIsForgotten` does not hold there (`subprocess_backend.py:198`).
* Two streams for one process in the multiplexer, and `removeproc`: `run_multi` uses neither.
* Restoring a backup by its index in a list that is made anew (`server.py:590`); the content of archives and of installed files.
* tekkit and factorio, which cannot be imported.
* Network protocols of queries and downloads, parsing, settings, names and aliases of modules, the text of command lines and of
  configuration files, shell scripts: no state of their own, or only state of external programs.

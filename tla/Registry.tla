------------------------------- MODULE Registry -------------------------------
(***************************************************************************)
(* What AlphaGSM keeps between two commands: a JSON file for each server    *)
(* (src/server/data.py) and the user's one crontab, which has the lines     *)
(* that start servers at boot (src/server/server.py) and those that back    *)
(* them up (src/gamemodules/minecraft/custom.py).  A command loads the      *)
(* whole file of its server and later writes it whole, into a file it has   *)
(* emptied first; it reads the whole crontab and later replaces it.         *)
(* Nothing is locked: commands may overlap, and may be killed anywhere.     *)
(***************************************************************************)
EXTENDS Naturals

CONSTANTS Servers,        \* names of servers
          Keys,           \* keys of a data store
          Commands,       \* command processes
          Jobs,           \* places for boot lines in the crontab
          MaxSets,        \* bound: values that set commands write
          None, Lost,     \* no store; a store no command can load any more
          Emptied, Torn   \* a file just truncated; a file with two stores in it

ASSUME BoundAssumption == MaxSets \in Nat
ASSUME MarkAssumption ==
  /\ {None, Lost, Emptied, Torn} \cap [Keys -> 0..MaxSets] = {}
  /\ None # Lost /\ None \notin {Emptied, Torn} /\ Emptied # Torn /\ None \notin Servers
ASSUME JobAssumption == Jobs # {}

VARIABLES
  alone,    \* whether the user runs one command at a time
  file,     \* server -> its file: a whole store, None, Emptied or Torn
  boot,     \* place -> the servers that line starts at boot, {} for no line
  planned,  \* servers with a line that runs their backup
  cmd,      \* the commands under way
  sets      \* values written so far

vars == <<alone, file, boot, planned, cmd, sets>>

Stores == [Keys -> 0..MaxSets]
Fresh == [k \in Keys |-> 0]   \* nothing set yet

Others(c) == Commands \ {c}

\* What the abstract store has for a file nobody is writing.
View(f) == IF f \in {Emptied, Torn} THEN Lost ELSE f

\* A command at rest; data is its copy of the store, lines its copy of the
\* crontab.  old is what the store was when the file was emptied; raced says
\* that another command has since written the file, crossed the crontab.
Idle == [at |-> "idle", for |-> None, data |-> None, old |-> None,
         lines |-> None, raced |-> FALSE, crossed |-> FALSE]

Init ==
  /\ alone \in BOOLEAN
  /\ file = [s \in Servers |-> None]
  /\ boot \in {b \in [Jobs -> SUBSET Servers] :
                 \A i, j \in Jobs : i # j => b[i] \cap b[j] = {}}
  /\ planned = {}
  /\ cmd = [c \in Commands |-> Idle]
  /\ sets = 0

-----------------------------------------------------------------------------
(* The data store. *)

MayBegin(c) ==
  /\ cmd[c] = Idle
  /\ alone => \A d \in Others(c) : cmd[d] = Idle

\* Others that work on s have raced with a writer of its file.
Race(s, c) ==
  [d \in Commands |->
     IF d # c /\ cmd[d].for = s THEN [cmd[d] EXCEPT !.raced = TRUE] ELSE cmd[d]]

\* open(filename, "w"): the file is there, and empty.
Empty(c, s, data) ==
  /\ cmd' = [Race(s, c) EXCEPT ![c] =
       [Idle EXCEPT !.at = "saving", !.for = s, !.data = data, !.old = View(file[s]),
                    !.raced = cmd[c].raced]]
  /\ file' = [file EXCEPT ![s] = Emptied]

\* Server(name, module): a new store takes the place of whatever was there.
Create(c, s) ==
  /\ MayBegin(c)
  /\ Empty(c, s, Fresh)
  /\ UNCHANGED <<alone, boot, planned, sets>>

\* Server(name): a file that is not there, or not whole, ends the command.
Load(c, s) ==
  /\ MayBegin(c) /\ file[s] \in Stores
  /\ cmd' = [cmd EXCEPT ![c] = [Idle EXCEPT !.at = "loaded", !.for = s, !.data = file[s]]]
  /\ UNCHANGED <<alone, file, boot, planned, sets>>

SaveOnlyChange(c) ==
  /\ cmd[c].at = "loaded"
  /\ sets < MaxSets /\ sets' = sets + 1
  /\ \E k \in Keys : Empty(c, cmd[c].for, [Fresh EXCEPT ![k] = sets + 1])
  /\ UNCHANGED <<alone, boot, planned>>

\* A save of what was loaded, with one key changed, or none (metadata); the key
\* stands for all that the command changes before it saves.
Save(c) ==
  /\ cmd[c].at = "loaded"
  /\ \/ Empty(c, cmd[c].for, cmd[c].data) /\ UNCHANGED sets
     \/ /\ sets < MaxSets /\ sets' = sets + 1
        /\ \E k \in Keys : Empty(c, cmd[c].for, [cmd[c].data EXCEPT ![k] = sets + 1])
  /\ UNCHANGED <<alone, boot, planned>>

\* json.dump from the start of the file: over the text of a writer that came
\* between, which may be longer and stick out.
Write(c) ==
  /\ cmd[c].at = "saving"
  /\ LET s == cmd[c].for IN
       /\ file' \in {[file EXCEPT ![s] = text] :
                       text \in {cmd[c].data} \cup IF file[s] = Emptied THEN {} ELSE {Torn}}
       /\ cmd' = [Race(s, c) EXCEPT ![c] = [cmd[c] EXCEPT !.at = "loaded", !.old = None]]
  /\ UNCHANGED <<alone, boot, planned, sets>>

End(c) ==
  /\ cmd[c].at = "loaded"
  /\ cmd' = [cmd EXCEPT ![c] = Idle]
  /\ UNCHANGED <<alone, file, boot, planned, sets>>

Kill(c) ==
  /\ cmd[c] # Idle
  /\ cmd' = [cmd EXCEPT ![c] = Idle]
  /\ UNCHANGED <<alone, file, boot, planned, sets>>

-----------------------------------------------------------------------------
(* The crontab. *)

Crontab == [boot |-> boot, planned |-> planned]

ReadTable(c) ==
  /\ cmd[c].at = "loaded"
  /\ cmd' = [cmd EXCEPT ![c].at = "table", ![c].lines = Crontab]
  /\ UNCHANGED <<alone, file, boot, planned, sets>>

Back(c) == [cmd[c] EXCEPT !.at = "loaded", !.lines = None, !.crossed = FALSE]

\* ct.write puts the command's copy, changed, in the place of the crontab.
Replace(c, newboot, newplanned) ==
  /\ boot' = newboot /\ planned' = newplanned
  /\ cmd' = [d \in Commands |->
       IF d = c THEN Back(c)
       ELSE IF cmd[d].at = "table" THEN [cmd[d] EXCEPT !.crossed = TRUE] ELSE cmd[d]]
  /\ UNCHANGED <<alone, file, sets>>

Active(lines) == UNION {lines.boot[i] : i \in Jobs}

ActivateAgain(c) ==
  /\ cmd[c].at = "table"
  /\ LET b == cmd[c].lines.boot IN
     \E i \in Jobs :
       /\ b[i] # {} \/ \A j \in Jobs : b[j] = {}
       /\ Replace(c, [b EXCEPT ![i] = @ \cup {cmd[c].for}], cmd[c].lines.planned)

\* The server joins a line that is there, or gets the only one.
Activate(c) ==
  /\ cmd[c].at = "table" /\ cmd[c].for \notin Active(cmd[c].lines)
  /\ LET b == cmd[c].lines.boot IN
     \E i \in Jobs :
       /\ b[i] # {} \/ \A j \in Jobs : b[j] = {}
       /\ Replace(c, [b EXCEPT ![i] = @ \cup {cmd[c].for}], cmd[c].lines.planned)

DeactivateLine(c) ==
  /\ cmd[c].at = "table" /\ cmd[c].for \in Active(cmd[c].lines)
  /\ LET b == cmd[c].lines.boot IN
       Replace(c, [i \in Jobs |-> IF cmd[c].for \in b[i] THEN {} ELSE b[i]],
               cmd[c].lines.planned)

\* A line whose last server leaves goes.
Deactivate(c) ==
  /\ cmd[c].at = "table" /\ cmd[c].for \in Active(cmd[c].lines)
  /\ LET b == cmd[c].lines.boot IN
       Replace(c, [i \in Jobs |-> b[i] \ {cmd[c].for}], cmd[c].lines.planned)

\* backup --activate: any line there is goes, and a new one comes.
Plan(c) ==
  /\ cmd[c].at = "table"
  /\ Replace(c, cmd[c].lines.boot, cmd[c].lines.planned \cup {cmd[c].for})

Unplan(c) ==
  /\ cmd[c].at = "table" /\ cmd[c].for \in cmd[c].lines.planned
  /\ Replace(c, cmd[c].lines.boot, cmd[c].lines.planned \ {cmd[c].for})

\* Already active, or not active: nothing is written.
LeaveTable(c) ==
  /\ cmd[c].at = "table"
  /\ cmd' = [cmd EXCEPT ![c] = Back(c)]
  /\ UNCHANGED <<alone, file, boot, planned, sets>>

Next ==
  \E c \in Commands :
    \/ \E s \in Servers : Create(c, s) \/ Load(c, s)
    \/ Save(c) \/ Write(c) \/ End(c) \/ Kill(c)
    \/ ReadTable(c) \/ Activate(c) \/ Deactivate(c) \/ Plan(c) \/ Unplan(c) \/ LeaveTable(c)

Spec == Init /\ [][Next]_vars

-----------------------------------------------------------------------------
(* What holds. *)

TypeOK ==
  /\ alone \in BOOLEAN /\ sets \in 0..MaxSets
  /\ file \in [Servers -> Stores \cup {None, Emptied, Torn}]
  /\ boot \in [Jobs -> SUBSET Servers] /\ planned \subseteq Servers
  /\ \A c \in Commands :
       \/ cmd[c] = Idle
       \/ /\ cmd[c].at \in {"loaded", "saving", "table"}
          /\ cmd[c].for \in Servers /\ cmd[c].data \in Stores

\* A boot starts no server twice, whatever commands raced for the crontab:
\* each writes a table that grew out of one it read whole.
OnceAtBoot == \A i, j \in Jobs : i # j => boot[i] \cap boot[j] = {}

\* Whether store s changes from old to new by one key, or is a new one.
OneChange(old, new) ==
  new = Fresh \/ (old \in Stores /\ \E k \in Keys : \A j \in Keys \ {k} : new[j] = old[j])

\* What a step leaves of the changes of others when c ends its own: a whole
\* store with one key changed, a crontab that differs in c's server only.
Keeps(c) ==
  LET s == cmd[c].for IN
  /\ cmd[c].at = "saving" /\ cmd'[c].at = "loaded" /\ ~cmd[c].raced =>
       file'[s] \in Stores /\ OneChange(cmd[c].old, file'[s])
  /\ cmd[c].at = "table" /\ cmd'[c].at = "loaded" /\ ~cmd[c].crossed =>
       \A t \in Servers \ {s} :
         /\ t \in planned' <=> t \in planned
         /\ (\E i \in Jobs : t \in boot'[i]) <=> (\E i \in Jobs : t \in boot[i])

\* Only commands that overlap lose each other's changes: one nobody raced
\* with, or crossed, keeps them all.
OnlyOverlapsLose == [][\A c \in Commands : Keeps(c)]_vars

\* One command at a time, each step is one step of Records, or none: a
\* command's writes count when the file is whole again, a kill before that
\* loses the record.
SeenFile(s) ==
  IF \E c \in Commands : cmd[c].at = "saving" /\ cmd[c].for = s
  THEN cmd[CHOOSE c \in Commands : cmd[c].at = "saving" /\ cmd[c].for = s].old
  ELSE View(file[s])

Shared == INSTANCE Records WITH
  Values <- 0..MaxSets,
  records <- [s \in Servers |-> IF alone THEN SeenFile(s) ELSE None],
  active <- IF alone THEN Active(Crontab) ELSE {},
  planned <- IF alone THEN planned ELSE {}

ImplementsRecords == Shared!Spec
=============================================================================

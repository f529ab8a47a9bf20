----------------------------- MODULE LogRotation -----------------------------
(***************************************************************************)
(* The logs of one server (src/screen/backend.py, _rotatelogs): each start  *)
(* of a session first moves the current log to number 0, and numbers 0, 1,  *)
(* ... up by one, file by file, and removes what is too many.  The starts   *)
(* of one name may overlap, and may be interrupted between two files.       *)
(***************************************************************************)
EXTENDS Naturals, FiniteSets

CONSTANTS Starters,   \* commands that start the server
          KeepLogs,   \* the values keeplogs may have in the settings
          MaxLogs     \* bound: logs the server ever gets

ASSUME KeepAssumption == KeepLogs \subseteq Nat
ASSUME LogsAssumption == MaxLogs \in Nat

VARIABLES
  alone,    \* whether the starts of the server never overlap
  keep,     \* keeplogs
  current,  \* the log without a number, 0 for none; logs count from 1 by age
  logs,     \* number in the file's name -> log, for the files that exist
  made,     \* logs made so far
  cmd       \* Starters -> where a start is, and the files it has still to
            \* remove and to shift

vars == <<alone, keep, current, logs, made, cmd>>

Idle == [at |-> "idle", remove |-> {}, shift |-> {}]

Init ==
  /\ alone \in BOOLEAN /\ keep \in KeepLogs
  /\ current = 0 /\ made = 0
  /\ logs = [i \in {} |-> 0]
  /\ cmd = [c \in Starters |-> Idle]

Become(c, at, remove, shift) ==
  cmd' = [cmd EXCEPT ![c] = [at |-> at, remove |-> remove, shift |-> shift]]

Fail(c) == cmd' = [cmd EXCEPT ![c] = Idle]

-----------------------------------------------------------------------------
\* A file whose number is also its place in the sorted list.
InPlace(i) == \A j \in 0..i : j \in DOMAIN logs

TooMany(i) == IF InPlace(i) THEN i + 1 >= keep ELSE i >= keep

ToShiftAll == DOMAIN logs

ToShift == {i \in DOMAIN logs : InPlace(i) /\ ~TooMany(i)}

\* The directory is listed once; without a current log nothing is rotated.
List(c) ==
  /\ cmd[c] = Idle /\ made < MaxLogs
  /\ alone => \A d \in Starters : cmd[d] = Idle
  /\ \/ /\ current = 0 /\ Become(c, "opening", {}, {})
     \/ /\ current # 0
        /\ Become(c, "rotating", {i \in DOMAIN logs : TooMany(i)}, ToShift)
  /\ UNCHANGED <<alone, keep, current, logs, made>>

\* Files go in the order of their numbers.
Remove(c) ==
  /\ cmd[c].at = "rotating"
  /\ \E i \in cmd[c].remove :
       /\ \A j \in cmd[c].remove : i <= j
       /\ \/ /\ i \in DOMAIN logs
             /\ logs' = [j \in DOMAIN logs \ {i} |-> logs[j]]
             /\ Become(c, "rotating", cmd[c].remove \ {i}, cmd[c].shift)
          \/ i \notin DOMAIN logs /\ Fail(c) /\ UNCHANGED logs
  /\ UNCHANGED <<alone, keep, current, made>>

Moved(i) == [j \in (DOMAIN logs \ {i}) \cup {i + 1} |-> IF j = i + 1 THEN logs[i] ELSE logs[j]]

ShiftUpwards(c) ==
  /\ cmd[c].at = "rotating" /\ cmd[c].remove = {}
  /\ \E i \in cmd[c].shift :
       /\ \A j \in cmd[c].shift : i <= j
       /\ \/ /\ i \in DOMAIN logs /\ logs' = Moved(i)
             /\ Become(c, "rotating", {}, cmd[c].shift \ {i})
          \/ i \notin DOMAIN logs /\ Fail(c) /\ UNCHANGED logs
  /\ UNCHANGED <<alone, keep, current, made>>

\* The highest number first, so that its new name is free.
Shift(c) ==
  /\ cmd[c].at = "rotating" /\ cmd[c].remove = {}
  /\ \E i \in cmd[c].shift :
       /\ \A j \in cmd[c].shift : j <= i
       /\ \/ /\ i \in DOMAIN logs /\ logs' = Moved(i)
             /\ Become(c, "rotating", {}, cmd[c].shift \ {i})
          \/ i \notin DOMAIN logs /\ Fail(c) /\ UNCHANGED logs
  /\ UNCHANGED <<alone, keep, current, made>>

\* Which number the current log gets.
NewNumberFree == CHOOSE i \in 0..MaxLogs : i \notin DOMAIN logs

NewNumber == 0

Retire(c) ==
  /\ cmd[c].at = "rotating" /\ cmd[c].remove = {} /\ cmd[c].shift = {}
  /\ \/ /\ current # 0 /\ current' = 0
        /\ logs' = [j \in DOMAIN logs \cup {NewNumber} |-> IF j = NewNumber THEN current ELSE logs[j]]
        /\ Become(c, "opening", {}, {})
     \/ current = 0 /\ Fail(c) /\ UNCHANGED <<current, logs>>
  /\ UNCHANGED <<alone, keep, made>>

\* The session starts, and appends to the log that is there or makes it.
Open(c) ==
  /\ cmd[c].at = "opening"
  /\ Fail(c)
  /\ IF current = 0 THEN current' = made + 1 /\ made' = made + 1 ELSE UNCHANGED <<current, made>>
  /\ UNCHANGED <<alone, keep, logs>>

\* An interrupt, a kill, or a session that cannot be started.
Interrupt(c) ==
  /\ cmd[c] # Idle
  /\ Fail(c)
  /\ UNCHANGED <<alone, keep, current, logs, made>>

Next ==
  \E c \in Starters :
    List(c) \/ Remove(c) \/ Shift(c) \/ Retire(c) \/ Open(c) \/ Interrupt(c)

Spec == Init /\ [][Next]_vars

-----------------------------------------------------------------------------
(* What holds. *)

TypeOK ==
  /\ alone \in BOOLEAN /\ keep \in KeepLogs /\ made \in Nat
  /\ current \in 0..made
  /\ DOMAIN logs \subseteq Nat /\ \A i \in DOMAIN logs : logs[i] \in 1..made
  /\ \A c \in Starters :
       /\ cmd[c].at \in {"idle", "rotating", "opening"}
       /\ cmd[c].remove \subseteq Nat /\ cmd[c].shift \subseteq Nat

\* Whatever starts overlapped or were cut short: a higher number is an older
\* log, and no log has two numbers.
NewestFirst ==
  /\ \A i, j \in DOMAIN logs : i < j => logs[i] > logs[j]
  /\ current # 0 => \A i \in DOMAIN logs : current > logs[i]

Kept == {logs[i] : i \in DOMAIN logs} \cup ({current} \ {0})

\* Starts that do not overlap lose a log only when there are keeplogs newer
\* ones, also after interrupted ones have left gaps in the numbers.
OnlyOldLogsGo ==
  [][alone => \A log \in Kept \ Kept' :
       Cardinality({newer \in Kept' : newer > log}) >= keep]_vars

\* No more logs pile up beside the current one than keeplogs, or one.
FewLogs == \A i \in DOMAIN logs : i = 0 \/ i < keep
=============================================================================

---------------------------- MODULE RegistryProofs ----------------------------
(***************************************************************************)
(* Registry for any number of servers, keys, commands and changes.          *)
(***************************************************************************)
EXTENDS Registry, TLAPS

Tables == [boot : [Jobs -> SUBSET Servers], planned : SUBSET Servers]

\* A command under way and its copies.
Commanding ==
  [at : {"loaded", "saving", "table"}, for : Servers, data : Stores,
   old : Stores \cup {None, Lost}, lines : Tables \cup {None}, raced : BOOLEAN, crossed : BOOLEAN]

Typed ==
  /\ alone \in BOOLEAN /\ sets \in 0..MaxSets
  /\ file \in [Servers -> Stores \cup {None, Emptied, Torn}]
  /\ boot \in [Jobs -> SUBSET Servers] /\ planned \subseteq Servers
  /\ cmd \in [Commands -> Commanding \cup {Idle}]

Apart(b) == \A i, j \in Jobs : i # j => b[i] \cap b[j] = {}

\* What a command knows as long as nobody raced with it or crossed it.
Knows(c) ==
  /\ cmd[c].at \in {"loaded", "table"} /\ ~cmd[c].raced => file[cmd[c].for] = cmd[c].data
  /\ cmd[c].at = "saving" /\ ~cmd[c].raced =>
       file[cmd[c].for] = Emptied /\ OneChange(cmd[c].old, cmd[c].data)
  /\ cmd[c].at = "table" =>
       /\ cmd[c].lines \in Tables /\ Apart(cmd[c].lines.boot)
       /\ ~cmd[c].crossed => cmd[c].lines = Crontab

\* One command at a time: nobody races with it.
OneAtATime ==
  alone => /\ \A c, d \in Commands : c # d => cmd[c] = Idle \/ cmd[d] = Idle
           /\ \A c \in Commands : ~cmd[c].raced /\ ~cmd[c].crossed

IInv ==
  /\ Typed
  /\ Apart(boot)
  /\ \A c \in Commands : Knows(c)
  /\ OneAtATime

-----------------------------------------------------------------------------
LEMMA FreshIsStore == Fresh \in Stores
  BY BoundAssumption DEF Fresh, Stores

LEMMA IdleIsNot == Idle \notin Commanding
  BY DEF Idle, Commanding

LEMMA InitI == Init => IInv
  BY BoundAssumption DEF Init, IInv, Typed, Apart, Knows, OneAtATime, Idle

LEMMA ViewTyped ==
  ASSUME NEW f \in Stores \cup {None, Emptied, Torn}
  PROVE  View(f) \in Stores \cup {None, Lost} /\ (f \in Stores => View(f) = f)
  BY MarkAssumption DEF View, Stores

\* What a save and a write do to the other commands.
LEMMA RaceTyped ==
  ASSUME Typed, NEW c \in Commands, NEW s \in Servers
  PROVE  /\ Race(s, c) \in [Commands -> Commanding \cup {Idle}]
         /\ Race(s, c)[c] = cmd[c]
         /\ \A d \in Commands \ {c} :
              Race(s, c)[d] = IF cmd[d].for = s THEN [cmd[d] EXCEPT !.raced = TRUE] ELSE cmd[d]
         /\ \A d \in Commands \ {c} : cmd[d] = Idle => Race(s, c)[d] = Idle
<1>1. \A d \in Commands : cmd[d] \in Commanding \cup {Idle}
  BY DEF Typed
<1>2. Idle.for = None /\ None # s
  BY MarkAssumption DEF Idle
<1>3. \A d \in Commands : cmd[d].for = s => [cmd[d] EXCEPT !.raced = TRUE] \in Commanding
  BY <1>1, <1>2 DEF Commanding
<1> QED
  BY <1>1, <1>2, <1>3 DEF Race

\* A save that begins: the file is empty, and whoever works on it knows less.
LEMMA EmptyKeeps ==
  ASSUME IInv, NEW c \in Commands, NEW s \in Servers, NEW data \in Stores,
         Empty(c, s, data), UNCHANGED <<alone, boot, planned>>,
         sets' \in 0..MaxSets,
         cmd[c] = Idle \/ (cmd[c].at = "loaded" /\ cmd[c].for = s),
         cmd[c].raced \/ OneChange(View(file[s]), data),
         alone => \A d \in Others(c) : cmd[d] = Idle
  PROVE  IInv'
<1>1. /\ file' = [file EXCEPT ![s] = Emptied]
      /\ cmd' = [Race(s, c) EXCEPT ![c] =
           [Idle EXCEPT !.at = "saving", !.for = s, !.data = data, !.old = View(file[s]),
                        !.raced = cmd[c].raced]]
  BY DEF Empty
<1>2. Typed /\ cmd[c] \in Commanding \cup {Idle} /\ file[s] \in Stores \cup {None, Emptied, Torn}
  BY DEF IInv, Typed
<1> DEFINE mine == [Idle EXCEPT !.at = "saving", !.for = s, !.data = data, !.old = View(file[s]),
                                !.raced = cmd[c].raced]
<1>3. /\ mine \in Commanding /\ mine.at = "saving" /\ mine.for = s /\ mine.data = data
      /\ mine.old = View(file[s]) /\ mine.raced = cmd[c].raced /\ mine.crossed = FALSE
  <2>1. View(file[s]) \in Stores \cup {None, Lost}
    BY <1>2, ViewTyped
  <2>2. cmd[c].raced \in BOOLEAN
    <3>1. CASE cmd[c] \in Commanding BY <3>1 DEF Commanding
    <3>2. CASE cmd[c] = Idle
      <4>1. cmd[c].raced = FALSE
        BY <3>2 DEF Idle
      <4> QED BY <4>1
    <3> QED BY <1>2, <3>1, <3>2
  <2> QED BY <2>1, <2>2 DEF Commanding, Idle
<1>0. cmd' = [Race(s, c) EXCEPT ![c] = mine]
  BY <1>1
<1> HIDE DEF mine
<1>4. /\ cmd' \in [Commands -> Commanding \cup {Idle}] /\ cmd'[c] = mine
      /\ \A d \in Commands \ {c} :
           /\ cmd'[d] = IF cmd[d].for = s THEN [cmd[d] EXCEPT !.raced = TRUE] ELSE cmd[d]
           /\ cmd[d] = Idle => cmd'[d] = Idle
  BY <1>0, <1>2, <1>3, RaceTyped, SMTT(20)
<1>5. Typed'
  BY <1>1, <1>2, <1>4 DEF Typed
<1>6. ASSUME NEW d \in Commands PROVE Knows(d)'
  <2>1. CASE d = c
    BY <1>1, <1>2, <1>3, <1>4, <2>1 DEF Knows, Typed
  <2>2. CASE d # c /\ cmd[d].for = s
    <3>1. cmd[d] \in Commanding
      BY <2>2, MarkAssumption DEF IInv, Typed, Idle
    <3>2. /\ cmd'[d].raced /\ cmd'[d].at = cmd[d].at
          /\ cmd'[d].lines = cmd[d].lines /\ cmd'[d].crossed = cmd[d].crossed
      BY <1>4, <2>2, <3>1 DEF Commanding
    <3> QED BY <3>2 DEF IInv, Knows, Crontab
  <2>3. CASE d # c /\ cmd[d].for # s
    <3>1. cmd'[d] = cmd[d]
      BY <1>4, <2>3
    <3>2. cmd[d].at # "idle" => file'[cmd[d].for] = file[cmd[d].for]
      BY <1>1, <1>2, <2>3 DEF Typed, Commanding, Idle
    <3> QED BY <3>1, <3>2 DEF IInv, Knows, Crontab
  <2> QED BY <2>1, <2>2, <2>3
<1>7. OneAtATime'
  BY <1>3, <1>4 DEF IInv, OneAtATime, Others
<1> QED
  BY <1>5, <1>6, <1>7 DEF IInv, Apart

LEMMA CreateKeeps == ASSUME IInv, NEW c \in Commands, NEW s \in Servers, Create(c, s) PROVE IInv'
  BY EmptyKeeps, FreshIsStore DEF Create, MayBegin, OneChange, IInv, Typed

LEMMA SaveKeeps == ASSUME IInv, NEW c \in Commands, Save(c) PROVE IInv'
<1>1. cmd[c] \in Commanding /\ cmd[c].at = "loaded" /\ Knows(c)
  BY DEF IInv, Typed, Save, Idle
<1>2. cmd[c].for \in Servers /\ cmd[c].data \in Stores
  BY <1>1 DEF Commanding
<1>3. UNCHANGED <<alone, boot, planned>>
  BY DEF Save
<1>4. alone => \A d \in Others(c) : cmd[d] = Idle
  <2>1. cmd[c] # Idle
    BY <1>1, IdleIsNot
  <2> QED BY <2>1 DEF IInv, OneAtATime, Others
<1>5. ~cmd[c].raced => View(file[cmd[c].for]) = cmd[c].data
  BY <1>1, <1>2, ViewTyped DEF Knows
<1>6. CASE Empty(c, cmd[c].for, cmd[c].data) /\ UNCHANGED sets
  <2>1. OneChange(cmd[c].data, cmd[c].data)
    <3>1. CASE Keys = {} BY <1>2, <3>1 DEF Stores, Fresh, OneChange
    <3>2. CASE Keys # {} BY <1>2, <3>2 DEF OneChange
    <3> QED BY <3>1, <3>2
  <2>2. sets' \in 0..MaxSets
    BY <1>6 DEF IInv, Typed
  <2> QED BY <1>1, <1>2, <1>3, <1>4, <1>5, <1>6, <2>1, <2>2, EmptyKeeps
<1>7. CASE /\ sets < MaxSets /\ sets' = sets + 1
           /\ \E k \in Keys : Empty(c, cmd[c].for, [cmd[c].data EXCEPT ![k] = sets + 1])
  <2>1. PICK k \in Keys : Empty(c, cmd[c].for, [cmd[c].data EXCEPT ![k] = sets + 1])
    BY <1>7
  <2>2. sets' \in 0..MaxSets /\ sets + 1 \in 0..MaxSets
    BY <1>7, BoundAssumption DEF IInv, Typed
  <2> DEFINE new == [cmd[c].data EXCEPT ![k] = sets + 1]
  <2>3. new \in Stores /\ OneChange(cmd[c].data, new)
    BY <1>2, <2>2 DEF Stores, OneChange
  <2> HIDE DEF new
  <2>4. Empty(c, cmd[c].for, new)
    BY <2>1 DEF new
  <2> QED BY <1>1, <1>2, <1>3, <1>4, <1>5, <2>2, <2>3, <2>4, EmptyKeeps
<1> QED BY <1>6, <1>7 DEF Save

\* A write: the file is whole, or has two texts in it if another command
\* wrote between; whoever works on it knows less.
LEMMA WriteKeeps == ASSUME IInv, NEW c \in Commands, Write(c) PROVE IInv'
<1> DEFINE s == cmd[c].for
           mine == [cmd[c] EXCEPT !.at = "loaded", !.old = None]
<1>1. cmd[c] \in Commanding /\ cmd[c].at = "saving" /\ Knows(c) /\ Typed
  BY DEF IInv, Typed, Write, Idle
<1>2. s \in Servers /\ cmd[c].data \in Stores
  BY <1>1 DEF Commanding
<1>3. PICK text \in {cmd[c].data} \cup IF file[s] = Emptied THEN {} ELSE {Torn} :
        file' = [file EXCEPT ![s] = text]
  BY DEF Write
<1>4. cmd' = [Race(s, c) EXCEPT ![c] = mine] /\ UNCHANGED <<alone, boot, planned, sets>>
  BY DEF Write
<1>5. /\ mine \in Commanding /\ mine.at = "loaded" /\ mine.for = s /\ mine.data = cmd[c].data
      /\ mine.raced = cmd[c].raced /\ mine.crossed = cmd[c].crossed
  BY <1>1 DEF Commanding
<1>6. text \in Stores \cup {Torn} /\ (file[s] = Emptied => text = cmd[c].data)
  BY <1>2, <1>3
<1> HIDE DEF mine, s
<1>7. /\ cmd' \in [Commands -> Commanding \cup {Idle}] /\ cmd'[c] = mine
      /\ \A d \in Commands \ {c} :
           /\ cmd'[d] = IF cmd[d].for = s THEN [cmd[d] EXCEPT !.raced = TRUE] ELSE cmd[d]
           /\ cmd[d] = Idle => cmd'[d] = Idle
  BY <1>1, <1>2, <1>4, <1>5, RaceTyped
<1>8. Typed'
  BY <1>1, <1>2, <1>3, <1>4, <1>6, <1>7 DEF Typed
<1>9. ASSUME NEW d \in Commands PROVE Knows(d)'
  <2>1. CASE d = c
    <3>1. ~cmd[c].raced => file[s] = Emptied
      BY <1>1 DEF Knows, s
    <3>2. ~cmd[c].raced => file'[s] = cmd[c].data
      BY <1>1, <1>2, <1>3, <1>6, <3>1 DEF Typed
    <3> QED BY <1>5, <1>7, <2>1, <3>2 DEF Knows
  <2>2. CASE d # c /\ cmd[d].for = s
    <3>1. cmd[d] \in Commanding
      BY <1>2, <2>2, MarkAssumption DEF IInv, Typed, Idle
    <3>2. /\ cmd'[d].raced /\ cmd'[d].at = cmd[d].at
          /\ cmd'[d].lines = cmd[d].lines /\ cmd'[d].crossed = cmd[d].crossed
      BY <1>7, <2>2, <3>1 DEF Commanding
    <3> QED BY <1>4, <3>2 DEF IInv, Knows, Crontab
  <2>3. CASE d # c /\ cmd[d].for # s
    <3>1. cmd'[d] = cmd[d]
      BY <1>7, <2>3
    <3>2. cmd[d].at # "idle" => file'[cmd[d].for] = file[cmd[d].for]
      BY <1>1, <1>3, <2>3 DEF Typed, Commanding, Idle
    <3> QED BY <1>4, <3>1, <3>2 DEF IInv, Knows, Crontab
  <2> QED BY <2>1, <2>2, <2>3
<1>10. OneAtATime'
  <2>1. cmd[c] # Idle
    BY <1>1, IdleIsNot
  <2> QED BY <1>4, <1>5, <1>7, <2>1 DEF IInv, OneAtATime
<1> QED
  BY <1>4, <1>8, <1>9, <1>10 DEF IInv, Apart

\* Steps that change one command and no file: it rests, or knows what it did.
LEMMA OnlyCommand ==
  ASSUME IInv, NEW c \in Commands, NEW mine \in Commanding \cup {Idle},
         cmd' = [cmd EXCEPT ![c] = mine],
         UNCHANGED <<alone, file, boot, planned>>, sets' \in 0..MaxSets,
         mine = Idle \/ (cmd[c] # Idle /\ mine.crossed = cmd[c].crossed /\ mine.raced = cmd[c].raced)
           \/ (~mine.raced /\ ~mine.crossed /\ (alone => \A d \in Others(c) : cmd[d] = Idle)),
         mine.at \in {"idle", "loaded", "table"},
         mine.at # "idle" /\ ~mine.raced => file[mine.for] = mine.data,
         mine.at = "table" => /\ mine.lines \in Tables /\ Apart(mine.lines.boot)
                              /\ ~mine.crossed => mine.lines = Crontab
  PROVE  IInv'
<1>1. Typed'
  BY DEF IInv, Typed
<1>2. cmd'[c] = mine /\ \A d \in Commands \ {c} : cmd'[d] = cmd[d]
  BY DEF IInv, Typed
<1>3. ASSUME NEW d \in Commands PROVE Knows(d)'
  <2>1. CASE d = c
    BY <1>2, <2>1 DEF Knows, Crontab
  <2>2. CASE d # c
    BY <1>2, <2>2 DEF IInv, Knows, Crontab
  <2> QED BY <2>1, <2>2
<1>4. OneAtATime'
  <2>1. ~Idle.raced /\ ~Idle.crossed
    BY DEF Idle
  <2> QED BY <1>2, <2>1 DEF IInv, OneAtATime, Others
<1> QED
  BY <1>1, <1>3, <1>4 DEF IInv, Apart

LEMMA LoadKeeps ==
  ASSUME IInv, NEW c \in Commands, NEW s \in Servers, Load(c, s) PROVE IInv'
<1> DEFINE mine == [Idle EXCEPT !.at = "loaded", !.for = s, !.data = file[s]]
<1>1. mine \in Commanding /\ mine.at = "loaded" /\ mine.for = s /\ mine.data = file[s]
      /\ ~mine.raced /\ ~mine.crossed
  BY DEF Load, Idle, Commanding
<1>2. cmd' = [cmd EXCEPT ![c] = mine] /\ UNCHANGED <<alone, file, boot, planned, sets>>
  BY DEF Load
<1>3. alone => \A d \in Others(c) : cmd[d] = Idle
  BY DEF Load, MayBegin
<1> HIDE DEF mine
<1> QED
  BY <1>1, <1>2, <1>3, OnlyCommand DEF IInv, Typed

LEMMA RestKeeps ==
  ASSUME IInv, NEW c \in Commands, cmd' = [cmd EXCEPT ![c] = Idle],
         UNCHANGED <<alone, file, boot, planned, sets>>
  PROVE  IInv'
<1>1. Idle.at = "idle"
  BY DEF Idle
<1> QED
  BY <1>1, OnlyCommand DEF IInv, Typed

LEMMA ReadTableKeeps ==
  ASSUME IInv, NEW c \in Commands, ReadTable(c) PROVE IInv'
<1> DEFINE mine == [cmd[c] EXCEPT !.at = "table", !.lines = Crontab]
<1>1. cmd[c] \in Commanding /\ cmd[c].at = "loaded" /\ Knows(c)
  BY DEF IInv, Typed, ReadTable, Idle
<1>2. Crontab \in Tables /\ Apart(Crontab.boot)
  BY DEF IInv, Typed, Crontab, Tables
<1>3. /\ mine \in Commanding /\ mine.at = "table" /\ mine.for = cmd[c].for
      /\ mine.data = cmd[c].data /\ mine.lines = Crontab
      /\ mine.raced = cmd[c].raced /\ mine.crossed = cmd[c].crossed
  BY <1>1, <1>2 DEF Commanding
<1>4. cmd' = [cmd EXCEPT ![c] = mine] /\ UNCHANGED <<alone, file, boot, planned, sets>>
  BY <1>1 DEF ReadTable, IInv, Typed
<1>5. cmd[c] # Idle /\ (~cmd[c].raced => file[cmd[c].for] = cmd[c].data)
  BY <1>1, IdleIsNot DEF Knows
<1> HIDE DEF mine
<1> QED
  BY <1>2, <1>3, <1>4, <1>5, OnlyCommand DEF IInv, Typed

LEMMA BackTyped ==
  ASSUME NEW c \in Commands, cmd[c] \in Commanding
  PROVE  /\ Back(c) \in Commanding /\ Back(c).at = "loaded" /\ Back(c).for = cmd[c].for
         /\ Back(c).data = cmd[c].data /\ Back(c).raced = cmd[c].raced /\ ~Back(c).crossed
  BY DEF Back, Commanding

LEMMA AtTable ==
  ASSUME IInv, NEW c \in Commands, cmd[c].at = "table"
  PROVE  /\ cmd[c] \in Commanding /\ Knows(c) /\ cmd[c] # Idle
         /\ cmd[c].for \in Servers
         /\ cmd[c].lines.boot \in [Jobs -> SUBSET Servers] /\ Apart(cmd[c].lines.boot)
         /\ cmd[c].lines.planned \in SUBSET Servers
         /\ ~cmd[c].crossed => cmd[c].lines.boot = boot /\ cmd[c].lines.planned = planned
<1>1. cmd[c] \in Commanding /\ Knows(c) /\ cmd[c] # Idle
  BY DEF IInv, Typed, Idle
<1>2. cmd[c].lines \in Tables /\ Apart(cmd[c].lines.boot) /\ (~cmd[c].crossed => cmd[c].lines = Crontab)
  BY <1>1 DEF Knows
<1>3. cmd[c].for \in Servers
  BY <1>1 DEF Commanding
<1> QED BY <1>1, <1>2, <1>3 DEF Tables, Crontab

\* A crontab takes the place of another: whoever read the old one crosses it.
LEMMA ReplaceKeeps ==
  ASSUME IInv, NEW c \in Commands, cmd[c].at = "table",
         NEW b \in [Jobs -> SUBSET Servers], NEW p \in SUBSET Servers, Apart(b),
         Replace(c, b, p)
  PROVE  IInv'
<1>1. /\ boot' = b /\ planned' = p /\ UNCHANGED <<alone, file, sets>>
      /\ cmd' = [d \in Commands |->
           IF d = c THEN Back(c)
           ELSE IF cmd[d].at = "table" THEN [cmd[d] EXCEPT !.crossed = TRUE] ELSE cmd[d]]
  BY DEF Replace
<1>2. Typed /\ cmd[c] \in Commanding /\ Knows(c) /\ cmd[c] # Idle
  BY AtTable DEF IInv
<1>3. /\ Back(c) \in Commanding /\ Back(c).at = "loaded" /\ Back(c).for = cmd[c].for
      /\ Back(c).data = cmd[c].data /\ Back(c).raced = cmd[c].raced /\ ~Back(c).crossed
  BY <1>2, BackTyped
<1>4. \A d \in Commands :
        cmd[d].at = "table" =>
          LET e == [cmd[d] EXCEPT !.crossed = TRUE] IN
            /\ e \in Commanding /\ e.at = cmd[d].at /\ e.for = cmd[d].for /\ e.data = cmd[d].data
            /\ e.raced = cmd[d].raced /\ e.lines = cmd[d].lines /\ e.crossed
  <2> SUFFICES ASSUME NEW d \in Commands, cmd[d].at = "table"
               PROVE  LET e == [cmd[d] EXCEPT !.crossed = TRUE] IN
            /\ e \in Commanding /\ e.at = cmd[d].at /\ e.for = cmd[d].for /\ e.data = cmd[d].data
            /\ e.raced = cmd[d].raced /\ e.lines = cmd[d].lines /\ e.crossed
    OBVIOUS
  <2>1. cmd[d] \in Commanding
    BY AtTable
  <2> QED BY <2>1 DEF Commanding
<1>5. cmd' \in [Commands -> Commanding \cup {Idle}]
  BY <1>1, <1>2, <1>3, <1>4 DEF Typed
<1>6. Typed'
  BY <1>1, <1>2, <1>5 DEF Typed
<1>7. ASSUME NEW d \in Commands PROVE Knows(d)'
  <2>1. CASE d = c
    <3>1. cmd'[d] = Back(c)
      BY <1>1, <2>1
    <3> QED BY <1>1, <1>2, <1>3, <3>1 DEF Knows
  <2>2. CASE d # c /\ cmd[d].at = "table"
    <3>1. cmd'[d] = [cmd[d] EXCEPT !.crossed = TRUE]
      BY <1>1, <2>2
    <3> QED BY <1>1, <1>4, <2>2, <3>1 DEF IInv, Knows
  <2>3. CASE d # c /\ cmd[d].at # "table"
    <3>1. cmd'[d] = cmd[d]
      BY <1>1, <2>3
    <3> QED BY <1>1, <2>3, <3>1 DEF IInv, Knows
  <2> QED BY <2>1, <2>2, <2>3
<1>8. OneAtATime'
  <2>1. Idle.at # "table"
    BY DEF Idle
  <2>2. alone => \A d \in Commands \ {c} : cmd[d] = Idle /\ cmd'[d] = Idle
    BY <1>1, <1>2, <2>1 DEF IInv, OneAtATime
  <2>3. cmd'[c] = Back(c) /\ ~Idle.raced /\ ~Idle.crossed
    BY <1>1 DEF Idle
  <2> QED BY <1>1, <1>3, <2>2, <2>3 DEF IInv, OneAtATime
<1> QED
  BY <1>1, <1>6, <1>7, <1>8 DEF IInv

\* The new crontabs start no server twice.
LEMMA ActivateTable ==
  ASSUME NEW b \in [Jobs -> SUBSET Servers], Apart(b), NEW s \in Servers, NEW i \in Jobs,
         \A j \in Jobs : s \notin b[j]
  PROVE  LET e == [b EXCEPT ![i] = @ \cup {s}] IN e \in [Jobs -> SUBSET Servers] /\ Apart(e)
  BY DEF Apart

LEMMA ActivateKeeps == ASSUME IInv, NEW c \in Commands, Activate(c) PROVE IInv'
<1> DEFINE b == cmd[c].lines.boot
<1>1. cmd[c].at = "table" /\ \A j \in Jobs : cmd[c].for \notin b[j]
  BY DEF Activate, Active
<1>2. PICK i \in Jobs : Replace(c, [b EXCEPT ![i] = @ \cup {cmd[c].for}], cmd[c].lines.planned)
  BY DEF Activate
<1>3. b \in [Jobs -> SUBSET Servers] /\ Apart(b) /\ cmd[c].for \in Servers
      /\ cmd[c].lines.planned \in SUBSET Servers
  BY <1>1, AtTable
<1> HIDE DEF b
<1> QED BY <1>1, <1>2, <1>3, ActivateTable, ReplaceKeeps

LEMMA DeactivateKeeps == ASSUME IInv, NEW c \in Commands, Deactivate(c) PROVE IInv'
<1> DEFINE b == cmd[c].lines.boot
           e == [i \in Jobs |-> b[i] \ {cmd[c].for}]
<1>1. cmd[c].at = "table" /\ Replace(c, e, cmd[c].lines.planned)
  BY DEF Deactivate
<1>2. b \in [Jobs -> SUBSET Servers] /\ Apart(b) /\ cmd[c].lines.planned \in SUBSET Servers
  BY <1>1, AtTable
<1>3. e \in [Jobs -> SUBSET Servers] /\ Apart(e)
  BY <1>2 DEF Apart
<1> HIDE DEF b, e
<1> QED BY <1>1, <1>2, <1>3, ReplaceKeeps

LEMMA PlanKeeps == ASSUME IInv, NEW c \in Commands, Plan(c) \/ Unplan(c) PROVE IInv'
<1>1. PICK p \in SUBSET (cmd[c].lines.planned \cup {cmd[c].for}) :
        cmd[c].at = "table" /\ Replace(c, cmd[c].lines.boot, p)
  BY DEF Plan, Unplan
<1>2. /\ cmd[c].lines.boot \in [Jobs -> SUBSET Servers] /\ Apart(cmd[c].lines.boot)
      /\ p \in SUBSET Servers
  BY <1>1, AtTable
<1> QED BY <1>1, <1>2, ReplaceKeeps

LEMMA LeaveTableKeeps == ASSUME IInv, NEW c \in Commands, LeaveTable(c) PROVE IInv'
<1>1. /\ cmd[c].at = "table" /\ cmd' = [cmd EXCEPT ![c] = Back(c)]
      /\ UNCHANGED <<alone, file, boot, planned, sets>>
  BY DEF LeaveTable
<1>2. cmd[c] \in Commanding /\ Knows(c) /\ cmd[c] # Idle
  BY <1>1, AtTable
<1>3. /\ Back(c) \in Commanding /\ Back(c).at = "loaded" /\ Back(c).for = cmd[c].for
      /\ Back(c).data = cmd[c].data /\ Back(c).raced = cmd[c].raced /\ ~Back(c).crossed
  BY <1>2, BackTyped
<1>4. Typed'
  BY <1>1, <1>3 DEF IInv, Typed
<1>5. cmd'[c] = Back(c) /\ \A d \in Commands \ {c} : cmd'[d] = cmd[d]
  BY <1>1 DEF IInv, Typed
<1>6. ASSUME NEW d \in Commands PROVE Knows(d)'
  <2>1. CASE d = c BY <1>1, <1>2, <1>3, <1>5, <2>1 DEF Knows
  <2>2. CASE d # c BY <1>1, <1>5, <2>2 DEF IInv, Knows, Crontab
  <2> QED BY <2>1, <2>2
<1>7. OneAtATime'
  BY <1>1, <1>2, <1>3, <1>5 DEF IInv, OneAtATime
<1> QED BY <1>1, <1>4, <1>6, <1>7 DEF IInv, Apart

LEMMA NextI == IInv /\ [Next]_vars => IInv'
<1> SUFFICES ASSUME IInv, [Next]_vars PROVE IInv'
  OBVIOUS
<1>1. CASE UNCHANGED vars
  BY <1>1 DEF vars, IInv, Typed, Apart, Knows, OneAtATime, Crontab
<1>2. ASSUME NEW c \in Commands, NEW s \in Servers, Create(c, s) \/ Load(c, s) PROVE IInv'
  BY <1>2, CreateKeeps, LoadKeeps
<1>3. ASSUME NEW c \in Commands, Save(c) \/ Write(c) PROVE IInv'
  BY <1>3, SaveKeeps, WriteKeeps
<1>4. ASSUME NEW c \in Commands, End(c) \/ Kill(c) PROVE IInv'
  BY <1>4, RestKeeps DEF End, Kill
<1>5. ASSUME NEW c \in Commands,
             ReadTable(c) \/ Activate(c) \/ Deactivate(c) \/ Plan(c) \/ Unplan(c) \/ LeaveTable(c)
      PROVE  IInv'
  BY <1>5, ReadTableKeeps, ActivateKeeps, DeactivateKeeps, PlanKeeps, LeaveTableKeeps
<1> QED BY <1>1, <1>2, <1>3, <1>4, <1>5 DEF Next

LEMMA AlwaysI == Spec => []IInv
  BY InitI, NextI, PTL DEF Spec

-----------------------------------------------------------------------------
\* Every store, crontab and command is of its kind (data.py load and save).
THEOREM TypesHold == Spec => []TypeOK
<1>1. IInv => TypeOK
  BY DEF IInv, Typed, TypeOK, Commanding
<1> QED BY <1>1, AlwaysI, PTL

\* Whatever commands race for the crontab, no boot starts a server twice
\* (server.py activate and deactivate).
THEOREM BootsOnce == Spec => []OnceAtBoot
<1>1. IInv => OnceAtBoot
  BY DEF IInv, Apart, OnceAtBoot
<1> QED BY <1>1, AlwaysI, PTL

Step(d) ==
  \/ \E s \in Servers : Create(d, s) \/ Load(d, s)
  \/ Save(d) \/ Write(d) \/ End(d) \/ Kill(d)
  \/ ReadTable(d) \/ Activate(d) \/ Deactivate(d) \/ Plan(d) \/ Unplan(d) \/ LeaveTable(d)

\* A command that saves or is at the crontab goes back only by its own step.
LEMMA BackLoaded ==
  ASSUME IInv, NEW c \in Commands, NEW d \in Commands, Step(d),
         cmd[c].at \in {"saving", "table"}, cmd'[c].at = "loaded"
  PROVE  c = d /\ (Write(c) \/ Activate(c) \/ Deactivate(c) \/ Plan(c) \/ Unplan(c) \/ LeaveTable(c))
<1>1. cmd[c] \in Commanding /\ Typed
  BY DEF IInv, Typed, Idle
<1>2. \A s : [cmd[c] EXCEPT !.raced = TRUE].at = cmd[c].at /\ [cmd[c] EXCEPT !.crossed = TRUE].at = cmd[c].at
  BY <1>1 DEF Commanding
<1>3. \A s : c # d => Race(s, d)[c].at = cmd[c].at
  BY <1>2 DEF Race
<1>4. Idle.at = "idle"
  BY DEF Idle
<1>5. ASSUME NEW s \in Servers, NEW data, Empty(d, s, data) PROVE FALSE
  <2>1. DOMAIN Race(s, d) = Commands /\ cmd' = [Race(s, d) EXCEPT ![d] =
           [Idle EXCEPT !.at = "saving", !.for = s, !.data = data, !.old = View(file[s]),
                        !.raced = cmd[d].raced]]
    BY <1>5 DEF Empty, Race
  <2>2. CASE c # d
    BY <1>3, <2>1, <2>2
  <2>3. CASE c = d
    <3>1. cmd'[c].at = "saving"
      BY <2>1, <2>3 DEF Idle
    <3> QED BY <3>1
  <2> QED BY <2>2, <2>3
<1>6. ASSUME NEW s \in Servers, Create(d, s) PROVE FALSE
  BY <1>5, <1>6 DEF Create
<1>7. ASSUME NEW s \in Servers, Load(d, s) PROVE FALSE
  BY <1>1, <1>4, <1>7 DEF Load, MayBegin, Typed
<1>8. ASSUME Save(d) PROVE FALSE
  <2>1. cmd[d].for \in Servers
    BY <1>1, <1>4, <1>8 DEF Save, Typed, Commanding
  <2> QED BY <1>5, <1>8, <2>1 DEF Save
<1>9. ASSUME End(d) \/ Kill(d) PROVE FALSE
  BY <1>1, <1>4, <1>9 DEF End, Kill, Typed
<1>10. ASSUME ReadTable(d) PROVE FALSE
  <2>1. cmd[d] \in Commanding
    BY <1>1, <1>4, <1>10 DEF ReadTable, Typed
  <2> QED BY <1>1, <1>10, <2>1 DEF ReadTable, Typed, Commanding
<1>11. ASSUME Write(d) PROVE c = d
  BY <1>1, <1>3, <1>11 DEF Write, Typed, Race
<1>12. ASSUME Activate(d) \/ Deactivate(d) \/ Plan(d) \/ Unplan(d) PROVE c = d
  <2>1. cmd' = [e \in Commands |->
       IF e = d THEN Back(d)
       ELSE IF cmd[e].at = "table" THEN [cmd[e] EXCEPT !.crossed = TRUE] ELSE cmd[e]]
    BY <1>12 DEF Activate, Deactivate, Plan, Unplan, Replace
  <2> QED BY <1>2, <2>1
<1>13. ASSUME LeaveTable(d) PROVE c = d
  BY <1>1, <1>13 DEF LeaveTable, Typed
<1> QED
  BY <1>6, <1>7, <1>8, <1>9, <1>10, <1>11, <1>12, <1>13 DEF Step

\* Only commands that overlap lose each other's changes: what a command knows
\* says what its write leaves (data.py save, crontab's write).
THEOREM OverlapsLose == Spec => OnlyOverlapsLose
<1>1. ASSUME IInv, Next, NEW c \in Commands PROVE Keeps(c)
  <2>1. PICK d \in Commands : Step(d)
    BY <1>1 DEF Next, Step
  <2>2. CASE cmd[c].at \notin {"saving", "table"} \/ cmd'[c].at # "loaded"
    BY <2>2 DEF Keeps
  <2>3. CASE cmd[c].at \in {"saving", "table"} /\ cmd'[c].at = "loaded"
    <3>1. c = d /\ (Write(c) \/ Activate(c) \/ Deactivate(c) \/ Plan(c) \/ Unplan(c) \/ LeaveTable(c))
      BY <1>1, <2>1, <2>3, BackLoaded
    <3>2. cmd[c] \in Commanding /\ Knows(c) /\ cmd[c].for \in Servers /\ cmd[c].data \in Stores
      BY <1>1, <2>3 DEF IInv, Typed, Idle, Commanding
    <3>3. CASE cmd[c].at = "saving"
      <4>1. Write(c)
        BY <3>1, <3>3 DEF Activate, Deactivate, Plan, Unplan, LeaveTable
      <4>2. ~cmd[c].raced => file'[cmd[c].for] = cmd[c].data
        BY <1>1, <3>2, <3>3, <4>1 DEF Write, Knows, IInv, Typed
      <4> QED BY <3>2, <3>3, <4>2 DEF Knows, Keeps
    <3>4. CASE cmd[c].at = "table" /\ ~cmd[c].crossed
      <4>1. cmd[c].lines.boot = boot /\ cmd[c].lines.planned = planned
        BY <1>1, <3>4, AtTable
      <4>2. CASE Activate(c) BY <1>1, <3>4, <4>1, <4>2 DEF Activate, Replace, IInv, Typed, Keeps
      <4>3. CASE Deactivate(c) BY <1>1, <4>1, <3>4, <4>3 DEF Deactivate, Replace, IInv, Typed, Keeps
      <4>4. CASE Plan(c) \/ Unplan(c) BY <3>4, <4>1, <4>4 DEF Plan, Unplan, Replace, Keeps
      <4>5. CASE LeaveTable(c) BY <3>4, <4>5 DEF LeaveTable, Keeps
      <4> QED BY <3>1, <3>4, <4>2, <4>3, <4>4, <4>5 DEF Write
    <3>5. CASE cmd[c].at = "table" /\ cmd[c].crossed BY <3>5 DEF Keeps
    <3> QED BY <2>3, <3>3, <3>4, <3>5
  <2> QED BY <2>2, <2>3
<1>2. IInv /\ [Next]_vars => [\A c \in Commands : Keeps(c)]_vars
  BY <1>1
<1> QED BY <1>2, AlwaysI, PTL DEF Spec, OnlyOverlapsLose

-----------------------------------------------------------------------------
(* One command at a time implements Records. *)

SeenIn(m, f, s) ==
  IF \E c \in Commands : m[c].at = "saving" /\ m[c].for = s
  THEN m[CHOOSE c \in Commands : m[c].at = "saving" /\ m[c].for = s].old
  ELSE View(f[s])

LEMMA SeenAlone ==
  ASSUME NEW m, NEW f, NEW c \in Commands, NEW s, \A d \in Commands \ {c} : m[d].at # "saving"
  PROVE  SeenIn(m, f, s) = IF m[c].at = "saving" /\ m[c].for = s THEN m[c].old ELSE View(f[s])
<1>1. CASE m[c].at = "saving" /\ m[c].for = s
  <2>1. (CHOOSE d \in Commands : m[d].at = "saving" /\ m[d].for = s) = c
    BY <1>1
  <2> QED BY <1>1, <2>1 DEF SeenIn
<1>2. CASE ~(m[c].at = "saving" /\ m[c].for = s)
  BY <1>2 DEF SeenIn
<1> QED BY <1>1, <1>2

SeenRecords == [s \in Servers |-> IF alone THEN SeenFile(s) ELSE None]
SeenActive == IF alone THEN Active(Crontab) ELSE {}
SeenPlanned == IF alone THEN planned ELSE {}

LEMMA SeenStep ==
  ASSUME IInv, NEW c \in Commands, Step(c), alone
  PROVE  /\ alone'
         /\ SeenActive = UNION {boot[i] : i \in Jobs} /\ SeenPlanned = planned
         /\ SeenActive' = UNION {boot'[i] : i \in Jobs} /\ SeenPlanned' = planned'
         /\ SeenRecords = [s \in Servers |-> SeenIn(cmd, file, s)]
         /\ SeenRecords' = [s \in Servers |-> SeenIn(cmd', file', s)]
<1>1. alone'
  BY DEF Step, Create, Load, Save, Write, End, Kill, ReadTable, Activate, Deactivate, Plan,
         Unplan, LeaveTable, Replace
<1> QED BY <1>1 DEF SeenActive, SeenPlanned, SeenRecords, SeenFile, SeenIn, Active, Crontab

LEMMA AloneOthers ==
  ASSUME IInv, NEW c \in Commands, Step(c), alone
  PROVE  \A d \in Commands \ {c} : cmd[d] = Idle /\ cmd'[d] = Idle
<1>1. \A d \in Commands \ {c} : cmd[d] = Idle
  <2>1. CASE \E s \in Servers : Create(c, s) \/ Load(c, s)
    BY <2>1 DEF Create, Load, MayBegin, Others
  <2>2. CASE cmd[c] # Idle
    BY <2>2 DEF IInv, OneAtATime
  <2>3. Idle.at = "idle"
    BY DEF Idle
  <2> QED
    BY <2>1, <2>2, <2>3 DEF Step, Save, Write, End, Kill, ReadTable, Activate, Deactivate, Plan,
                            Unplan, LeaveTable
<1>2. Typed /\ DOMAIN cmd = Commands /\ \A s : DOMAIN Race(s, c) = Commands
  BY DEF IInv, Typed, Race
<1>3. ASSUME NEW s \in Servers, NEW e, cmd' = [Race(s, c) EXCEPT ![c] = e]
      PROVE  \A d \in Commands \ {c} : cmd'[d] = Idle
  BY <1>1, <1>2, <1>3, RaceTyped
<1>4. ASSUME NEW s \in Servers, NEW data, Empty(c, s, data)
      PROVE  \A d \in Commands \ {c} : cmd'[d] = Idle
  BY <1>3, <1>4 DEF Empty
<1>5. cmd[c].at # "idle" => cmd[c].for \in Servers
  <2>1. CASE cmd[c] = Idle BY <2>1 DEF Idle
  <2>2. CASE cmd[c] \in Commanding BY <2>2 DEF Commanding
  <2> QED BY <1>2, <2>1, <2>2 DEF Typed
<1>6. CASE Save(c) \/ \E s \in Servers : Create(c, s)
  BY <1>1, <1>4, <1>5, <1>6 DEF Save, Create
<1>7. CASE Write(c)
  BY <1>1, <1>3, <1>5, <1>7 DEF Write
<1>8. ASSUME NEW e, cmd' = [cmd EXCEPT ![c] = e]
      PROVE  \A d \in Commands \ {c} : cmd'[d] = Idle
  BY <1>1, <1>2, <1>8
<1>9. CASE \/ \E s \in Servers : Load(c, s)
           \/ End(c) \/ Kill(c) \/ LeaveTable(c)
  BY <1>1, <1>8, <1>9 DEF Load, End, Kill, LeaveTable
<1>10. CASE ReadTable(c)
  BY <1>1, <1>2, <1>10 DEF ReadTable
<1>11. CASE Activate(c) \/ Deactivate(c) \/ Plan(c) \/ Unplan(c)
  <2>1. \A d \in Commands \ {c} :
          cmd'[d] = IF cmd[d].at = "table" THEN [cmd[d] EXCEPT !.crossed = TRUE] ELSE cmd[d]
    BY <1>11 DEF Activate, Deactivate, Plan, Unplan, Replace
  <2>2. Idle.at # "table"
    BY DEF Idle
  <2> QED BY <1>1, <2>1, <2>2
<1> QED BY <1>1, <1>6, <1>7, <1>9, <1>10, <1>11 DEF Step

\* What Records sees of the stores, before and after a step.
LEMMA SeenBoth ==
  ASSUME IInv, NEW c \in Commands, Step(c), alone
  PROVE  /\ \A s \in Servers :
              SeenRecords[s] = IF cmd[c].at = "saving" /\ cmd[c].for = s
                               THEN cmd[c].old ELSE View(file[s])
         /\ \A s \in Servers :
              SeenRecords'[s] = IF cmd'[c].at = "saving" /\ cmd'[c].for = s
                                THEN cmd'[c].old ELSE View(file'[s])
<1>1. \A d \in Commands \ {c} : cmd[d].at # "saving" /\ cmd'[d].at # "saving"
  <2>1. Idle.at # "saving"
    BY DEF Idle
  <2> QED BY <2>1, AloneOthers
<1>2. \A s \in Servers : SeenIn(cmd, file, s) =
        IF cmd[c].at = "saving" /\ cmd[c].for = s THEN cmd[c].old ELSE View(file[s])
  BY <1>1, SeenAlone
<1>3. \A s \in Servers : SeenIn(cmd', file', s) =
        IF cmd'[c].at = "saving" /\ cmd'[c].for = s THEN cmd'[c].old ELSE View(file'[s])
  BY <1>1, SeenAlone
<1> QED BY <1>2, <1>3, SeenStep

LEMMA SameRecords ==
  ASSUME \A s \in Servers : SeenRecords'[s] = SeenRecords[s]
  PROVE  SeenRecords' = SeenRecords
  BY DEF SeenRecords

LEMMA OneRecord ==
  ASSUME NEW s \in Servers, NEW r, SeenRecords'[s] = r,
         \A t \in Servers \ {s} : SeenRecords'[t] = SeenRecords[t]
  PROVE  SeenRecords' = [SeenRecords EXCEPT ![s] = r]
  BY DEF SeenRecords

\* A save that begins changes nothing yet.
LEMMA EmptyStutters ==
  ASSUME IInv, NEW c \in Commands, Step(c), alone,
         NEW s \in Servers, NEW data, Empty(c, s, data), cmd[c].at # "saving"
  PROVE  SeenRecords' = SeenRecords
<1>1. DOMAIN file = Servers /\ DOMAIN Race(s, c) = Commands
  BY DEF IInv, Typed, Race
<1>2. /\ cmd'[c].at = "saving" /\ cmd'[c].for = s /\ cmd'[c].old = View(file[s])
      /\ file' = [file EXCEPT ![s] = Emptied]
  BY <1>1 DEF Empty, Idle
<1>3. ASSUME NEW t \in Servers PROVE SeenRecords'[t] = SeenRecords[t]
  BY <1>1, <1>2, SeenBoth
<1> QED BY <1>3, SameRecords

\* A write makes a new record or changes one key.
LEMMA WriteImplements ==
  ASSUME IInv, NEW c \in Commands, Write(c), alone
  PROVE  Shared!Next
<1> DEFINE s == cmd[c].for
<1>1. /\ cmd[c] \in Commanding /\ cmd[c].at = "saving" /\ ~cmd[c].raced
      /\ cmd[c].data \in Stores /\ s \in Servers
  BY DEF IInv, Typed, Write, Idle, OneAtATime, Commanding
<1>2. file[s] = Emptied /\ OneChange(cmd[c].old, cmd[c].data)
  BY <1>1 DEF IInv, Knows
<1>3. file' = [file EXCEPT ![s] = cmd[c].data]
  BY <1>2 DEF Write
<1>4. cmd'[c].at = "loaded" /\ UNCHANGED <<boot, planned>>
  BY <1>1 DEF Write, Commanding, Race
<1>5. Step(c)
  BY DEF Step
<1>6. View(cmd[c].data) = cmd[c].data
  BY <1>1, ViewTyped
<1>7. SeenRecords[s] = cmd[c].old /\ SeenRecords' = [SeenRecords EXCEPT ![s] = cmd[c].data]
  <2>1. DOMAIN file = Servers
    BY DEF IInv, Typed
  <2>2. SeenRecords'[s] = cmd[c].data
    BY <1>1, <1>3, <1>4, <1>5, <1>6, <2>1, SeenBoth
  <2>3. \A t \in Servers \ {s} : SeenRecords'[t] = SeenRecords[t]
    BY <1>1, <1>3, <1>4, <1>5, <2>1, SeenBoth
  <2> QED BY <1>1, <1>5, <2>2, <2>3, SeenBoth, OneRecord
<1>8. UNCHANGED <<SeenActive, SeenPlanned>>
  BY <1>4, <1>5, SeenStep
<1>9. CASE cmd[c].data = Fresh
  <2>1. Shared!Create(s)
    BY <1>7, <1>8, <1>9 DEF Shared!Create, Shared!Record, SeenRecords, SeenActive, SeenPlanned
  <2> QED BY <1>1, <2>1 DEF Shared!Next
<1>10. CASE cmd[c].old \in Stores /\
            \E k \in Keys : \A j \in Keys \ {k} : cmd[c].data[j] = cmd[c].old[j]
  <2>1. PICK k \in Keys : \A j \in Keys \ {k} : cmd[c].data[j] = cmd[c].old[j]
    BY <1>10
  <2>2. cmd[c].data[k] \in 0..MaxSets /\ cmd[c].data = [cmd[c].old EXCEPT ![k] = cmd[c].data[k]]
    BY <1>1, <1>10, <2>1 DEF Stores
  <2>3. SeenRecords[s] \in Stores /\ SeenRecords' = [SeenRecords EXCEPT ![s] = [SeenRecords[s] EXCEPT ![k] = cmd[c].data[k]]]
    BY <1>7, <1>10, <2>2
  <2>4. Shared!Put(s)
    BY <1>8, <2>2, <2>3
    DEF Shared!Put, Shared!Record, Shared!Whole, SeenRecords, SeenActive, SeenPlanned, Stores
  <2> QED BY <1>1, <2>4 DEF Shared!Next
<1> QED BY <1>2, <1>9, <1>10 DEF OneChange

\* A kill amid a save loses the record; any other changes nothing.
LEMMA KillImplements ==
  ASSUME IInv, NEW c \in Commands, End(c) \/ Kill(c), alone
  PROVE  Shared!Next \/ UNCHANGED <<SeenRecords, SeenActive, SeenPlanned>>
<1>1. Step(c) /\ cmd'[c] = Idle /\ UNCHANGED <<alone, file, boot, planned>>
  BY DEF Step, End, Kill, IInv, Typed
<1>2. UNCHANGED <<SeenActive, SeenPlanned>>
  BY <1>1, SeenStep
<1>3. \A t \in Servers : SeenRecords'[t] = View(file[t])
  BY <1>1, SeenBoth DEF Idle
<1>4. CASE cmd[c].at # "saving"
  <2>1. \A t \in Servers : SeenRecords'[t] = SeenRecords[t]
    BY <1>1, <1>3, <1>4, SeenBoth
  <2> QED BY <1>2, <2>1, SameRecords
<1>5. CASE cmd[c].at = "saving"
  <2>1. cmd[c] \in Commanding /\ ~cmd[c].raced
    BY <1>5 DEF IInv, Typed, Idle, OneAtATime
  <2>2. file[cmd[c].for] = Emptied /\ cmd[c].for \in Servers
    BY <1>5, <2>1 DEF IInv, Knows, Commanding
  <2>3. SeenRecords' = [SeenRecords EXCEPT ![cmd[c].for] = Lost]
    <3>1. SeenRecords'[cmd[c].for] = Lost
      BY <1>3, <2>2 DEF View
    <3>2. \A t \in Servers \ {cmd[c].for} : SeenRecords'[t] = SeenRecords[t]
      BY <1>1, <1>3, SeenBoth
    <3> QED BY <2>2, <3>1, <3>2, OneRecord
  <2>4. Shared!Lose(cmd[c].for)
    BY <1>2, <2>3 DEF Shared!Lose, Shared!Record, SeenRecords, SeenActive, SeenPlanned
  <2> QED BY <2>2, <2>4 DEF Shared!Next
<1> QED BY <1>4, <1>5

\* A change of the crontab, by a command alone at it.
LEMMA AtTableAlone ==
  ASSUME IInv, NEW c \in Commands, cmd[c].at = "table", alone, Step(c),
         cmd'[c].at # "saving", UNCHANGED file
  PROVE  /\ cmd[c].for \in Servers /\ SeenRecords' = SeenRecords
         /\ SeenRecords[cmd[c].for] \in Stores
         /\ cmd[c].lines.boot = boot /\ cmd[c].lines.planned = planned
<1>1. /\ cmd[c] \in Commanding /\ Knows(c) /\ ~cmd[c].crossed /\ ~cmd[c].raced
      /\ cmd[c].for \in Servers /\ cmd[c].lines.boot = boot /\ cmd[c].lines.planned = planned
  BY AtTable DEF IInv, OneAtATime
<1>2. file[cmd[c].for] = cmd[c].data /\ cmd[c].data \in Stores
  BY <1>1 DEF Knows, Commanding
<1>3. SeenRecords[cmd[c].for] \in Stores
  BY <1>1, <1>2, SeenBoth, ViewTyped
<1>4. SeenRecords' = SeenRecords
  BY SeenBoth, SameRecords
<1> QED BY <1>1, <1>3, <1>4

LEMMA TableImplements ==
  ASSUME IInv, NEW c \in Commands, alone,
         ReadTable(c) \/ LeaveTable(c) \/ Activate(c) \/ Deactivate(c) \/ Plan(c) \/ Unplan(c)
  PROVE  Shared!Next \/ UNCHANGED <<SeenRecords, SeenActive, SeenPlanned>>
<1>1. Step(c) /\ UNCHANGED file
  BY DEF Step, ReadTable, LeaveTable, Activate, Deactivate, Plan, Unplan, Replace
<1>2. CASE ReadTable(c) \/ LeaveTable(c)
  <2>1. cmd[c] \in Commanding /\ cmd[c].at # "saving" /\ DOMAIN cmd = Commands
    <3>1. cmd[c].at \in {"loaded", "table"}
      BY <1>2 DEF ReadTable, LeaveTable
    <3>2. cmd[c] # Idle
      BY <3>1 DEF Idle
    <3> QED BY <3>1, <3>2 DEF IInv, Typed
  <2>2. cmd'[c].at # "saving"
    BY <1>2, <2>1 DEF ReadTable, LeaveTable, Back, Commanding
  <2>3. SeenRecords' = SeenRecords
    BY <1>1, <2>1, <2>2, SeenBoth, SameRecords
  <2>4. UNCHANGED <<boot, planned>>
    BY <1>2 DEF ReadTable, LeaveTable
  <2> QED BY <1>1, <2>3, <2>4, SeenStep
<1>3. CASE Activate(c) \/ Deactivate(c) \/ Plan(c) \/ Unplan(c)
  <2> DEFINE s == cmd[c].for
  <2>1. PICK b, p : Replace(c, b, p)
    BY <1>3 DEF Activate, Deactivate, Plan, Unplan
  <2>2. cmd[c].at = "table" /\ cmd[c] \in Commanding
    BY <1>3, AtTable DEF Activate, Deactivate, Plan, Unplan
  <2>3. cmd'[c].at # "saving"
    BY <2>1, <2>2, BackTyped DEF Replace
  <2>4. /\ s \in Servers /\ SeenRecords' = SeenRecords /\ SeenRecords[s] \in Stores
        /\ cmd[c].lines.boot = boot /\ cmd[c].lines.planned = planned
    BY <1>1, <2>2, <2>3, AtTableAlone
  <2>5. /\ SeenActive = UNION {boot[i] : i \in Jobs} /\ SeenPlanned = planned
        /\ SeenActive' = UNION {boot'[i] : i \in Jobs} /\ SeenPlanned' = planned'
    BY <1>1, SeenStep
  <2>6. boot \in [Jobs -> SUBSET Servers]
    BY DEF IInv, Typed
  <2>7. CASE Activate(c)
    <3>1. PICK i \in Jobs : boot' = [boot EXCEPT ![i] = @ \cup {s}] /\ planned' = planned
      BY <2>4, <2>7 DEF Activate, Replace
    <3>2. SeenActive' = SeenActive \cup {s} /\ SeenPlanned' = SeenPlanned
      BY <2>5, <2>6, <3>1
    <3>3. Shared!Activate(s)
      BY <2>4, <3>2 DEF Shared!Activate, Shared!Whole, SeenRecords, SeenActive, SeenPlanned, Stores
    <3> QED BY <2>4, <3>3 DEF Shared!Next
  <2>8. CASE Deactivate(c)
    <3>1. boot' = [i \in Jobs |-> boot[i] \ {s}] /\ planned' = planned
      BY <2>4, <2>8 DEF Deactivate, Replace
    <3>2. SeenActive' = SeenActive \ {s} /\ SeenPlanned' = SeenPlanned
      BY <2>5, <2>6, <3>1
    <3>3. Shared!Deactivate(s)
      BY <2>4, <3>2 DEF Shared!Deactivate, Shared!Whole, SeenRecords, SeenActive, SeenPlanned, Stores
    <3> QED BY <2>4, <3>3 DEF Shared!Next
  <2>9. CASE Plan(c)
    <3>1. boot' = boot /\ planned' = planned \cup {s}
      BY <2>4, <2>9 DEF Plan, Replace
    <3>2. SeenActive' = SeenActive /\ SeenPlanned' = SeenPlanned \cup {s}
      BY <2>5, <3>1
    <3>3. Shared!Plan(s)
      BY <2>4, <3>2 DEF Shared!Plan, Shared!Whole, SeenRecords, SeenActive, SeenPlanned, Stores
    <3> QED BY <2>4, <3>3 DEF Shared!Next
  <2>10. CASE Unplan(c)
    <3>1. boot' = boot /\ planned' = planned \ {s}
      BY <2>4, <2>10 DEF Unplan, Replace
    <3>2. SeenActive' = SeenActive /\ SeenPlanned' = SeenPlanned \ {s}
      BY <2>5, <3>1
    <3>3. Shared!Unplan(s)
      BY <2>4, <3>2 DEF Shared!Unplan, Shared!Whole, SeenRecords, SeenActive, SeenPlanned, Stores
    <3> QED BY <2>4, <3>3 DEF Shared!Next
  <2> QED BY <1>3, <2>7, <2>8, <2>9, <2>10
<1> QED BY <1>2, <1>3

LEMMA StepImplements ==
  ASSUME IInv, NEW c \in Commands, Step(c), alone
  PROVE  Shared!Next \/ UNCHANGED <<SeenRecords, SeenActive, SeenPlanned>>
<1>1. ASSUME NEW s \in Servers, NEW data, Empty(c, s, data), UNCHANGED <<boot, planned>>,
             cmd[c].at # "saving"
      PROVE  UNCHANGED <<SeenRecords, SeenActive, SeenPlanned>>
  BY <1>1, EmptyStutters, SeenStep
<1>2. cmd[c] = Idle \/ cmd[c] \in Commanding
  BY DEF IInv, Typed
<1>3. ASSUME NEW s \in Servers, Create(c, s) PROVE UNCHANGED <<SeenRecords, SeenActive, SeenPlanned>>
  <2>1. cmd[c].at # "saving"
    BY <1>3 DEF Create, MayBegin, Idle
  <2> QED BY <1>1, <1>3, <2>1 DEF Create
<1>4. ASSUME NEW s \in Servers, Load(c, s) PROVE UNCHANGED <<SeenRecords, SeenActive, SeenPlanned>>
  <2>1. cmd[c].at # "saving" /\ cmd'[c].at # "saving" /\ UNCHANGED <<file, boot, planned>>
    BY <1>4 DEF Load, MayBegin, Idle, IInv, Typed
  <2>2. Step(c)
    BY <1>4 DEF Step
  <2>3. \A t \in Servers : SeenRecords'[t] = SeenRecords[t]
    BY <2>1, <2>2, SeenBoth
  <2>4. SeenActive' = SeenActive /\ SeenPlanned' = SeenPlanned
    BY <2>1, <2>2, SeenStep
  <2> QED BY <2>3, <2>4, SameRecords
<1>5. CASE Save(c)
  <2>1. cmd[c].at # "saving" /\ cmd[c].for \in Servers
    BY <1>2, <1>5 DEF Save, Idle, Commanding
  <2> QED BY <1>1, <1>5, <2>1 DEF Save
<1> QED
  BY <1>3, <1>4, <1>5, WriteImplements, KillImplements, TableImplements DEF Step

\* One command at a time, the store and the crontab keep what Records
\* promises (data.py load and save, server.py activate and deactivate).
THEOREM RegistryImplementsRecords == Spec => ImplementsRecords
<1>1. Init => Shared!Init
  <2> SUFFICES ASSUME Init PROVE Shared!Init
    OBVIOUS
  <2>1. \A s \in Servers : SeenFile(s) = None
    <3>1. \A c \in Commands : cmd[c].at # "saving"
      BY DEF Init, Idle
    <3> QED BY <3>1, MarkAssumption DEF SeenFile, View, Init
  <2>2. Active(Crontab) \subseteq Servers
    BY DEF Active, Crontab, Init
  <2> QED BY <2>1, <2>2 DEF Shared!Init, Init
<1>2. IInv /\ [Next]_vars => [Shared!Next]_(Shared!vars)
  <2> SUFFICES ASSUME IInv, [Next]_vars PROVE Shared!Next \/ UNCHANGED <<SeenRecords, SeenActive, SeenPlanned>>
    BY DEF Shared!vars, SeenRecords, SeenActive, SeenPlanned
  <2>1. CASE UNCHANGED vars
    BY <2>1 DEF vars, SeenRecords, SeenActive, SeenPlanned, SeenFile, Active, Crontab
  <2>2. ASSUME NEW c \in Commands, Step(c)
        PROVE  Shared!Next \/ UNCHANGED <<SeenRecords, SeenActive, SeenPlanned>>
    <3>1. alone' = alone
      BY <2>2 DEF Step, Create, Load, Save, Write, End, Kill, ReadTable, Activate, Deactivate, Plan,
                  Unplan, LeaveTable, Replace
    <3>2. CASE ~alone
      BY <3>1, <3>2 DEF SeenRecords, SeenActive, SeenPlanned
    <3>3. CASE alone
      BY <2>2, <3>3, StepImplements
    <3> QED BY <3>2, <3>3
  <2> QED BY <2>1, <2>2 DEF Next, Step
<1> QED BY <1>1, <1>2, AlwaysI, PTL DEF Spec, ImplementsRecords, Shared!Spec
=============================================================================

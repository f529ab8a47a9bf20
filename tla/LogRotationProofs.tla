-------------------------- MODULE LogRotationProofs --------------------------
(***************************************************************************)
(* LogRotation for any number of starts, any keeplogs and any number of     *)
(* logs: the numbers stay in the order of age, and only old logs go.        *)
(***************************************************************************)
EXTENDS LogRotation, FiniteSetTheorems, TLAPS

Places == {"idle", "rotating", "opening"}

Typed ==
  /\ alone \in BOOLEAN /\ keep \in Nat
  /\ made \in Nat /\ current \in Nat /\ current <= made
  /\ DOMAIN logs \subseteq Nat
  /\ \A i \in DOMAIN logs : logs[i] \in Nat /\ 1 <= logs[i] /\ logs[i] <= made
  /\ cmd \in [Starters -> [at : Places, remove : SUBSET Nat, shift : SUBSET Nat]]

\* What a rotation has still to shift keeps below the limit.
Low == \A c \in Starters : \A i \in cmd[c].shift : i + 1 < keep

IInv == Typed /\ Low /\ NewestFirst /\ FewLogs

\* What a start that is alone knows of the files while it rotates: those to
\* remove have all newer ones below them, those to shift end at a free name
\* or one to remove, and number 0 will be free.
Sure(c) ==
  /\ current # 0
  /\ cmd[c].remove \subseteq DOMAIN logs /\ cmd[c].shift \subseteq DOMAIN logs
  /\ \A i \in cmd[c].remove : i + 1 >= keep /\ \A j \in Nat : j < i => j \in DOMAIN logs
  /\ \A i \in cmd[c].shift : i + 1 \in DOMAIN logs => i + 1 \in cmd[c].shift \cup cmd[c].remove
  /\ 0 \in DOMAIN logs => 0 \in cmd[c].shift \cup cmd[c].remove

Alone ==
  alone =>
    /\ \A c, d \in Starters : c # d /\ cmd[c].at # "idle" => cmd[d].at = "idle"
    /\ \A c \in Starters : cmd[c].at = "rotating" => Sure(c)

-----------------------------------------------------------------------------
LEMMA InitI == Init => IInv /\ Alone /\ keep \in KeepLogs
  BY KeepAssumption DEF Init, IInv, Typed, Low, NewestFirst, FewLogs, Alone, Idle, Places

\* The lists a start makes are of files, and what it will shift is low.
LEMMA Lists ==
  ASSUME IInv
  PROVE  /\ ToShift \subseteq Nat /\ {i \in DOMAIN logs : TooMany(i)} \subseteq Nat
         /\ \A i \in ToShift : i + 1 < keep
<1> USE DEF IInv, Typed
<1>1. ToShift \subseteq Nat /\ {i \in DOMAIN logs : TooMany(i)} \subseteq Nat
  BY DEF ToShift
<1>2. \A i \in ToShift : i + 1 < keep
  BY DEF ToShift, TooMany
<1> QED BY <1>1, <1>2

\* A step that changes what one start is at, and no file.
LEMMA BecomeKeeps ==
  ASSUME IInv, NEW c \in Starters, NEW at \in Places, NEW remove \in SUBSET Nat,
         NEW shift \in SUBSET Nat, \A i \in shift : i + 1 < keep,
         Become(c, at, remove, shift), UNCHANGED <<alone, keep, current, logs, made>>
  PROVE  IInv'
<1>1. cmd' = [cmd EXCEPT ![c] = [at |-> at, remove |-> remove, shift |-> shift]]
  BY DEF Become
<1>2. Typed'
  BY <1>1 DEF IInv, Typed
<1>3. Low'
  BY <1>1 DEF IInv, Typed, Low
<1>4. NewestFirst' /\ FewLogs'
  BY DEF IInv, NewestFirst, FewLogs
<1> QED BY <1>2, <1>3, <1>4 DEF IInv

LEMMA FailBecomes == ASSUME NEW c, Fail(c) PROVE Become(c, "idle", {}, {})
  BY DEF Fail, Become, Idle

LEMMA FailKeeps ==
  ASSUME IInv, NEW c \in Starters, Fail(c), UNCHANGED <<alone, keep, current, logs, made>>
  PROVE  IInv'
<1>1. Become(c, "idle", {}, {})
  BY FailBecomes
<1> QED BY <1>1, BecomeKeeps DEF Places

LEMMA ListKeeps == ASSUME IInv, NEW c \in Starters, List(c) PROVE IInv'
<1> DEFINE old == {i \in DOMAIN logs : TooMany(i)}
<1>1. UNCHANGED <<alone, keep, current, logs, made>>
  BY DEF List
<1>2. CASE Become(c, "opening", {}, {})
  BY <1>1, <1>2, BecomeKeeps DEF Places
<1>3. CASE Become(c, "rotating", old, ToShift)
  <2>1. old \in SUBSET Nat /\ ToShift \in SUBSET Nat /\ \A i \in ToShift : i + 1 < keep
    BY Lists
  <2>2. "rotating" \in Places
    BY DEF Places
  <2> HIDE DEF old
  <2> QED BY <1>1, <1>3, <2>1, <2>2, BecomeKeeps
<1> QED BY <1>2, <1>3 DEF List

LEMMA RemoveKeeps == ASSUME IInv, NEW c \in Starters, Remove(c) PROVE IInv'
<1>1. UNCHANGED <<alone, keep, current, made>>
  BY DEF Remove
<1>2. CASE Fail(c) /\ UNCHANGED logs
  BY <1>1, <1>2, FailKeeps
<1>3. ASSUME NEW i \in cmd[c].remove, logs' = [j \in DOMAIN logs \ {i} |-> logs[j]],
             Become(c, "rotating", cmd[c].remove \ {i}, cmd[c].shift)
      PROVE  IInv'
  <2>1. cmd' = [cmd EXCEPT ![c] = [at |-> "rotating", remove |-> cmd[c].remove \ {i},
                                   shift |-> cmd[c].shift]]
    BY <1>3 DEF Become
  <2>2. Typed'
    BY <1>1, <1>3, <2>1 DEF IInv, Typed, Places
  <2>3. Low'
    BY <1>1, <2>1 DEF IInv, Typed, Low
  <2>4. NewestFirst' /\ FewLogs'
    BY <1>1, <1>3 DEF IInv, NewestFirst, FewLogs
  <2> QED BY <2>2, <2>3, <2>4 DEF IInv
<1> QED BY <1>2, <1>3 DEF Remove

LEMMA ShiftKeeps == ASSUME IInv, NEW c \in Starters, Shift(c) PROVE IInv'
<1>1. UNCHANGED <<alone, keep, current, made>>
  BY DEF Shift
<1>2. CASE Fail(c) /\ UNCHANGED logs
  BY <1>1, <1>2, FailKeeps
<1>3. ASSUME NEW i \in cmd[c].shift, i \in DOMAIN logs, logs' = Moved(i),
             Become(c, "rotating", {}, cmd[c].shift \ {i})
      PROVE  IInv'
  <2>1. cmd' = [cmd EXCEPT ![c] = [at |-> "rotating", remove |-> {},
                                   shift |-> cmd[c].shift \ {i}]]
    BY <1>3 DEF Become
  <2>2. i \in Nat /\ i + 1 < keep /\ keep \in Nat
    BY DEF IInv, Typed, Low
  <2>3. /\ DOMAIN logs' = (DOMAIN logs \ {i}) \cup {i + 1}
        /\ \A j \in DOMAIN logs' : logs'[j] = IF j = i + 1 THEN logs[i] ELSE logs[j]
    BY <1>3 DEF Moved
  <2>4. Typed'
    BY <1>1, <1>3, <2>1, <2>2, <2>3 DEF IInv, Typed, Places
  <2>5. Low'
    BY <1>1, <2>1 DEF IInv, Typed, Low
  <2>6. NewestFirst'
    <3>1. ASSUME NEW j \in DOMAIN logs', NEW k \in DOMAIN logs', j < k
          PROVE  logs'[j] > logs'[k]
      BY <1>3, <2>2, <2>3, <3>1 DEF IInv, Typed, NewestFirst
    <3>2. ASSUME current # 0, NEW j \in DOMAIN logs' PROVE current > logs'[j]
      BY <1>3, <2>3, <3>2 DEF IInv, NewestFirst
    <3> QED BY <1>1, <3>1, <3>2 DEF NewestFirst
  <2>7. FewLogs'
    BY <1>1, <2>2, <2>3 DEF IInv, FewLogs
  <2> QED BY <2>4, <2>5, <2>6, <2>7 DEF IInv
<1> QED BY <1>2, <1>3 DEF Shift

LEMMA RetireKeeps == ASSUME IInv, NEW c \in Starters, Retire(c) PROVE IInv'
<1>1. UNCHANGED <<alone, keep, made>>
  BY DEF Retire
<1>2. CASE Fail(c) /\ UNCHANGED <<current, logs>>
  BY <1>1, <1>2, FailKeeps
<1>3. ASSUME current # 0, current' = 0, Become(c, "opening", {}, {}),
             logs' = [j \in DOMAIN logs \cup {0} |-> IF j = 0 THEN current ELSE logs[j]]
      PROVE  IInv'
  <2>1. cmd' = [cmd EXCEPT ![c] = [at |-> "opening", remove |-> {}, shift |-> {}]]
    BY <1>3 DEF Become
  <2>2. /\ DOMAIN logs' = DOMAIN logs \cup {0}
        /\ \A j \in DOMAIN logs' : logs'[j] = IF j = 0 THEN current ELSE logs[j]
    BY <1>3
  <2>3. Typed'
    BY <1>1, <1>3, <2>1, <2>2 DEF IInv, Typed, Places
  <2>4. Low' /\ FewLogs'
    BY <1>1, <2>1, <2>2 DEF IInv, Typed, Low, FewLogs
  <2>5. NewestFirst'
    BY <1>3, <2>2 DEF IInv, Typed, NewestFirst
  <2> QED BY <2>3, <2>4, <2>5 DEF IInv
<1> QED BY <1>2, <1>3 DEF Retire, NewNumber

LEMMA OpenKeeps == ASSUME IInv, NEW c \in Starters, Open(c) PROVE IInv'
<1>1. UNCHANGED <<alone, keep, logs>> /\ Fail(c)
  BY DEF Open
<1>2. CASE UNCHANGED <<current, made>>
  BY <1>1, <1>2, FailKeeps
<1>3. CASE current' = made + 1 /\ made' = made + 1
  <2>1. cmd' = [cmd EXCEPT ![c] = [at |-> "idle", remove |-> {}, shift |-> {}]]
    BY <1>1 DEF Fail, Idle
  <2>2. Typed'
    BY <1>1, <1>3, <2>1 DEF IInv, Typed, Places
  <2>3. Low' /\ FewLogs'
    BY <1>1, <2>1 DEF IInv, Typed, Low, FewLogs
  <2>4. NewestFirst'
    BY <1>1, <1>3 DEF IInv, Typed, NewestFirst
  <2> QED BY <2>2, <2>3, <2>4 DEF IInv
<1> QED BY <1>2, <1>3 DEF Open

LEMMA NextI == IInv /\ [Next]_vars => IInv'
<1> SUFFICES ASSUME IInv, [Next]_vars PROVE IInv'
  OBVIOUS
<1>1. ASSUME NEW c \in Starters, List(c) \/ Remove(c) \/ Shift(c) PROVE IInv'
  BY <1>1, ListKeeps, RemoveKeeps, ShiftKeeps
<1>2. ASSUME NEW c \in Starters, Retire(c) \/ Open(c) PROVE IInv'
  BY <1>2, RetireKeeps, OpenKeeps
<1>3. ASSUME NEW c \in Starters, Interrupt(c) PROVE IInv'
  BY <1>3, FailKeeps DEF Interrupt
<1>4. CASE UNCHANGED vars
  BY <1>4 DEF vars, IInv, Typed, Low, NewestFirst, FewLogs
<1> QED BY <1>1, <1>2, <1>3, <1>4 DEF Next

LEMMA AlwaysI == Spec => []IInv
  BY InitI, NextI, PTL DEF Spec

\* The files' numbers are naturals and each start is where a start can be.
THEOREM TypesHold == Spec => []TypeOK
<1>1. [Next]_vars => keep' = keep
  BY DEF Next, List, Remove, Shift, Retire, Open, Interrupt, vars
<1>2. keep \in KeepLogs /\ [Next]_vars => (keep \in KeepLogs)'
  BY <1>1
<1>3. IInv /\ keep \in KeepLogs => TypeOK
  BY DEF IInv, Typed, Places, TypeOK
<1> QED BY <1>2, <1>3, InitI, AlwaysI, PTL DEF Spec

\* A higher number is an older log, and no log has two numbers, whatever
\* starts of the server overlapped or were cut short.
THEOREM NumbersAreAges == Spec => []NewestFirst
<1>1. IInv => NewestFirst
  BY DEF IInv
<1> QED BY <1>1, AlwaysI, PTL

\* No more logs than keeplogs, or one, pile up beside the current one.
THEOREM LogsStayFew == Spec => []FewLogs
<1>1. IInv => FewLogs
  BY DEF IInv
<1> QED BY <1>1, AlwaysI, PTL

-----------------------------------------------------------------------------
(* Starts that do not overlap. *)

\* When the directory is listed the start is sure of what it listed.
LEMMA ListSure ==
  ASSUME IInv, current # 0
  PROVE  LET old == {i \in DOMAIN logs : TooMany(i)} IN
         /\ old \subseteq DOMAIN logs /\ ToShift \subseteq DOMAIN logs
         /\ \A i \in old : i + 1 >= keep /\ \A j \in Nat : j < i => j \in DOMAIN logs
         /\ \A i \in ToShift : i + 1 \in DOMAIN logs => i + 1 \in ToShift \cup old
         /\ 0 \in DOMAIN logs => 0 \in ToShift \cup old
<1> DEFINE old == {i \in DOMAIN logs : TooMany(i)}
<1>1. DOMAIN logs \subseteq Nat /\ keep \in Nat
  BY DEF IInv, Typed
<1>2. ASSUME NEW i \in old PROVE i + 1 >= keep /\ \A j \in Nat : j < i => j \in DOMAIN logs
  <2>1. CASE InPlace(i)
    BY <1>1, <1>2, <2>1 DEF TooMany, InPlace
  <2>2. CASE ~InPlace(i)
    <3>1. i >= keep /\ (i = 0 \/ i < keep) /\ i \in Nat /\ i \in DOMAIN logs
      BY <1>1, <1>2, <2>2 DEF TooMany, IInv, FewLogs
    <3>2. i = 0
      BY <1>1, <3>1
    <3> QED BY <2>2, <3>1, <3>2 DEF InPlace
  <2> QED BY <2>1, <2>2
<1>3. ASSUME NEW i \in ToShift, i + 1 \in DOMAIN logs PROVE i + 1 \in ToShift \cup old
  <2>1. InPlace(i + 1)
    BY <1>1, <1>3 DEF ToShift, InPlace
  <2> QED BY <2>1, <1>3 DEF ToShift
<1>4. 0 \in DOMAIN logs => 0 \in ToShift \cup old
  BY DEF ToShift, InPlace
<1> QED BY <1>2, <1>3, <1>4 DEF ToShift

\* The rest of Alone: other starts are at rest before and after a step of c.
LEMMA OthersRest ==
  ASSUME IInv, Alone, alone, NEW c \in Starters,
         cmd[c].at # "idle" \/ \A d \in Starters : cmd[d] = Idle,
         NEW at, NEW remove, NEW shift, Become(c, at, remove, shift), alone' = alone,
         at = "rotating" => Sure(c)'
  PROVE  Alone'
<1>1. cmd' = [cmd EXCEPT ![c] = [at |-> at, remove |-> remove, shift |-> shift]]
  BY DEF Become
<1>2. \A d \in Starters \ {c} : cmd[d].at = "idle"
  BY DEF Alone, Idle
<1>3. \A d \in Starters \ {c} : cmd'[d] = cmd[d]
  BY <1>1 DEF IInv, Typed
<1>4. cmd'[c].at = at
  BY <1>1 DEF IInv, Typed
<1>5. \A d, e \in Starters : d # e /\ cmd'[d].at # "idle" => cmd'[e].at = "idle"
  BY <1>2, <1>3
<1>6. \A d \in Starters : cmd'[d].at = "rotating" => Sure(d)'
  <2> SUFFICES ASSUME NEW d \in Starters, cmd'[d].at = "rotating" PROVE Sure(d)'
    OBVIOUS
  <2>1. d = c
    BY <1>2, <1>3
  <2> QED BY <1>4, <2>1
<1> QED BY <1>5, <1>6 DEF Alone

LEMMA ListAlone == ASSUME IInv, Alone, alone, NEW c \in Starters, List(c) PROVE Alone'
<1> DEFINE old == {i \in DOMAIN logs : TooMany(i)}
<1>1. \A d \in Starters : cmd[d] = Idle
  BY DEF List
<1>2. UNCHANGED <<alone, keep, current, logs>>
  BY DEF List
<1>3. CASE Become(c, "opening", {}, {})
  BY <1>1, <1>2, <1>3, OthersRest
<1>4. CASE current # 0 /\ Become(c, "rotating", old, ToShift)
  <2>1. /\ old \subseteq DOMAIN logs /\ ToShift \subseteq DOMAIN logs
        /\ \A i \in old : i + 1 >= keep /\ \A j \in Nat : j < i => j \in DOMAIN logs
        /\ \A i \in ToShift : i + 1 \in DOMAIN logs => i + 1 \in ToShift \cup old
        /\ 0 \in DOMAIN logs => 0 \in ToShift \cup old
    BY <1>4, ListSure
  <2> HIDE DEF old
  <2> DEFINE shift == ToShift
  <2>2. Become(c, "rotating", old, shift)
    BY <1>4
  <2>3. /\ old \subseteq DOMAIN logs /\ shift \subseteq DOMAIN logs
        /\ \A i \in old : i + 1 >= keep /\ \A j \in Nat : j < i => j \in DOMAIN logs
        /\ \A i \in shift : i + 1 \in DOMAIN logs => i + 1 \in shift \cup old
        /\ 0 \in DOMAIN logs => 0 \in shift \cup old
    BY <2>1
  <2> HIDE DEF shift
  <2>4. cmd'[c].remove = old /\ cmd'[c].shift = shift
    BY <2>2 DEF Become, IInv, Typed
  <2>5. Sure(c)'
    BY <1>2, <1>4, <2>3, <2>4 DEF Sure
  <2> QED BY <1>1, <1>2, <2>2, <2>5, OthersRest
<1> QED BY <1>3, <1>4 DEF List

LEMMA FailAlone ==
  ASSUME IInv, Alone, alone, NEW c \in Starters, Fail(c), cmd[c].at # "idle", alone' = alone
  PROVE  Alone'
<1>1. Become(c, "idle", {}, {})
  BY FailBecomes
<1> QED BY <1>1, OthersRest

\* Only the highest number that files are shifted to or kept at goes.
LEMMA RemoveAlone == ASSUME IInv, Alone, alone, NEW c \in Starters, Remove(c) PROVE Alone'
<1>1. UNCHANGED <<alone, keep, current>> /\ cmd[c].at = "rotating"
  BY DEF Remove
<1>2. CASE Fail(c)
  BY <1>1, <1>2, FailAlone
<1>3. ASSUME NEW i \in cmd[c].remove, \A j \in cmd[c].remove : i <= j,
             logs' = [j \in DOMAIN logs \ {i} |-> logs[j]],
             Become(c, "rotating", cmd[c].remove \ {i}, cmd[c].shift)
      PROVE  Alone'
  <2>1. Sure(c)
    BY <1>1 DEF Alone
  <2>2. /\ cmd[c].remove \subseteq Nat /\ cmd[c].shift \subseteq Nat /\ keep \in Nat
        /\ \A j \in cmd[c].shift : j + 1 < keep
    BY DEF IInv, Typed, Low
  <2>3. cmd'[c].remove = cmd[c].remove \ {i} /\ cmd'[c].shift = cmd[c].shift
    BY <1>3 DEF Become, IInv, Typed
  <2>4. DOMAIN logs' = DOMAIN logs \ {i}
    BY <1>3
  <2>5. cmd[c].remove \ {i} = {}
    <3> SUFFICES ASSUME NEW k \in cmd[c].remove, k # i PROVE FALSE
      OBVIOUS
    <3>1. i < k /\ i \in Nat /\ k \in Nat
      BY <1>3, <2>2
    <3>2. k = 0 \/ k < keep
      BY <2>1 DEF Sure, IInv, FewLogs
    <3>3. i + 1 >= keep
      BY <2>1 DEF Sure
    <3> QED BY <2>2, <3>1, <3>2, <3>3
  <2>6. i \notin cmd[c].shift
    BY <2>1, <2>2 DEF Sure
  <2>7. Sure(c)'
    BY <1>1, <2>1, <2>3, <2>4, <2>5, <2>6 DEF Sure
  <2> QED BY <1>1, <1>3, <2>7, OthersRest
<1> QED BY <1>2, <1>3 DEF Remove

LEMMA ShiftAlone == ASSUME IInv, Alone, alone, NEW c \in Starters, Shift(c) PROVE Alone'
<1>1. UNCHANGED <<alone, keep, current>> /\ cmd[c].at = "rotating" /\ cmd[c].remove = {}
  BY DEF Shift
<1>2. CASE Fail(c)
  BY <1>1, <1>2, FailAlone
<1>3. ASSUME NEW i \in cmd[c].shift, \A j \in cmd[c].shift : j <= i, logs' = Moved(i),
             Become(c, "rotating", {}, cmd[c].shift \ {i})
      PROVE  Alone'
  <2>1. Sure(c)
    BY <1>1 DEF Alone
  <2>2. cmd[c].shift \subseteq Nat /\ i \in Nat
    BY DEF IInv, Typed
  <2>3. cmd'[c].remove = {} /\ cmd'[c].shift = cmd[c].shift \ {i}
    BY <1>3 DEF Become, IInv, Typed
  <2>4. DOMAIN logs' = (DOMAIN logs \ {i}) \cup {i + 1}
    BY <1>3 DEF Moved
  <2>5. cmd'[c].shift \subseteq DOMAIN logs'
    BY <2>1, <2>3, <2>4 DEF Sure
  <2>6. \A j \in cmd'[c].shift : j + 1 \in DOMAIN logs' => j + 1 \in cmd'[c].shift
    <3> SUFFICES ASSUME NEW j \in cmd[c].shift, j # i, j + 1 \in DOMAIN logs'
                 PROVE  j + 1 \in cmd[c].shift \ {i}
      BY <2>3
    <3>1. j + 1 # i + 1 /\ j + 1 # i
      BY <2>2, <2>4
    <3>2. j + 1 \in DOMAIN logs
      BY <2>4, <3>1
    <3> QED BY <1>1, <2>1, <3>1, <3>2 DEF Sure
  <2>7. 0 \in DOMAIN logs' => 0 \in cmd'[c].shift
    BY <1>1, <2>1, <2>2, <2>3, <2>4 DEF Sure
  <2>8. Sure(c)'
    BY <1>1, <2>1, <2>3, <2>5, <2>6, <2>7 DEF Sure
  <2> QED BY <1>1, <1>3, <2>8, OthersRest
<1> QED BY <1>2, <1>3 DEF Shift

LEMMA AloneNext == IInv /\ Alone /\ [Next]_vars => Alone'
<1> SUFFICES ASSUME IInv, Alone, [Next]_vars PROVE Alone'
  OBVIOUS
<1>0. alone' = alone
  BY DEF Next, List, Remove, Shift, Retire, Open, Interrupt, vars
<1> SUFFICES ASSUME alone PROVE Alone'
  BY <1>0 DEF Alone
<1>1. ASSUME NEW c \in Starters, List(c) \/ Remove(c) \/ Shift(c) PROVE Alone'
  BY <1>1, ListAlone, RemoveAlone, ShiftAlone
<1>2. ASSUME NEW c \in Starters, Fail(c), cmd[c].at # "idle" PROVE Alone'
  BY <1>0, <1>2, FailAlone
<1>3. ASSUME NEW c \in Starters, Become(c, "opening", {}, {}), cmd[c].at # "idle" PROVE Alone'
  BY <1>0, <1>3, OthersRest
<1>4. ASSUME NEW c \in Starters, Interrupt(c) PROVE Alone'
  <2>1. cmd' = [cmd EXCEPT ![c] = [at |-> "idle", remove |-> {}, shift |-> {}]]
    BY <1>4 DEF Interrupt, Fail, Idle
  <2>2. cmd'[c].at = "idle" /\ \A d \in Starters \ {c} : cmd'[d] = cmd[d]
    BY <2>1 DEF IInv, Typed
  <2>3. UNCHANGED <<keep, current, logs>>
    BY <1>4 DEF Interrupt
  <2>4. \A d, e \in Starters : d # e /\ cmd'[d].at # "idle" => cmd'[e].at = "idle"
    BY <2>2 DEF Alone
  <2>5. \A d \in Starters : cmd'[d].at = "rotating" => Sure(d)'
    BY <2>2, <2>3 DEF Alone, Sure
  <2> QED BY <2>4, <2>5 DEF Alone
<1>5. CASE UNCHANGED vars
  BY <1>5 DEF vars, Alone, Sure
<1> QED BY <1>1, <1>2, <1>3, <1>4, <1>5 DEF Next, Retire, Open

-----------------------------------------------------------------------------
(* What starts that do not overlap lose. *)

\* Numbers 0..n-1 and the current log: n + 1 logs newer than number n.
LEMMA NewerLogs ==
  ASSUME IInv, current # 0, NEW n \in DOMAIN logs, \A j \in Nat : j < n => j \in DOMAIN logs,
         NEW S \in SUBSET Nat, IsFiniteSet(S), current \in S,
         \A j \in Nat : j < n => logs[j] \in S
  PROVE  Cardinality({newer \in S : newer > logs[n]}) >= n + 1
<1> DEFINE T == {newer \in S : newer > logs[n]}
           f == [j \in 0..n |-> IF j = n THEN current ELSE logs[j]]
<1>1. n \in Nat /\ DOMAIN logs \subseteq Nat /\ \A j \in DOMAIN logs : logs[j] \in Nat
  BY DEF IInv, Typed
<1>2. IsFiniteSet(T)
  BY FS_Subset
<1>3. \A j \in 0..n : f[j] \in T
  BY <1>1 DEF IInv, NewestFirst
<1>4. ASSUME NEW j \in 0..n, NEW k \in 0..n, j < k PROVE f[j] # f[k]
  <2>1. j \in DOMAIN logs /\ j < n
    BY <1>1, <1>4
  <2>2. CASE k = n
    BY <1>1, <2>1, <2>2 DEF IInv, NewestFirst, Typed
  <2>3. CASE k # n
    BY <1>1, <1>4, <2>1, <2>3 DEF IInv, NewestFirst
  <2> QED BY <2>2, <2>3
<1>5. \A j, k \in 0..n : f[j] = f[k] => j = k
  BY <1>1, <1>4
<1>6. f \in [0..n -> T]
  <2>1. f = [j \in 0..n |-> f[j]]
    OBVIOUS
  <2> HIDE DEF f
  <2> QED BY <1>3, <2>1
<1>7. f \in Injection(0..n, T)
  <2> HIDE DEF f
  <2> QED BY <1>5, <1>6 DEF Injection, IsInjective
<1>8. Cardinality(0..n) <= Cardinality(T)
  <2> HIDE DEF f, T
  <2> QED BY <1>2, <1>7, FS_Injection
<1>9. Cardinality(0..n) = n + 1
  BY <1>1, FS_Interval
<1>10. Cardinality(T) \in Nat
  BY <1>2, FS_CardinalityType
<1> QED BY <1>1, <1>8, <1>9, <1>10

LEMMA SameKept == ASSUME UNCHANGED <<current, logs>> PROVE Kept \ Kept' = {}
  BY DEF Kept

LEMMA RemoveLoses ==
  ASSUME IInv, IInv', Alone, alone, NEW c \in Starters, Remove(c), NEW log \in Kept \ Kept'
  PROVE  Cardinality({newer \in Kept' : newer > log}) >= keep
<1>1. current' = current /\ Sure(c)
  BY DEF Remove, Alone
<1>2. PICK i \in cmd[c].remove : logs' = [j \in DOMAIN logs \ {i} |-> logs[j]]
  BY <1>1, SameKept DEF Remove
<1>3. i \in DOMAIN logs /\ i + 1 >= keep /\ \A j \in Nat : j < i => j \in DOMAIN logs
  BY <1>1 DEF Sure
<1>4. log = logs[i]
  BY <1>1, <1>2 DEF Kept
<1>5. current \in Kept'
  BY <1>1 DEF Kept, Sure
<1>6. \A j \in Nat : j < i => logs[j] \in Kept'
  <2> SUFFICES ASSUME NEW j \in Nat, j < i PROVE logs[j] \in Kept'
    OBVIOUS
  <2>1. j \in DOMAIN logs' /\ logs'[j] = logs[j]
    BY <1>2, <1>3
  <2> QED BY <2>1 DEF Kept
<1> DEFINE S == Kept'
<1>7. S \in SUBSET Nat /\ IsFiniteSet(S)
  <2>1. S \subseteq 0..made' /\ made' \in Nat
    BY DEF Kept, IInv, Typed
  <2>2. IsFiniteSet(0..made')
    BY <2>1, FS_Interval
  <2> HIDE DEF S
  <2>3. S \in SUBSET (0..made')
    BY <2>1
  <2>4. IsFiniteSet(S)
    BY <2>2, <2>3, FS_Subset
  <2> QED BY <2>1, <2>4
<1>8. Cardinality({newer \in S : newer > logs[i]}) >= i + 1
  <2> HIDE DEF S
  <2>1. current \in S /\ \A j \in Nat : j < i => logs[j] \in S
    BY <1>5, <1>6 DEF S
  <2> QED BY <1>1, <1>3, <1>7, <2>1, NewerLogs DEF Sure
<1>9. Cardinality({newer \in S : newer > logs[i]}) \in Nat
  <2> HIDE DEF S
  <2> QED BY <1>7, FS_Subset, FS_CardinalityType
<1>10. i \in Nat /\ keep \in Nat
  BY <1>3 DEF IInv, Typed
<1> QED BY <1>3, <1>4, <1>8, <1>9, <1>10

\* Nothing is renamed over a file that is there.
LEMMA ShiftLosesNone ==
  ASSUME IInv, Alone, alone, NEW c \in Starters, Shift(c) PROVE Kept \ Kept' = {}
<1>1. current' = current /\ Sure(c) /\ cmd[c].remove = {}
  BY DEF Shift, Alone
<1>2. CASE UNCHANGED logs
  BY <1>1, <1>2, SameKept
<1>3. ASSUME NEW i \in cmd[c].shift, \A j \in cmd[c].shift : j <= i, logs' = Moved(i)
      PROVE  Kept \ Kept' = {}
  <2>1. i \in Nat /\ i + 1 \notin DOMAIN logs
    BY <1>1, <1>3 DEF Sure, IInv, Typed
  <2>2. /\ DOMAIN logs' = (DOMAIN logs \ {i}) \cup {i + 1}
        /\ \A j \in DOMAIN logs' : logs'[j] = IF j = i + 1 THEN logs[i] ELSE logs[j]
    BY <1>3 DEF Moved
  <2>3. \A j \in DOMAIN logs : \E k \in DOMAIN logs' : logs'[k] = logs[j]
    <3> SUFFICES ASSUME NEW j \in DOMAIN logs PROVE \E k \in DOMAIN logs' : logs'[k] = logs[j]
      OBVIOUS
    <3>1. CASE j = i
      BY <3>1, <2>2
    <3>2. CASE j # i
      BY <3>2, <2>1, <2>2
    <3> QED BY <3>1, <3>2
  <2> QED BY <1>1, <2>3 DEF Kept
<1> QED BY <1>2, <1>3 DEF Shift

LEMMA RetireLosesNone ==
  ASSUME IInv, Alone, alone, NEW c \in Starters, Retire(c) PROVE Kept \ Kept' = {}
<1>1. CASE UNCHANGED <<current, logs>>
  BY <1>1, SameKept
<1>2. CASE /\ current' = 0
           /\ logs' = [j \in DOMAIN logs \cup {0} |-> IF j = 0 THEN current ELSE logs[j]]
  <2>1. Sure(c) /\ cmd[c].remove = {} /\ cmd[c].shift = {}
    BY DEF Retire, Alone
  <2>2. 0 \notin DOMAIN logs
    BY <2>1 DEF Sure
  <2>3. \A j \in DOMAIN logs : j \in DOMAIN logs' /\ logs'[j] = logs[j]
    BY <1>2, <2>2
  <2>4. 0 \in DOMAIN logs' /\ logs'[0] = current
    BY <1>2
  <2> QED BY <2>3, <2>4 DEF Kept
<1> QED BY <1>1, <1>2 DEF Retire, NewNumber

LEMMA OpenLosesNone == ASSUME NEW c \in Starters, Open(c) PROVE Kept \ Kept' = {}
  BY DEF Open, Kept

LEMMA StepLosesOld ==
  ASSUME IInv, IInv', Alone, [Next]_vars, alone, NEW log \in Kept \ Kept'
  PROVE  Cardinality({newer \in Kept' : newer > log}) >= keep
<1>1. ASSUME NEW c \in Starters, Remove(c) PROVE Cardinality({newer \in Kept' : newer > log}) >= keep
  BY <1>1, RemoveLoses
<1>2. ASSUME NEW c \in Starters, Shift(c) \/ Retire(c) \/ Open(c) PROVE Kept \ Kept' = {}
  BY <1>2, ShiftLosesNone, RetireLosesNone, OpenLosesNone
<1>3. ASSUME NEW c \in Starters, List(c) \/ Interrupt(c) PROVE Kept \ Kept' = {}
  BY <1>3, SameKept DEF List, Interrupt
<1>4. CASE UNCHANGED vars
  BY <1>4, SameKept DEF vars
<1> QED BY <1>1, <1>2, <1>3, <1>4 DEF Next

\* Starts of a server that do not overlap, though each may be cut short
\* between two files, lose a log only when keeplogs newer ones are kept.
THEOREM OldLogsGo == Spec => OnlyOldLogsGo
<1> DEFINE Loses == alone => \A log \in Kept \ Kept' :
                      Cardinality({newer \in Kept' : newer > log}) >= keep
<1>1. IInv /\ IInv' /\ Alone /\ [Next]_vars => Loses
  BY StepLosesOld
<1>2. Loses => [Loses]_vars
  OBVIOUS
<1> HIDE DEF Loses
<1>3. Spec => [][Loses]_vars
  BY <1>1, <1>2, InitI, NextI, AloneNext, PTL DEF Spec
<1> QED BY <1>3, PTL DEF Loses, OnlyOldLogsGo
=============================================================================

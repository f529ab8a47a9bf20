---------------------------- MODULE PortsProofs ----------------------------
(***************************************************************************)
(* Proofs about Ports.tla for any servers, addresses and numbers of ports: *)
(* what one command at a time guarantees.                                  *)
(***************************************************************************)
EXTENDS Ports, TLAPS

Editing == {"setcheck", "setsave"}

\* What a command holds is still what its server's file holds, but for the
\* keys a set is about to write.
CopyIsCurrent ==
  \A c \in Clis : cmd[c] # Idle =>
    LET d == cmd[c].data
        s == cmd[c].server
    IN IF cmd[c].at \in Editing
       THEN d.policy = store[s].policy /\ \A k \in Keys \ cmd[c].mine : d.port[k] = store[s].port[k]
       ELSE d = store[s]

ExplicitIsHeld ==
  \A s \in Servers, k \in Keys : store[s].policy[k] = "explicit" => store[s].port[k] # None

ChosenIsHeld ==
  \A c \in Clis : (cmd[c] # Idle /\ cmd[c].at \in Editing) => \A k \in cmd[c].mine : cmd[c].data.port[k] # None

Apart(s, d) == \A t \in Servers \ {s} : ~Meet(d, store[t])

\* The verdict of a check still holds when the command acts on it.
CheckedIsApart ==
  \A c \in Clis : cmd[c] # Idle =>
    /\ cmd[c].at \in {"launch", "install"} => Apart(cmd[c].server, cmd[c].data)
    /\ cmd[c].at = "install" => ~SelfClash(cmd[c].data)

UneditedIsStored ==
  \A s \in Servers : (Launched(s) /\ ~live[s].edited) => live[s].at = Where(store[s])

AllApart ==
  \A s, t \in Servers :
    (s # t /\ Launched(s) /\ Launched(t) /\ ~live[s].edited /\ ~live[t].edited)
      => ~Meet(live[s].at, live[t].at)

TaskInv == CopyIsCurrent /\ ChosenIsHeld /\ CheckedIsApart
LiveInv == UneditedIsStored /\ AllApart
AloneInv == TaskInv /\ ExplicitIsHeld /\ LiveInv

-----------------------------------------------------------------------------
(* Types. *)

LEMMA TaskAt ==
  ASSUME TypeOK, NEW c \in Clis, cmd[c].at # "idle"
  PROVE  cmd[c] \in Task /\ cmd[c] # Idle
BY DEF TypeOK, Idle

LEMMA IdleType == ASSUME TypeOK, NEW c \in Clis, Finish(c) PROVE cmd' \in [Clis -> Task \cup {Idle}]
BY DEF TypeOK, Finish

LEMMA GoType ==
  ASSUME TypeOK, NEW c \in Clis, cmd[c].at # "idle", NEW at \in Points, Go(c, at)
  PROVE  cmd' \in [Clis -> Task \cup {Idle}]
<1>1. cmd[c] \in Task
  BY TaskAt
<1>2. [cmd[c] EXCEPT !.at = at] \in Task
  BY <1>1 DEF Task
<1> QED BY <1>2 DEF TypeOK, Go

LEMMA SaveType ==
  ASSUME TypeOK, NEW s \in Servers, NEW d \in Data, Save(s, d)
  PROVE  store' \in [Servers -> Data] /\ live' \in [Servers -> Process \cup {Off}]
<1>1. store' \in [Servers -> Data]
  BY DEF TypeOK, Save
<1>2. CASE live[s] # Off
  <2>1. live[s] \in Process
    BY <1>2 DEF TypeOK
  <2>2. [live[s] EXCEPT !.edited = TRUE] \in Process
    BY <2>1 DEF Process
  <2> QED BY <1>1, <2>2 DEF TypeOK, Save
<1>3. CASE live[s] = Off
  BY <1>1, <1>3 DEF TypeOK, Save
<1> QED BY <1>2, <1>3

LEMMA BeginType ==
  ASSUME TypeOK, NEW c \in Clis, NEW s \in Servers, NEW at \in Points, NEW d \in Data,
         NEW mine \in SUBSET Keys, NEW ask \in BOOLEAN, NEW arg \in Typed \cup {None},
         Begin(c, s, at, d, mine, ask, arg)
  PROVE  TypeOK'
<1>1. [at |-> at, server |-> s, data |-> d, mine |-> mine, ask |-> ask, arg |-> arg] \in Task
  BY DEF Task
<1> QED BY <1>1 DEF TypeOK, Begin

LEMMA TypedPort == Typed \subseteq 1..MaxPort /\ None \in 0..MaxPort
BY PortAssumption DEF None

LEMMA WhereType == ASSUME NEW d \in Data PROVE Where(d) \in Data
BY DEF Where, Data, NoPolicy

LEMMA PoliciesType == ASSUME NEW d \in Data, NEW mine PROVE WithPolicies(d, mine) \in Data
BY DEF WithPolicies, Policy, Data

LEMMA ConfiguredType ==
  ASSUME NEW d \in Data, NEW main \in 1..MaxPort
  PROVE  Configured(d, main) \in Data
<1>1. \A k \in Keys :
        (IF k = MainKey THEN main ELSE IF k \in Missing(d) THEN main + 1 ELSE d.port[k]) \in 0..(MaxPort + 1)
  <2> TAKE k \in Keys
  <2>1. d.port[k] \in 0..(MaxPort + 1) /\ main \in 0..(MaxPort + 1) /\ main + 1 \in 0..(MaxPort + 1)
    BY PortAssumption DEF Data
  <2> QED BY <2>1
<1> QED BY <1>1, KeysAssumption, PortAssumption DEF Configured, Data

LEMMA ShiftedType ==
  ASSUME NEW d \in Data, NEW n \in Offsets, Legal(d, n)
  PROVE  Shifted(d, n) \in Data
<1>1. \A k \in Keys : d.port[k] # None => Shifted(d, n).port[k] = d.port[k] + n /\ d.port[k] + n \in Ports \cup {None}
  BY DEF Legal, Held, Shifted, Data
<1>2. \A k \in Keys : (IF d.port[k] = None THEN None ELSE d.port[k] + n) \in 0..MaxPort
  BY <1>1, PortAssumption DEF None, Ports
<1>3. 0..MaxPort \subseteq 0..(MaxPort + 1) /\ \A i \in 0..MaxPort : i <= MaxPort
  BY PortAssumption
<1> QED BY <1>2, <1>3, KeysAssumption DEF Shifted, Data

LEMMA StartType == ASSUME Init PROVE TypeOK
<1>0. fleet.beside \in BOOLEAN
  BY FleetAssumption DEF Init, Fleet
<1> DEFINE new == Created(fleet.beside)
<1>1. new.port \in [Keys -> 0..(MaxPort + 1)] /\ new.port[MainKey] <= MaxPort
  BY KeysAssumption, PortAssumption DEF Created, None
<1>2. new \in Data
  BY <1>0, <1>1, AddressAssumption DEF Created, NoPolicy, Data
<1> HIDE DEF new
<1>3. store = [s \in Servers |-> new]
  BY DEF Init, new
<1> QED BY <1>2, <1>3 DEF Init, TypeOK

LEMMA ResolvedType ==
  ASSUME TypeOK, NEW c \in Clis, cmd[c].at = "claims"
  PROVE  Resolved(c) \in Data
BY TaskAt, PoliciesType DEF Resolved, Task

LEMMA ShiftedResolved ==
  ASSUME NEW d \in Data, NEW mine, NEW n
  PROVE  /\ Shifted(WithPolicies(d, mine), n).port = Shifted(d, n).port
         /\ Legal(d, n) => Legal(WithPolicies(d, mine), n)
BY DEF Shifted, WithPolicies, Data, Legal, Held

LEMMA NextType == ASSUME TypeOK, Next PROVE TypeOK'
<1>1. ASSUME NEW c \in Clis, NEW s \in Servers, SetPort(c, s) PROVE TypeOK'
  <2>1. PICK k \in fleet.keys, p \in Typed :
          Begin(c, s, "setcheck", [store[s] EXCEPT !.port[k] = p], {k}, FALSE, p)
    BY <1>1 DEF SetPort
  <2>2. k \in Keys
    BY FleetAssumption DEF TypeOK, Fleet
  <2>3. store[s] \in Data /\ p \in 0..(MaxPort + 1) /\ p <= MaxPort
    BY TypedPort, PortAssumption DEF TypeOK
  <2>4. [store[s].port EXCEPT ![k] = p] \in {f \in [Keys -> 0..(MaxPort + 1)] : f[MainKey] <= MaxPort}
    BY <2>2, <2>3, KeysAssumption DEF Data
  <2>5. [store[s] EXCEPT !.port[k] = p] \in Data
    BY <2>3, <2>4 DEF Data
  <2> QED BY <2>1, <2>2, <2>5, BeginType DEF Points
<1>2. ASSUME NEW c \in Clis, NEW s \in Servers, SetAddress(c, s) PROVE TypeOK'
  <2>0. fleet.binds \subseteq Addresses /\ fleet.publics \subseteq Addresses
    BY FleetAssumption DEF TypeOK, Fleet
  <2>1. \A a \in fleet.binds : [store[s] EXCEPT !.bind = a] \in Data
    BY <2>0 DEF TypeOK, Data
  <2>2. \A a \in fleet.publics : [store[s] EXCEPT !.public = a] \in Data
    BY <2>0 DEF TypeOK, Data
  <2>3. CASE \E a \in fleet.binds : Begin(c, s, "setcheck", [store[s] EXCEPT !.bind = a], {}, FALSE, None)
    BY <2>3, <2>1, BeginType DEF Points
  <2>4. CASE \E a \in fleet.publics : Begin(c, s, "setcheck", [store[s] EXCEPT !.public = a], {}, FALSE, None)
    BY <2>4, <2>2, BeginType DEF Points
  <2> QED BY <1>2, <2>3, <2>4 DEF SetAddress
<1>3. ASSUME NEW c \in Clis, NEW s \in Servers, DeleteAddress(c, s) PROVE TypeOK'
  <2>1. [store[s] EXCEPT !.bind = Wild] \in Data /\ [store[s] EXCEPT !.public = NoAddress] \in Data
    BY AddressAssumption DEF TypeOK, Data
  <2> QED BY <1>3, <2>1, BeginType DEF DeleteAddress, Points
<1>4. ASSUME NEW c \in Clis, NEW s \in Servers, Setup(c, s) PROVE TypeOK'
  <2>1. store[s] \in Data
    BY DEF TypeOK
  <2> QED BY <1>4, <2>1, BeginType DEF Setup, Points
<1>5. ASSUME NEW c \in Clis, NEW s \in Servers, Start(c, s) PROVE TypeOK'
  <2>1. store[s] \in Data
    BY DEF TypeOK
  <2> QED BY <1>5, <2>1, BeginType DEF Start, Points
<1>6. ASSUME NEW c \in Clis, SetCheck(c) PROVE TypeOK'
  BY <1>6, IdleType, GoType DEF SetCheck, Points, TypeOK
<1>7. ASSUME NEW c \in Clis, SetSave(c) PROVE TypeOK'
  <2>1. cmd[c] \in Task
    BY <1>7, TaskAt DEF SetSave
  <2>2. [cmd[c].data EXCEPT !.policy = [k \in Keys |-> IF k \in cmd[c].mine THEN "explicit" ELSE @[k]]] \in Data
    BY <2>1 DEF Task, Data
  <2>3. cmd[c].server \in Servers
    BY <2>1 DEF Task
  <2>4. store' \in [Servers -> Data] /\ live' \in [Servers -> Process \cup {Off}]
    BY <1>7, <2>2, <2>3, SaveType DEF SetSave
  <2> QED BY <1>7, <2>4, IdleType DEF SetSave, TypeOK
<1>8. ASSUME NEW c \in Clis, Configure(c) PROVE TypeOK'
  <2>1. cmd[c] \in Task
    BY <1>8, TaskAt DEF Configure
  <2> DEFINE new(a) == Configured(cmd[c].data, IF a = None THEN Offered(c) ELSE a)
             task(a) == [cmd[c] EXCEPT !.at = "claims", !.data = new(a), !.mine = Chosen(c, new(a)),
                                       !.arg = IF a = None THEN @ ELSE a]
  <2>2. PICK a \in Answers(c) : cmd' = [cmd EXCEPT ![c] = task(a)] /\ Save(cmd[c].server, new(a))
    BY <1>8, <2>1 DEF Configure, TypeOK, Task
  <2>3. a \in Typed \cup {None}
    BY DEF Answers
  <2>4. (IF a = None THEN Offered(c) ELSE a) \in 1..MaxPort
    <3>1. cmd[c].data.port[MainKey] \in 0..MaxPort /\ cmd[c].arg \in Typed \cup {None}
      BY <2>1, KeysAssumption, PortAssumption DEF Task, Data
    <3>2. DefaultPort \in 1..MaxPort
      BY PortAssumption
    <3>3. cmd[c].arg # None => cmd[c].arg \in 1..MaxPort
      BY <3>1, TypedPort
    <3>4. cmd[c].data.port[MainKey] # None => cmd[c].data.port[MainKey] \in 1..MaxPort
      BY <3>1 DEF None
    <3>5. Offered(c) \in 1..MaxPort
      BY <3>2, <3>3, <3>4 DEF Offered
    <3> QED BY <2>3, <3>5, TypedPort
  <2>5. new(a) \in Data
    <3>1. cmd[c].data \in Data
      BY <2>1 DEF Task
    <3> QED BY <2>4, <3>1, ConfiguredType
  <2>6. task(a) \in Task
    <3> HIDE DEF new
    <3> QED BY <2>1, <2>3, <2>5, KeysAssumption DEF Task, Points, Chosen
  <2> HIDE DEF task, new
  <2>7. cmd' \in [Clis -> Task \cup {Idle}]
    BY <2>2, <2>6 DEF TypeOK
  <2>8. cmd[c].server \in Servers
    BY <2>1 DEF Task
  <2> QED BY <1>8, <2>2, <2>5, <2>7, <2>8, SaveType DEF Configure, TypeOK
<1>9. ASSUME NEW c \in Clis, cmd[c].at = "claims", NEW d \in Data,
             cmd' = [cmd EXCEPT ![c].at = "install", ![c].data = d],
             UNCHANGED <<fleet, aliens>>,
             Save(cmd[c].server, d) \/ UNCHANGED <<store, live>>
      PROVE  TypeOK'
  <2>1. cmd[c] \in Task
    BY <1>9, TaskAt
  <2>2. [cmd[c] EXCEPT !.at = "install", !.data = d] \in Task
    BY <2>1, <1>9 DEF Task, Points
  <2>3. cmd' \in [Clis -> Task \cup {Idle}]
    BY <1>9, <2>2 DEF TypeOK
  <2>4. cmd[c].server \in Servers
    BY <2>1 DEF Task
  <2>5. store' \in [Servers -> Data] /\ live' \in [Servers -> Process \cup {Off}]
    BY <1>9, <2>4, SaveType DEF TypeOK
  <2> QED BY <1>9, <2>3, <2>5 DEF TypeOK
<1>10. ASSUME NEW c \in Clis, ClaimsFree(c) PROVE TypeOK'
  BY <1>9, <1>10, ResolvedType DEF ClaimsFree
<1>11. ASSUME NEW c \in Clis, ClaimsRefused(c) PROVE TypeOK'
  <2>1. cmd[c].server \in Servers /\ Resolved(c) \in Data
    BY <1>11, TaskAt, ResolvedType DEF ClaimsRefused, Task
  <2> QED BY <1>11, <2>1, IdleType, SaveType DEF ClaimsRefused, TypeOK
<1>12. ASSUME NEW c \in Clis, ClaimsHopeless(c) PROVE TypeOK'
  BY <1>12, IdleType DEF ClaimsHopeless, TypeOK
<1>13. ASSUME NEW c \in Clis, ClaimsShift(c) PROVE TypeOK'
  <2>1. cmd[c].data \in Data /\ Resolved(c) \in Data /\ cmd[c].at = "claims"
    BY <1>13, TaskAt, ResolvedType DEF ClaimsShift, Task
  <2>2. PICK n \in Nearest(FreeOffsets(cmd[c].server, cmd[c].data)) :
          /\ cmd' = [cmd EXCEPT ![c].at = "install", ![c].data = Shifted(Resolved(c), n)]
          /\ Save(cmd[c].server, Shifted(Resolved(c), n))
    BY <1>13 DEF ClaimsShift
  <2>3. n \in Offsets /\ Legal(Resolved(c), n)
    BY <2>1, <2>2, ShiftedResolved DEF Nearest, FreeOffsets, Resolved
  <2>4. Shifted(Resolved(c), n) \in Data
    BY <2>1, <2>3, ShiftedType
  <2> QED BY <1>9, <1>13, <2>1, <2>2, <2>4 DEF ClaimsShift
<1>14. ASSUME NEW c \in Clis, Install(c) PROVE TypeOK'
  <2>1. cmd[c].server \in Servers /\ cmd[c].data \in Data
    BY <1>14, TaskAt DEF Install, Task
  <2> QED BY <1>14, <2>1, IdleType, SaveType DEF Install, TypeOK
<1>15. ASSUME NEW c \in Clis, StartCheck(c) PROVE TypeOK'
  BY <1>15, IdleType, GoType DEF StartCheck, Points, TypeOK
<1>16. ASSUME NEW c \in Clis, Launch(c) PROVE TypeOK'
  <2>1. cmd[c].server \in Servers /\ Where(cmd[c].data) \in Data
    BY <1>16, TaskAt, WhereType DEF Launch, Task
  <2>2. [state |-> "launching", at |-> Where(cmd[c].data),
         edited |-> Where(cmd[c].data) # Where(store[cmd[c].server])] \in Process
    BY <2>1 DEF Process
  <2>3. live' \in [Servers -> Process \cup {Off}]
    BY <1>16, <2>2 DEF Launch, TypeOK
  <2> QED BY <1>16, <2>3, IdleType DEF Launch, TypeOK
<1>17. ASSUME NEW c \in Clis, Interrupt(c) PROVE TypeOK'
  BY <1>17, IdleType DEF Interrupt, TypeOK
<1>18. ASSUME NEW s \in Servers, Bind(s) PROVE TypeOK'
  <2>1. live[s] \in Process
    BY <1>18 DEF Bind, TypeOK, Off
  <2> DEFINE sockets == Sockets(live[s].at)
             state == IF live[s].at.bind \notin Hosted THEN "failed"
                      ELSE IF \E x \in sockets : Taken(x, Listening) THEN "deaf"
                      ELSE IF \E x \in sockets : x.port \in aliens THEN "failed"
                      ELSE "up"
  <2>2. state \in {"deaf", "failed", "up"}
    OBVIOUS
  <2>3. live' = [live EXCEPT ![s].state = state]
    BY <1>18 DEF Bind
  <2> HIDE DEF state
  <2>4. [live[s] EXCEPT !.state = state] \in Process
    BY <2>1, <2>2 DEF Process
  <2> QED BY <1>18, <2>3, <2>4 DEF Bind, TypeOK
<1>19. ASSUME NEW s \in Servers, Exit(s) PROVE TypeOK'
  BY <1>19 DEF Exit, TypeOK
<1>20. ASSUME NEW p \in Ports, AlienCome(p) \/ AlienGo(p) PROVE TypeOK'
  BY <1>20 DEF AlienCome, AlienGo, TypeOK
<1> QED BY <1>1, <1>2, <1>3, <1>4, <1>5, <1>6, <1>7, <1>8, <1>10, <1>11, <1>12, <1>13, <1>14,
           <1>15, <1>16, <1>17, <1>18, <1>19, <1>20 DEF Next, Command

\* No reachable store holds a main port outside the legal range, whatever users
\* type, setups shift and commands interleave.
THEOREM TypeCorrect == Spec => []TypeOK
<1>1. TypeOK /\ UNCHANGED vars => TypeOK'
  BY DEF TypeOK, vars
<1> QED BY <1>1, StartType, NextType, PTL DEF Spec

-----------------------------------------------------------------------------
(* Claims: what they depend on. *)

LEMMA ClashSymmetric == ASSUME NEW e, NEW f, Clash(e, f) PROVE Clash(f, e)
BY DEF Clash, Overlap

LEMMA MeetSymmetric == ASSUME NEW d, NEW e, Meet(d, e) PROVE Meet(e, d)
BY ClashSymmetric DEF Meet

\* Who chose a port does not matter for what it claims.
LEMMA ClaimsIgnorePolicy ==
  ASSUME NEW d, NEW e, d.bind = e.bind, d.public = e.public, d.beside = e.beside, d.port = e.port
  PROVE  Claims(d) = Claims(e)
<1>1. Held(d) = Held(e) /\ Public(d) = Public(e)
  BY DEF Held, Public
<1>2. Stored(d) = Stored(e)
  BY <1>1 DEF Stored
<1>3. Query(d) = Query(e)
  BY <1>1, <1>2 DEF Query
<1> QED BY <1>2, <1>3 DEF Claims

LEMMA ClaimsOfWhere == ASSUME NEW d \in Data PROVE Claims(Where(d)) = Claims(d)
<1>1. /\ Where(d).bind = d.bind /\ Where(d).public = d.public
      /\ Where(d).beside = d.beside /\ Where(d).port = d.port
  BY DEF Where, Data
<1> QED BY <1>1, ClaimsIgnorePolicy

LEMMA ClaimsOfPolicies ==
  ASSUME NEW d \in Data, NEW mine
  PROVE  Claims(WithPolicies(d, mine)) = Claims(d)
<1> DEFINE e == WithPolicies(d, mine)
<1>1. e.bind = d.bind /\ e.public = d.public /\ e.beside = d.beside /\ e.port = d.port
  BY DEF WithPolicies, Data
<1> QED BY <1>1, ClaimsIgnorePolicy

LEMMA ClaimsOfShift ==
  ASSUME NEW d \in Data, NEW mine, NEW n
  PROVE  Claims(Shifted(WithPolicies(d, mine), n)) = Claims(Shifted(d, n))
<1> DEFINE e == Shifted(WithPolicies(d, mine), n)
           f == Shifted(d, n)
<1>1. e.bind = f.bind /\ e.public = f.public /\ e.beside = f.beside /\ e.port = f.port
  BY DEF WithPolicies, Shifted, Data
<1> QED BY <1>1, ClaimsIgnorePolicy

LEMMA WhereMeets ==
  ASSUME NEW d \in Data, NEW e \in Data
  PROVE  Meet(Where(d), Where(e)) <=> Meet(d, e)
BY ClaimsOfWhere DEF Meet

-----------------------------------------------------------------------------
(* One command at a time: the invariant. *)

LEMMA FinishKeeps ==
  ASSUME TypeOK, Alone, NEW c \in Clis, Finish(c)
  PROVE  TaskInv'
<1>1. \A e \in Clis : cmd'[e] = Idle
  BY DEF TypeOK, Alone, Finish
<1> QED BY <1>1 DEF TaskInv, CopyIsCurrent, ChosenIsHeld, CheckedIsApart

\* What the only command must establish when it becomes r.
Current(r, st) ==
  IF r.at \in Editing
  THEN r.data.policy = st[r.server].policy /\ \A k \in Keys \ r.mine : r.data.port[k] = st[r.server].port[k]
  ELSE r.data = st[r.server]

ApartIn(r, st) == \A t \in Servers \ {r.server} : ~Meet(r.data, st[t])

LEMMA TaskKeeps ==
  ASSUME TypeOK, Alone, NEW c \in Clis, NEW CONSTANT r, cmd' = [cmd EXCEPT ![c] = r],
         Current(r, store'),
         r.at \in Editing => \A k \in r.mine : r.data.port[k] # None,
         r.at \in {"launch", "install"} => ApartIn(r, store'),
         r.at = "install" => ~SelfClash(r.data)
  PROVE  TaskInv'
<1>1. \A e \in Clis : cmd'[e] = r
  BY DEF TypeOK, Alone
<1>2. CopyIsCurrent'
  BY <1>1 DEF CopyIsCurrent, Current
<1>3. ChosenIsHeld'
  BY <1>1 DEF ChosenIsHeld
<1>4. CheckedIsApart'
  BY <1>1 DEF CheckedIsApart, Apart, ApartIn
<1> QED BY <1>2, <1>3, <1>4 DEF TaskInv

LEMMA SaveKeepsLive ==
  ASSUME TypeOK, LiveInv, NEW s \in Servers, NEW d \in Data, Save(s, d)
  PROVE  LiveInv'
<1>1. \A t \in Servers :
        /\ live'[t] # Off <=> live[t] # Off
        /\ live[t] # Off => live'[t].at = live[t].at /\ (live[t].edited => live'[t].edited)
        /\ (live[t] # Off /\ ~live'[t].edited) => Where(store'[t]) = Where(store[t])
  <2> TAKE t \in Servers
  <2>1. live[t] # Off => live[t] \in Process
    BY DEF TypeOK
  <2>2. CASE live[s] # Off /\ Where(d) # Where(store[s]) /\ t = s
    <3>1. live'[t] = [live[t] EXCEPT !.edited = TRUE]
      BY <2>2 DEF Save, TypeOK
    <3>2. live'[t] # Off /\ live'[t].edited = TRUE /\ live'[t].at = live[t].at
      BY <2>1, <2>2, <3>1 DEF Process, Off
    <3> QED BY <2>2, <3>2
  <2>3. CASE ~(live[s] # Off /\ Where(d) # Where(store[s]))
    <3>1. live' = live
      BY <2>3 DEF Save
    <3>2. t = s => store'[t] = d
      BY DEF Save, TypeOK
    <3>3. t # s => store'[t] = store[t]
      BY DEF Save, TypeOK
    <3> QED BY <2>3, <3>1, <3>2, <3>3
  <2>4. CASE live[s] # Off /\ Where(d) # Where(store[s]) /\ t # s
    <3>1. live'[t] = live[t] /\ store'[t] = store[t]
      BY <2>4 DEF Save, TypeOK
    <3> QED BY <3>1
  <2> QED BY <2>2, <2>3, <2>4
<1>2. UneditedIsStored'
  BY <1>1 DEF LiveInv, UneditedIsStored, Launched
<1>3. AllApart'
  BY <1>1 DEF LiveInv, AllApart, Launched
<1> QED BY <1>2, <1>3 DEF LiveInv

LEMMA SaveKeepsExplicit ==
  ASSUME TypeOK, ExplicitIsHeld, NEW s \in Servers, NEW d \in Data, Save(s, d),
         \A k \in Keys : d.policy[k] = "explicit" => d.port[k] # None
  PROVE  ExplicitIsHeld'
<1>1. \A t \in Servers : store'[t] = IF t = s THEN d ELSE store[t]
  BY DEF Save, TypeOK
<1> QED BY <1>1 DEF ExplicitIsHeld

\* Steps that write no store and touch no process.
LEMMA QuietKeeps ==
  ASSUME AloneInv, UNCHANGED <<store, live>>
  PROVE  ExplicitIsHeld' /\ LiveInv'
BY DEF AloneInv, ExplicitIsHeld, LiveInv, UneditedIsStored, AllApart, Launched

LEMMA BeginKeeps ==
  ASSUME TypeOK, Alone, AloneInv, NEW c \in Clis, NEW s \in Servers, NEW at, NEW d, NEW mine,
         NEW ask, NEW arg, Begin(c, s, at, d, mine, ask, arg), at \notin {"launch", "install"},
         at \notin Editing => d = store[s],
         at \in Editing => /\ d.policy = store[s].policy
                           /\ \A k \in Keys \ mine : d.port[k] = store[s].port[k]
                           /\ \A k \in mine : d.port[k] # None
  PROVE  AloneInv'
<1> DEFINE r == [at |-> at, server |-> s, data |-> d, mine |-> mine, ask |-> ask, arg |-> arg]
<1>1. cmd' = [cmd EXCEPT ![c] = r] /\ store' = store
  BY DEF Begin
<1>2. PICK x : x = r
  OBVIOUS
<1>3. Current(x, store')
  BY <1>1, <1>2 DEF Current
<1>4. TaskInv'
  BY <1>1, <1>2, <1>3, TaskKeeps
<1> QED BY <1>4, QuietKeeps DEF Begin, AloneInv

LEMMA Holds ==
  ASSUME TypeOK, AloneInv, NEW c \in Clis, cmd[c].at # "idle"
  PROVE  /\ cmd[c] \in Task /\ cmd[c] # Idle /\ cmd[c].server \in Servers /\ cmd[c].data \in Data
         /\ Current(cmd[c], store)
         /\ cmd[c].at \in Editing => \A k \in cmd[c].mine : cmd[c].data.port[k] # None
         /\ cmd[c].at \in {"launch", "install"} => ApartIn(cmd[c], store)
         /\ cmd[c].at = "install" => ~SelfClash(cmd[c].data)
<1>1. cmd[c] \in Task /\ cmd[c] # Idle
  BY TaskAt
<1>2. cmd[c].server \in Servers /\ cmd[c].data \in Data
  BY <1>1 DEF Task
<1> QED BY <1>1, <1>2 DEF AloneInv, TaskInv, CopyIsCurrent, ChosenIsHeld, CheckedIsApart, Current, ApartIn, Apart

\* The verdict of Conflicted, as the invariant keeps it.
LEMMA Unconflicted ==
  ASSUME NEW s, NEW d, ~Conflicted(s, d)
  PROVE  Apart(s, d) /\ ~SelfClash(d)
BY DEF Conflicted, ManagedClash, Apart

LEMMA PoliciesKeepHeld ==
  ASSUME TypeOK, AloneInv, NEW c \in Clis, cmd[c].at = "claims"
  PROVE  /\ \A k \in Keys : Resolved(c).policy[k] = "explicit" => Resolved(c).port[k] # None
         /\ Resolved(c).port = cmd[c].data.port
         /\ \A k \in Keys : cmd[c].data.policy[k] = "explicit" => Resolved(c).policy[k] = "explicit"
         /\ cmd[c].data = store[cmd[c].server]
<1>1. cmd[c].data = store[cmd[c].server] /\ cmd[c].server \in Servers /\ cmd[c].data \in Data
  BY Holds DEF Current, Editing
<1>2. \A k \in Keys : cmd[c].data.policy[k] = "explicit" => cmd[c].data.port[k] # None
  BY <1>1 DEF AloneInv, ExplicitIsHeld
<1>3. Resolved(c).port = cmd[c].data.port
  BY <1>1 DEF Resolved, WithPolicies, Data
<1>4. \A k \in Keys : Resolved(c).policy[k] =
        IF cmd[c].data.port[k] = None THEN cmd[c].data.policy[k]
        ELSE IF cmd[c].data.policy[k] = "explicit" \/ k \in cmd[c].mine THEN "explicit" ELSE "default"
  <2> TAKE k \in Keys
  <2> QED BY <1>1 DEF Resolved, WithPolicies, Policy, Held, Data
<1>5. \A k \in Keys : Resolved(c).policy[k] = "explicit" => Resolved(c).port[k] # None
  BY <1>2, <1>3, <1>4
<1>6. \A k \in Keys : cmd[c].data.policy[k] = "explicit" => Resolved(c).policy[k] = "explicit"
  BY <1>2, <1>4
<1> QED BY <1>1, <1>3, <1>5, <1>6

\* The end of the claims step, with what setup has settled on.
LEMMA InstallKeeps ==
  ASSUME TypeOK, TypeOK', Alone, AloneInv, NEW c \in Clis, cmd[c].at = "claims", NEW d \in Data,
         cmd' = [cmd EXCEPT ![c].at = "install", ![c].data = d],
         Save(cmd[c].server, d) \/ (d = store[cmd[c].server] /\ UNCHANGED <<store, live>>),
         Apart(cmd[c].server, d), ~SelfClash(d),
         \A k \in Keys : d.policy[k] = "explicit" => d.port[k] # None
  PROVE  AloneInv'
<1>1. cmd[c] \in Task /\ cmd[c].server \in Servers
  BY Holds
<1>2. PICK r : r = [cmd[c] EXCEPT !.at = "install", !.data = d]
  OBVIOUS
<1>3. r.at = "install" /\ r.data = d /\ r.server = cmd[c].server /\ cmd' = [cmd EXCEPT ![c] = r]
  BY <1>1, <1>2 DEF Task
<1>4. \A t \in Servers : store'[t] = IF t = cmd[c].server THEN d ELSE store[t]
  BY <1>1 DEF Save, TypeOK
<1>5. Current(r, store') /\ ApartIn(r, store')
  BY <1>1, <1>3, <1>4 DEF Current, ApartIn, Apart, Editing
<1>6. TaskInv'
  BY <1>3, <1>5, TaskKeeps DEF Editing
<1>7. ExplicitIsHeld' /\ LiveInv'
  BY <1>1, SaveKeepsExplicit, SaveKeepsLive, QuietKeeps DEF AloneInv
<1> QED BY <1>6, <1>7 DEF AloneInv

LEMMA AloneStart == ASSUME Init PROVE AloneInv
<1>1. \A c \in Clis : cmd[c] = Idle
  BY DEF Init
<1>2. \A s \in Servers : live[s] = Off /\ \A k \in Keys : store[s].policy[k] = "none"
  BY DEF Init, Created, NoPolicy
<1> QED BY <1>1, <1>2 DEF AloneInv, TaskInv, CopyIsCurrent, ChosenIsHeld, CheckedIsApart,
                          ExplicitIsHeld, LiveInv, UneditedIsStored, AllApart, Launched

LEMMA AloneNext ==
  ASSUME TypeOK, TypeOK', Alone, AloneInv, Next
  PROVE  AloneInv'
<1>1. ASSUME NEW c \in Clis, NEW s \in Servers, SetPort(c, s) PROVE AloneInv'
  <2>1. PICK k \in fleet.keys, p \in Typed :
          Begin(c, s, "setcheck", [store[s] EXCEPT !.port[k] = p], {k}, FALSE, p)
    BY <1>1 DEF SetPort
  <2> DEFINE d == [store[s] EXCEPT !.port[k] = p]
  <2>2. k \in Keys /\ p # None /\ store[s] \in Data
    BY FleetAssumption, TypedPort DEF TypeOK, Fleet, None
  <2>3. d.policy = store[s].policy /\ (\A j \in Keys \ {k} : d.port[j] = store[s].port[j]) /\ d.port[k] # None
    BY <2>2 DEF Data
  <2>4. Begin(c, s, "setcheck", d, {k}, FALSE, p)
    BY <2>1
  <2> HIDE DEF d
  <2>5. "setcheck" \in Editing /\ "setcheck" \notin {"launch", "install"}
    BY DEF Editing
  <2> QED BY <2>3, <2>4, <2>5, BeginKeeps
<1>2. ASSUME NEW c \in Clis, NEW s \in Servers, NEW at \in Editing, NEW d,
             Begin(c, s, at, d, {}, FALSE, None), d.policy = store[s].policy, d.port = store[s].port
      PROVE  AloneInv'
  BY <1>2, BeginKeeps DEF Editing
<1>3. ASSUME NEW c \in Clis, NEW s \in Servers, SetAddress(c, s) PROVE AloneInv'
  <2>1. \A a : [store[s] EXCEPT !.bind = a].policy = store[s].policy /\ [store[s] EXCEPT !.bind = a].port = store[s].port
    BY DEF TypeOK, Data
  <2>2. \A a : [store[s] EXCEPT !.public = a].policy = store[s].policy /\ [store[s] EXCEPT !.public = a].port = store[s].port
    BY DEF TypeOK, Data
  <2>3. "setcheck" \in Editing
    BY DEF Editing
  <2>4. CASE \E a \in fleet.binds : Begin(c, s, "setcheck", [store[s] EXCEPT !.bind = a], {}, FALSE, None)
    BY <1>2, <2>1, <2>3, <2>4
  <2>5. CASE \E a \in fleet.publics : Begin(c, s, "setcheck", [store[s] EXCEPT !.public = a], {}, FALSE, None)
    BY <1>2, <2>2, <2>3, <2>5
  <2> QED BY <1>3, <2>4, <2>5 DEF SetAddress
<1>4. ASSUME NEW c \in Clis, NEW s \in Servers, DeleteAddress(c, s) PROVE AloneInv'
  <2>1. [store[s] EXCEPT !.bind = Wild].policy = store[s].policy /\ [store[s] EXCEPT !.bind = Wild].port = store[s].port
    BY DEF TypeOK, Data
  <2>2. [store[s] EXCEPT !.public = NoAddress].policy = store[s].policy /\ [store[s] EXCEPT !.public = NoAddress].port = store[s].port
    BY DEF TypeOK, Data
  <2>3. "setsave" \in Editing
    BY DEF Editing
  <2>4. CASE Begin(c, s, "setsave", [store[s] EXCEPT !.bind = Wild], {}, FALSE, None)
    BY <1>2, <2>1, <2>3, <2>4
  <2>5. CASE Begin(c, s, "setsave", [store[s] EXCEPT !.public = NoAddress], {}, FALSE, None)
    BY <1>2, <2>2, <2>3, <2>5
  <2> QED BY <1>4, <2>4, <2>5 DEF DeleteAddress
<1>5. ASSUME NEW c \in Clis, NEW s \in Servers, Setup(c, s) \/ Start(c, s) PROVE AloneInv'
  <2>1. CASE Setup(c, s)
    <3>1. PICK arg \in Typed \cup {None}, ask \in BOOLEAN : Begin(c, s, "configure", store[s], {}, ask, arg)
      BY <2>1 DEF Setup
    <3>2. "configure" \notin Editing /\ "configure" \notin {"launch", "install"}
      BY DEF Editing
    <3> QED BY <3>1, <3>2, BeginKeeps
  <2>2. CASE Start(c, s)
    <3>1. Begin(c, s, "startcheck", store[s], {}, FALSE, None)
      BY <2>2 DEF Start
    <3>2. "startcheck" \notin Editing /\ "startcheck" \notin {"launch", "install"}
      BY DEF Editing
    <3> QED BY <3>1, <3>2, BeginKeeps
  <2> QED BY <1>5, <2>1, <2>2
<1>6. ASSUME NEW c \in Clis, Finish(c), UNCHANGED <<store, live>> PROVE AloneInv'
  BY <1>6, FinishKeeps, QuietKeeps DEF AloneInv
<1>7. ASSUME NEW c \in Clis, NEW at \in {"setsave", "launch"}, cmd[c].at # "idle", Go(c, at),
             at \in Editing <=> cmd[c].at \in Editing,
             at = "launch" => Apart(cmd[c].server, cmd[c].data), UNCHANGED <<store, live>>
      PROVE  AloneInv'
  <2>1. cmd[c] \in Task
    BY <1>7, Holds
  <2>2. PICK r : r = [cmd[c] EXCEPT !.at = at]
    OBVIOUS
  <2>3. /\ r.at = at /\ r.data = cmd[c].data /\ r.server = cmd[c].server /\ r.mine = cmd[c].mine
        /\ cmd' = [cmd EXCEPT ![c] = r]
    BY <1>7, <2>1, <2>2 DEF Task, Go
  <2>4. Current(r, store') /\ (r.at = "launch" => ApartIn(r, store'))
    BY <1>7, <2>3, Holds DEF Current, ApartIn, Apart
  <2>5. r.at \in Editing => \A k \in r.mine : r.data.port[k] # None
    BY <1>7, <2>3, Holds
  <2>6. TaskInv'
    BY <2>3, <2>4, <2>5, TaskKeeps
  <2> QED BY <1>7, <2>6, QuietKeeps DEF AloneInv
<1>8. ASSUME NEW c \in Clis, SetCheck(c) PROVE AloneInv'
  BY <1>6, <1>7, <1>8 DEF SetCheck, Editing
<1>9. ASSUME NEW c \in Clis, StartCheck(c) PROVE AloneInv'
  BY <1>6, <1>7, <1>9, Unconflicted DEF StartCheck, Editing
<1>10. ASSUME NEW c \in Clis, SetSave(c) PROVE AloneInv'
  <2> DEFINE d == [cmd[c].data EXCEPT !.policy = [k \in Keys |-> IF k \in cmd[c].mine THEN "explicit" ELSE @[k]]]
             s == cmd[c].server
  <2>1. /\ cmd[c] \in Task /\ s \in Servers /\ cmd[c].data \in Data /\ Current(cmd[c], store)
        /\ \A k \in cmd[c].mine : cmd[c].data.port[k] # None
    BY <1>10, Holds DEF SetSave, Editing
  <2>2. d \in Data
    BY <2>1 DEF Task, Data
  <2>3. \A k \in Keys : d.policy[k] = "explicit" => d.port[k] # None
    <3> TAKE k \in Keys
    <3>1. d.port[k] = cmd[c].data.port[k] /\ d.policy[k] = IF k \in cmd[c].mine THEN "explicit" ELSE cmd[c].data.policy[k]
      BY <2>1 DEF Data
    <3>2. CASE k \in cmd[c].mine
      BY <2>1, <3>1, <3>2
    <3>3. CASE k \notin cmd[c].mine
      BY <1>10, <2>1, <3>1, <3>3 DEF Current, SetSave, Editing, AloneInv, ExplicitIsHeld
    <3> QED BY <3>2, <3>3
  <2>4. Save(s, d) /\ Finish(c)
    BY <1>10 DEF SetSave
  <2> HIDE DEF d
  <2> QED BY <2>1, <2>2, <2>3, <2>4, SaveKeepsExplicit, SaveKeepsLive, FinishKeeps DEF AloneInv
<1>11. ASSUME NEW c \in Clis, Configure(c) PROVE AloneInv'
  <2>1. PICK a \in Answers(c) :
          LET new == Configured(cmd[c].data, IF a = None THEN Offered(c) ELSE a)
          IN /\ cmd' = [cmd EXCEPT ![c].at = "claims", ![c].data = new, ![c].mine = Chosen(c, new),
                                   ![c].arg = IF a = None THEN @ ELSE a]
             /\ Save(cmd[c].server, new)
    BY <1>11 DEF Configure
  <2> DEFINE new == Configured(cmd[c].data, IF a = None THEN Offered(c) ELSE a)
             s == cmd[c].server
  <2>2. /\ cmd[c] \in Task /\ s \in Servers /\ cmd[c].data \in Data /\ cmd[c].data = store[s]
    BY <1>11, Holds DEF Configure, Current, Editing
  <2>3. PICK r : r = [cmd[c] EXCEPT !.at = "claims", !.data = new, !.mine = Chosen(c, new), !.arg = IF a = None THEN @ ELSE a]
    OBVIOUS
  <2>4. /\ r.at = "claims" /\ r.data = new /\ r.server = s /\ cmd' = [cmd EXCEPT ![c] = r]
    BY <2>1, <2>2, <2>3 DEF Task
  <2>5. store'[s] = new /\ Save(s, new)
    BY <2>1, <2>2 DEF Save, TypeOK
  <2>6. new \in Data
    BY <2>2, <2>5 DEF TypeOK
  <2>7. TaskInv'
    BY <2>4, <2>5, TaskKeeps DEF Current, Editing
  <2>8. \A k \in Keys : new.policy[k] = "explicit" => new.port[k] # None
    <3> TAKE k \in Keys
    <3>1. cmd[c].data.policy[k] = "explicit" => cmd[c].data.port[k] # None
      BY <2>2 DEF AloneInv, ExplicitIsHeld
    <3>2. (IF a = None THEN Offered(c) ELSE a) # None
      <4>1. cmd[c].data.port[MainKey] # None => Offered(c) # None
        BY DEF Offered
      <4>2. Offered(c) # None
        BY <4>1, PortAssumption DEF Offered, None
      <4> QED BY <4>2
    <3> DEFINE main == IF a = None THEN Offered(c) ELSE a
    <3>3. /\ new.policy = cmd[c].data.policy
          /\ new.port[k] = IF k = MainKey THEN main ELSE IF k \in Missing(cmd[c].data) THEN main + 1
                           ELSE cmd[c].data.port[k]
      BY <2>2 DEF Configured, Data
    <3> HIDE DEF main, new
    <3>4. k # MainKey /\ cmd[c].data.port[k] # None => new.port[k] # None
      BY <3>3 DEF Missing
    <3>5. k = MainKey => new.port[k] # None
      BY <3>2, <3>3 DEF main
    <3> QED BY <3>1, <3>3, <3>4, <3>5
  <2> HIDE DEF new
  <2> QED BY <2>2, <2>5, <2>6, <2>7, <2>8, SaveKeepsExplicit, SaveKeepsLive DEF AloneInv
<1>12. ASSUME NEW c \in Clis, ClaimsFree(c) PROVE AloneInv'
  <2>1. /\ cmd[c].at = "claims" /\ ~Conflicted(cmd[c].server, cmd[c].data) /\ cmd[c].data \in Data
        /\ Resolved(c) \in Data
    BY <1>12, Holds, ResolvedType DEF ClaimsFree
  <2>2. Claims(Resolved(c)) = Claims(cmd[c].data)
    BY <2>1, ClaimsOfPolicies DEF Resolved
  <2>3. Apart(cmd[c].server, Resolved(c)) /\ ~SelfClash(Resolved(c))
    BY <2>1, <2>2, Unconflicted DEF Apart, Meet, SelfClash
  <2> QED BY <1>12, <2>1, <2>3, InstallKeeps, PoliciesKeepHeld DEF ClaimsFree
<1>13. ASSUME NEW c \in Clis, ClaimsRefused(c) PROVE AloneInv'
  <2>1. cmd[c].at = "claims" /\ cmd[c].server \in Servers /\ Resolved(c) \in Data
    BY <1>13, Holds, ResolvedType DEF ClaimsRefused
  <2>2. CASE Save(cmd[c].server, Resolved(c))
    BY <1>13, <2>1, <2>2, SaveKeepsExplicit, SaveKeepsLive, FinishKeeps, PoliciesKeepHeld DEF ClaimsRefused, AloneInv
  <2>3. CASE UNCHANGED <<store, live>>
    BY <1>6, <1>13, <2>3 DEF ClaimsRefused
  <2> QED BY <1>13, <2>2, <2>3 DEF ClaimsRefused
<1>14. ASSUME NEW c \in Clis, ClaimsShift(c) PROVE AloneInv'
  <2>1. cmd[c].at = "claims" /\ cmd[c].data \in Data /\ Resolved(c) \in Data /\ Owned(Resolved(c)) = {}
    BY <1>14, Holds, ResolvedType DEF ClaimsShift
  <2>2. PICK n \in Nearest(FreeOffsets(cmd[c].server, cmd[c].data)) :
          /\ cmd' = [cmd EXCEPT ![c].at = "install", ![c].data = Shifted(Resolved(c), n)]
          /\ Save(cmd[c].server, Shifted(Resolved(c), n))
    BY <1>14 DEF ClaimsShift
  <2> DEFINE moved == Shifted(Resolved(c), n)
  <2>3. /\ n \in Offsets /\ Legal(cmd[c].data, n) /\ ~Conflicted(cmd[c].server, Shifted(cmd[c].data, n))
    BY <2>2 DEF Nearest, FreeOffsets
  <2>4. moved \in Data
    BY <2>1, <2>3, ShiftedType, ShiftedResolved DEF Resolved
  <2>5. Claims(moved) = Claims(Shifted(cmd[c].data, n))
    BY <2>1, ClaimsOfShift DEF Resolved
  <2> HIDE DEF moved
  <2>6. Apart(cmd[c].server, moved) /\ ~SelfClash(moved)
    BY <2>3, <2>5, Unconflicted DEF Apart, Meet, SelfClash
  <2>7. \A k \in Keys : moved.policy[k] # "explicit"
    <3>1. moved.policy = Resolved(c).policy
      BY <2>1 DEF moved, Shifted, Data
    <3> QED BY <2>1, <3>1, PoliciesKeepHeld DEF Owned, Held
  <2> QED BY <2>1, <2>2, <2>4, <2>6, <2>7, InstallKeeps DEF moved
<1>15. ASSUME NEW c \in Clis, Install(c) PROVE AloneInv'
  <2>1. cmd[c].server \in Servers /\ cmd[c].data \in Data /\ cmd[c].data = store[cmd[c].server]
    BY <1>15, Holds DEF Install, Current, Editing
  <2>2. \A k \in Keys : cmd[c].data.policy[k] = "explicit" => cmd[c].data.port[k] # None
    BY <2>1 DEF AloneInv, ExplicitIsHeld
  <2> QED BY <1>15, <2>1, <2>2, SaveKeepsExplicit, SaveKeepsLive, FinishKeeps DEF Install, AloneInv
<1>16. ASSUME NEW c \in Clis, Launch(c) PROVE AloneInv'
  <2> DEFINE s == cmd[c].server
             d == cmd[c].data
  <2>1. s \in Servers /\ d \in Data /\ d = store[s] /\ \A t \in Servers \ {s} : ~Meet(d, store[t])
    BY <1>16, Holds DEF Launch, Current, Editing, ApartIn
  <2>2. CASE live[s] # Off
    BY <1>6, <1>16, <2>2 DEF Launch
  <2>3. CASE live[s] = Off
    <3> DEFINE p == [state |-> "launching", at |-> Where(d), edited |-> Where(d) # Where(store[s])]
    <3>1. \A t \in Servers : live'[t] = IF t = s THEN p ELSE live[t]
      BY <1>16, <2>1, <2>3 DEF Launch, TypeOK
    <3>2. p.at = Where(store[s]) /\ store' = store
      BY <1>16, <2>1 DEF Launch
    <3>3. UneditedIsStored'
      BY <3>1, <3>2 DEF UneditedIsStored, Launched, AloneInv, LiveInv
    <3>4. \A t \in Servers \ {s} : (Launched(t) /\ ~live[t].edited) => ~Meet(p.at, live[t].at)
      <4> TAKE t \in Servers \ {s}
      <4>1. (Launched(t) /\ ~live[t].edited) => live[t].at = Where(store[t])
        BY DEF AloneInv, LiveInv, UneditedIsStored
      <4>2. Meet(Where(store[s]), Where(store[t])) <=> Meet(store[s], store[t])
        BY <2>1, WhereMeets DEF TypeOK
      <4> QED BY <2>1, <3>2, <4>1, <4>2
    <3> HIDE DEF p
    <3>5. AllApart'
      <4> SUFFICES ASSUME NEW t \in Servers, NEW u \in Servers, t # u, Launched(t)', Launched(u)',
                          ~live'[t].edited, ~live'[u].edited
                   PROVE  ~Meet(live'[t].at, live'[u].at)
        BY DEF AllApart
      <4>1. CASE t = s
        BY <3>1, <3>4, <4>1 DEF Launched
      <4>2. CASE u = s
        BY <3>1, <3>4, <4>2, MeetSymmetric DEF Launched
      <4>3. CASE t # s /\ u # s
        BY <3>1, <4>3 DEF Launched, AloneInv, LiveInv, AllApart
      <4> QED BY <4>1, <4>2, <4>3
    <3>6. ExplicitIsHeld'
      BY <3>2 DEF ExplicitIsHeld, AloneInv
    <3> QED BY <1>16, <3>3, <3>5, <3>6, FinishKeeps DEF Launch, LiveInv, AloneInv
  <2> QED BY <2>2, <2>3
<1>17. ASSUME NEW c \in Clis, ClaimsHopeless(c) \/ Interrupt(c) PROVE AloneInv'
  BY <1>6, <1>17 DEF ClaimsHopeless, Interrupt
<1>18. ASSUME NEW s \in Servers, Bind(s) \/ Exit(s) PROVE AloneInv'
  <2>1. \A t \in Servers : live'[t] # Off => live[t] # Off /\ live'[t].at = live[t].at /\ live'[t].edited = live[t].edited
    <3>1. CASE Exit(s)
      BY <3>1 DEF Exit, TypeOK
    <3>2. CASE Bind(s)
      <4>1. PICK v : live' = [live EXCEPT ![s].state = v]
        BY <3>2 DEF Bind
      <4>2. live[s] \in Process
        BY <3>2 DEF Bind, TypeOK, Off
      <4> QED BY <4>1, <4>2 DEF TypeOK, Process, Off
    <3> QED BY <1>18, <3>1, <3>2
  <2>2. store' = store /\ cmd' = cmd
    BY <1>18 DEF Bind, Exit
  <2>3. LiveInv'
    BY <2>1, <2>2 DEF AloneInv, LiveInv, UneditedIsStored, AllApart, Launched
  <2> QED BY <2>2, <2>3 DEF AloneInv, TaskInv, CopyIsCurrent, ChosenIsHeld, CheckedIsApart, Apart, ExplicitIsHeld
<1>19. ASSUME NEW p \in Ports, AlienCome(p) \/ AlienGo(p) PROVE AloneInv'
  <2>1. UNCHANGED <<store, cmd, live>>
    BY <1>19 DEF AlienCome, AlienGo
  <2> QED BY <2>1, QuietKeeps DEF AloneInv, TaskInv, CopyIsCurrent, ChosenIsHeld, CheckedIsApart, Apart
<1> QED BY <1>1, <1>3, <1>4, <1>5, <1>8, <1>9, <1>10, <1>11, <1>12, <1>13, <1>14,
           <1>15, <1>16, <1>17, <1>18, <1>19 DEF Next, Command

-----------------------------------------------------------------------------
(* One command at a time: the properties. *)

LEMMA AloneInvariant == Alone /\ Spec => []AloneInv
<1>1. AloneInv /\ UNCHANGED vars => AloneInv'
  BY DEF AloneInv, TaskInv, CopyIsCurrent, ChosenIsHeld, CheckedIsApart, Apart, ExplicitIsHeld,
         LiveInv, UneditedIsStored, AllApart, Launched, vars
<1>2. Alone /\ TypeOK /\ TypeOK' /\ AloneInv /\ [Next]_vars => AloneInv'
  BY <1>1, AloneNext
<1>3. CASE Alone
  <2>1. TypeOK /\ TypeOK' /\ AloneInv /\ [Next]_vars => AloneInv'
    BY <1>2, <1>3
  <2> QED BY <2>1, AloneStart, TypeCorrect, PTL DEF Spec
<1>4. CASE ~Alone
  BY <1>4
<1> QED BY <1>3, <1>4

\* One command at a time, launched servers that nobody has changed claim
\* nothing in common, for any number of servers, keys, ports and addresses.
THEOREM ApartWhenLaunched == Spec => []LaunchedApart
<1>1. CASE Alone
  <2>1. AloneInv => LaunchedApart
    BY DEF AloneInv, LiveInv, AllApart, LaunchedApart
  <2>2. Spec => []AloneInv
    BY <1>1, AloneInvariant
  <2> QED BY <2>1, <2>2, PTL
<1>2. CASE ~Alone
  <2>1. LaunchedApart
    BY <1>2 DEF LaunchedApart
  <2> QED BY <2>1, PTL
<1> QED BY <1>1, <1>2

Writes(c) == SetSave(c) \/ Configure(c) \/ ClaimsFree(c) \/ ClaimsRefused(c) \/ ClaimsShift(c) \/ Install(c)

LEMMA OnlyWritersWrite == ASSUME Next PROVE store' = store \/ \E c \in Clis : Writes(c)
<1>1. ASSUME NEW c \in Clis, NEW s \in Servers,
             SetPort(c, s) \/ SetAddress(c, s) \/ DeleteAddress(c, s) \/ Setup(c, s) \/ Start(c, s)
      PROVE  store' = store
  BY <1>1 DEF SetPort, SetAddress, DeleteAddress, Setup, Start, Begin
<1>2. ASSUME NEW c \in Clis,
             SetCheck(c) \/ ClaimsHopeless(c) \/ StartCheck(c) \/ Launch(c) \/ Interrupt(c)
      PROVE  store' = store
  BY <1>2 DEF SetCheck, ClaimsHopeless, StartCheck, Launch, Interrupt
<1>3. ASSUME NEW s \in Servers, Bind(s) \/ Exit(s) PROVE store' = store
  BY <1>3 DEF Bind, Exit
<1>4. ASSUME NEW p \in Ports, AlienCome(p) \/ AlienGo(p) PROVE store' = store
  BY <1>4 DEF AlienCome, AlienGo
<1> QED BY <1>1, <1>2, <1>3, <1>4 DEF Next, Command, Writes

\* An explicit port, as one step may treat it.
Respected(s, k) ==
  store[s].policy[k] = "explicit" =>
    /\ store'[s].policy[k] = "explicit"
    /\ store'[s].port[k] # store[s].port[k] => ChosenNow(s, k)

LEMMA SavedStore ==
  ASSUME TypeOK, NEW s \in Servers, NEW d, Save(s, d), NEW t \in Servers
  PROVE  store'[t] = IF t = s THEN d ELSE store[t]
BY DEF TypeOK, Save

LEMMA WritersRespect ==
  ASSUME TypeOK, AloneInv, NEW c \in Clis, Writes(c), NEW t \in Servers, NEW k \in Keys
  PROVE  Respected(t, k)
<1> DEFINE s == cmd[c].server
<1>1. cmd[c] \in Task /\ s \in Servers /\ cmd[c].data \in Data /\ cmd[c] # Idle
  BY Holds DEF Writes, SetSave, Configure, ClaimsFree, ClaimsRefused, ClaimsShift, Install
<1>2. CASE SetSave(c)
  <2> DEFINE d == [cmd[c].data EXCEPT !.policy = [j \in Keys |-> IF j \in cmd[c].mine THEN "explicit" ELSE @[j]]]
  <2>1. store'[t] = IF t = s THEN d ELSE store[t]
    BY <1>1, <1>2, SavedStore DEF SetSave
  <2>2. d.port[k] = cmd[c].data.port[k] /\ d.policy[k] = IF k \in cmd[c].mine THEN "explicit" ELSE cmd[c].data.policy[k]
    BY <1>1 DEF Data
  <2>3. cmd[c].data.policy = store[s].policy /\ (k \notin cmd[c].mine => cmd[c].data.port[k] = store[s].port[k])
    BY <1>1, <1>2, Holds DEF SetSave, Current, Editing
  <2>4. k \in cmd[c].mine => ChosenNow(s, k)
    BY <1>1, <1>2 DEF SetSave, ChosenNow
  <2> HIDE DEF d
  <2> QED BY <2>1, <2>2, <2>3, <2>4 DEF Respected
<1>3. CASE Configure(c)
  <2>1. PICK a \in Answers(c) :
          LET new == Configured(cmd[c].data, IF a = None THEN Offered(c) ELSE a)
          IN /\ cmd' = [cmd EXCEPT ![c].at = "claims", ![c].data = new, ![c].mine = Chosen(c, new),
                                   ![c].arg = IF a = None THEN @ ELSE a]
             /\ Save(cmd[c].server, new)
    BY <1>3 DEF Configure
  <2> DEFINE main == IF a = None THEN Offered(c) ELSE a
             new == Configured(cmd[c].data, main)
  <2>2. store'[t] = IF t = s THEN new ELSE store[t]
    BY <1>1, <2>1, SavedStore
  <2>3. cmd[c].data = store[s] /\ cmd[c].at = "configure"
    BY <1>3, Holds DEF Configure, Current, Editing
  <2>4. new.policy = store[s].policy
    BY <1>1, <2>3 DEF Configured, Data
  <2>5. new.port[k] = IF k = MainKey THEN main ELSE IF k \in Missing(store[s]) THEN main + 1 ELSE store[s].port[k]
    BY <1>1, <2>3 DEF Configured, Data
  <2>6. cmd'[c].arg = IF a = None THEN cmd[c].arg ELSE a
    BY <1>1, <2>1 DEF TypeOK, Task
  <2> HIDE DEF new
  <2>7. store[s].policy[k] = "explicit" => store[s].port[k] # None
    BY <1>1 DEF AloneInv, ExplicitIsHeld
  <2>8. (k = MainKey /\ ~ChosenNow(s, k) /\ store[s].port[k] # None) => main = store[s].port[k]
    <3>1. cmd'[c].arg # None /\ k = MainKey => ChosenNow(s, k)
      BY <1>1, <2>3 DEF ChosenNow
    <3> QED BY <2>3, <2>6, <3>1 DEF Offered
  <2> QED BY <2>2, <2>4, <2>5, <2>7, <2>8 DEF Respected, Missing
<1>4. CASE ClaimsFree(c) \/ ClaimsRefused(c)
  <2>1. cmd[c].at = "claims" /\ (Save(s, Resolved(c)) \/ store' = store)
    BY <1>4 DEF ClaimsFree, ClaimsRefused
  <2>2. store' = store \/ store'[t] = IF t = s THEN Resolved(c) ELSE store[t]
    BY <1>1, <2>1, SavedStore
  <2> QED BY <2>1, <2>2, PoliciesKeepHeld DEF Respected
<1>5. CASE ClaimsShift(c)
  <2>1. PICK n : Save(s, Shifted(Resolved(c), n))
    BY <1>5 DEF ClaimsShift
  <2>2. store'[t] = IF t = s THEN Shifted(Resolved(c), n) ELSE store[t]
    BY <1>1, <2>1, SavedStore
  <2>3. store[s].policy[k] # "explicit"
    BY <1>5, PoliciesKeepHeld DEF ClaimsShift, Owned, Held
  <2> QED BY <2>2, <2>3 DEF Respected
<1>6. CASE Install(c)
  <2>1. cmd[c].data = store[s]
    BY <1>6, Holds DEF Install, Current, Editing
  <2>2. store'[t] = IF t = s THEN cmd[c].data ELSE store[t]
    BY <1>1, <1>6, SavedStore DEF Install
  <2> QED BY <2>1, <2>2 DEF Respected
<1> QED BY <1>2, <1>3, <1>4, <1>5, <1>6 DEF Writes

\* One command at a time, what a user chose explicitly is changed by nothing
\* but a command in which the user names it.
THEOREM ExplicitLasts == Spec => ExplicitStays
<1>1. CASE Alone
  <2>1. TypeOK /\ AloneInv /\ [Next]_vars => [\A s \in Servers, k \in Keys : Respected(s, k)]_vars
    BY OnlyWritersWrite, WritersRespect DEF Respected
  <2>2. [\A s \in Servers, k \in Keys : Respected(s, k)]_vars =>
          [Alone => \A s \in Servers, k \in Keys : store[s].policy[k] = "explicit" =>
             /\ store'[s].policy[k] = "explicit"
             /\ store'[s].port[k] # store[s].port[k] => ChosenNow(s, k)]_vars
    BY DEF Respected
  <2>3. Spec => []AloneInv
    BY <1>1, AloneInvariant
  <2> QED BY <2>1, <2>2, <2>3, TypeCorrect, PTL DEF Spec, ExplicitStays
<1>2. CASE ~Alone
  <2>1. [Next]_vars => [Alone => \A s \in Servers, k \in Keys : store[s].policy[k] = "explicit" =>
             /\ store'[s].policy[k] = "explicit"
             /\ store'[s].port[k] # store[s].port[k] => ChosenNow(s, k)]_vars
    BY <1>2
  <2> QED BY <2>1, PTL DEF Spec, ExplicitStays
<1> QED BY <1>1, <1>2

SettledBy(c) ==
  Install(c) => LET s == cmd[c].server
                IN ~SelfClash(store'[s]) /\ \A t \in Servers \ {s} : ~Meet(store'[s], store[t])

LEMMA InstallSettles == ASSUME TypeOK, AloneInv, NEW c \in Clis PROVE SettledBy(c)
<1> SUFFICES ASSUME Install(c) PROVE SettledBy(c)
  BY DEF SettledBy
<1> DEFINE s == cmd[c].server
<1>1. s \in Servers /\ ApartIn(cmd[c], store) /\ ~SelfClash(cmd[c].data)
  BY Holds DEF Install
<1>2. store'[s] = cmd[c].data
  BY <1>1, SavedStore DEF Install
<1> QED BY <1>1, <1>2 DEF SettledBy, ApartIn

\* One command at a time, a setup that runs to its end leaves its server with
\* claims that meet neither each other nor any other server's.
THEOREM SetupIsSettled == Spec => SetupSettles
<1>1. CASE Alone
  <2>1. TypeOK /\ AloneInv /\ [Next]_vars => [\A c \in Clis : SettledBy(c)]_vars
    BY InstallSettles
  <2>2. [\A c \in Clis : SettledBy(c)]_vars =>
          [Alone => \A c \in Clis : Install(c) =>
             LET s == cmd[c].server
             IN ~SelfClash(store'[s]) /\ \A t \in Servers \ {s} : ~Meet(store'[s], store[t])]_vars
    BY DEF SettledBy
  <2>3. Spec => []AloneInv
    BY <1>1, AloneInvariant
  <2> QED BY <2>1, <2>2, <2>3, TypeCorrect, PTL DEF Spec, SetupSettles
<1>2. CASE ~Alone
  <2>1. [Next]_vars =>
          [Alone => \A c \in Clis : Install(c) =>
             LET s == cmd[c].server
             IN ~SelfClash(store'[s]) /\ \A t \in Servers \ {s} : ~Meet(store'[s], store[t])]_vars
    BY <1>2
  <2> QED BY <2>1, PTL DEF Spec, SetupSettles
<1> QED BY <1>1, <1>2

Moved(c) ==
  LET s == cmd[c].server
  IN (cmd[c].at = "claims" /\ store'[s].port # store[s].port) =>
       /\ Owned(store[s]) = {}
       /\ \E n \in Offsets : \A k \in Held(store[s]) :
            store'[s].port[k] = store[s].port[k] + n /\ store'[s].port[k] \in Ports

\* The other writers act at other points, with one command at a time.
LEMMA OnlyShiftsMove == ASSUME TypeOK, AloneInv, Alone, NEW c \in Clis, Next PROVE Moved(c)
<1> SUFFICES ASSUME cmd[c].at = "claims", store'[cmd[c].server].port # store[cmd[c].server].port
             PROVE  Moved(c)
  BY DEF Moved
<1> DEFINE s == cmd[c].server
           d == cmd[c].data
<1>1. Writes(c)
  BY OnlyWritersWrite DEF Alone
<1>2. s \in Servers /\ d \in Data /\ d = store[s] /\ Resolved(c).port = d.port
  BY Holds, PoliciesKeepHeld
<1>3. ~ClaimsFree(c) /\ ~ClaimsRefused(c)
  BY <1>2, SavedStore DEF ClaimsFree, ClaimsRefused
<1>4. ClaimsShift(c)
  BY <1>1, <1>3 DEF Writes, SetSave, Configure, Install
<1>5. PICK n \in Offsets : Legal(d, n) /\ Save(s, Shifted(Resolved(c), n))
  BY <1>4 DEF ClaimsShift, Nearest, FreeOffsets
<1>6. store'[s] = Shifted(Resolved(c), n)
  BY <1>2, <1>5, SavedStore
<1>7. \A k \in Held(store[s]) :
        store'[s].port[k] = store[s].port[k] + n /\ store'[s].port[k] \in Ports
  <2>1. Shifted(Resolved(c), n).port = Shifted(d, n).port
    BY <1>2, ShiftedResolved DEF Resolved
  <2>2. \A k \in Keys : Shifted(d, n).port[k] = IF d.port[k] = None THEN None ELSE d.port[k] + n
    BY <1>2 DEF Shifted, Data
  <2>3. \A k \in Held(store[s]) : d.port[k] + n \in Ports
    BY <1>2, <1>5 DEF Legal, Held
  <2> QED BY <1>2, <1>6, <2>1, <2>2, <2>3 DEF Held
<1>8. Owned(store[s]) = {}
  <2>1. Owned(Resolved(c)) = {}
    BY <1>4 DEF ClaimsShift
  <2> QED BY <1>2, <2>1, PoliciesKeepHeld DEF Owned, Held
<1> QED BY <1>7, <1>8 DEF Moved

\* One command at a time, a setup that moves ports moves all of them by one
\* offset, and only if none of them was chosen explicitly.
THEOREM GroupMovesTogether == Spec => GroupMoves
<1>1. CASE Alone
  <2>1. TypeOK /\ AloneInv /\ [Next]_vars => [\A c \in Clis : Moved(c)]_vars
    BY <1>1, OnlyShiftsMove
  <2>2. [\A c \in Clis : Moved(c)]_vars =>
          [Alone => \A c \in Clis :
             (cmd[c].at = "claims" /\ store'[cmd[c].server].port # store[cmd[c].server].port) =>
               LET s == cmd[c].server
               IN /\ Owned(store[s]) = {}
                  /\ \E n \in Offsets : \A k \in Held(store[s]) :
                       store'[s].port[k] = store[s].port[k] + n /\ store'[s].port[k] \in Ports]_vars
    BY DEF Moved
  <2>3. Spec => []AloneInv
    BY <1>1, AloneInvariant
  <2> QED BY <2>1, <2>2, <2>3, TypeCorrect, PTL DEF Spec, GroupMoves
<1>2. CASE ~Alone
  <2>1. [Next]_vars =>
          [Alone => \A c \in Clis :
             (cmd[c].at = "claims" /\ store'[cmd[c].server].port # store[cmd[c].server].port) =>
               LET s == cmd[c].server
               IN /\ Owned(store[s]) = {}
                  /\ \E n \in Offsets : \A k \in Held(store[s]) :
                       store'[s].port[k] = store[s].port[k] + n /\ store'[s].port[k] \in Ports]_vars
    BY <1>2
  <2> QED BY <2>1, PTL DEF Spec, GroupMoves
<1> QED BY <1>1, <1>2

-----------------------------------------------------------------------------
(* One command at a time, by a user who lets servers come up.  What the      *)
(* check of the live sockets has found free stays free until the server that *)
(* was launched on it has bound: the only step that makes a socket listen is *)
(* that server's own.                                                        *)

\* A store, a copy of one, or what a process was launched with.
OfFleet(d) == d.beside = fleet.beside /\ d.bind \in fleet.binds \cup {Wild}

Free(d, sockets) == d.bind \in Hosted => \A x \in Sockets(d) : ~Taken(x, sockets)

HeardTask(r) ==
  /\ OfFleet(r.data)
  /\ r.at \in {"startcheck", "launch"} => r.data.port[MainKey] # None
  /\ r.at = "launch" => Free(r.data, Listening)

Launching(s) == live[s].state = "launching"

TasksHeard == \A c \in Clis : cmd[c].at # "idle" => HeardTask(cmd[c]) /\ \A s \in Servers : ~Launching(s)

ServersHeard ==
  /\ \A s \in Servers : Launched(s) => OfFleet(live[s].at) /\ live[s].state # "deaf"
  /\ \A s, t \in Servers : Launching(s) /\ Launching(t) => s = t
  /\ \A s \in Servers : Launching(s) => Free(live[s].at, Listening)

HeardInv == (\A s \in Servers : OfFleet(store[s])) /\ TasksHeard /\ ServersHeard

LEMMA OffIsDown == Off.state = "down" /\ Idle.at = "idle"
BY DEF Off, Idle

LEMMA LaunchedTypes ==
  ASSUME TypeOK, NEW s \in Servers
  PROVE  /\ live[s].state # "down" => live[s] \in Process
         /\ live[s] = Off \/ live[s] \in Process
         /\ live[s].state \in {"up", "launching", "deaf", "failed"} => live[s] # Off
BY OffIsDown DEF TypeOK

LEMMA ListeningIs ==
  ASSUME NEW x, x \in Listening
  PROVE  \E s \in Servers : live[s].state = "up" /\ x \in Sockets(live[s].at)
BY DEF Listening

LEMMA FewerTaken ==
  ASSUME NEW x, NEW S, NEW T, S \subseteq T, Taken(x, S)
  PROVE  Taken(x, T)
BY DEF Taken

\* Steps in which no server's process changes but that one may go away.
LEMMA CalmKeeps ==
  ASSUME TypeOK, ServersHeard, fleet' = fleet,
         \A s \in Servers : live'[s] = Off \/ (live[s] # Off /\ live'[s].at = live[s].at /\ live'[s].state = live[s].state)
  PROVE  /\ ServersHeard' /\ Listening' \subseteq Listening
         /\ \A d : Free(d, Listening) => Free(d, Listening')
         /\ \A s \in Servers : ~Launching(s) => ~Launching(s)'
<1>1. Listening' \subseteq Listening
  BY OffIsDown DEF Listening
<1>2. ASSUME NEW d, Free(d, Listening) PROVE Free(d, Listening')
  BY <1>1, <1>2, FewerTaken DEF Free
<1>3. \A s \in Servers : Launched(s)' => Launched(s) /\ live'[s].at = live[s].at /\ live'[s].state = live[s].state
  BY DEF Launched
<1>4. \A s \in Servers : Launching(s)' => Launched(s)' /\ Launching(s)
  BY OffIsDown DEF Launched, Launching
<1>5. ASSUME NEW s \in Servers, Launching(s)' PROVE Free(live'[s].at, Listening')
  <2>1. live'[s].at = live[s].at /\ Free(live[s].at, Listening)
    BY <1>3, <1>4, <1>5 DEF ServersHeard
  <2> QED BY <1>2, <2>1
<1>6. \A s \in Servers : Launched(s)' => OfFleet(live[s].at)' /\ live'[s].state # "deaf"
  BY <1>3 DEF ServersHeard, OfFleet
<1>7. ServersHeard'
  BY <1>4, <1>5, <1>6 DEF ServersHeard
<1> QED BY <1>1, <1>2, <1>4, <1>7

LEMMA SaveIsCalm ==
  ASSUME TypeOK, NEW s \in Servers, NEW d, Save(s, d), NEW t \in Servers
  PROVE  live'[t] = Off \/ (live[t] # Off /\ live'[t].at = live[t].at /\ live'[t].state = live[t].state)
<1>1. CASE live' = live
  BY <1>1
<1>2. CASE live[s] # Off /\ live' = [live EXCEPT ![s].edited = TRUE]
  <2>1. CASE t = s
    <3>1. live'[t] = [live[t] EXCEPT !.edited = TRUE] /\ live[t] \in Process
      BY <1>2, <2>1 DEF TypeOK
    <3> QED BY <1>2, <2>1, <3>1 DEF Process
  <2>2. CASE t # s
    BY <1>2, <2>2 DEF TypeOK
  <2> QED BY <2>1, <2>2
<1> QED BY <1>1, <1>2 DEF Save

\* Every step of the only command but launch.
LEMMA CommandHeard ==
  ASSUME TypeOK, Alone, HeardInv, NEW c \in Clis, NEW CONSTANT r, cmd' = [cmd EXCEPT ![c] = r],
         r.at # "idle" => HeardTask(r) /\ \A s \in Servers : ~Launching(s),
         fleet' = fleet,
         \A s \in Servers : live'[s] = Off \/ (live[s] # Off /\ live'[s].at = live[s].at /\ live'[s].state = live[s].state),
         \A s \in Servers : OfFleet(store'[s])
  PROVE  HeardInv'
<1>1. /\ ServersHeard'
      /\ \A d : Free(d, Listening) => Free(d, Listening')
      /\ \A s \in Servers : ~Launching(s) => ~Launching(s)'
  BY CalmKeeps DEF HeardInv
<1>2. \A e \in Clis : cmd'[e] = r
  BY DEF TypeOK, Alone
<1>3. TasksHeard'
  BY <1>1, <1>2 DEF TasksHeard, HeardTask, OfFleet
<1> QED BY <1>1, <1>3 DEF HeardInv, OfFleet

LEMMA BeginHeard ==
  ASSUME TypeOK, Alone, fleet.patient, HeardInv, NEW c \in Clis, NEW s \in Servers, NEW at, NEW d, NEW mine,
         NEW ask, NEW arg, Begin(c, s, at, d, mine, ask, arg), at # "launch", OfFleet(d),
         at = "startcheck" => d.port[MainKey] # None
  PROVE  HeardInv'
<1> DEFINE r == [at |-> at, server |-> s, data |-> d, mine |-> mine, ask |-> ask, arg |-> arg]
<1>1. cmd' = [cmd EXCEPT ![c] = r] /\ UNCHANGED <<fleet, store, live>> /\ \A t \in Servers : ~Launching(t)
  BY DEF Begin, MayBegin, Launching
<1>2. PICK x : x = r
  OBVIOUS
<1>3. HeardTask(x)
  BY <1>2 DEF HeardTask
<1>4. \A t \in Servers : live'[t] = Off \/ (live[t] # Off /\ live'[t].at = live[t].at /\ live'[t].state = live[t].state)
  BY <1>1
<1> QED BY <1>1, <1>2, <1>3, <1>4, CommandHeard DEF HeardInv

\* A command that goes on from one point to another, saving or not.
LEMMA StepHeard ==
  ASSUME TypeOK, Alone, HeardInv, NEW c \in Clis, cmd[c].at # "idle", NEW CONSTANT r, cmd' = [cmd EXCEPT ![c] = r],
         HeardTask(r) \/ r.at = "idle",
         fleet' = fleet, NEW s \in Servers, NEW d, OfFleet(d), Save(s, d) \/ UNCHANGED <<store, live>>
  PROVE  HeardInv'
<1>1. \A t \in Servers : live'[t] = Off \/ (live[t] # Off /\ live'[t].at = live[t].at /\ live'[t].state = live[t].state)
  BY SaveIsCalm
<1>2. \A t \in Servers : OfFleet(store'[t])
  BY DEF HeardInv, Save, TypeOK
<1>3. \A t \in Servers : ~Launching(t)
  BY DEF HeardInv, TasksHeard
<1> QED BY <1>1, <1>2, <1>3, CommandHeard

\* What the probe says of the claims, it says of the sockets.
LEMMA ProbedIsFree ==
  ASSUME TypeOK, ServersHeard, NEW d \in Data, OfFleet(d), d.port[MainKey] # None, ~LiveClash(d)
  PROVE  Free(d, Listening)
<1> SUFFICES ASSUME d.bind \in Hosted, NEW x \in Sockets(d), Taken(x, Listening) PROVE FALSE
  BY DEF Free
<1>1. \A e \in Claims(d) : e.ip \in Hosted => ~Taken(e, Listening)
  BY DEF LiveClash, Busy
<1>2. ASSUME NEW k \in Held(d), x = [ip |-> d.bind, port |-> d.port[k]] PROVE FALSE
  <2>1. Endpoint("internal", d.bind, d.port[k], k) \in Claims(d)
    BY DEF Claims, Stored
  <2>2. Taken(Endpoint("internal", d.bind, d.port[k], k), Listening)
    BY <1>2 DEF Taken, Endpoint
  <2> QED BY <1>1, <2>1, <2>2 DEF Endpoint
<1>3. ASSUME d.beside, x = [ip |-> d.bind, port |-> d.port[MainKey] + 1] PROVE FALSE
  <2> DEFINE q == Endpoint("internal", Loop, d.port[MainKey] + 1, "query")
  <2>1. fleet.binds = {} /\ d.bind = Wild
    BY <1>3, BesideAssumption DEF OfFleet, TypeOK
  <2>2. PICK y \in Listening : y.port = d.port[MainKey] + 1
    BY <1>3 DEF Taken
  <2>3. y.ip = Wild
    <3>1. PICK t \in Servers : live[t].state = "up" /\ y \in Sockets(live[t].at)
      BY <2>2, ListeningIs
    <3>2. live[t].at.bind = Wild
      BY <2>1, <3>1, LaunchedTypes DEF ServersHeard, Launched, OfFleet
    <3> QED BY <3>1, <3>2 DEF Sockets
  <2>4. CASE \E f \in Stored(d) : Clash(f, q)
    <3>1. PICK f \in Stored(d) : Clash(f, q)
      BY <2>4
    <3>2. f.scope = "internal" /\ f.port = d.port[MainKey] + 1
      BY <3>1 DEF Clash, Endpoint
    <3>3. f.ip = d.bind
      BY <3>1, <3>2 DEF Stored, Endpoint
    <3>4. f \in Claims(d) /\ Taken(f, Listening)
      BY <2>2, <2>3, <3>1, <3>2 DEF Claims, Taken, Overlap
    <3> QED BY <1>1, <3>3, <3>4
  <2>5. CASE \A f \in Stored(d) : ~Clash(f, q)
    <3>1. q \in Claims(d)
      <4>1. MainKey \in Held(d)
        BY KeysAssumption DEF Held
      <4>2. \A f \in Stored(d) : ~Clash(q, f)
        BY <2>5, ClashSymmetric
      <4> QED BY <1>3, <4>1, <4>2 DEF Claims, Query
    <3>2. q.ip \in Hosted /\ Taken(q, Listening)
      BY <2>2, <2>3, AddressAssumption DEF Endpoint, Taken, Overlap
    <3> QED BY <1>1, <3>1, <3>2
  <2> QED BY <2>4, <2>5
<1> QED BY <1>2, <1>3 DEF Sockets

LEMMA FleetStays == ASSUME Next PROVE fleet' = fleet
<1>1. ASSUME NEW c \in Clis, NEW s \in Servers,
             SetPort(c, s) \/ SetAddress(c, s) \/ DeleteAddress(c, s) \/ Setup(c, s) \/ Start(c, s)
      PROVE  fleet' = fleet
  BY <1>1 DEF SetPort, SetAddress, DeleteAddress, Setup, Start, Begin
<1>2. ASSUME NEW c \in Clis,
             \/ SetCheck(c) \/ SetSave(c) \/ Configure(c) \/ ClaimsFree(c) \/ ClaimsRefused(c)
             \/ ClaimsHopeless(c) \/ ClaimsShift(c) \/ Install(c) \/ StartCheck(c) \/ Launch(c) \/ Interrupt(c)
      PROVE  fleet' = fleet
  <2>1. CASE SetCheck(c) \/ SetSave(c) \/ Install(c) \/ StartCheck(c) \/ Launch(c) \/ Interrupt(c)
    BY <2>1 DEF SetCheck, SetSave, Install, StartCheck, Launch, Interrupt
  <2>2. CASE ClaimsFree(c) \/ ClaimsRefused(c) \/ ClaimsHopeless(c) \/ ClaimsShift(c)
    BY <2>2 DEF ClaimsFree, ClaimsRefused, ClaimsHopeless, ClaimsShift
  <2>3. CASE Configure(c)
    BY <2>3 DEF Configure
  <2> QED BY <1>2, <2>1, <2>2, <2>3
<1>3. ASSUME NEW s \in Servers, Bind(s) \/ Exit(s) PROVE fleet' = fleet
  BY <1>3 DEF Bind, Exit
<1>4. ASSUME NEW p \in Ports, AlienCome(p) \/ AlienGo(p) PROVE fleet' = fleet
  BY <1>4 DEF AlienCome, AlienGo
<1> QED BY <1>1, <1>2, <1>3, <1>4 DEF Next, Command

LEMMA HeardStart == ASSUME Init PROVE HeardInv
<1>1. \A c \in Clis : cmd[c] = Idle
  BY DEF Init
<1>2. \A s \in Servers : live[s] = Off
  BY DEF Init
<1>3. \A s \in Servers : store[s].beside = fleet.beside /\ store[s].bind = Wild
  BY DEF Init, Created
<1> QED BY <1>1, <1>2, <1>3, OffIsDown DEF HeardInv, TasksHeard, ServersHeard, OfFleet, Launched, Launching

LEMMA HeardNext ==
  ASSUME TypeOK, Alone, fleet.patient, HeardInv, Next
  PROVE  HeardInv'
<1>1. ASSUME NEW c \in Clis, NEW s \in Servers,
             SetPort(c, s) \/ SetAddress(c, s) \/ DeleteAddress(c, s) \/ Setup(c, s) \/ Start(c, s)
      PROVE  HeardInv'
  <2>1. store[s] \in Data /\ OfFleet(store[s])
    BY DEF HeardInv, TypeOK
  <2>2. ASSUME NEW k, NEW p, NEW mine, Begin(c, s, "setcheck", [store[s] EXCEPT !.port[k] = p], mine, FALSE, p)
        PROVE  HeardInv'
    <3>1. OfFleet([store[s] EXCEPT !.port[k] = p])
      BY <2>1 DEF OfFleet, Data
    <3> QED BY <2>2, <3>1, BeginHeard
  <2>3. ASSUME NEW a \in fleet.binds \cup {Wild}, NEW at \in Editing,
               Begin(c, s, at, [store[s] EXCEPT !.bind = a], {}, FALSE, None)
        PROVE  HeardInv'
    <3>1. OfFleet([store[s] EXCEPT !.bind = a])
      BY <2>1 DEF OfFleet, Data
    <3> QED BY <2>3, <3>1, BeginHeard DEF Editing
  <2>4. ASSUME NEW a, NEW at \in Editing, Begin(c, s, at, [store[s] EXCEPT !.public = a], {}, FALSE, None)
        PROVE  HeardInv'
    <3>1. OfFleet([store[s] EXCEPT !.public = a])
      BY <2>1 DEF OfFleet, Data
    <3> QED BY <2>4, <3>1, BeginHeard DEF Editing
  <2>5. ASSUME NEW ask, NEW arg, Begin(c, s, "configure", store[s], {}, ask, arg) PROVE HeardInv'
    BY <2>1, <2>5, BeginHeard
  <2>6. CASE Start(c, s)
    BY <2>1, <2>6, BeginHeard DEF Start
  <2>7. CASE SetPort(c, s)
    BY <2>2, <2>7 DEF SetPort
  <2>8. CASE SetAddress(c, s)
    BY <2>3, <2>4, <2>8 DEF SetAddress, Editing
  <2>9. CASE DeleteAddress(c, s)
    BY <2>3, <2>4, <2>9 DEF DeleteAddress, Editing
  <2>10. CASE Setup(c, s)
    BY <2>5, <2>10 DEF Setup
  <2> QED BY <1>1, <2>6, <2>7, <2>8, <2>9, <2>10
<1>2. ASSUME NEW c \in Clis, cmd[c].at # "idle"
      PROVE  /\ cmd[c] \in Task /\ cmd[c].server \in Servers /\ cmd[c].data \in Data
             /\ HeardTask(cmd[c]) /\ \A s \in Servers : ~Launching(s)
  BY <1>2, TaskAt DEF HeardInv, TasksHeard, Task
<1>3. ASSUME NEW c \in Clis, cmd[c].at # "idle", Finish(c), fleet' = fleet, NEW d, OfFleet(d),
             Save(cmd[c].server, d) \/ UNCHANGED <<store, live>>
      PROVE  HeardInv'
  BY <1>2, <1>3, OffIsDown, StepHeard DEF Finish
<1>4. ASSUME NEW c \in Clis, cmd[c].at # "idle", Finish(c), UNCHANGED <<fleet, store, live>> PROVE HeardInv'
  BY <1>2, <1>3, <1>4 DEF HeardTask
<1>5. ASSUME NEW c \in Clis, cmd[c].at # "idle", NEW at \in {"setsave", "launch"}, Go(c, at),
             at = "launch" => cmd[c].data.port[MainKey] # None /\ Free(cmd[c].data, Listening),
             UNCHANGED <<fleet, store, live>>
      PROVE  HeardInv'
  <2>1. PICK r : r = [cmd[c] EXCEPT !.at = at]
    OBVIOUS
  <2>2. r.at = at /\ r.data = cmd[c].data /\ cmd' = [cmd EXCEPT ![c] = r]
    BY <1>2, <1>5, <2>1 DEF Task, Go
  <2>3. HeardTask(r)
    BY <1>2, <1>5, <2>2 DEF HeardTask
  <2> QED BY <1>2, <1>5, <2>2, <2>3, StepHeard DEF HeardTask
<1>6. ASSUME NEW c \in Clis, SetCheck(c) PROVE HeardInv'
  BY <1>4, <1>5, <1>6 DEF SetCheck
<1>7. ASSUME NEW c \in Clis, SetSave(c) PROVE HeardInv'
  <2> DEFINE d == [cmd[c].data EXCEPT !.policy = [k \in Keys |-> IF k \in cmd[c].mine THEN "explicit" ELSE @[k]]]
  <2>1. OfFleet(d)
    BY <1>2, <1>7 DEF SetSave, HeardTask, OfFleet, Data
  <2> QED BY <1>3, <1>7, <2>1 DEF SetSave
<1>8. ASSUME NEW c \in Clis, Configure(c) PROVE HeardInv'
  <2>1. PICK a \in Answers(c) :
          LET new == Configured(cmd[c].data, IF a = None THEN Offered(c) ELSE a)
          IN /\ cmd' = [cmd EXCEPT ![c].at = "claims", ![c].data = new, ![c].mine = Chosen(c, new),
                                   ![c].arg = IF a = None THEN @ ELSE a]
             /\ Save(cmd[c].server, new)
    BY <1>8, Zenon DEF Configure
  <2> DEFINE new == Configured(cmd[c].data, IF a = None THEN Offered(c) ELSE a)
  <2>2. cmd[c] \in Task /\ cmd[c].server \in Servers /\ cmd[c].data \in Data /\ HeardTask(cmd[c]) /\ cmd[c].at # "idle"
    BY <1>2, <1>8 DEF Configure
  <2>3. OfFleet(new)
    BY <2>2 DEF Configured, HeardTask, OfFleet, Data
  <2>4. PICK r : r = [cmd[c] EXCEPT !.at = "claims", !.data = new, !.mine = Chosen(c, new), !.arg = IF a = None THEN @ ELSE a]
    OBVIOUS
  <2>5. r.at = "claims" /\ r.data = new /\ cmd' = [cmd EXCEPT ![c] = r]
    BY <2>1, <2>2, <2>4 DEF Task
  <2>6. HeardTask(r) /\ Save(cmd[c].server, new)
    BY <2>1, <2>3, <2>5 DEF HeardTask
  <2> HIDE DEF new
  <2> QED BY <1>8, <2>2, <2>3, <2>5, <2>6, StepHeard DEF Configure
<1>9. ASSUME NEW c \in Clis, cmd[c].at = "claims" PROVE OfFleet(Resolved(c)) /\ Resolved(c) \in Data
  BY <1>2, <1>9, ResolvedType DEF Resolved, WithPolicies, HeardTask, OfFleet, Data
<1>10. ASSUME NEW c \in Clis, cmd[c].at = "claims", NEW d, OfFleet(d),
              cmd' = [cmd EXCEPT ![c].at = "install", ![c].data = d],
              Save(cmd[c].server, d) \/ UNCHANGED <<store, live>>, fleet' = fleet
       PROVE  HeardInv'
  <2>1. cmd[c] \in Task /\ cmd[c].server \in Servers
    BY <1>2, <1>10
  <2>2. PICK r : r = [cmd[c] EXCEPT !.at = "install", !.data = d]
    OBVIOUS
  <2>3. r.at = "install" /\ r.data = d /\ cmd' = [cmd EXCEPT ![c] = r]
    BY <1>10, <2>1, <2>2 DEF Task
  <2>4. HeardTask(r)
    BY <1>10, <2>3 DEF HeardTask
  <2> QED BY <1>10, <2>1, <2>3, <2>4, StepHeard
<1>11. ASSUME NEW c \in Clis, ClaimsFree(c) PROVE HeardInv'
  BY <1>9, <1>10, <1>11 DEF ClaimsFree
<1>12. ASSUME NEW c \in Clis, ClaimsRefused(c) PROVE HeardInv'
  BY <1>3, <1>9, <1>12 DEF ClaimsRefused
<1>13. ASSUME NEW c \in Clis, ClaimsShift(c) PROVE HeardInv'
  <2>1. PICK n : /\ cmd' = [cmd EXCEPT ![c].at = "install", ![c].data = Shifted(Resolved(c), n)]
                 /\ Save(cmd[c].server, Shifted(Resolved(c), n))
    BY <1>13 DEF ClaimsShift
  <2>2. OfFleet(Shifted(Resolved(c), n))
    BY <1>9, <1>13 DEF ClaimsShift, Shifted, OfFleet, Data
  <2> QED BY <1>10, <1>13, <2>1, <2>2 DEF ClaimsShift
<1>14. ASSUME NEW c \in Clis, Install(c) PROVE HeardInv'
  BY <1>2, <1>3, <1>14 DEF Install, HeardTask
<1>15. ASSUME NEW c \in Clis, StartCheck(c) PROVE HeardInv'
  <2>1. ~Conflicted(cmd[c].server, cmd[c].data) =>
          cmd[c].data.port[MainKey] # None /\ Free(cmd[c].data, Listening)
    BY <1>2, <1>15, ProbedIsFree DEF StartCheck, Conflicted, HeardTask, HeardInv
  <2> QED BY <1>4, <1>5, <1>15, <2>1 DEF StartCheck
<1>16. ASSUME NEW c \in Clis, ClaimsHopeless(c) \/ Interrupt(c) PROVE HeardInv'
  <2>1. cmd[c].at # "idle"
    BY <1>16, TaskAt DEF ClaimsHopeless, Interrupt, TypeOK, Task, Points
  <2> QED BY <1>4, <1>16, <2>1 DEF ClaimsHopeless, Interrupt
<1>17. ASSUME NEW c \in Clis, Launch(c) PROVE HeardInv'
  <2> DEFINE s == cmd[c].server
             d == cmd[c].data
  <2>1. /\ s \in Servers /\ d \in Data /\ OfFleet(d) /\ Free(d, Listening)
        /\ \A t \in Servers : ~Launching(t)
    BY <1>2, <1>17 DEF Launch, HeardTask
  <2>2. CASE live[s] # Off
    BY <1>4, <1>17, <2>2 DEF Launch
  <2>3. CASE live[s] = Off
    <3> DEFINE p == [state |-> "launching", at |-> Where(d), edited |-> Where(d) # Where(store[s])]
    <3>1. \A t \in Servers : live'[t] = IF t = s THEN p ELSE live[t]
      BY <1>17, <2>1, <2>3 DEF Launch, TypeOK
    <3>2. /\ p.state = "launching" /\ p.at = Where(d)
          /\ fleet' = fleet /\ store' = store /\ \A e \in Clis : cmd'[e].at = "idle"
      BY <1>17, OffIsDown DEF Launch, Finish, Alone, TypeOK
    <3> HIDE DEF p
    <3>3. Listening' = Listening
      <4>1. \A t \in Servers : live'[t].state = "up" <=> live[t].state = "up"
        BY <2>3, <3>1, <3>2, OffIsDown
      <4>2. \A t \in Servers : live'[t].state = "up" => live'[t].at = live[t].at
        BY <3>1, <3>2
      <4> QED BY <4>1, <4>2 DEF Listening
    <3>4. Free(Where(d), Listening) /\ OfFleet(Where(d))
      <4>1. Where(d).bind = d.bind /\ Where(d).port = d.port /\ Where(d).beside = d.beside
        BY <2>1 DEF Where, Data
      <4>2. Sockets(Where(d)) = Sockets(d)
        BY <4>1 DEF Sockets, Held
      <4> QED BY <2>1, <4>1, <4>2 DEF Free, OfFleet
    <3>5. \A t \in Servers : Launching(t)' => t = s
      BY <2>1, <3>1 DEF Launching
    <3>6. \A t \in Servers : Launched(t)' => OfFleet(live[t].at)' /\ live'[t].state # "deaf"
      BY <3>1, <3>2, <3>4 DEF HeardInv, ServersHeard, OfFleet, Launched
    <3>7. \A t \in Servers : Launching(t)' => Free(live[t].at, Listening)'
      BY <3>1, <3>2, <3>3, <3>4, <3>5
    <3> QED BY <3>2, <3>5, <3>6, <3>7 DEF HeardInv, TasksHeard, ServersHeard, OfFleet
  <2> QED BY <2>2, <2>3
<1>18. ASSUME NEW s \in Servers, Bind(s) PROVE HeardInv'
  <2>1. Launching(s) /\ live[s] \in Process /\ Free(live[s].at, Listening) /\ OfFleet(live[s].at)
    BY <1>18, LaunchedTypes DEF Bind, Launching, Launched, HeardInv, ServersHeard
  <2>2. PICK v \in {"up", "failed"} : live' = [live EXCEPT ![s].state = v]
    BY <1>18, <2>1 DEF Bind, Free
  <2>3. \A t \in Servers : live'[t] = IF t = s THEN [live[s] EXCEPT !.state = v] ELSE live[t]
    BY <2>2 DEF TypeOK
  <2>4. live'[s].state = v /\ live'[s].at = live[s].at
    BY <2>1, <2>3 DEF Process
  <2>5. \A t \in Servers : ~Launching(t)'
    BY <2>1, <2>2, <2>3, <2>4 DEF HeardInv, ServersHeard, Launching
  <2>6. \A t \in Servers : Launched(t)' => OfFleet(live[t].at)' /\ live'[t].state # "deaf"
    BY <1>18, <2>1, <2>2, <2>3, <2>4 DEF Bind, HeardInv, ServersHeard, OfFleet, Launched
  <2>7. \A c \in Clis : cmd'[c].at = "idle"
    BY <1>18, <2>1 DEF Bind, HeardInv, TasksHeard
  <2> QED BY <1>18, <2>5, <2>6, <2>7 DEF Bind, HeardInv, TasksHeard, ServersHeard, OfFleet
<1>19. ASSUME UNCHANGED <<fleet, store, cmd>>,
              \A s \in Servers : live'[s] = Off \/ live'[s] = live[s]
       PROVE  HeardInv'
  <2>1. \A s \in Servers :
          live'[s] = Off \/ (live[s] # Off /\ live'[s].at = live[s].at /\ live'[s].state = live[s].state)
    BY <1>19
  <2>2. /\ ServersHeard'
        /\ \A d : Free(d, Listening) => Free(d, Listening')
        /\ \A s \in Servers : ~Launching(s) => ~Launching(s)'
    BY <1>19, <2>1, CalmKeeps DEF HeardInv
  <2> QED BY <1>19, <2>2 DEF HeardInv, TasksHeard, HeardTask, OfFleet
<1>20. ASSUME NEW s \in Servers, Exit(s) PROVE HeardInv'
  BY <1>19, <1>20 DEF Exit, TypeOK
<1>21. ASSUME NEW p \in Ports, AlienCome(p) \/ AlienGo(p) PROVE HeardInv'
  BY <1>19, <1>21 DEF AlienCome, AlienGo
<1> QED BY <1>1, <1>6, <1>7, <1>8, <1>11, <1>12, <1>13, <1>14, <1>15, <1>16, <1>17, <1>18, <1>20, <1>21
        DEF Next, Command

\* One command at a time, by a user who lets servers come up, launches no server
\* on a socket that another managed server has, for any number of servers, keys
\* and ports, and whatever was set, shifted or deleted in between.
THEOREM LaunchedAreHeard == Spec => []EveryoneHeard
<1>1. CASE Alone
  <2>1. HeardInv /\ UNCHANGED vars => HeardInv'
    BY DEF HeardInv, TasksHeard, ServersHeard, HeardTask, OfFleet, Launched, Launching, Free, Listening, vars
  <2>2. (fleet.patient => HeardInv) /\ TypeOK /\ [Next]_vars => (fleet.patient => HeardInv)'
    <3>1. [Next]_vars => fleet' = fleet
      BY FleetStays DEF vars
    <3> QED BY <1>1, <2>1, <3>1, HeardNext
  <2>3. Init => (fleet.patient => HeardInv)
    BY HeardStart
  <2>4. (fleet.patient => HeardInv) => EveryoneHeard
    BY DEF HeardInv, ServersHeard, EveryoneHeard
  <2> QED BY <2>2, <2>3, <2>4, TypeCorrect, PTL DEF Spec
<1>2. CASE ~Alone
  <2>1. EveryoneHeard
    BY <1>2 DEF EveryoneHeard
  <2> QED BY <2>1, PTL
<1> QED BY <1>1, <1>2
=============================================================================

------------------------------- MODULE Ports -------------------------------
(***************************************************************************)
(* Who owns which port: the claims of the servers as port_manager.py       *)
(* collects them from their data stores, and the three commands that check *)
(* them, set, setup and start (src/server/server.py).  A command loads its *)
(* server's whole store, works on that copy and saves it whole; it looks   *)
(* at the other servers' stores and at the host's sockets in one step and  *)
(* acts on the answer in a later one.                                      *)
(*                                                                         *)
(* A game server binds its sockets some time after it was launched.        *)
(* Sockets of programs AlphaGSM knows nothing of ("aliens") come and go.   *)
(* Port numbers keep their limits, 1 to MaxPort; TLC runs it with few.     *)
(***************************************************************************)
EXTENDS Integers, FiniteSets

CONSTANTS Servers, Clis,
          Keys, MainKey,   \* port keys of a store; MainKey is what setup takes
          DefaultPort,     \* the module's default for MainKey
          MaxPort,         \* the highest port (65535 in the code)
          MaxShift,        \* max_offset of recommend_shift (100 in the code)
          Addresses,       \* addresses of this host and of the network
          Hosted,          \* those a socket of this host can be bound to
          Typed,           \* ports users type in
          Fleets           \* game modules and circumstances to consider

None == 0
NoAddress == "none"
Wild == "0.0.0.0"
Loop == "127.0.0.1"
Ports == 1..MaxPort

\* keys: those the module stores; beside: its query port is the main one's
\* neighbour and not stored; binds, publics: the addresses users set;
\* deletes: they set DELETE; patient: the next command comes only after every
\* launched server has bound; aliens: ports that others may bind.
Fleet == [keys : SUBSET Keys, beside : BOOLEAN, binds : SUBSET Addresses, publics : SUBSET Addresses,
          deletes : BOOLEAN, patient : BOOLEAN, aliens : SUBSET Ports]

ASSUME KeysAssumption == MainKey \in Keys
ASSUME AddressAssumption == {Wild, Loop} \subseteq Hosted /\ Hosted \subseteq Addresses
                            /\ NoAddress \notin Addresses
ASSUME PortAssumption == MaxPort \in Nat \ {0} /\ MaxShift \in Nat
                         /\ Typed \subseteq 1..(MaxPort - 1) /\ DefaultPort \in 1..(MaxPort - 1)
ASSUME FleetAssumption == Fleets \subseteq Fleet
\* Valheim, whose query port is the neighbour on the loopback address, has no
\* bind address to set (checkvalue in gamemodules/valheim.py).
ASSUME BesideAssumption == \A f \in Fleets : f.beside => f.binds = {}

VARIABLES
  fleet,   \* the module the servers run, which never changes
  store,   \* server -> what its JSON file holds
  cmd,     \* CLI -> the command it runs, with its copy of the store
  live,    \* server -> its process, what it was launched with, was it edited since
  aliens   \* ports that other programs hold on the wildcard address

vars == <<fleet, store, cmd, live, aliens>>

Alone == \A c, d \in Clis : c = d

NoPolicy == [k \in Keys |-> "none"]
\* What create saves; "beside" stands for the module it names.
Created(beside) == [bind |-> Wild, public |-> NoAddress, beside |-> beside,
                    port |-> [k \in Keys |-> None], policy |-> NoPolicy]
Idle == [at |-> "idle"]
Off == [state |-> "down"]

Init ==
  /\ fleet \in Fleets
  /\ store = [s \in Servers |-> Created(fleet.beside)]
  /\ cmd = [c \in Clis |-> Idle]
  /\ live = [s \in Servers |-> Off]
  /\ aliens = {}

-----------------------------------------------------------------------------
(* The claims of a store and what clashes with them. *)

Overlap(x, y) == x = y \/ x = Wild \/ y = Wild

Clash(e, f) ==
  /\ e.scope = f.scope /\ e.port = f.port
  /\ \/ e.scope = "internal" /\ Overlap(e.ip, f.ip)
     \/ e.ip = f.ip

Endpoint(scope, ip, port, key) == [scope |-> scope, ip |-> ip, port |-> port, key |-> key]

Held(d) == {k \in Keys : d.port[k] # None}

Public(d) == IF d.public = NoAddress THEN d.bind ELSE d.public

Stored(d) == {Endpoint("internal", d.bind, d.port[k], k) : k \in Held(d)}
             \cup {Endpoint("external", Public(d), d.port[k], k) : k \in Held(d)}

\* What the module's get_query_address adds, unless a stored port covers it.
Query(d) ==
  {e \in {Endpoint("internal", Loop, d.port[MainKey] + 1, "query")} :
     d.beside /\ MainKey \in Held(d) /\ \A f \in Stored(d) : ~Clash(e, f)}

Claims(d) == Stored(d) \cup Query(d)

Meet(d, e) == \E x \in Claims(d), y \in Claims(e) : Clash(x, y)

SelfClash(d) == \E x, y \in Claims(d) : x.key # y.key /\ Clash(x, y)
ManagedClash(s, d) == \E t \in Servers \ {s} : Meet(d, store[t])

\* The sockets a server's process binds.
Sockets(d) ==
  {[ip |-> d.bind, port |-> d.port[k]] : k \in Held(d)}
  \cup {[ip |-> d.bind, port |-> d.port[MainKey] + 1] : b \in {TRUE} \cap {d.beside}}

Listening == UNION {Sockets(live[s].at) : s \in {t \in Servers : live[t].state = "up"}}
Taken(x, sockets) == \E y \in sockets : x.port = y.port /\ Overlap(x.ip, y.ip)

\* Binding an address the host has not got does not count as a conflict.
Busy(e) == e.ip \in Hosted /\ (e.port \in aliens \/ Taken(e, Listening))
LiveClashExact(d) == \E e \in Claims(d), y \in Listening : e.ip = y.ip /\ e.port = y.port
LiveClash(d) == \E e \in Claims(d) : Busy(e)

Conflicted(s, d) == SelfClash(d) \/ ManagedClash(s, d) \/ LiveClash(d)

-----------------------------------------------------------------------------
(* The shift setup may make. *)

ShiftedMain(d, n) == [d EXCEPT !.port[MainKey] = @ + n]
Shifted(d, n) == [d EXCEPT !.port = [k \in Keys |-> IF @[k] = None THEN None ELSE @[k] + n]]

LegalUnbounded(d, n) == \A k \in Held(d) : d.port[k] + n > 0
Legal(d, n) == \A k \in Held(d) : d.port[k] + n \in Ports
Offsets == (-MaxShift..MaxShift) \ {0}
FreeOffsetsLive(s, d) == {n \in Offsets : Legal(d, n) /\ ~LiveClash(Shifted(d, n))}
FreeOffsets(s, d) == {n \in Offsets : Legal(d, n) /\ ~Conflicted(s, Shifted(d, n))}

\* The order of the code's candidates: 1, -1, 2, -2 and so on.
Distance(n) == IF n > 0 THEN 2 * n - 1 ELSE -2 * n
Nearest(offsets) == {n \in offsets : \A m \in offsets : Distance(n) <= Distance(m)}

-----------------------------------------------------------------------------
(* Commands.  "data" is a command's copy of its server's store, "mine" the *)
(* port keys its user chose in this command.                               *)

Where(d) == [d EXCEPT !.policy = NoPolicy]

Save(s, d) ==
  /\ store' = [store EXCEPT ![s] = d]
  /\ live' = IF live[s] # Off /\ Where(d) # Where(store[s])
             THEN [live EXCEPT ![s].edited = TRUE] ELSE live

Finish(c) == cmd' = [cmd EXCEPT ![c] = Idle]
Go(c, at) == cmd' = [cmd EXCEPT ![c].at = at]

\* A user who waits lets the servers bind first.
MayBegin(c) ==
  /\ cmd[c] = Idle
  /\ fleet.patient => \A s \in Servers : live[s].state # "launching"

Begin(c, s, at, data, mine, ask, arg) ==
  /\ MayBegin(c)
  /\ cmd' = [cmd EXCEPT ![c] = [at |-> at, server |-> s, data |-> data, mine |-> mine, ask |-> ask, arg |-> arg]]
  /\ UNCHANGED <<fleet, store, live, aliens>>

SetPort(c, s) == \E k \in fleet.keys, p \in Typed :
  Begin(c, s, "setcheck", [store[s] EXCEPT !.port[k] = p], {k}, FALSE, p)

SetAddress(c, s) ==
  \/ \E a \in fleet.binds : Begin(c, s, "setcheck", [store[s] EXCEPT !.bind = a], {}, FALSE, None)
  \/ \E a \in fleet.publics : Begin(c, s, "setcheck", [store[s] EXCEPT !.public = a], {}, FALSE, None)

\* The value DELETE is not checked.
DeleteAddress(c, s) ==
  /\ fleet.deletes
  /\ \/ fleet.binds # {} /\ Begin(c, s, "setsave", [store[s] EXCEPT !.bind = Wild], {}, FALSE, None)
     \/ fleet.publics # {} /\ Begin(c, s, "setsave", [store[s] EXCEPT !.public = NoAddress], {}, FALSE, None)

SetCheck(c) ==
  /\ cmd[c].at = "setcheck"
  /\ IF Conflicted(cmd[c].server, cmd[c].data) THEN Finish(c) ELSE Go(c, "setsave")
  /\ UNCHANGED <<fleet, store, live, aliens>>

SetSave(c) ==
  /\ cmd[c].at = "setsave"
  /\ Save(cmd[c].server,
          [cmd[c].data EXCEPT !.policy = [k \in Keys |-> IF k \in cmd[c].mine THEN "explicit" ELSE @[k]]])
  /\ Finish(c)
  /\ UNCHANGED <<fleet, aliens>>

\* setup with or without a port on the command line, asking or not.
Setup(c, s) == \E arg \in Typed \cup {None}, ask \in BOOLEAN :
  Begin(c, s, "configure", store[s], {}, ask, arg)

\* Keys the module seeds beside the main one.
Missing(d) == {k \in fleet.keys \ {MainKey} : d.port[k] = None}
Configured(d, main) ==
  [d EXCEPT !.port = [k \in Keys |-> IF k = MainKey THEN main ELSE IF k \in Missing(d) THEN main + 1 ELSE @[k]]]

\* The user answers the prompt with a port or leaves what it offers.
Answers(c) == IF cmd[c].ask /\ cmd[c].arg = None THEN Typed \cup {None} ELSE {None}

Offered(c) ==
  IF cmd[c].arg # None THEN cmd[c].arg
  ELSE IF cmd[c].data.port[MainKey] # None THEN cmd[c].data.port[MainKey]
  ELSE DefaultPort

\* The keys setup takes for the user's choice: a port on the command line, and
\* when it asks whatever configure has changed.
Chosen(c, new) ==
  {k \in {MainKey} : cmd[c].arg # None}
  \cup {k \in Keys : cmd[c].ask /\ new.port[k] # cmd[c].data.port[k]}

\* The module's configure saves what it has collected, whatever it clashes with.
Configure(c) ==
  /\ cmd[c].at = "configure"
  /\ \E answer \in Answers(c) :
       LET new == Configured(cmd[c].data, IF answer = None THEN Offered(c) ELSE answer)
       IN /\ cmd' = [cmd EXCEPT ![c].at = "claims", ![c].data = new, ![c].mine = Chosen(c, new),
                                ![c].arg = IF answer = None THEN @ ELSE answer]
          /\ Save(cmd[c].server, new)
  /\ UNCHANGED <<fleet, aliens>>

Policy(old, chosen) == IF old = "explicit" \/ chosen THEN "explicit" ELSE "default"

WithFreshPolicies(d, mine) ==
  [d EXCEPT !.policy = [k \in Keys |-> IF k \in Held(d) THEN Policy("none", k \in mine) ELSE @[k]]]
WithPolicies(d, mine) ==
  [d EXCEPT !.policy = [k \in Keys |-> IF k \in Held(d) THEN Policy(@[k], k \in mine) ELSE @[k]]]

Owned(d) == {k \in Held(d) : d.policy[k] = "explicit"}

Resolved(c) == WithPolicies(cmd[c].data, cmd[c].mine)

ClaimsFree(c) ==
  /\ cmd[c].at = "claims"
  /\ ~Conflicted(cmd[c].server, cmd[c].data)
  /\ cmd' = [cmd EXCEPT ![c].at = "install", ![c].data = Resolved(c)]
  /\ IF Resolved(c) # cmd[c].data THEN Save(cmd[c].server, Resolved(c)) ELSE UNCHANGED <<store, live>>
  /\ UNCHANGED <<fleet, aliens>>

\* Ports the user chose stay; the policies are recorded and setup fails.
ClaimsRefused(c) ==
  /\ cmd[c].at = "claims"
  /\ Conflicted(cmd[c].server, cmd[c].data)
  /\ Owned(Resolved(c)) # {}
  /\ Finish(c)
  /\ IF Resolved(c) # cmd[c].data THEN Save(cmd[c].server, Resolved(c)) ELSE UNCHANGED <<store, live>>
  /\ UNCHANGED <<fleet, aliens>>

ClaimsHopeless(c) ==
  /\ cmd[c].at = "claims"
  /\ Conflicted(cmd[c].server, cmd[c].data)
  /\ Owned(Resolved(c)) = {} /\ FreeOffsets(cmd[c].server, cmd[c].data) = {}
  /\ Finish(c)
  /\ UNCHANGED <<fleet, store, live, aliens>>

ClaimsShift(c) ==
  /\ cmd[c].at = "claims"
  /\ Conflicted(cmd[c].server, cmd[c].data)
  /\ Owned(Resolved(c)) = {}
  /\ \E n \in Nearest(FreeOffsets(cmd[c].server, cmd[c].data)) :
       LET moved == Shifted(Resolved(c), n)
       IN /\ cmd' = [cmd EXCEPT ![c].at = "install", ![c].data = moved]
          /\ Save(cmd[c].server, moved)
  /\ UNCHANGED <<fleet, aliens>>

\* install saves the copy once more.
Install(c) ==
  /\ cmd[c].at = "install"
  /\ Save(cmd[c].server, cmd[c].data)
  /\ Finish(c)
  /\ UNCHANGED <<fleet, aliens>>

\* Without its port a module cannot build the server's command line.
Start(c, s) ==
  /\ live[s] = Off /\ store[s].port[MainKey] # None
  /\ Begin(c, s, "startcheck", store[s], {}, FALSE, None)

StartCheckLive(c) ==
  /\ cmd[c].at = "startcheck"
  /\ IF LiveClash(cmd[c].data) THEN Finish(c) ELSE Go(c, "launch")
  /\ UNCHANGED <<fleet, store, live, aliens>>

StartCheck(c) ==
  /\ cmd[c].at = "startcheck"
  /\ IF Conflicted(cmd[c].server, cmd[c].data) THEN Finish(c) ELSE Go(c, "launch")
  /\ UNCHANGED <<fleet, store, live, aliens>>

Launch(c) ==
  /\ cmd[c].at = "launch"
  /\ LET s == cmd[c].server
         d == cmd[c].data
     IN live' = IF live[s] # Off THEN live
                ELSE [live EXCEPT ![s] = [state |-> "launching", at |-> Where(d),
                                          edited |-> Where(d) # Where(store[s])]]
  /\ Finish(c)
  /\ UNCHANGED <<fleet, store, aliens>>

Interrupt(c) ==
  /\ cmd[c] # Idle
  /\ Finish(c)
  /\ UNCHANGED <<fleet, store, live, aliens>>

-----------------------------------------------------------------------------
(* The game servers and the rest of the host. *)

\* It gets its sockets, or another server or an alien holds one of them.  It
\* gets none on an address the host has not got.
Bind(s) ==
  /\ live[s].state = "launching"
  /\ LET sockets == Sockets(live[s].at)
         state == IF live[s].at.bind \notin Hosted THEN "failed"
                  ELSE IF \E x \in sockets : Taken(x, Listening) THEN "deaf"
                  ELSE IF \E x \in sockets : x.port \in aliens THEN "failed"
                  ELSE "up"
     IN live' = [live EXCEPT ![s].state = state]
  /\ UNCHANGED <<fleet, store, cmd, aliens>>

Exit(s) ==
  /\ live[s] # Off
  /\ live' = [live EXCEPT ![s] = Off]
  /\ UNCHANGED <<fleet, store, cmd, aliens>>

AlienCome(p) ==
  /\ p \in fleet.aliens \ aliens
  /\ ~Taken([ip |-> Wild, port |-> p], Listening)
  /\ aliens' = aliens \cup {p}
  /\ UNCHANGED <<fleet, store, cmd, live>>

AlienGo(p) ==
  /\ p \in aliens
  /\ aliens' = aliens \ {p}
  /\ UNCHANGED <<fleet, store, cmd, live>>

Command(c) ==
  \/ \E s \in Servers : SetPort(c, s) \/ SetAddress(c, s) \/ DeleteAddress(c, s) \/ Setup(c, s) \/ Start(c, s)
  \/ SetCheck(c) \/ SetSave(c)
  \/ Configure(c) \/ ClaimsFree(c) \/ ClaimsRefused(c) \/ ClaimsHopeless(c) \/ ClaimsShift(c) \/ Install(c)
  \/ StartCheck(c) \/ Launch(c)
  \/ Interrupt(c)

Next ==
  \/ \E c \in Clis : Command(c)
  \/ \E s \in Servers : Bind(s) \/ Exit(s)
  \/ \E p \in Ports : AlienCome(p) \/ AlienGo(p)

Spec == Init /\ [][Next]_vars
-----------------------------------------------------------------------------
(* Properties. *)

Data == [bind : Addresses, public : Addresses \cup {NoAddress}, beside : BOOLEAN,
         port : {f \in [Keys -> 0..(MaxPort + 1)] : f[MainKey] <= MaxPort},
         policy : [Keys -> {"none", "explicit", "default"}]]
Points == {"setcheck", "setsave", "configure", "claims", "install", "startcheck", "launch"}
Task == [at : Points, server : Servers, data : Data, mine : SUBSET Keys, ask : BOOLEAN, arg : Typed \cup {None}]
Process == [state : {"launching", "up", "deaf", "failed"}, at : Data, edited : BOOLEAN]

\* The main port of a store is always a legal one, neither configure nor the
\* shifts of recommend_shift take it past MaxPort; the ports configure puts
\* beside it are at most one higher.
TypeOK ==
  /\ fleet \in Fleets
  /\ store \in [Servers -> Data]
  /\ cmd \in [Clis -> Task \cup {Idle}]
  /\ live \in [Servers -> Process \cup {Off}]
  /\ aliens \subseteq Ports

Launched(s) == live[s] # Off

\* One command at a time: two servers that were launched, and whose claims
\* nobody has changed since, claim nothing in common.  That start compares its
\* server with the stores of all others makes it so: also while the other has
\* not bound its sockets yet, after setups that failed and left clashing ports
\* behind, and after unchecked deletions.
LaunchedApart ==
  Alone => \A s, t \in Servers :
    (s # t /\ Launched(s) /\ Launched(t) /\ ~live[s].edited /\ ~live[t].edited)
      => ~Meet(live[s].at, live[t].at)

\* One command at a time, by a user who lets servers come up: no server is
\* launched on a socket that another managed server has, whatever was set, shifted
\* or deleted while the other was running.  The probe of the live sockets sees
\* what the stores no longer tell.
EveryoneHeard == Alone /\ fleet.patient => \A s \in Servers : Launched(s) => live[s].state # "deaf"

\* Explicit choices last (skills/server-lifecycle/SKILL.md): through failed,
\* interrupted and repeated setups an explicit port stays explicit, and it
\* changes only in a command in which the user names that key.
ChosenNow(s, k) ==
  \E c \in Clis :
    /\ cmd[c] # Idle /\ cmd[c].server = s
    /\ \/ cmd[c].at = "setsave" /\ k \in cmd[c].mine
       \/ cmd[c].at = "configure" /\ k = MainKey /\ (cmd'[c].arg # None)
ExplicitStays ==
  [][Alone => \A s \in Servers, k \in Keys : store[s].policy[k] = "explicit" =>
       /\ store'[s].policy[k] = "explicit"
       /\ store'[s].port[k] # store[s].port[k] => ChosenNow(s, k)]_vars

\* Only setup moves ports nobody named, and then by one offset for all the
\* ports of the server, none of which is anyone's explicit choice, and to
\* ports that exist.
GroupMoves ==
  [][Alone => \A c \in Clis :
       (cmd[c].at = "claims" /\ store'[cmd[c].server].port # store[cmd[c].server].port) =>
         LET s == cmd[c].server
         IN /\ Owned(store[s]) = {}
            /\ \E n \in Offsets : \A k \in Held(store[s]) :
                 store'[s].port[k] = store[s].port[k] + n /\ store'[s].port[k] \in Ports]_vars

\* A setup that gets to the end, with one command at a time, leaves its server
\* with claims that clash neither with each other nor with any other server's
\* store: such a server can be started once its sockets are free.
SetupSettles ==
  [][Alone => \A c \in Clis : Install(c) =>
       LET s == cmd[c].server
       IN ~SelfClash(store'[s]) /\ \A t \in Servers \ {s} : ~Meet(store'[s], store[t])]_vars

\* "set rejects conflicting claim changes immediately" (SKILL.md): a set that
\* goes through puts its server in conflict with no server it was apart from.
SetKeepsApart ==
  [][\A c \in Clis : SetSave(c) =>
       LET s == cmd[c].server
       IN \A t \in Servers \ {s} : ~Meet(store[s], store[t]) => ~Meet(store'[s], store[t])]_vars
=============================================================================

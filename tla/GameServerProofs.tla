--------------------------- MODULE GameServerProofs ---------------------------
(***************************************************************************)
(* GameServer for every catalogue of games that meets its assumptions, and  *)
(* for any number of set commands: the modules shipped are one such         *)
(* catalogue (TLC evaluates the assumptions on it), a module that is added  *)
(* need only meet them too.                                                 *)
(***************************************************************************)
EXTENDS GameServer, TLAPS

\* What the store has, the user's part in it and what install wrote.
StoreInv ==
  /\ game \in DOMAIN Catalogue
  /\ configured => G.gives \ present \subseteq deleted
  /\ chosen \subseteq Settable(G) /\ deleted \subseteq Settable(G)
  /\ present \subseteq StoreKeys(G)
  /\ explicit \subseteq PortKeys \cap Settable(G)
  /\ written \subseteq G.writes \cap present
  /\ unwritten \subseteq PortKeys
  /\ G.writes \ unwritten \subseteq written

\* What the program that runs was started with.
RunInv ==
  /\ heard \subseteq G.tells \cup At(G.writes)
  /\ shown \subseteq StoreKeys(G)
  /\ on =>
    /\ docker => \A e \in heard : (e[2] = 0 /\ e[1] \in shown) \/ <<game, e>> \in Unpublished
    /\ \A key \in present \ changed :
         /\ docker /\ key \in G.publishes => key \in shown
         /\ \A e \in G.tells : e[1] = key => e \in heard
         /\ key \in written => <<key, 0>> \in heard

-----------------------------------------------------------------------------
(* The store. *)

\* Neither the game nor what its module does ever changes.
LEMMA SameGame == Next => game' = game /\ docker' = docker
  BY DEF Next, Setup, Set, Delete, Start, Exit, Stop, Restart, unchanging, Update

LEMMA StoreInit == Init => StoreInv
  BY KeysAssumption DEF Init, StoreInv, G, Settable, StoreKeys

LEMMA StoreSetup == ASSUME StoreInv, Setup PROVE StoreInv'
<1>1. game \in DOMAIN Catalogue /\ G' = G
  BY DEF StoreInv, Setup, G
<1>2. PICK moved \in Moves :
         \/ written' = G.writes /\ unwritten' = {}
         \/ written' = written \ moved /\ unwritten' = unwritten \cup moved
  BY DEF Setup
<1>3. moved \subseteq PortKeys
  BY <1>2 DEF Moves
<1>4. G.writes \subseteq G.gives /\ G.forced \subseteq G.gives
  BY <1>1, KeysAssumption DEF G
<1>5. /\ configured' = TRUE /\ present' = present \cup G.gives
      /\ chosen' = chosen \ G.forced /\ deleted' = deleted \ G.gives
      /\ explicit' = explicit /\ game' = game
  BY DEF Setup, Configure
<1>6. written' \subseteq G.writes \cap present'
  BY <1>2, <1>4, <1>5 DEF StoreInv
<1>7. unwritten' \subseteq PortKeys /\ G.writes \ unwritten' \subseteq written'
  BY <1>2, <1>3 DEF StoreInv
<1>8. /\ chosen' \subseteq Settable(G) /\ deleted' \subseteq Settable(G)
      /\ present' \subseteq StoreKeys(G)
  BY <1>5 DEF StoreInv, StoreKeys
<1> QED
  BY <1>1, <1>5, <1>6, <1>7, <1>8 DEF StoreInv

LEMMA StoreSet == ASSUME StoreInv, Set PROVE StoreInv'
<1>1. game \in DOMAIN Catalogue /\ G' = G
  BY DEF StoreInv, Set, G
<1>2. PICK key \in Settable(G) :
         /\ present' = present \cup {key} /\ chosen' = chosen \cup {key}
         /\ explicit' = explicit \cup ({key} \cap PortKeys)
         /\ deleted' = deleted \ {key}
         /\ Changes(key)
  BY DEF Set
<1>3. PICK ports \in SUBSET PortKeys :
         /\ {key} \cap PortKeys \subseteq ports
         /\ written' = written \ ports /\ unwritten' = unwritten \cup ports
  BY <1>2 DEF Changes
<1>4. game' = game /\ configured' = configured
  BY DEF Set
<1>5. G.writes \subseteq PortKeys
  BY <1>1, KeysAssumption DEF G
<1> QED
  BY <1>1, <1>2, <1>3, <1>4, <1>5 DEF StoreInv, StoreKeys

LEMMA StoreDelete == ASSUME StoreInv, Delete PROVE StoreInv'
<1>1. game \in DOMAIN Catalogue /\ G' = G
  BY DEF StoreInv, Delete, G
<1>2. PICK key \in G.words \cap present :
         /\ present' = present \ {key} /\ chosen' = chosen \ {key}
         /\ deleted' = deleted \cup {key}
         /\ Changes(key)
  BY DEF Delete
<1>3. PICK ports \in SUBSET PortKeys :
         /\ {key} \cap PortKeys \subseteq ports
         /\ written' = written \ ports /\ unwritten' = unwritten \cup ports
  BY <1>2 DEF Changes
<1>4. game' = game /\ configured' = configured /\ explicit' = explicit
  BY DEF Delete
<1>5. G.writes \subseteq PortKeys
  BY <1>1, KeysAssumption DEF G
<1> QED
  BY <1>1, <1>2, <1>3, <1>4, <1>5 DEF StoreInv, Settable

LEMMA StoreStep == ASSUME StoreInv, [Next]_vars PROVE StoreInv'
<1>1. CASE Setup BY <1>1, StoreSetup
<1>2. CASE Set BY <1>2, StoreSet
<1>3. CASE Delete BY <1>3, StoreDelete
<1>4. CASE Start \/ Exit \/ Stop \/ Restart \/ Update \/ UNCHANGED vars
  <2>1. UNCHANGED <<game, store, written, unwritten>>
    BY <1>4 DEF Start, Exit, Stop, Restart, unchanging, Update, vars
  <2> QED
    BY <2>1 DEF StoreInv, store, G
<1> QED
  BY <1>1, <1>2, <1>3, <1>4 DEF Next

THEOREM StoreHolds == Spec => []StoreInv
  BY StoreInit, StoreStep, PTL DEF Spec

\* Any start command finds the keys it subscripts, but those the user deleted.
THEOREM NothingMissing == Spec => []NothingIsMissing
<1>1. StoreInv => NothingIsMissing
  BY KeysAssumption DEF StoreInv, NothingIsMissing, G
<1> QED
  BY <1>1, StoreHolds, PTL

\* A setup puts no default in the place of a value the user set.
THEOREM ChoicesAreKept == Spec => ChoicesStay
<1> DEFINE Kept == \A key \in chosen :
                     \/ key \in chosen' \/ key \in deleted'
                     \/ game \in Resolving /\ key \in {"version", "url"}
<1>1. ASSUME StoreInv, [Next]_vars PROVE [Kept]_vars
  <2> SUFFICES ASSUME NEW key \in chosen, Next
               PROVE \/ key \in chosen' \/ key \in deleted'
                     \/ game \in Resolving /\ key \in {"version", "url"}
    BY <1>1
  <2>1. CASE Setup
    <3>1. chosen' = chosen \ G.forced
      BY <2>1 DEF Setup, Configure
    <3>2. key \in G.forced => game \in Resolving /\ key \in {"version", "url"}
      BY <1>1, KeysAssumption DEF StoreInv, G
    <3> QED BY <3>1, <3>2
  <2>2. CASE Set BY <2>2 DEF Set
  <2>3. CASE Delete BY <2>3 DEF Delete
  <2>4. CASE Start \/ Exit \/ Stop \/ Restart \/ Update
    BY <2>4 DEF Start, Exit, Stop, Restart, unchanging, Update, store
  <2> QED BY <2>1, <2>2, <2>3, <2>4 DEF Next
<1> QED
  BY <1>1, StoreHolds, PTL DEF Spec, ChoicesStay

-----------------------------------------------------------------------------
(* The program that runs. *)

\* What a program is started with.
LEMMA RunLaunch ==
  ASSUME StoreInv, StoreInv', NEW keep, Launch(keep), game' = game, docker' = docker,
         present' = present, keep = written',
         written' \subseteq G.writes \cap present
  PROVE  RunInv'
<1>1. /\ on' = TRUE /\ changed' = {}
      /\ heard' = {e \in G.tells : e[1] \in present} \cup At(written')
      /\ shown' = IF docker THEN G.publishes \cap present ELSE {}
  BY DEF Launch
<1>2. game \in DOMAIN Catalogue /\ G' = G
  BY DEF StoreInv, G
<1>3. G.writes \subseteq G.publishes
  BY <1>2, KeysAssumption DEF G
<1>4. heard' \subseteq G.tells \cup At(G.writes)
  BY <1>1 DEF At
<1>5. shown' \subseteq StoreKeys(G)
  BY <1>1 DEF StoreInv
<1>6. ASSUME docker, NEW e \in heard'
      PROVE  (e[2] = 0 /\ e[1] \in shown') \/ <<game, e>> \in Unpublished
  <2>1. CASE e \in G.tells /\ e[1] \in present
    <3>1. Public(game, e)
      BY <1>2, <2>1, EndpointsAssumption DEF G
    <3> QED BY <1>1, <1>6, <2>1, <3>1 DEF Public, G
  <2>2. CASE e \in At(written')
    <3>1. PICK key \in written' : e = <<key, 0>>
      BY <2>2 DEF At
    <3> QED BY <1>1, <1>3, <1>6, <3>1
  <2> QED BY <1>1, <2>1, <2>2
<1>7. ASSUME NEW key \in present'
      PROVE  /\ docker /\ key \in G.publishes => key \in shown'
             /\ \A e \in G.tells : e[1] = key => e \in heard'
             /\ key \in written' => <<key, 0>> \in heard'
  BY <1>1, <1>7 DEF At
<1> QED
  BY <1>2, <1>4, <1>5, <1>6, <1>7 DEF RunInv

LEMMA RunStep == ASSUME StoreInv, RunInv, [Next]_vars PROVE RunInv'
<1>0. StoreInv'
  BY StoreStep
<1>1. CASE Setup
  <2>1. PICK moved \in Moves :
          LET new == moved \cup G.forced \cup (G.gives \ present) IN
          \/ written' = G.writes /\ Stale(new \cup (G.writes \ written))
          \/ written' = written \ moved /\ Stale(new)
    BY <1>1 DEF Setup
  <2>2. /\ present' = present \cup G.gives /\ game' = game /\ docker' = docker
        /\ UNCHANGED <<on, heard, shown>> /\ G' = G
    BY <1>1 DEF Setup, Configure, G
  <2>3. on => \A key \in present' \ changed' :
                key \in present \ changed /\ (key \in written' => key \in written)
    BY <2>1, <2>2 DEF Stale
  <2> QED BY <2>2, <2>3 DEF RunInv
<1>2. CASE Set \/ Delete
  <2>1. PICK key : present' \subseteq present \cup {key} /\ Changes(key)
    BY <1>2 DEF Set, Delete
  <2>2. UNCHANGED <<game, docker, on, heard, shown>> /\ G' = G
    BY <1>2 DEF Set, Delete, G
  <2>3. on => present' \ changed' \subseteq present \ changed /\ written' \subseteq written
    BY <2>1 DEF Changes, Stale
  <2> QED BY <2>2, <2>3 DEF RunInv
<1>3. CASE Start
  BY <1>0, <1>3, RunLaunch DEF Start, StoreInv, store, unchanging
<1>4. CASE Exit \/ Stop
  BY <1>4 DEF Exit, Stop, Halt, RunInv, unchanging
<1>5. CASE Restart
  <2>1. CASE HasCommand
    BY <1>0, <1>5, <2>1, RunLaunch DEF Restart, StoreInv, store, unchanging
  <2>2. CASE ~HasCommand
    BY <1>5, <2>2 DEF Restart, Halt, RunInv, unchanging
  <2> QED BY <2>1, <2>2
<1>6. CASE Update
  <2>1. UNCHANGED <<game, docker, store, written>>
    BY <1>6 DEF Update
  <2>2. Launch(written) \/ Halt \/ UNCHANGED run
    BY <1>6 DEF Update
  <2>3. CASE Launch(written)
    BY <1>0, <2>1, <2>3, RunLaunch DEF StoreInv, store
  <2>4. CASE Halt
    BY <2>4 DEF Halt, RunInv
  <2>5. CASE UNCHANGED run
    BY <2>1, <2>5 DEF RunInv, run, store, G
  <2> QED BY <2>2, <2>3, <2>4, <2>5
<1>7. CASE UNCHANGED vars
  BY <1>7 DEF vars, run, store, RunInv, G
<1> QED
  BY <1>1, <1>2, <1>3, <1>4, <1>5, <1>6, <1>7 DEF Next

THEOREM RunHolds == Spec => [](StoreInv /\ RunInv)
<1>1. Init => RunInv
  BY DEF Init, RunInv
<1> QED
  BY <1>1, StoreInit, StoreStep, RunStep, PTL DEF Spec

\* A container publishes what its program was told of.
THEOREM ContainersPublish == Spec => []ContainerPublishes
<1>1. RunInv => ContainerPublishes
  BY DEF RunInv, ContainerPublishes
<1> QED
  BY <1>1, RunHolds, PTL

\* A query goes where the running program listens, unless its port changed.
THEOREM QueriesReach == Spec => []QueriesArrive
<1>1. ASSUME StoreInv, RunInv PROVE QueriesArrive
  <2> SUFFICES ASSUME on, NEW e \in Asked(G, present), e[1] \notin changed,
                      <<game, e>> \notin Unpublished
               PROVE  /\ docker => e[2] = 0 /\ e[1] \in shown
                      /\ e \in G.tells \cup At(G.writes \ unwritten) => e \in heard
    BY DEF QueriesArrive
  <2>1. e[1] \in present
    BY DEF Asked, At
  <2>2. e \in AskedEver(G)
    BY <1>1 DEF StoreInv, Asked, AskedEver, At
  <2>3. e[2] = 0 /\ e[1] \in G.publishes
    BY <1>1, <2>2, EndpointsAssumption DEF StoreInv, Public, G
  <2>4. docker => e[1] \in shown
    BY <1>1, <2>1, <2>3 DEF RunInv
  <2>5. e \in G.tells => e \in heard
    BY <1>1, <2>1 DEF RunInv
  <2>6. ASSUME e \in At(G.writes \ unwritten) PROVE e \in heard
    <3>1. PICK key \in G.writes \ unwritten : e = <<key, 0>>
      BY <2>6 DEF At
    <3> QED BY <1>1, <2>1, <3>1 DEF StoreInv, RunInv
  <2> QED BY <2>3, <2>4, <2>5, <2>6
<1> QED
  BY <1>1, RunHolds, PTL

-----------------------------------------------------------------------------
(* The types. *)

THEOREM TypesHold == Spec => []TypeOK
<1> DEFINE Flags == {docker, on, configured, installed} \subseteq BOOLEAN
           Counts == edits \in 0..MaxEdits /\ (\A key \in changed : key \in Keys)
<1>1. ASSUME Init PROVE Flags /\ Counts
  <2>1. /\ on = FALSE /\ configured = FALSE /\ docker \in BOOLEAN
        /\ installed = FALSE
    BY <1>1 DEF Init
  <2>2. Counts
    BY <1>1, BoundAssumption DEF Init
  <2> QED BY <2>1, <2>2
<1>2. ASSUME Flags, [Next]_vars PROVE Flags'
  <2>1. docker' = docker
    BY <1>2, SameGame DEF vars
  <2>2. on' = on \/ on' = TRUE \/ on' = FALSE
    BY <1>2 DEF Next, vars, run, Setup, Set, Delete, Start, Exit, Stop, Restart,
      unchanging, Update, Launch, Halt
  <2>3. configured' = configured \/ configured' = TRUE
    BY <1>2 DEF Next, vars, store, unchanging, Setup, Configure, Set, Delete, Start, Exit,
      Stop, Restart, Update
  <2>4. installed' = installed \/ installed' \in BOOLEAN
    <3>1. CASE Setup \/ Update
      BY <3>1 DEF Setup, Update, Install
    <3>2. CASE Set \/ Delete
      BY <3>2 DEF Set, Delete, Changes
    <3>3. CASE Start \/ Exit \/ Stop \/ Restart \/ UNCHANGED vars
      BY <3>3 DEF Start, Exit, Stop, Restart, unchanging, vars
    <3> QED BY <1>2, <3>1, <3>2, <3>3 DEF Next
  <2> QED
    BY <1>2, <2>1, <2>2, <2>3, <2>4
<1>3. ASSUME StoreInv, Counts, [Next]_vars PROVE Counts'
  <2>1. StoreKeys(G) \subseteq Keys
    BY <1>3 DEF StoreInv, Keys, G
  <2>2. edits' \in 0..MaxEdits
    <3>1. edits' = edits \/ (edits < MaxEdits /\ edits' = edits + 1)
      BY <1>3 DEF Next, vars, unchanging, Setup, Set, Delete, Start, Exit, Stop, Restart,
      Update
    <3> QED BY <1>3, <3>1, BoundAssumption
  <2>3. ASSUME NEW keys \in SUBSET Keys, Stale(keys)
        PROVE  \A key \in changed' : key \in Keys
    BY <1>3, <2>3 DEF Stale
  <2>4. CASE Setup
    <3>1. PICK moved \in Moves :
            LET new == moved \cup G.forced \cup (G.gives \ present) IN
            Stale(new \cup (G.writes \ written)) \/ Stale(new)
      BY <2>4 DEF Setup
    <3>2. moved \cup G.forced \cup (G.gives \ present) \cup (G.writes \ written) \subseteq Keys
      BY <1>3, <2>1, <3>1, KeysAssumption DEF StoreInv, Moves, StoreKeys, G
    <3> QED BY <2>2, <2>3, <3>1, <3>2
  <2>5. CASE Set \/ Delete
    <3>1. PICK key \in StoreKeys(G) : Changes(key)
      BY <2>5 DEF Set, Delete, StoreKeys, Settable
    <3> QED BY <2>1, <2>2, <2>3, <3>1 DEF Changes
  <2>6. CASE Update
    <3>1. changed' = {} \/ changed' = changed
      BY <2>6 DEF Update, Launch, Halt, run
    <3> QED BY <1>3, <2>2, <3>1
  <2>7. CASE Start \/ Exit \/ Stop \/ Restart \/ UNCHANGED vars
    BY <1>3, <2>2, <2>7 DEF Start, Exit, Stop, Restart, Launch, Halt,
      vars, run, unchanging
  <2> QED BY <1>3, <2>4, <2>5, <2>6, <2>7 DEF Next
<1>4. ASSUME StoreInv, RunInv, Flags, Counts PROVE TypeOK
  <2>1. game \in DOMAIN Catalogue /\ StoreKeys(G) \subseteq Keys
    BY <1>4 DEF StoreInv, Keys, G
  <2>2. {present, chosen, explicit, deleted, written, shown, changed} \subseteq SUBSET Keys
    <3>1. present \subseteq Keys /\ chosen \subseteq Keys /\ explicit \subseteq Keys
      BY <1>4, <2>1 DEF StoreInv, StoreKeys
    <3>2. deleted \subseteq Keys /\ written \subseteq Keys
      BY <1>4, <2>1 DEF StoreInv, StoreKeys
    <3>3. shown \subseteq Keys /\ changed \subseteq Keys
      BY <1>4, <2>1 DEF RunInv
    <3> QED BY <3>1, <3>2, <3>3
  <2>3. heard \subseteq Keys \X (0..9)
    <3>1. G.tells \subseteq Keys \X (0..9) /\ G.writes \subseteq Keys
      BY <2>1, KeysAssumption DEF G, StoreKeys
    <3>2. At(G.writes) \subseteq Keys \X (0..9)
      BY <3>1 DEF At
    <3> QED BY <1>4, <3>1, <3>2 DEF RunInv
  <2> QED BY <1>4, <2>1, <2>2, <2>3 DEF TypeOK, StoreInv
<1> QED
  BY <1>1, <1>2, <1>3, <1>4, RunHolds, StoreHolds, PTL DEF Spec
=============================================================================

------------------------------ MODULE GameServer ------------------------------
(***************************************************************************)
(* One server of any game, from its creation on: setup, set, start, stop,   *)
(* update and restart as the core (src/server/server.py) runs them with     *)
(* the hooks of the server's game module, whose record the Catalogue has.   *)
(* The commands run one after the other (Lifecycle has them interleaved,    *)
(* and has what a runtime can get wrong); what is followed here is which    *)
(* keys the data store has, who put them there, and which of their values   *)
(* have reached the installed files, the running program and its container. *)
(***************************************************************************)
EXTENDS Games

CONSTANTS Catalogue,      \* game -> what its module does (see Games)
          Resolving,      \* games whose setup resolves version and url anew
          Unpublished,    \* <<game, endpoint>>: told or asked, not published
          MaxEdits        \* bound: set commands that change the data store

\* What is true of the games, and has to be of one that is added: configure
\* gives each key the start command subscripts; a container publishes each
\* endpoint but those listed; what configure gives anew cannot be set.
Public(g, e) == (e[2] = 0 /\ e[1] \in Catalogue[g].publishes) \/ <<g, e>> \in Unpublished

ASSUME BoundAssumption == MaxEdits \in Nat

ASSUME KeysAssumption ==
  \A g \in DOMAIN Catalogue : LET h == Catalogue[g] IN
    /\ h.needs \cup h.forced \cup h.writes \subseteq h.gives
    /\ h.forced \cap Settable(h) \subseteq (IF g \in Resolving THEN {"version", "url"} ELSE {})
    /\ h.writes \subseteq PortKeys \cap h.publishes
    /\ h.tells \subseteq StoreKeys(h) \X (0..9)

ASSUME EndpointsAssumption ==
  \A g \in DOMAIN Catalogue : LET h == Catalogue[g] IN
    \A e \in h.tells \cup AskedEver(h) : Public(g, e)

VARIABLES
  game,       \* the server's game, which never changes
  docker,     \* whether the configured runtime is docker
  configured, \* whether configure has run
  present,    \* the keys the data store has
  chosen,     \* keys with a value the user set
  explicit,   \* port keys the store has the policy "explicit" for
  deleted,    \* keys the user deleted since configure last gave them
  written,    \* port keys whose value the program's own configuration has
  installed,  \* whether the file exe_name is where the start command looks
  on,         \* whether the program runs
  heard,      \* the endpoints the running program was told of
  shown,      \* the port keys whose endpoints its container publishes
  changed,    \* keys whose value, here or in its configuration, changed since
              \* the program started
  unwritten,  \* port keys whose value no setup that finished has had
  edits       \* set commands so far

store == <<configured, present, chosen, explicit, deleted>>
run == <<on, heard, shown, changed>>
vars == <<game, docker, store, written, unwritten, installed, run, edits>>

G == Catalogue[game]
Keys == UNION {StoreKeys(Catalogue[g]) : g \in DOMAIN Catalogue}

\* What create leaves: the name of the module.
Init ==
  /\ game \in DOMAIN Catalogue /\ docker \in BOOLEAN
  /\ configured = FALSE /\ present = {} /\ chosen = {}
  /\ explicit = {} /\ deleted = {}
  /\ written = {} /\ unwritten = PortKeys /\ installed = FALSE
  /\ on = FALSE /\ heard = {} /\ shown = {} /\ changed = {}
  /\ edits = 0

-----------------------------------------------------------------------------
(* The hooks that touch files. *)

\* install of the files: a download that ends has the program's file, if
\* the name is not one the user made up; one that is interrupted, or the user,
\* may have put it there, or have taken it away to replace it.
Install(finished) ==
  /\ installed' \in BOOLEAN
  /\ G.how.files = "download" /\ finished => installed' \/ "exe_name" \in chosen

ConfigureOnce ==
  /\ configured' = TRUE
  /\ present' = IF configured THEN present ELSE present \cup G.gives
  /\ deleted' = deleted \ G.gives
  /\ UNCHANGED <<chosen, explicit>>

ConfigureOver ==
  /\ configured' = TRUE
  /\ present' = present \cup G.gives
  /\ chosen' = chosen \ G.gives
  /\ deleted' = deleted \ G.gives
  /\ UNCHANGED explicit

\* configure, with no arguments and no questions.
Configure ==
  /\ configured' = TRUE
  /\ present' = present \cup G.gives
  /\ chosen' = chosen \ G.forced
  /\ deleted' = deleted \ G.gives
  /\ UNCHANGED explicit

\* The keys whose values _resolve_setup_port_claims moves: all the ports, in
\* case of a conflict, unless one of them is explicit (then it is an error).
Moves ==
  LET group == (present \cup G.gives) \cap PortKeys IN
  IF explicit \cap group # {} THEN {{}} ELSE {{}, group}

\* What changes under a program that runs.
Stale(keys) == changed' = IF on THEN changed \cup keys ELSE {}

-----------------------------------------------------------------------------
(* The commands. *)

SetupInstallsFirst ==
  /\ Configure
  /\ \E moved \in Moves :
       LET new == moved \cup G.forced \cup (G.gives \ present) IN
       /\ Install(TRUE)
       /\ written' = G.writes \ moved /\ unwritten' = {}
       /\ Stale(new \cup (G.writes \ written))
  /\ UNCHANGED <<game, docker, on, heard, shown, edits>>

\* setup, which does not ask whether the server runs.
Setup ==
  /\ Configure
  /\ \E moved \in Moves :
       LET new == moved \cup G.forced \cup (G.gives \ present) IN
       \/ /\ Install(TRUE)
          /\ written' = G.writes /\ unwritten' = {}
          /\ Stale(new \cup (G.writes \ written))
       \/ /\ Install(FALSE)
          /\ written' = written \ moved /\ unwritten' = unwritten \cup moved
          /\ Stale(new)
  /\ UNCHANGED <<game, docker, on, heard, shown, edits>>

\* A value in the store changes: no file has the new one yet; another
\* directory has other files.
Changes(key) ==
  LET ports == IF key = "dir" THEN PortKeys ELSE {key} \cap PortKeys IN
  /\ Stale({key})
  /\ written' = written \ ports /\ unwritten' = unwritten \cup ports
  /\ installed' \in IF key \in {"dir", "exe_name"} THEN BOOLEAN ELSE {installed}

\* set KEY VALUE, for a key and a value checkvalue takes.
Set ==
  /\ edits < MaxEdits
  /\ \E key \in Settable(G) :
       /\ present' = present \cup {key} /\ chosen' = chosen \cup {key}
       /\ explicit' = explicit \cup ({key} \cap PortKeys)
       /\ deleted' = deleted \ {key}
       /\ Changes(key)
  /\ edits' = edits + 1
  /\ UNCHANGED <<game, docker, configured, on, heard, shown>>

\* set KEY DELETE: only text can be that text.
Delete ==
  /\ edits < MaxEdits
  /\ \E key \in G.words \cap present :
       /\ present' = present \ {key} /\ chosen' = chosen \ {key}
       /\ deleted' = deleted \cup {key}
       /\ Changes(key)
  /\ edits' = edits + 1
  /\ UNCHANGED <<game, docker, configured, explicit, on, heard, shown>>

\* get_start_command finds every key it subscripts, and the program's file.
HasCommand == G.needs \subseteq present /\ installed

LaunchAsSetUp(keep) ==
  /\ on' = TRUE /\ changed' = {}
  /\ heard' = {e \in G.tells : e[1] \in present} \cup At(keep)
  /\ shown' = IF docker THEN G.publishes \cap (present \ explicit) ELSE {}

\* A program that starts is told the endpoints of the keys that are there.
Launch(keep) ==
  /\ on' = TRUE /\ changed' = {}
  /\ heard' = {e \in G.tells : e[1] \in present} \cup At(keep)
  /\ shown' = IF docker THEN G.publishes \cap present ELSE {}

\* What only setup, set and update change.
unchanging == <<game, docker, store, written, unwritten, installed, edits>>

Halt == on' = FALSE /\ heard' = {} /\ shown' = {} /\ changed' = {}

Start ==
  /\ ~on /\ HasCommand
  /\ Launch(written)
  /\ UNCHANGED unchanging

Exit ==
  /\ on /\ Halt
  /\ UNCHANGED unchanging

\* Server.stop ends the program (do_stop, or failing that kill) unless
\* do_stop raises what stop does not expect: a ServerError of its own, or the
\* KeyError of the start command, which a message to a container needs.
StopEnds ==
  /\ G.stop # "refused"
  /\ G.stop = "runtime" /\ docker => HasCommand

Stop ==
  /\ on /\ StopEnds /\ Halt
  /\ UNCHANGED unchanging

Restart ==
  /\ on /\ StopEnds
  /\ IF HasCommand THEN Launch(written) ELSE Halt
  /\ UNCHANGED unchanging

\* update, where the module has it, stops the server and goes on whatever came
\* of that, with a KeyError if there is no directory; update -r starts it
\* afterwards, which is an error if it runs or has no command.  In the other
\* games run_command finds no function for it (a KeyError where the module
\* lists it), and nothing changes.
Update ==
  /\ G.how.update = "runs"
  /\ \E finished, again \in BOOLEAN :
       /\ IF "dir" \in present THEN Install(finished)
          ELSE ~finished /\ UNCHANGED installed
       /\ IF on /\ ~StopEnds THEN UNCHANGED run
          ELSE IF finished /\ again /\ G.needs \subseteq present /\ installed'
          THEN Launch(written) ELSE Halt
  /\ UNCHANGED <<game, docker, store, written, unwritten, edits>>

Next == Setup \/ Set \/ Delete \/ Start \/ Exit \/ Stop \/ Restart \/ Update

Spec == Init /\ [][Next]_vars

-----------------------------------------------------------------------------
(* What holds of every game. *)

TypeOK ==
  /\ game \in DOMAIN Catalogue /\ {docker, on, configured, installed} \subseteq BOOLEAN
  /\ {present, chosen, explicit, deleted, written, shown, changed} \subseteq SUBSET Keys
  /\ unwritten \subseteq PortKeys
  /\ heard \subseteq Keys \X (0..9) /\ edits \in 0..MaxEdits

\* Once a server is set up its start command lacks no key but those the user
\* deleted: configure gives every key get_start_command subscripts, so that a
\* start, and a message to the container, does not end in a KeyError.
NothingIsMissing == configured => G.needs \ present \subseteq deleted

\* What the user set stays until the user deletes it: no setup, update or
\* start puts a default in its place (but for the games whose configure
\* resolves the version and the url of the download anew each time; that a
\* Source game started as srcds_run is written down as srcds_run_64, its 64 bit
\* form, is not counted as another value).
ChoicesStay ==
  [][\A key \in chosen :
       \/ key \in chosen' \/ key \in deleted'
       \/ game \in Resolving /\ key \in {"version", "url"}]_vars

\* A container publishes every endpoint its program was told of (but for the
\* list of those that are known not to be).
ContainerPublishes ==
  on /\ docker => \A e \in heard : (e[2] = 0 /\ e[1] \in shown)
                                   \/ <<game, e>> \in Unpublished

\* query asks a running server where it listens, and where its container
\* publishes, if nobody changed the port since it started; a game that has
\* the port from its own configuration file listens there once a setup has
\* finished after the last change.
QueriesArrive ==
  on => \A e \in Asked(G, present) :
          \/ e[1] \in changed \/ <<game, e>> \in Unpublished
          \/ /\ docker => e[2] = 0 /\ e[1] \in shown
             /\ e \in G.tells \cup At(G.writes \ unwritten) => e \in heard
=============================================================================

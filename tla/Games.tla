--------------------------------- MODULE Games ---------------------------------
(***************************************************************************)
(* What a game module (a file under src/gamemodules/) makes of a server.    *)
(* The core calls the same hooks of every module (configure, install,       *)
(* update, checkvalue, get_start_command, get_container_spec,               *)
(* get_query_address, do_stop); the modules differ in the keys of the       *)
(* server's data store those hooks give, accept and read, and in the two    *)
(* or three ways each of them is written.  A game is the record of that:    *)
(*                                                                          *)
(*   how       where the files come from and what update does with them     *)
(*   gives     keys configure leaves with a value, one that is there wins   *)
(*   forced    those of them configure gives anew at every setup            *)
(*   numbers   keys checkvalue takes as something other than text           *)
(*   words     keys checkvalue takes as text: the text DELETE deletes them  *)
(*   needs     keys get_start_command subscripts: without one, KeyError     *)
(*   tells     endpoints the program is told of whenever it is started, in  *)
(*             its arguments or in a file written on the way                *)
(*   writes    port keys install writes to the program's own configuration  *)
(*   publishes port keys whose endpoint a container publishes               *)
(*   asks      the endpoint get_query_address names; {} without the hook    *)
(*   stop      how do_stop speaks: through "screen" whatever the runtime,   *)
(*             through the "runtime", or not at all ("refused")             *)
(*                                                                          *)
(* backup, Steam_AppID and the other keys no hook here subscripts are left  *)
(* out, and so are the values: an endpoint <<key, n>> is the port that is   *)
(* the value of key, plus n.                                                *)
(***************************************************************************)
EXTENDS Integers

\* Keys port_manager.is_port_key takes for ports, of those the games have.
PortKeys ==
  {"advertiseport", "clientport", "echoport", "filetransferport", "httpport",
   "internalport", "peerport", "port", "queryport", "rawudpport",
   "rconport", "rmiport", "sourcetvport", "steammasterport", "steamport",
   "steamqueryport", "udpport", "updateport"}

At(keys) == {<<key, 0>> : key \in keys}

\* The sources of files.  A module may list update among its commands and
\* leave command_functions, which has the functions of them, empty.
SteamCMD == [files |-> "download", update |-> "listed"]
Valve == [SteamCMD EXCEPT !.update = "runs"]
Archive == [files |-> "download", update |-> "none"]
Manual == [files |-> "user", update |-> "none"]

\* The usual module: it gives a default to everything it lets the user set,
\* subscripts all of that for its command line, and publishes its ports.
Game(how, ports, numbers, words) ==
  LET texts == words \cup {"dir", "exe_name"}
      keys == ports \cup numbers \cup texts
  IN [how |-> how, gives |-> keys, forced |-> {}, numbers |-> ports \cup numbers,
      words |-> texts, needs |-> keys, tells |-> At(ports), writes |-> {},
      publishes |-> ports, asks |-> {}, stop |-> "screen"]

Settable(g) == g.numbers \cup g.words

StoreKeys(g) == g.gives \cup Settable(g)

\* Where Server.query asks: without the hook at "queryport", else at "port".
Asked(g, present) ==
  IF g.asks # {} THEN {e \in g.asks : e[1] \in present}
  ELSE At(IF "queryport" \in present THEN {"queryport"}
          ELSE {"port"} \cap present)

\* The endpoints some store of the game has it ask.
AskedEver(g) ==
  IF g.asks # {} THEN g.asks ELSE At({"queryport", "port"} \cap StoreKeys(g))
=============================================================================

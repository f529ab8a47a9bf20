----------------------------- MODULE ValveGames ------------------------------
(* The games on Valve's engines: most of their modules are made by
   define_valve_server_module of src/utils/valve_server.py and add the port
   list of their container. *)
EXTENDS Games

\* The optional ports can be set in any of them, and +tv_port and +clientport
\* are passed on if they are there; the container has those the module lists.
\* _send_console_input goes through the runtime if that is docker.
ValveServer(ports) ==
  LET optional == {"clientport", "sourcetvport", "steamport"} IN
  [Game(Valve, {"port"} \cup ports, {"maxplayers"},
        {"server_cfg", "startmap"}) EXCEPT
     !.gives = @ \cup {"game_dir"}, !.numbers = @ \cup optional,
     !.needs = @ \ optional,
     !.tells = At({"port", "clientport", "sourcetvport"}), !.stop = "runtime"]

ahl2server == ValveServer({"clientport", "sourcetvport"})

ahlserver == ValveServer({"clientport"})

bb2server == ValveServer({"clientport", "sourcetvport"})

bbserver == ValveServer({"clientport"})

bdserver == ValveServer({"clientport"})

bmdmserver == ValveServer({"clientport", "sourcetvport"})

bsserver == ValveServer({"clientport", "sourcetvport"})

ccserver == ValveServer({"clientport", "sourcetvport"})

counterstrike2 ==
  [Game(Valve, {"port"}, {}, {}) EXCEPT
     !.gives = @ \cup {"maxplayers", "startmap"}, !.numbers = {},
     !.words = {}, !.needs = @ \cup {"maxplayers", "startmap"},
     !.forced = {"maxplayers", "startmap"}, !.asks = At({"port"}),
     !.stop = "runtime"]

counterstrikeglobaloffensive ==
  [Game(Valve, {"port"}, {}, {}) EXCEPT
     !.gives = @ \cup {"gamemode", "gametype", "mapgroup", "maxplayers",
         "startmap"},
     !.numbers = {}, !.words = {},
     !.needs = @ \cup {"gamemode", "gametype", "mapgroup", "maxplayers",
         "startmap"},
     !.forced = {"gamemode", "gametype", "mapgroup", "maxplayers",
         "startmap"}]

csczserver == ValveServer({"clientport"})

csserver == ValveServer({"clientport"})

cssserver == ValveServer({"clientport", "sourcetvport"})

dabserver == ValveServer({"clientport", "sourcetvport"})

dmcserver == ValveServer({"clientport"})

dodserver == ValveServer({"clientport"})

dodsserver == ValveServer({"clientport", "sourcetvport"})

doiserver == ValveServer({"clientport", "sourcetvport"})

dysserver == ValveServer({"clientport", "sourcetvport"})

emserver == ValveServer({"clientport", "sourcetvport"})

fofserver == ValveServer({"clientport", "sourcetvport"})

gmodserver == ValveServer({"clientport", "sourcetvport"})

hl2dmserver == ValveServer({"clientport", "sourcetvport"})

hldmserver == ValveServer({"clientport"})

hldmsserver == ValveServer({"clientport", "sourcetvport"})

insserver == ValveServer({"clientport", "sourcetvport"})

iosserver == ValveServer({"clientport", "sourcetvport"})

l4d2server == ValveServer({"clientport"})

l4dserver == ValveServer({"clientport"})

ndserver == ValveServer({"clientport", "sourcetvport"})

nmrihserver == ValveServer({"clientport", "sourcetvport"})

nsserver == ValveServer({"clientport"})

opforserver == ValveServer({"clientport"})

pvkiiserver == ValveServer({"clientport", "sourcetvport"})

ricochetserver == ValveServer({"clientport"})

sfcserver == ValveServer({"clientport", "sourcetvport"})

svenserver == ValveServer({"clientport"})

teamfortress2 ==
  [Game(Valve, {"port"}, {}, {}) EXCEPT
     !.gives = @ \cup {"maxplayers", "startmap"}, !.numbers = {},
     !.words = {}, !.needs = @ \cup {"maxplayers", "startmap"},
     !.tells = @ \cup {<<"port", 1>>, <<"port", 5>>},
     !.forced = {"maxplayers", "startmap"}, !.asks = At({"port"})]

tfcserver == ValveServer({"clientport"})

tsserver == ValveServer({"clientport"})

vsserver == ValveServer({"clientport"})

zmrserver == ValveServer({"clientport", "sourcetvport"})

zpsserver == ValveServer({"clientport", "sourcetvport"})

==============================================================================

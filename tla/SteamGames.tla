----------------------------- MODULE SteamGames ------------------------------
(* The games SteamCMD has a Linux server of, A to L (SteamGames2 has the
   others). *)
EXTENDS Games

abfserver == Game(SteamCMD, {"port", "queryport"}, {}, {"world"})

accserver ==
  [Game(SteamCMD, {"port"}, {}, {"configdir", "configfile", "connectionfile",
        "eventfile", "eventrulesfile", "settingsfile"}) EXCEPT
     !.needs = {"configdir", "dir", "exe_name"}, !.tells = {}]

acserver ==
  [Game(SteamCMD, {}, {"httpport", "port"}, {"configfile", "udpport"}) EXCEPT
     !.needs = {"configfile", "dir", "exe_name"},
     !.publishes = {"httpport", "port", "udpport"}]

alienarenaserver ==
  [Game(SteamCMD, {"port"}, {}, {"game", "hostname", "startmap"}) EXCEPT
     !.stop = "runtime"]

argoserver ==
  Game(SteamCMD, {"port"}, {}, {"bindaddress", "configfile", "mod",
       "profilesdir"})

ark ==
  Game(SteamCMD, {"port", "queryport"}, {"maxplayers"}, {"adminpassword",
       "map", "serverpassword", "sessionname"})

arma2coserver ==
  Game(SteamCMD, {"port"}, {}, {"configfile", "mod", "profilesdir", "world"})

arma3altislifeserver ==
  Game(SteamCMD, {"port"}, {}, {"configfile", "mission", "mod", "profilesdir",
       "world"})

arma3desolationreduxserver ==
  Game(SteamCMD, {"port"}, {}, {"configfile", "mission", "mod", "profilesdir",
       "servermod", "world"})

arma3epochserver ==
  Game(SteamCMD, {"port"}, {}, {"configfile", "mod", "profilesdir",
       "servermod", "world"})

arma3exileserver ==
  Game(SteamCMD, {"port"}, {}, {"configfile", "mod", "profilesdir",
       "servermod", "world"})

arma3headlessserver ==
  Game(SteamCMD, {"port"}, {}, {"connect", "mod", "password", "profilesdir"})

arma3server ==
  [Game(SteamCMD, {"port"}, {}, {"configfile", "profilesdir", "servername",
        "world"}) EXCEPT
     !.needs = @ \ {"servername"}]

arma3wastelandserver ==
  Game(SteamCMD, {"port"}, {}, {"configfile", "mission", "mod", "profilesdir",
       "world"})

arma3_altislife == arma3altislifeserver

arma3_desolationredux == arma3desolationreduxserver

arma3_epoch == arma3epochserver

arma3_exile == arma3exileserver

arma3_headless == arma3headlessserver

arma3_vanilla == arma3server

arma3_wasteland == arma3wastelandserver

armarserver ==
  [Game(SteamCMD, {"port", "queryport"}, {"maxplayers"}, {"bindaddress",
        "configfile", "profilesdir", "scenarioid"}) EXCEPT
     !.needs = @ \ {"maxplayers", "queryport", "scenarioid"},
     !.tells = At({"port"}), !.writes = {"queryport"},
     !.asks = At({"queryport"})]

atlasserver ==
  Game(SteamCMD, {"port", "queryport"}, {"maxplayers"}, {"adminpassword",
       "map", "serverpassword", "sessionname"})

atsserver ==
  [Game(SteamCMD, {"port", "queryport"}, {}, {"configdir"}) EXCEPT
     !.needs = @ \ {"configdir"}]

avserver ==
  [Game(SteamCMD, {"port", "queryport", "steammasterport", "steamqueryport"},
        {}, {"administration", "galaxy", "seed", "servername"}) EXCEPT
     !.needs = @ \ {"administration"}, !.asks = At({"steamqueryport"})]

bannerlordserver ==
  Game(SteamCMD, {"port", "queryport"}, {"maxplayers"}, {"game_type",
       "scene"})

battlebitserver == Game(SteamCMD, {"port", "queryport"}, {"maxplayers"}, {})

bobserver ==
  Game(SteamCMD, {"port", "queryport"}, {}, {"password", "servername",
       "worldname"})

boserver ==
  [Game(SteamCMD, {"port"}, {"maxplayers"}, {"hostname", "map"}) EXCEPT
     !.needs = @ \ {"hostname", "maxplayers"}]

brickadiaserver == Game(SteamCMD, {"port", "queryport"}, {}, {"servername"})

brokeprotocolserver == Game(SteamCMD, {"port"}, {"maxplayers"}, {})

btlserver ==
  [Game(SteamCMD, {"port", "queryport"}, {}, {"map"}) EXCEPT
     !.asks = At({"queryport"})]

btserver ==
  [Game(SteamCMD, {"port", "queryport"}, {"maxplayers"}, {"gamemode"}) EXCEPT
     !.needs = @ \ {"maxplayers"}]

chivalryserver ==
  [Game(SteamCMD, {"port"}, {}, {"startmap"}) EXCEPT
     !.needs = @ \ {"port"}, !.tells = {}]

citadelserver ==
  Game(SteamCMD, {"port", "queryport"}, {"maxplayers"}, {"map", "servername"})

ckserver ==
  [Game(SteamCMD, {"port"}, {"maxplayers", "worldindex"}, {"world"}) EXCEPT
     !.asks = At({"port"})]

colserver == Game(SteamCMD, {"port"}, {"maxplayers"}, {"world"})

conanexiles ==
  [Game(SteamCMD, {"port", "queryport"}, {"maxplayers"}, {"map",
        "servername"}) EXCEPT
     !.needs = @ \ {"servername"}]

craftopiaserver ==
  [Game(SteamCMD, {"port", "queryport"}, {"maxplayers"}, {"worldname"}) EXCEPT
     !.needs = {"dir", "exe_name", "port"}, !.tells = At({"port"}),
     !.asks = At({"port"})]

cryofallserver ==
  [Game(SteamCMD, {"port", "queryport"}, {}, {}) EXCEPT
     !.needs = {"dir", "exe_name"}, !.tells = {}]

dayofdragonsserver == Game(SteamCMD, {"port", "queryport"}, {}, {})

dayzarma2epochserver ==
  Game(SteamCMD, {"port"}, {}, {"configfile", "mod", "profilesdir", "world"})

dayzserver ==
  Game(SteamCMD, {"port"}, {}, {"configfile", "cpu_count", "profilesdir"})

deadmatterserver ==
  [Game(SteamCMD, {"port", "queryport"}, {}, {}) EXCEPT
     !.needs = {"dir", "exe_name"}, !.tells = {}, !.asks = At({"queryport"})]

deadpolyserver == Game(SteamCMD, {"port", "queryport"}, {"maxplayers"}, {})

dstserver ==
  [Game(SteamCMD, {"port"}, {}, {"cluster", "confdir", "shard"}) EXCEPT
     !.needs = @ \ {"port"}, !.tells = {}]

ecoserver == Game(SteamCMD, {"port"}, {}, {"storage", "world"})

ets2server ==
  [Game(SteamCMD, {"port", "queryport"}, {}, {"configdir"}) EXCEPT
     !.needs = @ \ {"configdir"}]

exfilserver == Game(SteamCMD, {"port", "queryport"}, {"maxplayers"}, {})

foundryserver == Game(SteamCMD, {"port"}, {}, {"servername", "worldname"})

frozenflameserver ==
  [Game(SteamCMD, {"port", "queryport"}, {}, {}) EXCEPT
     !.asks = At({"queryport"})]

hurtworldserver ==
  Game(SteamCMD, {"port", "queryport"}, {"maxplayers"}, {"worldname"})

hzserver == Game(SteamCMD, {"port", "queryport"}, {}, {"map"})

inssserver ==
  [Game(SteamCMD, {"port", "queryport"}, {"maxplayers"}, {"gslt", "hostname",
        "mapcycle"}) EXCEPT
     !.needs = @ \ {"gslt"}, !.asks = At({"queryport"})]

interstellarriftserver == Game(SteamCMD, {"port"}, {}, {})

jc2server == Game(SteamCMD, {"port"}, {"maxplayers"}, {"gamemode"})

jc3server == Game(SteamCMD, {"port"}, {"maxplayers"}, {"gamemode"})

kf2server ==
  [Game(SteamCMD, {"port", "queryport"}, {}, {"configsubdir", "gametype",
        "startmap"}) EXCEPT
     !.gives = @ \ {"queryport"},
     !.needs = @ \ {"configsubdir", "queryport"}, !.publishes = {"port"}]

kfserver ==
  Game(SteamCMD, {"port"}, {}, {"configfile", "gametype", "startmap"})

lastoasisserver ==
  Game(SteamCMD, {"port", "queryport"}, {"maxplayers"}, {"worldname"})

longvinterserver ==
  [Game(SteamCMD, {"port", "queryport"}, {}, {"maxplayers", "queryport",
        "servername"}) EXCEPT
     !.numbers = {"port"}, !.needs = @ \ {"maxplayers", "servername"},
     !.asks = At({"queryport"})]

==============================================================================

----------------------------- MODULE SteamGames2 -----------------------------
(* The games SteamCMD has a Linux server of, M to Z. *)
EXTENDS Games

memoriesofmarsserver ==
  [Game(SteamCMD, {"port", "queryport"}, {}, {}) EXCEPT
     !.asks = At({"queryport"})]

mordserver ==
  [Game(SteamCMD, {"port", "queryport"}, {}, {"map"}) EXCEPT
     !.asks = At({"port"})]

necserver ==
  [Game(SteamCMD, {"port"}, {"slots"}, {"javapath", "servername", "world"}) EXCEPT
     !.needs = @ \ {"servername"}, !.asks = At({"port"})]

nightingale ==
  [Game(SteamCMD, {"port"}, {}, {"savegame"}) EXCEPT
     !.needs = {"dir", "exe_name"}, !.tells = {}]

ohdserver == Game(SteamCMD, {"port", "queryport"}, {}, {"map"})

palworld ==
  [Game(SteamCMD, {"port", "queryport"}, {"publiclobby"}, {"queryport"}) EXCEPT
     !.numbers = @ \ {"queryport"}, !.needs = @ \ {"publiclobby"},
     !.asks = At({"queryport"})]

pcars2server ==
  [Game(SteamCMD, {"port"}, {}, {"configfile"}) EXCEPT
     !.needs = @ \ {"port"}, !.tells = {}]

pcarserver ==
  [Game(SteamCMD, {"port"}, {}, {"configfile"}) EXCEPT
     !.needs = @ \ {"port"}, !.tells = {}]

police1013server == Game(SteamCMD, {"port", "queryport"}, {"maxplayers"}, {})

projectzomboid ==
  [Game(SteamCMD, {"port", "queryport"}, {}, {"adminpassword", "servername"}) EXCEPT
     !.needs = @ \ {"queryport"}, !.tells = At({"port"}),
     !.asks = At({"queryport"})]

pvrserver ==
  [Game(SteamCMD, {"port", "queryport"}, {}, {"map"}) EXCEPT
     !.asks = At({"queryport"})]

qlserver ==
  [Game(SteamCMD, {"port"}, {}, {"hostname", "servercfg", "startmap"}) EXCEPT
     !.asks = At({"port"}), !.stop = "runtime"]

roserver ==
  Game(SteamCMD, {"port"}, {}, {"configfile", "gametype", "startmap"})

rust ==
  Game(SteamCMD, {"port", "rconport"}, {"maxplayers", "seed", "worldsize"},
       {"hostname", "level"})

rwserver ==
  [Game(SteamCMD, {"port"}, {}, {"javapath", "servername", "world"}) EXCEPT
     !.needs = @ \ {"servername"}]

satisfactory ==
  [Game(SteamCMD, {"port", "queryport"}, {}, {}) EXCEPT
     !.asks = At({"queryport"})]

scpslserver ==
  [Game(SteamCMD, {"port", "queryport"}, {}, {"contactemail"}) EXCEPT
     !.needs = {"dir", "exe_name", "port"}, !.tells = At({"port"}),
     !.asks = At({"queryport"})]

seserver ==
  [Game(SteamCMD, {"port", "queryport"}, {}, {"world"}) EXCEPT
     !.needs = @ \ {"queryport"}, !.tells = At({"port"})]

sevendaystodie ==
  [Game(SteamCMD, {"port"}, {}, {"configfile"}) EXCEPT
     !.needs = @ \ {"port"}]

silicaserver == Game(SteamCMD, {"port", "queryport"}, {"maxplayers"}, {})

smallandserver ==
  [Game(SteamCMD, {"port", "queryport"}, {}, {"servername", "serverpassword",
        "worldname"}) EXCEPT
     !.gives = @ \ {"queryport"},
     !.needs = @ \ {"queryport", "serverpassword"}, !.tells = At({"port"}),
     !.asks = At({"port"})]

solserver ==
  [Game(SteamCMD, {"port"}, {"maxplayers"}, {"hostname"}) EXCEPT
     !.needs = @ \ {"hostname"}]

soulmask ==
  Game(SteamCMD, {"echoport", "port", "queryport"}, {"backupinterval",
       "maxplayers", "savinginterval"}, {"adminpassword", "bindaddress",
       "level", "mods", "servername", "serverpassword"})

squad44server ==
  [Game(SteamCMD, {"port", "queryport"}, {"fixedmaxplayers"}, {}) EXCEPT
     !.asks = At({"queryport"})]

squadserver ==
  [Game(SteamCMD, {"port", "queryport"}, {"fixedmaxplayers"}, {}) EXCEPT
     !.asks = At({"queryport"})]

starbound == Game(SteamCMD, {}, {}, {})

stationeersserver ==
  Game(SteamCMD, {"port", "updateport"}, {"maxplayers", "saveinterval"},
       {"autosave", "savename", "servername", "serverpassword", "upnp",
       "worldname"})

stnserver ==
  [Game(SteamCMD, {"port"}, {}, {"configfile"}) EXCEPT
     !.needs = {"dir", "exe_name"}, !.tells = {}, !.writes = {"port"}]

thefrontserver ==
  [Game(SteamCMD, {"port", "queryport"}, {"maxplayers"}, {"servername",
        "worldname"}) EXCEPT
     !.needs = {"dir", "exe_name", "port", "queryport"}]

tiserver == Game(SteamCMD, {"port", "queryport"}, {}, {"map"})

twserver ==
  [Game(SteamCMD, {"port"}, {}, {"configfile"}) EXCEPT
     !.needs = @ \ {"port"}, !.tells = {}]

unturned ==
  [Game(SteamCMD, {}, {}, {"launchmode", "serverid"}) EXCEPT
     !.gives = @ \cup {"port"}, !.publishes = {"port"}, !.writes = {"port"}]

valheim ==
  [Game(SteamCMD, {"port"}, {}, {"public", "servername", "serverpassword",
        "worldname"}) EXCEPT
     !.asks = {<<"port", 1>>}]

veinserver ==
  [Game(SteamCMD, {"port", "queryport"}, {}, {}) EXCEPT
     !.needs = @ \ {"queryport"}, !.tells = At({"port"})]

vrserver == Game(SteamCMD, {"port", "queryport"}, {}, {})

wfserver ==
  [Game(SteamCMD, {"port"}, {}, {"fs_game", "hostname", "startmap"}) EXCEPT
     !.writes = {"port"}, !.asks = At({"port"}), !.stop = "runtime"]

wreckfestserver ==
  [Game(SteamCMD, {"port"}, {}, {"configfile"}) EXCEPT
     !.needs = @ \ {"port"}, !.tells = {}, !.writes = {"port"}]

wurmserver ==
  [Game(SteamCMD, {"internalport", "port", "queryport", "rmiport"}, {},
        {"servername", "worldname"}) EXCEPT
     !.asks = At({"port"})]

==============================================================================

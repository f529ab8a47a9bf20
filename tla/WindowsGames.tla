---------------------------- MODULE WindowsGames -----------------------------
(* The games whose server exists for Windows only: SteamCMD is told to
   take the Windows depot, and Wine or Proton runs the program. *)
EXTENDS Games

arksurvivalascended ==
  Game(SteamCMD, {"port", "queryport"}, {"maxplayers"}, {"adminpassword",
       "map", "serverpassword", "sessionname"})

askaserver ==
  [Game(SteamCMD, {"port", "queryport"}, {"maxplayers"}, {"displayname",
        "password", "servername"}) EXCEPT
     !.stop = "runtime"]

astroneerserver ==
  [Game(SteamCMD, {"port"}, {}, {"ownername", "publicip", "servername"}) EXCEPT
     !.needs = {"dir", "exe_name"}, !.tells = {}]

battlecryoffreedomserver ==
  [Game(SteamCMD, {"port", "queryport"}, {}, {}) EXCEPT
     !.needs = {"dir", "exe_name"}, !.tells = {}]

blackops3server ==
  [Game(SteamCMD, {"port"}, {"maxplayers"}, {}) EXCEPT
     !.asks = At({"port"})]

blackwakeserver == Game(SteamCMD, {"port", "queryport"}, {"maxplayers"}, {})

darkandlightserver ==
  Game(SteamCMD, {"port", "queryport"}, {"maxplayers"}, {"adminpassword",
       "servername", "serverpassword", "startmap"})

ducksideserver == Game(SteamCMD, {"port", "queryport"}, {}, {})

empyrionserver ==
  [Game(SteamCMD, {"port", "queryport"}, {}, {}) EXCEPT
     !.needs = {"dir", "exe_name"}, !.tells = {}, !.stop = "runtime"]

enshrouded ==
  [Game(SteamCMD, {"port", "queryport"}, {}, {"savegame", "servername"}) EXCEPT
     !.asks = At({"queryport"})]

fearthenightserver ==
  [Game(SteamCMD, {"port"}, {}, {"startmap"}) EXCEPT
     !.needs = @ \ {"port"}, !.tells = {}]

groundbranchserver ==
  Game(SteamCMD, {"port", "queryport"}, {"maxplayers"}, {})

heatserver ==
  Game(SteamCMD, {"port", "queryport"}, {"maxplayers"}, {"startmap"})

hellletlooseserver ==
  [Game(SteamCMD, {"port"}, {}, {"maxplayers", "startmap"}) EXCEPT
     !.needs = @ \ {"maxplayers", "port"}, !.tells = {}]

icarusserver ==
  Game(SteamCMD, {"port", "queryport"}, {}, {"servername", "worldname"})

lifeisfeudalserver ==
  [Game(SteamCMD, {"port", "queryport", "rconport"}, {}, {}) EXCEPT
     !.needs = {"dir", "exe_name"}, !.tells = {}]

medievalengineersserver == Game(SteamCMD, {"port"}, {}, {})

miscreatedserver ==
  [Game(SteamCMD, {"port"}, {"maxplayers"}, {"gameserverid", "servername",
        "startmap"}) EXCEPT
     !.asks = {<<"port", 1>>}]

motortownserver ==
  [Game(SteamCMD, {"port", "queryport"}, {}, {"startmap"}) EXCEPT
     !.asks = At({"queryport"})]

mw3server ==
  Game(SteamCMD, {"port"}, {"maxplayers"}, {"hostname", "startmap"})

mythofempiresserver ==
  [Game(SteamCMD, {"port", "queryport"}, {"maxplayers"}, {"servername"}) EXCEPT
     !.asks = At({"queryport"})]

noonesurvivedserver ==
  Game(SteamCMD, {"port", "queryport"}, {}, {"servername"})

notdserver == Game(SteamCMD, {"port", "queryport"}, {}, {})

outpostzeroserver ==
  [Game(SteamCMD, {"port", "queryport"}, {"maxplayers"}, {"servername"}) EXCEPT
     !.stop = "runtime"]

pixarkserver ==
  [Game(SteamCMD, {"port", "queryport"}, {"maxplayers"}, {"map",
        "servername"}) EXCEPT
     !.needs = @ \ {"servername"}]

primalcarnageextinctionserver ==
  [Game(SteamCMD, {"port", "queryport"}, {}, {}) EXCEPT
     !.needs = {"dir", "exe_name"}, !.tells = {}]

readyornotserver ==
  [Game(SteamCMD, {"port", "queryport"}, {"maxplayers"}, {}) EXCEPT
     !.asks = At({"queryport"})]

reignofdwarfserver ==
  Game(SteamCMD, {"port", "queryport"}, {"maxplayers"}, {})

reignofkingsserver ==
  [Game(SteamCMD, {"port", "queryport"}, {"maxplayers"}, {"worldname"}) EXCEPT
     !.stop = "runtime"]

remnantsserver ==
  [Game(SteamCMD, {"port", "queryport", "rconport"}, {}, {}) EXCEPT
     !.needs = @ \ {"rconport"}, !.tells = @ \ At({"rconport"})]

returntomoriaserver ==
  [Game(SteamCMD, {"advertiseport", "port"}, {}, {}) EXCEPT
     !.needs = {"dir", "exe_name"}, !.tells = {}]

ror2server == Game(SteamCMD, {"port", "steamport"}, {}, {})

rs2server ==
  [Game(SteamCMD, {"port", "queryport"}, {}, {"configfile"}) EXCEPT
     !.needs = @ \ {"configfile"}]

saleblazersserver ==
  [Game(SteamCMD, {"port", "queryport"}, {}, {}) EXCEPT
     !.needs = {"dir", "exe_name"}, !.tells = {}]

scumserver ==
  [Game(SteamCMD, {"port", "queryport", "rawudpport"}, {"maxplayers"}, {}) EXCEPT
     !.needs = @ \ {"rawudpport"}, !.tells = @ \ At({"rawudpport"}),
     !.asks = At({"queryport"})]

sniperelite4server ==
  Game(SteamCMD, {"port", "queryport"}, {"maxplayers"}, {})

sonsoftheforestserver ==
  [Game(SteamCMD, {"port", "queryport"}, {}, {}) EXCEPT
     !.needs = {"dir", "exe_name"}, !.tells = {}]

starruptureserver == Game(SteamCMD, {"port"}, {}, {})

staxelserver ==
  [Game(SteamCMD, {"port"}, {}, {}) EXCEPT
     !.needs = @ \ {"port"}, !.tells = {}, !.stop = "refused"]

stormworksserver ==
  [Game(SteamCMD, {"port", "queryport"}, {}, {"configfile"}) EXCEPT
     !.needs = {"dir", "exe_name"}, !.tells = {}]

subsistenceserver ==
  [Game(SteamCMD, {"port", "queryport"}, {"maxplayers"}, {}) EXCEPT
     !.needs = {"dir", "exe_name"}]

sunkenlandserver == Game(SteamCMD, {"port", "queryport"}, {}, {"servername"})

terratechworldsserver ==
  [Game(SteamCMD, {"port"}, {}, {}) EXCEPT
     !.needs = @ \ {"port"}, !.tells = {}]

theforestserver ==
  [Game(SteamCMD, {"port", "queryport"}, {}, {}) EXCEPT
     !.needs = {"dir", "exe_name"}, !.tells = {}]

==============================================================================

---------------------------- MODULE ArchiveGames -----------------------------
(* The games whose files are an archive to download, or are put in place by
   the user. *)
EXTENDS Games

aloftserver ==
  Game(Manual, {"port"}, {"playercount"}, {"mapname", "privateislands",
       "servername", "visible"})

bf1942server ==
  [Game(Archive, {"port"}, {}, {"download_name", "hostname", "startmap",
        "url"}) EXCEPT
     !.needs = {"dir", "exe_name", "port", "startmap"}]

bfvserver ==
  [Game(Archive, {"port"}, {}, {"download_name", "hostname", "startmap",
        "url"}) EXCEPT
     !.needs = {"dir", "exe_name", "port", "startmap"}]

cod2server ==
  [Game(Archive, {"port"}, {}, {"download_name", "hostname", "moddir",
        "startmap", "url"}) EXCEPT
     !.needs = @ \ {"download_name", "url"}]

cod4server ==
  [Game(Archive, {"port"}, {}, {"download_name", "hostname", "moddir",
        "startmap", "url"}) EXCEPT
     !.needs = @ \ {"download_name", "url"}]

codserver ==
  [Game(Archive, {"port"}, {}, {"download_name", "hostname", "moddir",
        "startmap", "url"}) EXCEPT
     !.needs = @ \ {"download_name", "url"}]

coduoserver ==
  [Game(Archive, {"port"}, {}, {"download_name", "hostname", "moddir",
        "startmap", "url"}) EXCEPT
     !.needs = @ \ {"download_name", "url"}]

codwawserver ==
  [Game(Archive, {"port"}, {}, {"download_name", "hostname", "moddir",
        "startmap", "url"}) EXCEPT
     !.needs = @ \ {"download_name", "url"}]

etlegacyserver ==
  [Game(Archive, {"port"}, {}, {"configfile", "download_name", "fs_game",
        "hostname", "url", "version"}) EXCEPT
     !.needs = @ \ {"download_name", "url", "version"},
     !.asks = At({"port"}), !.stop = "runtime"]

goldeneyesourceserver ==
  [Game(Archive, {"port"}, {"maxplayers"}, {"download_name", "game",
        "startmap", "url", "version"}) EXCEPT
     !.needs = @ \ {"download_name", "url", "version"}]

gravserver ==
  Game(Manual, {"peerport", "port", "queryport"}, {"maxplayers"},
       {"adminpassword", "servername"})

gtafivemserver ==
  [Game(Archive, {"port"}, {}, {"download_name", "url", "version"}) EXCEPT
     !.needs = {"dir", "exe_name", "port"}]

hogwarpserver ==
  [Game(Archive, {"port"}, {}, {"download_name", "url"}) EXCEPT
     !.gives = @ \ {"url"}, !.needs = {"dir", "exe_name", "port"}]

identityserver ==
  [Game(Archive, {"port"}, {}, {"download_name", "url"}) EXCEPT
     !.gives = @ \ {"url"}, !.needs = {"dir", "exe_name", "port"}]

jk2server ==
  [Game(Archive, {"port"}, {}, {"download_name", "fs_game", "hostname",
        "startmap", "url"}) EXCEPT
     !.needs = @ \ {"download_name", "url"}, !.stop = "runtime"]

kerbalspaceprogramserver ==
  [Game(Archive, {"port"}, {}, {"download_name", "servername", "url",
        "version"}) EXCEPT
     !.needs = {"dir", "exe_name", "port"}]

minecraft_bedrock ==
  [Game(Archive, {"port"}, {"maxplayers"}, {"difficulty", "gamemode",
        "levelname", "servername", "url", "version"}) EXCEPT
     !.gives = @ \cup {"download_name"}, !.needs = {"dir", "exe_name"},
     !.tells = {}, !.forced = {"download_name", "url", "version"},
     !.writes = {"port"}]

minecraft_bungeecord ==
  [Game(Manual, {}, {}, {}) EXCEPT
     !.gives = @ \cup {"port"}, !.words = {}, !.publishes = {"port"},
     !.writes = {"port"}, !.asks = At({"port"}), !.stop = "runtime"]

minecraft_custom ==
  [Game(Manual, {"port"}, {}, {"javapath"}) EXCEPT
     !.gives = @ \ {"javapath"}, !.numbers = {}, !.words = @ \ {"dir"},
     !.needs = @ \ {"javapath"}, !.writes = {"port"}, !.asks = At({"port"}),
     !.stop = "runtime"]

minecraft_paper ==
  [Game(Archive, {"port"}, {}, {}) EXCEPT
     !.gives = @ \cup {"download_name", "url", "version"}, !.numbers = {},
     !.words = @ \ {"dir"}, !.forced = {"download_name", "url", "version"},
     !.writes = {"port"}, !.asks = At({"port"}), !.stop = "runtime"]

minecraft_vanilla ==
  [Game(Archive, {"port"}, {}, {}) EXCEPT
     !.gives = @ \cup {"download_name", "url", "version"}, !.numbers = {},
     !.words = @ \ {"dir"}, !.forced = {"download_name"},
     !.writes = {"port"}, !.asks = At({"port"}), !.stop = "runtime"]

minecraft_velocity ==
  [Game(Archive, {}, {}, {}) EXCEPT
     !.gives = @ \cup {"download_name", "port", "url", "version"},
     !.words = {}, !.publishes = {"port"},
     !.forced = {"download_name", "url", "version"}, !.writes = {"port"},
     !.asks = At({"port"}), !.stop = "runtime"]

minecraft_waterfall ==
  [Game(Archive, {}, {}, {}) EXCEPT
     !.gives = @ \cup {"download_name", "port", "url", "version"},
     !.words = {}, !.publishes = {"port"},
     !.forced = {"download_name", "url", "version"}, !.writes = {"port"},
     !.asks = At({"port"}), !.stop = "runtime"]

mtaserver ==
  [Game(Archive, {"port"}, {}, {"download_name", "url", "version"}) EXCEPT
     !.needs = {"dir", "exe_name", "port"}]

mumbleserver ==
  [Game(Manual, {"port"}, {}, {"database", "serverpassword", "users",
        "welcometext"}) EXCEPT
     !.needs = {"dir", "exe_name"}, !.tells = {}, !.writes = {"port"},
     !.stop = "runtime"]

mxbikesserver ==
  [Game(Archive, {"port"}, {}, {"download_name", "url"}) EXCEPT
     !.gives = @ \ {"url"}, !.needs = {"dir", "exe_name", "port"}]

pathoftitansserver ==
  [Game(Archive, {"port"}, {}, {"auth_token", "beta_branch", "database",
        "download_name", "maxplayers", "server_guid", "server_name",
        "startmap", "url", "version"}) EXCEPT
     !.gives = @ \ {"auth_token", "url", "version"},
     !.needs = {"dir", "exe_name", "maxplayers", "port", "server_guid",
         "server_name"}]

q2server ==
  [Game(Archive, {"port"}, {}, {"download_mode", "download_name", "gamedir",
        "hostname", "startmap", "url", "version"}) EXCEPT
     !.needs = @ \ {"download_mode", "download_name", "url", "version"},
     !.asks = At({"port"}), !.stop = "runtime"]

q3server ==
  [Game(Archive, {"port"}, {}, {"download_name", "fs_game", "hostname",
        "startmap", "url", "version"}) EXCEPT
     !.needs = @ \ {"download_name", "url", "version"},
     !.asks = At({"port"}), !.stop = "runtime"]

q4server ==
  [Game(Archive, {"port"}, {}, {"download_name", "fs_game", "hostname",
        "startmap", "url"}) EXCEPT
     !.needs = @ \ {"download_name", "url"}, !.asks = At({"port"}),
     !.stop = "runtime"]

qwserver ==
  [Game(Archive, {"port"}, {}, {"download_name", "hostname", "startmap",
        "url", "version"}) EXCEPT
     !.needs = @ \ {"download_name", "url", "version"},
     !.asks = At({"port"}), !.stop = "runtime"]

redmserver ==
  [Game(Archive, {"port"}, {}, {"download_name", "url", "version"}) EXCEPT
     !.needs = {"dir", "exe_name", "port"}]

rimworldtogetherserver ==
  [Game(Archive, {"port"}, {}, {"download_name", "url", "version"}) EXCEPT
     !.needs = {"dir", "exe_name", "port"}, !.writes = {"port"},
     !.asks = At({"port"})]

rtcwserver ==
  [Game(Archive, {"port"}, {}, {"download_name", "fs_game", "hostname",
        "startmap", "url", "version"}) EXCEPT
     !.needs = @ \ {"download_name", "url", "version"}, !.stop = "runtime"]

sampserver ==
  [Game(Archive, {"port"}, {}, {"download_name", "url"}) EXCEPT
     !.needs = {"dir", "exe_name"}, !.tells = {}]

skyrimtogetherrebornserver ==
  [Game(Archive, {"port"}, {}, {"download_name", "url", "version"}) EXCEPT
     !.needs = {"dir", "exe_name", "port"}]

ss14server ==
  [Game(Archive, {"port"}, {}, {"download_name", "url", "version"}) EXCEPT
     !.needs = {"dir", "exe_name"}, !.tells = {}]

subnauticaserver ==
  [Game(Archive, {"port"}, {}, {"download_name", "url", "version"}) EXCEPT
     !.needs = {"dir", "exe_name", "port"}]

terraria_tshock ==
  [Game(Archive, {"port"}, {"maxplayers", "worldsize"}, {"dotnetpath",
        "serverpassword", "url", "version", "world", "worldname"}) EXCEPT
     !.gives = @ \cup {"download_name"},
     !.needs = {"dir", "exe_name", "port"},
     !.forced = {"download_name", "url", "version"}]

terraria_vanilla ==
  [Game(Archive, {"port"}, {"maxplayers", "worldsize"}, {"serverpassword",
        "url", "version", "world", "worldname"}) EXCEPT
     !.gives = @ \cup {"download_name"},
     !.needs = {"dir", "exe_name", "maxplayers", "port", "world"},
     !.forced = {"download_name", "url", "version"}]

trackmaniaserver ==
  [Game(Archive, {"port"}, {}, {"dedicated_cfg", "download_name",
        "game_settings", "url"}) EXCEPT
     !.needs = @ \ {"download_name", "port", "url"}, !.tells = {}]

ts3server ==
  [Game(Archive, {"filetransferport", "port", "queryport"},
        {"license_accepted"}, {"url", "version"}) EXCEPT
     !.gives = @ \cup {"download_name"},
     !.needs = @ \ {"license_accepted", "url", "version"},
     !.forced = {"download_name", "url", "version"},
     !.asks = At({"queryport"}), !.stop = "runtime"]

ut2k4server ==
  [Game(Archive, {"port"}, {}, {"configfile", "download_mode",
        "download_name", "gametype", "maxplayers", "startmap", "url"}) EXCEPT
     !.needs = @ \ {"download_mode", "download_name", "url"}]

ut99server ==
  [Game(Archive, {"port"}, {}, {"configfile", "download_mode",
        "download_name", "gametype", "maxplayers", "startmap", "url"}) EXCEPT
     !.needs = @ \ {"download_mode", "download_name", "url"},
     !.asks = At({"port"})]

vintagestoryserver ==
  [Game(Archive, {"port"}, {}, {"download_name", "servername", "url",
        "version", "worldname"}) EXCEPT
     !.gives = @ \ {"url", "version"}, !.needs = {"dir", "exe_name"},
     !.tells = {}]

warbandserver ==
  [Game(Archive, {"port"}, {"maxplayers"}, {"download_name", "url",
        "version"}) EXCEPT
     !.needs = @ \ {"download_name", "url", "version"}]

xntserver ==
  [Game(Archive, {"port"}, {}, {"download_name", "gametype", "hostname",
        "url", "userdir", "version"}) EXCEPT
     !.needs = @ \ {"download_name", "url", "version"},
     !.asks = At({"port"})]

==============================================================================

----------------------------- MODULE MCGameServer -----------------------------
(* Every game module shipped, each with its server. *)
EXTENDS GameServer, AllGames

\* configure takes what the resolver of the downloads says at every setup.
ResolvingGames == {"ts3server", "terraria_tshock", "terraria_vanilla", "minecraft_bedrock"}

\* +tv_port of a server whose module has no sourcetvport, once the user set one.
WithoutSourceTV ==
  {"ahlserver", "bbserver", "bdserver", "csczserver", "csserver", "dmcserver",
   "dodserver", "hldmserver", "l4d2server", "l4dserver", "nsserver",
   "opforserver", "ricochetserver", "svenserver", "tfcserver", "tsserver",
   "vsserver"}
UnpublishedEndpoints ==
  (WithoutSourceTV \X {<<"sourcetvport", 0>>})
    \cup {<<"kf2server", <<"queryport", 0>>>>, <<"miscreatedserver", <<"port", 1>>>>,
          <<"valheim", <<"port", 1>>>>, <<"teamfortress2", <<"port", 1>>>>,
          <<"teamfortress2", <<"port", 5>>>>}
=============================================================================

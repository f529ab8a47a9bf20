------------------------------- MODULE AllGames -------------------------------
(* The game modules AlphaGSM ships, by name (a dot in the name is written _). *)
EXTENDS ValveGames, WindowsGames, SteamGames, SteamGames2, ArchiveGames

Shipped ==
  [abfserver |-> abfserver, accserver |-> accserver, acserver |-> acserver,
   ahl2server |-> ahl2server, ahlserver |-> ahlserver, alienarenaserver |->
   alienarenaserver, aloftserver |-> aloftserver, argoserver |-> argoserver,
   ark |-> ark, arksurvivalascended |-> arksurvivalascended, arma2coserver
   |-> arma2coserver, arma3_altislife |-> arma3_altislife,
   arma3_desolationredux |-> arma3_desolationredux, arma3_epoch |->
   arma3_epoch, arma3_exile |-> arma3_exile, arma3_headless |->
   arma3_headless, arma3_vanilla |-> arma3_vanilla, arma3_wasteland |->
   arma3_wasteland, arma3altislifeserver |-> arma3altislifeserver,
   arma3desolationreduxserver |-> arma3desolationreduxserver,
   arma3epochserver |-> arma3epochserver, arma3exileserver |->
   arma3exileserver, arma3headlessserver |-> arma3headlessserver,
   arma3server |-> arma3server, arma3wastelandserver |->
   arma3wastelandserver, armarserver |-> armarserver, askaserver |->
   askaserver, astroneerserver |-> astroneerserver, atlasserver |->
   atlasserver, atsserver |-> atsserver, avserver |-> avserver,
   bannerlordserver |-> bannerlordserver, battlebitserver |->
   battlebitserver, battlecryoffreedomserver |-> battlecryoffreedomserver,
   bb2server |-> bb2server, bbserver |-> bbserver, bdserver |-> bdserver,
   bf1942server |-> bf1942server, bfvserver |-> bfvserver, blackops3server
   |-> blackops3server, blackwakeserver |-> blackwakeserver, bmdmserver |->
   bmdmserver, bobserver |-> bobserver, boserver |-> boserver,
   brickadiaserver |-> brickadiaserver, brokeprotocolserver |->
   brokeprotocolserver, bsserver |-> bsserver, btlserver |-> btlserver,
   btserver |-> btserver, ccserver |-> ccserver, chivalryserver |->
   chivalryserver, citadelserver |-> citadelserver, ckserver |-> ckserver,
   cod2server |-> cod2server, cod4server |-> cod4server, codserver |->
   codserver, coduoserver |-> coduoserver, codwawserver |-> codwawserver,
   colserver |-> colserver, conanexiles |-> conanexiles, counterstrike2 |->
   counterstrike2, counterstrikeglobaloffensive |->
   counterstrikeglobaloffensive, craftopiaserver |-> craftopiaserver,
   cryofallserver |-> cryofallserver, csczserver |-> csczserver, csserver
   |-> csserver, cssserver |-> cssserver, dabserver |-> dabserver,
   darkandlightserver |-> darkandlightserver, dayofdragonsserver |->
   dayofdragonsserver, dayzarma2epochserver |-> dayzarma2epochserver,
   dayzserver |-> dayzserver, deadmatterserver |-> deadmatterserver,
   deadpolyserver |-> deadpolyserver, dmcserver |-> dmcserver, dodserver |->
   dodserver, dodsserver |-> dodsserver, doiserver |-> doiserver, dstserver
   |-> dstserver, ducksideserver |-> ducksideserver, dysserver |->
   dysserver, ecoserver |-> ecoserver, empyrionserver |-> empyrionserver,
   emserver |-> emserver, enshrouded |-> enshrouded, etlegacyserver |->
   etlegacyserver, ets2server |-> ets2server, exfilserver |-> exfilserver,
   fearthenightserver |-> fearthenightserver, fofserver |-> fofserver,
   foundryserver |-> foundryserver, frozenflameserver |-> frozenflameserver,
   gmodserver |-> gmodserver, goldeneyesourceserver |->
   goldeneyesourceserver, gravserver |-> gravserver, groundbranchserver |->
   groundbranchserver, gtafivemserver |-> gtafivemserver, heatserver |->
   heatserver, hellletlooseserver |-> hellletlooseserver, hl2dmserver |->
   hl2dmserver, hldmserver |-> hldmserver, hldmsserver |-> hldmsserver,
   hogwarpserver |-> hogwarpserver, hurtworldserver |-> hurtworldserver,
   hzserver |-> hzserver, icarusserver |-> icarusserver, identityserver |->
   identityserver, insserver |-> insserver, inssserver |-> inssserver,
   interstellarriftserver |-> interstellarriftserver, iosserver |->
   iosserver, jc2server |-> jc2server, jc3server |-> jc3server, jk2server
   |-> jk2server, kerbalspaceprogramserver |-> kerbalspaceprogramserver,
   kf2server |-> kf2server, kfserver |-> kfserver, l4d2server |->
   l4d2server, l4dserver |-> l4dserver, lastoasisserver |-> lastoasisserver,
   lifeisfeudalserver |-> lifeisfeudalserver, longvinterserver |->
   longvinterserver, medievalengineersserver |-> medievalengineersserver,
   memoriesofmarsserver |-> memoriesofmarsserver, minecraft_bedrock |->
   minecraft_bedrock, minecraft_bungeecord |-> minecraft_bungeecord,
   minecraft_custom |-> minecraft_custom, minecraft_paper |->
   minecraft_paper, minecraft_vanilla |-> minecraft_vanilla,
   minecraft_velocity |-> minecraft_velocity, minecraft_waterfall |->
   minecraft_waterfall, miscreatedserver |-> miscreatedserver, mordserver
   |-> mordserver, motortownserver |-> motortownserver, mtaserver |->
   mtaserver, mumbleserver |-> mumbleserver, mw3server |-> mw3server,
   mxbikesserver |-> mxbikesserver, mythofempiresserver |->
   mythofempiresserver, ndserver |-> ndserver, necserver |-> necserver,
   nightingale |-> nightingale, nmrihserver |-> nmrihserver,
   noonesurvivedserver |-> noonesurvivedserver, notdserver |-> notdserver,
   nsserver |-> nsserver, ohdserver |-> ohdserver, opforserver |->
   opforserver, outpostzeroserver |-> outpostzeroserver, palworld |->
   palworld, pathoftitansserver |-> pathoftitansserver, pcars2server |->
   pcars2server, pcarserver |-> pcarserver, pixarkserver |-> pixarkserver,
   police1013server |-> police1013server, primalcarnageextinctionserver |->
   primalcarnageextinctionserver, projectzomboid |-> projectzomboid,
   pvkiiserver |-> pvkiiserver, pvrserver |-> pvrserver, q2server |->
   q2server, q3server |-> q3server, q4server |-> q4server, qlserver |->
   qlserver, qwserver |-> qwserver, readyornotserver |-> readyornotserver,
   redmserver |-> redmserver, reignofdwarfserver |-> reignofdwarfserver,
   reignofkingsserver |-> reignofkingsserver, remnantsserver |->
   remnantsserver, returntomoriaserver |-> returntomoriaserver,
   ricochetserver |-> ricochetserver, rimworldtogetherserver |->
   rimworldtogetherserver, ror2server |-> ror2server, roserver |-> roserver,
   rs2server |-> rs2server, rtcwserver |-> rtcwserver, rust |-> rust,
   rwserver |-> rwserver, saleblazersserver |-> saleblazersserver,
   sampserver |-> sampserver, satisfactory |-> satisfactory, scpslserver |->
   scpslserver, scumserver |-> scumserver, seserver |-> seserver,
   sevendaystodie |-> sevendaystodie, sfcserver |-> sfcserver, silicaserver
   |-> silicaserver, skyrimtogetherrebornserver |->
   skyrimtogetherrebornserver, smallandserver |-> smallandserver,
   sniperelite4server |-> sniperelite4server, solserver |-> solserver,
   sonsoftheforestserver |-> sonsoftheforestserver, soulmask |-> soulmask,
   squad44server |-> squad44server, squadserver |-> squadserver, ss14server
   |-> ss14server, starbound |-> starbound, starruptureserver |->
   starruptureserver, stationeersserver |-> stationeersserver, staxelserver
   |-> staxelserver, stnserver |-> stnserver, stormworksserver |->
   stormworksserver, subnauticaserver |-> subnauticaserver,
   subsistenceserver |-> subsistenceserver, sunkenlandserver |->
   sunkenlandserver, svenserver |-> svenserver, teamfortress2 |->
   teamfortress2, terraria_tshock |-> terraria_tshock, terraria_vanilla |->
   terraria_vanilla, terratechworldsserver |-> terratechworldsserver,
   tfcserver |-> tfcserver, theforestserver |-> theforestserver,
   thefrontserver |-> thefrontserver, tiserver |-> tiserver,
   trackmaniaserver |-> trackmaniaserver, ts3server |-> ts3server, tsserver
   |-> tsserver, twserver |-> twserver, unturned |-> unturned, ut2k4server
   |-> ut2k4server, ut99server |-> ut99server, valheim |-> valheim,
   veinserver |-> veinserver, vintagestoryserver |-> vintagestoryserver,
   vrserver |-> vrserver, vsserver |-> vsserver, warbandserver |->
   warbandserver, wfserver |-> wfserver, wreckfestserver |->
   wreckfestserver, wurmserver |-> wurmserver, xntserver |-> xntserver,
   zmrserver |-> zmrserver, zpsserver |-> zpsserver]
===============================================================================

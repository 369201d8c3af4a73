-------------------------------- MODULE MCParts --------------------------------
(* Parts that share no state, each in a scenario of its own: one datagram of each   *)
(* kind, cut anywhere and received by anybody; a stream of frames in pieces of any *)
(* size; names with color codes; a list of servers from the options of the user to *)
(* what is shown; the configuration and its reloads; two administrators.           *)
EXTENDS Listing, BrokerStream, ColoredText, Configuration, AdminTool

CONSTANTS t1, t2

B2 == <<Byte(1), Byte(0)>>
B4 == <<Byte(4), Byte(3), Byte(2), Byte(1)>>
B8 == B4 \o Zeros(4)
A1 == <<Byte(10), Byte(0), Byte(0), Byte(1), Byte(105), Byte(135)>>
A2 == <<Byte(10), Byte(0), Byte(0), Byte(2), Byte(105), Byte(0)>>

MCAddresses == {"a1", "a2"}

Add ==
    [DefaultAdd EXCEPT !.gamedir = <<"valve">>, !.map = <<"cross", "fire">>,
     !.version = Version(0, 21, 1), !.challenge = 57, !.type = "Dedicated", !.os = "Linux",
     !.protocol = 49, !.players = 16, !.max = 32, !.bots = 12, !.region = 7,
     !.flags = {"BOTS", "PASSWORD", "NAT"}]

Info ==
    [DefaultInfo EXCEPT !.p = 49, !.map = <<"cross", "fire">>, !.numcl = 16, !.maxcl = 32,
     !.gamedir = <<"valve">>, !.host = <<"a", ":", "\n">>, !.coop = TRUE]

Info2 ==
    [protocol |-> Byte(49), host |-> <<"a", "^", "1">>, map |-> <<"cross">>, gamedir |-> <<>>,
     game |-> <<"half", "life">>, app_id |-> B2 \o Zeros(6), players |-> 2,
     max_players |-> Byte(4), bots |-> 1, ty |-> "Proxy", os |-> "Mac", password |-> TRUE,
     secure |-> FALSE, version |-> <<"1">>, extra |-> [f \in {} |-> <<>>]]

Info2Full ==
    [Info2 EXCEPT !.app_id = B8, !.ty = "Unknown",
     !.extra = [port |-> B2, steam_id |-> B8, tv_port |-> B2, tv_name |-> <<"tv">>,
                keywords |-> <<"k">>]]

Info2Old ==
    [address |-> <<"a1">>, host |-> <<"a">>, map |-> <<"cross">>, gamedir |-> <<"valve">>,
     game |-> <<>>, players |-> Byte(1), max_players |-> Byte(2), protocol |-> Byte(49),
     ty |-> "Local", os |-> "Windows", password |-> FALSE, has_mod |-> FALSE,
     mod |-> [f \in {} |-> <<>>], secure |-> TRUE, bots |-> Byte(0)]

Info2Mod ==
    [Info2Old EXCEPT !.has_mod = TRUE,
     !.mod = [link |-> <<"x">>, download_link |-> <<>>, zero |-> Nul, version |-> B4,
              size |-> B4, multiplayer_only |-> TRUE, custom_dll |-> FALSE]]

Player(id, name) == [id |-> Byte(id), name |-> name, frags |-> B4, time |-> B4]

Wanted ==
    [fields |-> [gamedir |-> <<"valve">>, clver |-> Version(0, 21, 0), key |-> 31, buildnum |-> 4000],
     flags |-> {"NAT", "SECURE"}, mask |-> {"NAT", "SECURE", "FULL", "BOTS"}]

Query(filter) == [region |-> 255, last |-> <<"0.0.0.0:0">>, filter |-> filter]

Letter(by, kind, body) == [by |-> by, kind |-> kind, body |-> body, size |-> 100]

MCMail ==
    {Letter("server", "Challenge", b) : b \in {<<>>, B4}}
    \cup {Letter("server", "ServerAdd", Add), Letter("server", "ServerRemove", <<>>),
          Letter("server", "GetServerInfoResponse", Info),
          Letter("server", "GetChallengeResponse", B4),
          [Letter("server", "GetServerInfo2Response", Info2Full) EXCEPT !.size = 30]}
    \cup {Letter("server", "GetServerInfo2Response", b) : b \in {Info2, Info2Full}}
    \cup {Letter("server", "GetServerInfo2ResponseOld", b) : b \in {Info2Old, Info2Mod}}
    \cup {Letter("server", "GetPlayersResponse", [players |-> p]) :
              p \in {<<>>, <<Player(1, <<"a">>), Player(2, <<"^", "2", "b">>)>>}}
    \cup {Letter("client", "QueryServers", Query(f)) : f \in {EmptyFilter, Wanted}}
    \cup {Letter("client", "GetChallenge", <<>>), Letter("client", "GetServerInfo", 49)}
    \cup {Letter("client", "GetServerInfo2", b) : b \in {<<>>, B4, OutOfBand}}
    \cup {Letter("client", "GetPlayers", B4)}
    \cup {Letter("admin", "AdminChallenge", <<>>),
          Letter("admin", "AdminCommand",
                 [master_challenge |-> B4, hash |-> B2, command |-> <<"ban", " ", "a">>])}
    \cup {Letter("master", "ChallengeResponse",
                 [master_challenge |-> B4, server_challenge |-> c]) : c \in {<<>>, B4}}
    \cup {Letter("master", "ClientAnnounce", "a1"),
          Letter("master", "AdminChallengeResponse",
                 [master_challenge |-> B4, hash_challenge |-> OutOfBand])}
    \cup {[Letter("master", "QueryServersResponse", [key |-> k, list |-> l]) EXCEPT !.size = 26] :
              k \in {<<>>, B4}, l \in {<<>>, <<A2, A1>>, <<A1, A2, A1>>}}
    \cup {Letter("game", "Gamedir", << <<"valve">> >>), Letter("game", "Terminate", <<>>),
          Letter("game", "Connect", <<"a1", 31, TRUE, 105>>),
          Letter("game", "Disconnect", <<"a2", 7>>),
          Letter("broker", "ConnectResponse",
                 [challenge |-> B4, client_steam_id |-> B8, ticket |-> <<"x", Nul, "y">>])}

MCPayloads ==
    << ShowCommand("Gamedir", << <<"valve">> >>), <<>>,
       ShowConnectResponse([challenge |-> B4, client_steam_id |-> B8, ticket |-> B2]) >>

-----------------------------------------------------------------------------
(* Five servers, two of them behind NAT, one of another region and one of the old  *)
(* protocol.  Two addresses fit a datagram.                                        *)

Address(n) == <<Byte(10), Byte(0), Byte(0), Byte(n), Byte(105), Byte(135)>>

Server(gamedir, map, protocol, flags, players) ==
    [Add EXCEPT !.gamedir = gamedir, !.map = map, !.protocol = protocol, !.flags = flags,
                !.players = players, !.bots = 0, !.region = 255]

MCGameServers ==
    (Address(1) :> Server(<<"valve">>, <<"crossfire">>, 49, {}, 0)
     @@ Address(2) :> Server(<<"valve">>, <<"boot", "camp">>, 49, {"NAT"}, 32)
     @@ Address(3) :> Server(<<"cstrike">>, <<"crossfire">>, 48, {"NAT", "SECURE"}, 40)
     @@ Address(4) :> Server(<<"cstrike">>, <<"crossfire">>, 49, {"PASSWORD"}, 31)
     @@ Address(5) :> [Server(<<"valve">>, <<"crossfire">>, 48, {}, 0) EXCEPT !.region = 3])

MCUpdateAddr == Address(9)
MCQueryKey == 161
MCMinVersion == Version(0, 19, 0)

ListOf(key, addr) == ListHead(key) \o addr \o Zeros(6)
MCStrayLists == {ListOf(<<>>, Address(6)), ListOf(LittleEndian(4, 162), Address(6))}

v19 == <<"0", ".", "1", "9">>
v21 == <<"0", ".", "2", "1">>
Text(w) == <<w>>
None == [o \in {} |-> <<>>]
Tool(given, raw) == [by |-> "tool", given |-> given, raw |-> raw]
Library(given, raw) == [by |-> "library", given |-> given, raw |-> raw]

MCAsks ==
    {Tool(None, raw) :
        raw \in {<<>>, <<Pair("nat", <<"1">>)>>, <<Pair("nat", <<"2">>)>>,
                 <<Pair("full", <<"0">>), Pair("nat", <<"1">>), Pair("nat", <<"0">>)>>,
                 <<Pair("clver", v19)>>, <<Pair("buildnum", <<"3", "9">>)>>,
                 <<Pair("key", <<"f">>), Pair("color", <<"red">>)>>}}
    \cup {Tool(given, <<>>) :
        given \in {[gamedir |-> Text("valve")], [map |-> Text("crossfire")],
                   [clver |-> v19, map |-> Text("none")], [clver |-> Text("none")],
                   [buildnum |-> Text("none"), gamedir |-> Text("all")],
                   [clver |-> Text("new")], [log |-> Text("loud")],
                   [protocol |-> <<"4", "9", ",", "4">>, masters |-> <<"a", ",", "b", ":", "1">>,
                    log |-> Text("w"), server_timeout |-> <<"9">>],
                   [help |-> <<>>]}}
    \cup {Tool([gamedir |-> Text("cstrike")], <<Pair("gamedir", Text("valve"))>>)}
    \cup {Library(given, raw) :
        given \in {None, [clver |-> v21, buildnum |-> <<"4", "0", "0", "0">>],
                   [clver |-> v21, buildnum |-> <<"4", "0", "0", "1">>, nat |-> <<"1">>,
                    gamedir |-> Text("cstrike")]},
        raw \in {<<>>, <<Pair("gamedir", Text("valve"))>>}}

\* What the help says is the default.
MCAllMaps == {Tool([map |-> Text("all")], <<>>)}

-----------------------------------------------------------------------------
MCDefaultFile ==
    [level |-> "warn", ip |-> "any", port |-> 1, format |-> "short", interval |-> 0, rest |-> "d"]

MCFiles ==
    {[MCDefaultFile EXCEPT !.rest = "e"],
     [MCDefaultFile EXCEPT !.level = "debug", !.port = 2, !.interval = 5, !.rest = "f"],
     [MCDefaultFile EXCEPT !.ip = "six", !.format = "long", !.rest = "g"]}

MCCommandLines ==
    {None, [level |-> "off", port |-> 3], [ip |-> "any", format |-> "short", interval |-> 9]}

\* Characters of the password; the first is all of the right one.
MCRightPassword == <<"a">>

-----------------------------------------------------------------------------
VARIABLE part

codecVars == <<datagramVars, streamVars, text, listingVars>>
partVars == <<codecVars, configVars, adminToolVars, part>>

MCInit ==
    /\ part \in {"datagrams", "stream", "text", "listing", "configuration", "admin"}
    /\ DatagramInit /\ StreamInit /\ TextInit /\ ListingInit /\ ConfigInit /\ AdminToolInit
    /\ part # "configuration" => options = None /\ hasFile /\ file = Broken

MCNext ==
    /\ \/ part = "datagrams" /\ DatagramNext
            /\ UNCHANGED <<streamVars, text, listingVars, configVars, adminToolVars>>
       \/ part = "stream" /\ StreamNext
            /\ UNCHANGED <<datagramVars, text, listingVars, configVars, adminToolVars>>
       \/ part = "text" /\ TextNext
            /\ UNCHANGED <<datagramVars, streamVars, listingVars, configVars, adminToolVars>>
       \/ part = "listing" /\ ListingNext
            /\ UNCHANGED <<datagramVars, streamVars, text, configVars, adminToolVars>>
       \/ part = "configuration" /\ ConfigNext /\ UNCHANGED <<codecVars, adminToolVars>>
       \/ part = "admin" /\ AdminToolNext /\ UNCHANGED <<codecVars, configVars>>
    /\ UNCHANGED part

MCSpec == MCInit /\ [][MCNext]_partVars

=============================================================================

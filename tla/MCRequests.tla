------------------------------ MODULE MCRequests ------------------------------
(* What administrators and game clients ask of the master server, in four         *)
(* scenarios: a behaviour stays in the one it starts in, each has its own          *)
(* configuration, packets, reloads and steps of the clock.                         *)
EXTENDS MasterAdmin, MasterClients, TLC

CONSTANTS i1, i2, i3, n1, valve, other, right, wrong

VARIABLE scenario

requestVars == <<vars, adminHistory, clientHistory, scenario>>

MCHost(ip) == [ip |-> ip, port |-> 1]
MCOldClient == [ip |-> i1, port |-> 2]

MCInfo == [region |-> 0, protocol |-> 49, nat |-> TRUE, gamedir |-> valve]

MCAdd(a, c) == [type |-> "add", from |-> a, challenge |-> c, version |-> 21,
                info |-> MCInfo]

-----------------------------------------------------------------------------
(* An administrator on i1 bans and unbans, itself too, while a game server behind *)
(* NAT on i2 registers and a client on i1 asks for the list.  i3 is an IPv6 host: *)
(* it is heard after a change of the IP version only.                              *)

MCAdminConfig ==
    [family |-> "v4", listen |-> 1, challenge_timeout |-> 1, server_timeout |-> 2,
     admin_timeout |-> 1, max_servers_per_ip |-> 1, client_rate_limit |-> 0,
     server_min_version |-> 21, client_min_version |-> 21, min_engine_buildnum |-> 0,
     min_old_engine_buildnum |-> 0, update_addr |-> None, passwords |-> {right}]

MCCommands ==
    {[op |-> "ban", ips |-> {i2, i3}], [op |-> "ban", ips |-> {i1}],
     [op |-> "unban", ips |-> {i2}],
     [op |-> "other", ips |-> {}]}

MCBlocklistPackets ==
    {[type |-> "challenge", from |-> MCHost(i2)],
     [type |-> "remove", from |-> MCHost(i2)],
     [type |-> "query", from |-> MCHost(i1), query |->
        [region |-> 0, clver |-> 21, buildnum |-> None, key |-> 7,
         nat |-> None, gamedir |-> None]],
     [type |-> "admin_challenge", from |-> MCHost(i1)]}
    \cup {MCAdd(MCHost(i2), c) : c \in Numbers}
    \cup {[type |-> t, from |-> MCHost(i3)] : t \in {"admin_challenge", "malformed"}}
    \cup {[type |-> "admin_command", from |-> MCHost(i1), challenge |-> c,
           hash |-> [password |-> right, challenge |-> h], command |-> o] :
              c \in Numbers, h \in Numbers, o \in MCCommands}

\* Wrong passwords from two hosts, duplicated challenges and commands.
MCPasswordPackets ==
    {[type |-> "admin_challenge", from |-> MCHost(i)] : i \in {i1, i2}}
    \cup {[type |-> "admin_command", from |-> MCHost(i), challenge |-> c,
           hash |-> [password |-> w, challenge |-> n1],
           command |-> [op |-> "other", ips |-> {}]] :
              i \in {i1, i2}, c \in Numbers, w \in Passwords}

-----------------------------------------------------------------------------
(* Two clients behind one IP, one of them too old for the servers, and a game     *)
(* server behind NAT on an IP of its own, which asks like a client as well.       *)

MCRateConfig ==
    [MCAdminConfig EXCEPT !.challenge_timeout = 3, !.server_timeout = 6,
     !.client_rate_limit = 2, !.client_min_version = 20, !.min_engine_buildnum = 5,
     !.passwords = {}]

MCGamedirConfig == [MCRateConfig EXCEPT !.client_rate_limit = 0, !.client_min_version = 19]

MCQuery(a, q) == [type |-> "query", from |-> a, query |-> q]

MCNewest == [region |-> 0, clver |-> 21, buildnum |-> 5, key |-> None, nat |-> None,
             gamedir |-> None]
MCOldest == [MCNewest EXCEPT !.clver = 19, !.buildnum = None, !.gamedir = valve]

\* Only the limit, which a reload lowers, and a move: what is asked does not matter.
MCRatePackets ==
    {MCQuery(MCHost(i1), MCNewest), [type |-> "malformed_game", from |-> MCOldClient],
     [type |-> "info", from |-> MCHost(i2)]}

\* Every way to ask and be answered.
MCGamedirPackets ==
    {MCQuery(MCHost(i1), MCNewest),
     MCQuery(MCHost(i1), [MCNewest EXCEPT !.nat = FALSE]),
     MCQuery(MCHost(i1), [MCNewest EXCEPT !.buildnum = None, !.gamedir = other]),
     MCQuery(MCHost(i1), [MCNewest EXCEPT !.clver = None]),
     MCQuery(MCOldClient, MCOldest),
     MCQuery(MCOldClient, [MCOldest EXCEPT !.gamedir = other]),
     [type |-> "info", from |-> MCHost(i1)], [type |-> "info", from |-> MCOldClient],
     [type |-> "challenge", from |-> MCHost(i2)], MCAdd(MCHost(i2), n1)}

-----------------------------------------------------------------------------
MCScenarios == {"blocklist", "password", "rate", "gamedir"}

MCConfigOf(s) ==
    CASE s = "rate" -> MCRateConfig
      [] s = "gamedir" -> MCGamedirConfig
      [] OTHER -> MCAdminConfig

MCPacketsOf(s) ==
    CASE s = "blocklist" -> MCBlocklistPackets
      [] s = "password" -> MCPasswordPackets
      [] s = "rate" -> MCRatePackets
      [] s = "gamedir" -> MCGamedirPackets

MCReloadsOf(s) ==
    CASE s = "blocklist" -> {[MCAdminConfig EXCEPT !.listen = 2],
                             [MCAdminConfig EXCEPT !.family = "v6"], MCAdminConfig}
      [] s = "password" -> {MCAdminConfig, [MCAdminConfig EXCEPT !.listen = 2],
                            [MCAdminConfig EXCEPT !.admin_timeout = 2]}
      [] s = "rate" -> {[MCRateConfig EXCEPT !.client_rate_limit = 1],
                        [MCRateConfig EXCEPT !.listen = 2]}
      [] s = "gamedir" -> {[MCGamedirConfig EXCEPT !.client_min_version = 20, !.listen = 2,
                                                   !.update_addr = 9]}

\* The clock stops near the end of what the scenario is about: two seconds, or the
\* time a game directory is kept and a second.
MCStepsOf(s) ==
    CASE s = "blocklist" -> {1000}
      [] s = "password" -> {996, 1004}
      [] s = "rate" -> {500, 992}
      [] s = "gamedir" -> {2000, 2996}

MCEndOf(s) == IF s = "gamedir" THEN 6000 ELSE 2008

MCPackets == UNION {MCPacketsOf(s) : s \in MCScenarios}
MCConfigs == UNION {{MCConfigOf(s)} \cup MCReloadsOf(s) : s \in MCScenarios}
MCTickSteps == UNION {MCStepsOf(s) : s \in MCScenarios}

MCInit ==
    /\ scenario \in MCScenarios
    /\ InitWith(MCConfigOf(scenario))
    /\ AdminHistoryInit
    /\ ClientHistoryInit

MCAdminNext ==
    /\ scenario \in {"blocklist", "password"}
    /\ \/ \E p \in MCPacketsOf(scenario) : AdmReceive(p)
       \/ \E c \in MCReloadsOf(scenario) : AdmReload(c)
       \/ \E d \in MCStepsOf(scenario) : AdmTick(d)
    /\ UNCHANGED clientHistory

MCClientNext ==
    /\ scenario \in {"rate", "gamedir"}
    /\ \/ \E p \in MCPacketsOf(scenario) : CliReceive(p)
       \/ \E c \in MCReloadsOf(scenario) : CliReload(c)
       \/ \E d \in MCStepsOf(scenario) : CliTick(d)
    /\ UNCHANGED adminHistory

MCNext ==
    /\ MCAdminNext \/ MCClientNext
    /\ uptime' - uptime \in {0} \cup MCStepsOf(scenario)
    /\ uptime' <= MCEndOf(scenario)
    /\ UNCHANGED scenario

MCSpec == MCInit /\ [][MCNext]_requestVars

=============================================================================

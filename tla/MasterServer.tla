---------------------------- MODULE MasterServer ----------------------------
(***************************************************************************)
(* The state of xash3d-master (master_server.rs, MasterServer) and what    *)
(* every datagram, every configuration reload and the passing of time do   *)
(* to it.  One action is one turn of the loop in run(): a datagram is      *)
(* received, checked against the blocklist and handed to handle_packet.    *)
(*                                                                         *)
(* Packets is the set of datagrams that may arrive, in any order and any   *)
(* number of times: the loss, duplication, delay and reordering of UDP are *)
(* all choices among them.  A datagram is a record whose type is           *)
(*   "challenge", "add", "remove"        from a game server                *)
(*   "query", "info"                     from a game client                *)
(*   "admin_challenge", "admin_command"  from an administrator             *)
(*   "malformed", "malformed_game"       refused by a decoder; the second  *)
(*                                       has the header of a game client   *)
(***************************************************************************)
EXTENDS TimedHashMap, Integers, FiniteSets

CONSTANTS
    Ips, V6Ips, Ports,     \* addresses; V6Ips are the IPv6 ones
    Numbers,               \* what rng.u32() may return
    Gamedirs, None,        \* game directories; None is Option::None
    Passwords,             \* what administrators may hash
    Packets,               \* the datagrams that may arrive
    InitConfig, Configs,   \* the configuration at startup, and at a reload
    CounterMax,            \* u32::MAX, where the request counters saturate
    TickSteps,             \* bound: by how many milliseconds the clock advances
    MaxUptime              \* bound: the last uptime explored, in milliseconds

ClientWindow   == 1        \* seconds, client_rate_limit in MasterServer::new
GamedirTimeout == 5        \* seconds, update_gamedir in MasterServer::new
OldEngine      == 20       \* Version::new(0, 20); versions are ordered numbers
OldProtocol    == 48

FamilyOf(ip) == IF ip \in V6Ips THEN "v6" ELSE "v4"

Addr == [ip : Ips, port : Ports]

ServerInfo == [region : Nat, protocol : Nat, nat : BOOLEAN, gamedir : Gamedirs]

\* game::QueryServers with the fields of its Filter that the master reads;
\* nat is contains_flags(NAT), and None stands for a missing field.
Query == [region : Nat, clver : Nat \cup {None}, buildnum : Nat \cup {None},
          key : Nat \cup {None}, nat : BOOLEAN \cup {None},
          gamedir : Gamedirs \cup {None}]

Hash == [password : Passwords, challenge : Numbers]

Command == [op : {"ban", "unban", "other"}, ips : SUBSET Ips]

Packet ==
    [type : {"challenge", "remove", "info", "admin_challenge", "malformed",
             "malformed_game"}, from : Addr]
    \cup [type : {"add"}, from : Addr, challenge : Numbers, version : Nat,
          info : ServerInfo]
    \cup [type : {"query"}, from : Addr, query : Query]
    \cup [type : {"admin_command"}, from : Addr, challenge : Numbers,
          hash : Hash, command : Command]

\* The parts of Config the master reads; timeouts are in seconds.
Config ==
    [family : {"v4", "v6"}, listen : Nat, challenge_timeout : Nat,
     server_timeout : Nat, admin_timeout : Nat, max_servers_per_ip : Nat,
     client_rate_limit : Nat, server_min_version : Nat,
     client_min_version : Nat, min_engine_buildnum : Nat,
     min_old_engine_buildnum : Nat, update_addr : Nat \cup {None},
     passwords : SUBSET Passwords]

ASSUME MasterServerAssumption ==
    /\ Packets \subseteq Packet
    /\ InitConfig \in Config
    /\ Configs \subseteq Config
    /\ CounterMax \in Nat
    /\ TickSteps \subseteq Nat \ {0}
    /\ MaxUptime \in Nat

VARIABLES
    cfg, challenges, servers, admin_challenges, admin_limit, update_addr,
    update_gamedir, client_rate_limit, blocklist,
    uptime,   \* milliseconds since the start
    out       \* what the last step sent and reported to the statistics

serverVars == <<challenges, servers>>
adminVars  == <<admin_challenges, admin_limit, blocklist>>
clientVars == <<update_gamedir, client_rate_limit>>
configVars == <<cfg, update_addr>>

vars == <<serverVars, adminVars, clientVars, configVars, uptime, out>>

Now == FromMillis(uptime)

\* A handler that reads the clock again may find it further on.
ClockMayAdvance ==
    \E d \in TickSteps \cup {0} : uptime + d <= MaxUptime /\ uptime' = uptime + d

Later == FromMillis(uptime')

-----------------------------------------------------------------------------
(* Output: the datagrams sent, and the calls of Stats.                     *)

Event(name) == [event |-> name, n |-> 1]

Quiet(events) == out' = [sent |-> {}, events |-> {Event(e) : e \in events}]

Message(to, kind, body) == [to |-> to, kind |-> kind, body |-> body]

\* The first message must leave before the others can; a failing send_to ends
\* the handler, and run() counts the error.
Send(first, others, events) ==
    \/ out' = [sent |-> {first} \cup others, events |-> {Event(e) : e \in events}]
    \/ \E part \in {{}} \cup {{first} \cup S : S \in SUBSET others} :
          /\ part # {first} \cup others
          /\ out' = [sent |-> part, events |-> {Event(e) : e \in events \cup {"error"}}]

-----------------------------------------------------------------------------
(* Game servers                                                            *)

HandleServerChallenge(p) ==
    LET e == Entry(challenges, p.from, Now) IN
    /\ p.type = "challenge"
    /\ \E number \in Numbers :
          LET c == IF p.from \in Keys(e) THEN e.map[p.from].value ELSE number IN
          /\ challenges' = IF p.from \in Keys(e) THEN e
                           ELSE Put(e, p.from, number, Now)
          /\ Send(Message(p.from, "challenge", [number |-> c]), {}, {})
    /\ UNCHANGED <<servers, adminVars, clientVars, configVars, uptime>>

CountServers(m, ip, now) == Cardinality({a \in ValidKeys(m, now) : a.ip = ip})

\* Mutants: one server too many; a registered server keeps its old time.
AddServer_OffByOne(addr, info, now) ==
    LET e == Entry(servers, addr, now) IN
    IF addr \in Keys(e) THEN Put(e, addr, info, now)
    ELSE IF CountServers(e, addr.ip, now) > cfg.max_servers_per_ip THEN e
    ELSE Insert(e, addr, info, now)

AddServer_NoRefresh(addr, info, now) ==
    LET e == Entry(servers, addr, now) IN
    IF addr \in Keys(e) THEN e
    ELSE IF CountServers(e, addr.ip, now) >= cfg.max_servers_per_ip THEN e
    ELSE Insert(e, addr, info, now)

\* add_server: the registered servers afterwards.
AddServer(addr, info, now) ==
    LET e == Entry(servers, addr, now) IN
    IF addr \in Keys(e) THEN Put(e, addr, info, now)
    ELSE IF CountServers(e, addr.ip, now) >= cfg.max_servers_per_ip THEN e
    ELSE Insert(e, addr, info, now)

\* The conditions of handle_server_add up to the removal of the challenge.
AddIsExpected(p) ==
    /\ p.version >= cfg.server_min_version
    /\ p.from \in ValidKeys(challenges, Now)
    /\ challenges.map[p.from].value = p.challenge

\* A challenge that runs out between get() and remove() registers nothing, and
\* is gone.  The gauge counts the outdated entries that are still in the map.
HandleServerAdd(p) ==
    /\ p.type = "add"
    /\ ClockMayAdvance
    /\ IF AddIsExpected(p)
       THEN /\ challenges' = Remove(challenges, p.from)
            /\ IF p.from \in ValidKeys(challenges, Later)
               THEN /\ servers' = AddServer(p.from, p.info, Later)
                    /\ out' = [sent |-> {},
                               events |-> {Event("add"),
                                           [event |-> "servers",
                                            n |-> Cardinality(Keys(servers'))]}]
               ELSE servers' = servers /\ Quiet({})
       ELSE UNCHANGED serverVars /\ Quiet({})
    /\ UNCHANGED <<adminVars, clientVars, configVars>>

\* Only the statistics hear of it: the server stays listed until it times out.
HandleServerRemove(p) ==
    /\ p.type = "remove"
    /\ Quiet({"del"})
    /\ UNCHANGED <<serverVars, adminVars, clientVars, configVars, uptime>>

-----------------------------------------------------------------------------
(* Game clients                                                            *)

\* Mutant: wrapping_add.
Saturated_Wraps(n) == n % (CounterMax + 1)

\* saturating_add
Saturated(n) == IF n < CounterMax THEN n ELSE CounterMax

\* allow_game_request: the counters afterwards, and whether the request passes.
Counted(ip) ==
    IF cfg.client_rate_limit = 0 THEN client_rate_limit
    ELSE LET e == Entry(client_rate_limit, ip, Now) IN
         IF ip \in Keys(e)
         THEN [e EXCEPT !.map[ip].value = Saturated(e.map[ip].value + 1)]
         ELSE Put(e, ip, Saturated(1), Now)

GameRequestAllowed(ip) ==
    cfg.client_rate_limit > 0 => Counted(ip).map[ip].value <= cfg.client_rate_limit

IsBuildnumValid(q, min) == min = 0 \/ (q.buildnum # None /\ q.buildnum >= min)

IsQueryServersValid(q) ==
    /\ q.clver # None
    /\ q.clver >= cfg.client_min_version
    /\ IsBuildnumValid(q, IF q.clver < OldEngine THEN cfg.min_old_engine_buildnum
                                                 ELSE cfg.min_engine_buildnum)

\* Filter::matches on the fields ServerInfo keeps here.
Matches(q, info) ==
    /\ q.nat \in {None, info.nat}
    /\ q.gamedir \in {None, info.gamedir}

FilteredServers(q) ==
    {a \in ValidKeys(servers, Now) :
        LET info == servers.map[a].value IN
        /\ info.region = q.region
        /\ Matches(q, info)
        /\ q.clver >= OldEngine \/ info.protocol = OldProtocol}

FilteredServersNat(q) == {a \in FilteredServers(q) : servers.map[a].value.nat}

\* The lists are sent in as many datagrams as they need; one stands for all.
AnswerQuery(from, q) ==
    Send(Message(from, "servers", [list |-> FilteredServers(q), key |-> q.key]),
         IF q.nat = FALSE THEN {}
         ELSE {Message(a, "announce", [client |-> from]) : a \in FilteredServersNat(q)},
         {"query"})

\* An old client is shown one server, the update address, and its game
\* directory is kept for the question it will put to that server.
AnswerOldClient(from, q) ==
    /\ update_gamedir' = IF q.gamedir = None THEN update_gamedir
                         ELSE Insert(update_gamedir, from, q.gamedir, Now)
    /\ Send(Message(from, "update", [addr |-> update_addr, key |-> q.key]), {}, {"query"})

HandleGameQueryServers(p) ==
    /\ p.type = "query"
    /\ client_rate_limit' = Counted(p.from.ip)
    /\ GameRequestAllowed(p.from.ip)
    /\ \/ /\ IsQueryServersValid(p.query)
          /\ AnswerQuery(p.from, p.query)
          /\ UNCHANGED update_gamedir
       \/ /\ ~IsQueryServersValid(p.query)
          /\ AnswerOldClient(p.from, p.query)
    /\ UNCHANGED <<serverVars, adminVars, configVars, uptime>>

\* gamedir None is answered as "valve".
HandleGameGetServerInfo(p) ==
    LET kept == IF p.from \in ValidKeys(update_gamedir, Now)
                THEN update_gamedir.map[p.from].value ELSE None IN
    /\ p.type = "info"
    /\ client_rate_limit' = Counted(p.from.ip)
    /\ GameRequestAllowed(p.from.ip)
    /\ update_gamedir' = Remove(update_gamedir, p.from)
    /\ Send(Message(p.from, "info", [gamedir |-> kept]), {}, {})
    /\ UNCHANGED <<serverVars, adminVars, configVars, uptime>>

\* Refused, or not decodable once allowed: only the counter changes.
RefuseGameRequest(p) ==
    /\ p.type \in {"query", "info", "malformed_game"}
    /\ p.type # "malformed_game" => ~GameRequestAllowed(p.from.ip)
    /\ client_rate_limit' = Counted(p.from.ip)
    /\ Quiet({"error"})
    /\ UNCHANGED <<serverVars, adminVars, update_gamedir, configVars, uptime>>

-----------------------------------------------------------------------------
(* Administrators                                                          *)

AdminRequestAllowed(ip) == ip \notin ValidKeys(admin_limit, Now)

\* Every request draws a new pair, which replaces the one before.
HandleAdminChallenge(p) ==
    /\ p.type = "admin_challenge"
    /\ AdminRequestAllowed(p.from.ip)
    /\ \E x, y \in Numbers :
          /\ admin_challenges' =
                Insert(admin_challenges, p.from.ip, [master |-> x, hash |-> y], Now)
          /\ Send(Message(p.from, "admin_challenge", [master |-> x, hash |-> y]), {}, {})
    /\ UNCHANGED <<serverVars, admin_limit, blocklist, clientVars, configVars, uptime>>

\* Mutant: any address is taken.
AddressesIn_Any(command) == command.ips

\* Arguments that are no address of the family in use are skipped.
AddressesIn(command) == {ip \in command.ips : FamilyOf(ip) = cfg.family}

\* Mutant: the servers of a banned address stay.
RemoveServersByIp_Forgotten(S, now) == servers

RemoveServersByIp(S, now) ==
    Retain(servers, {a \in Keys(servers) : a.ip \notin S}, now)

\* admin_command: an address that is banned already is left alone.
Ban(S, now) ==
    LET new == S \ blocklist IN
    /\ blocklist' = blocklist \cup new
    /\ servers' = IF new = {} THEN servers ELSE RemoveServersByIp(new, now)

RunAdminCommand(command, now) ==
    CASE command.op = "ban"   -> Ban(AddressesIn(command), now)
      [] command.op = "unban" -> /\ blocklist' = blocklist \ AddressesIn(command)
                                 /\ servers' = servers
      [] command.op = "other" -> blocklist' = blocklist /\ servers' = servers

\* The entry the handler compares with, and the hash it computes from it.
MasterChallengeMatches(p) ==
    /\ p.from.ip \in ValidKeys(admin_challenges, Now)
    /\ admin_challenges.map[p.from.ip].value.master = p.challenge

HashMatches(p) ==
    /\ p.hash.password \in cfg.passwords
    /\ p.hash.challenge = admin_challenges.map[p.from.ip].value.hash

HandleAdminCommand(p) ==
    /\ p.type = "admin_command"
    /\ AdminRequestAllowed(p.from.ip)
    /\ MasterChallengeMatches(p)
    /\ ClockMayAdvance
    /\ \/ /\ HashMatches(p)
          /\ RunAdminCommand(p.command, Later)
          /\ admin_challenges' = Remove(admin_challenges, p.from.ip)
          /\ UNCHANGED admin_limit
       \/ /\ ~HashMatches(p)
          /\ admin_limit' = Insert(admin_limit, p.from.ip, {}, Later)
          /\ UNCHANGED <<servers, admin_challenges, blocklist>>
    /\ Quiet({})
    /\ UNCHANGED <<challenges, clientVars, configVars>>

\* Rate limited, no challenge (errors), or another challenge (not an error).
RefuseAdminRequest(p) ==
    /\ p.type \in {"admin_challenge", "admin_command"}
    /\ AdminRequestAllowed(p.from.ip) =>
          p.type = "admin_command" /\ ~MasterChallengeMatches(p)
    /\ Quiet(IF AdminRequestAllowed(p.from.ip)
                /\ p.from.ip \in ValidKeys(admin_challenges, Now)
             THEN {} ELSE {"error"})
    /\ UNCHANGED <<serverVars, adminVars, clientVars, configVars, uptime>>

-----------------------------------------------------------------------------
(* run() and handle_packet                                                 *)

\* Mutant: the blocklist is not looked at.
IsBlocked_Never(ip) == FALSE

IsBlocked(ip) == ip \in blocklist

RefuseMalformed(p) ==
    /\ p.type = "malformed"
    /\ Quiet({"error"})
    /\ UNCHANGED <<serverVars, adminVars, clientVars, configVars, uptime>>

HandlePacket(p) ==
    \/ HandleServerChallenge(p)
    \/ HandleServerAdd(p)
    \/ HandleServerRemove(p)
    \/ HandleGameQueryServers(p)
    \/ HandleGameGetServerInfo(p)
    \/ RefuseGameRequest(p)
    \/ HandleAdminChallenge(p)
    \/ HandleAdminCommand(p)
    \/ RefuseAdminRequest(p)
    \/ RefuseMalformed(p)

\* A socket of one family receives nothing from the other; a blocked address is
\* dropped before anything is counted.
Receive(p) ==
    /\ FamilyOf(p.from.ip) = cfg.family
    /\ ~IsBlocked(p.from.ip)
    /\ HandlePacket(p)

-----------------------------------------------------------------------------
(* Start and reload                                                        *)

\* resolve_update_addr: without an update address, or with one that does not
\* resolve, old clients are sent to the address the master listens on.
UpdateAddresses(c) == {c.listen} \cup ({c.update_addr} \ {None})

InitWith(c) ==
    /\ cfg = c
    /\ challenges = NewMap(c.challenge_timeout)
    /\ servers = NewMap(c.server_timeout)
    /\ admin_challenges = NewMap(c.challenge_timeout)
    /\ admin_limit = NewMap(c.admin_timeout)
    /\ update_addr \in UpdateAddresses(c)
    /\ update_gamedir = NewMap(GamedirTimeout)
    /\ client_rate_limit = NewMap(ClientWindow)
    /\ blocklist = {}
    /\ uptime = 0
    /\ out = [sent |-> {}, events |-> {}]

Init == InitWith(InitConfig)

\* Master::update_config with another IP version: a new MasterServer.
Restart(c) ==
    /\ c.family # cfg.family
    /\ cfg' = c
    /\ challenges' = NewMap(c.challenge_timeout)
    /\ servers' = NewMap(c.server_timeout)
    /\ admin_challenges' = NewMap(c.challenge_timeout)
    /\ admin_limit' = NewMap(c.admin_timeout)
    /\ update_addr' \in UpdateAddresses(c)
    /\ update_gamedir' = NewMap(GamedirTimeout)
    /\ client_rate_limit' = NewMap(ClientWindow)
    /\ blocklist' = {}
    /\ Quiet({})
    /\ UNCHANGED uptime

\* Mutants: a move forgets nothing; any reload forgets.
ClearIf_Never(moved, m) == m
ClearIf_Always(moved, m) == Clear(m)

\* clear() forgets servers, challenges and request counters, not the blocklist,
\* the admin lock or the game directories.
ClearIf(moved, m) == IF moved THEN Clear(m) ELSE m

UpdateConfig(c) ==
    LET moved == c.listen # cfg.listen IN
    /\ c.family = cfg.family
    /\ cfg' = c
    /\ update_addr' \in UpdateAddresses(c)
    /\ challenges' = SetTimeout(ClearIf(moved, challenges), c.challenge_timeout)
    /\ servers' = SetTimeout(ClearIf(moved, servers), c.server_timeout)
    /\ admin_challenges' =
          SetTimeout(ClearIf(moved, admin_challenges), c.challenge_timeout)
    /\ admin_limit' = SetTimeout(admin_limit, c.admin_timeout)
    /\ client_rate_limit' = ClearIf(moved, client_rate_limit)
    /\ Quiet(IF moved THEN {"clear"} ELSE {})
    /\ UNCHANGED <<update_gamedir, blocklist, uptime>>

\* The new address cannot be bound: the old configuration stays in force.
FailToBind(c) ==
    /\ c.family # cfg.family \/ c.listen # cfg.listen
    /\ Quiet({})
    /\ UNCHANGED <<serverVars, adminVars, clientVars, configVars, uptime>>

Reload(c) == Restart(c) \/ UpdateConfig(c) \/ FailToBind(c)

Tick(d) ==
    /\ uptime + d <= MaxUptime
    /\ uptime' = uptime + d
    /\ Quiet({})
    /\ UNCHANGED <<serverVars, adminVars, clientVars, configVars>>

Next ==
    \/ \E p \in Packets : Receive(p)
    \/ \E c \in Configs : Reload(c)
    \/ \E d \in TickSteps : Tick(d)

Spec == Init /\ [][Next]_vars

-----------------------------------------------------------------------------
TypeOK ==
    /\ cfg \in {InitConfig} \cup Configs
    /\ IsTimedHashMap(challenges, Addr, Numbers, {cfg.challenge_timeout})
    /\ IsTimedHashMap(servers, Addr, ServerInfo, {cfg.server_timeout})
    /\ IsTimedHashMap(admin_challenges, Ips, [master : Numbers, hash : Numbers],
                      {cfg.challenge_timeout})
    /\ IsTimedHashMap(admin_limit, Ips, {{}}, {cfg.admin_timeout})
    /\ update_addr \in UpdateAddresses(cfg)
    /\ IsTimedHashMap(update_gamedir, Addr, Gamedirs, {GamedirTimeout})
    /\ IsTimedHashMap(client_rate_limit, Ips, 0 .. CounterMax, {ClientWindow})
    /\ blocklist \subseteq Ips
    /\ uptime \in 0 .. MaxUptime

\* admin_command bans an address and takes its servers off the list in one go;
\* no later step, of a server that got its challenge before the ban, of another
\* administrator or of a reload, puts one back while the ban lasts.
NoBannedServer == \A a \in Keys(servers) : a.ip \notin blocklist

\* Nothing is sent to a banned address: neither an answer nor, through the list
\* of servers behind NAT, the announcement of a client (send_client_to_nat_servers).
SilentToBanned == \A m \in out.sent : m.to.ip \notin blocklist

\* Everything the master knows of another host belongs to the IP version it
\* listens on (Master::update_config starts from nothing when that changes).
OneFamily ==
    /\ \A a \in Keys(challenges) \cup Keys(servers) \cup Keys(update_gamedir) :
          FamilyOf(a.ip) = cfg.family
    /\ \A ip \in Keys(admin_challenges) \cup Keys(admin_limit)
                \cup Keys(client_rate_limit) \cup blocklist :
          FamilyOf(ip) = cfg.family

=============================================================================

------------------------- MODULE MasterServerProofs -------------------------
(***************************************************************************)
(* Invariants of the master server for every set of addresses, packets and *)
(* configurations, every counter range and every bound.                    *)
(***************************************************************************)
EXTENDS MasterServer, TimedHashMapProofs

-----------------------------------------------------------------------------
(* The values handlers take from a packet and from the configuration       *)

\* A datagram that passes a decoder has the fields its handler reads.
LEMMA PacketType ==
    ASSUME NEW p \in Packets
    PROVE  /\ p.from \in Addr
           /\ p.from.ip \in Ips
           /\ p.type = "add" => p.info \in ServerInfo
           /\ p.type = "query" => p.query.gamedir \in Gamedirs \cup {None}
<1>1. p \in Packet
    BY MasterServerAssumption
<1>2. p.from \in Addr
    BY <1>1 DEF Packet
<1>3. p.from.ip \in Ips
    BY <1>2 DEF Addr
<1>4. ASSUME p.type = "add" PROVE p.info \in ServerInfo
    BY <1>1, <1>4 DEF Packet
<1>5. ASSUME p.type = "query" PROVE p.query \in Query
    BY <1>1, <1>5 DEF Packet
<1>6. ASSUME p.type = "query" PROVE p.query.gamedir \in Gamedirs \cup {None}
    BY <1>5, <1>6 DEF Query
<1> QED
    BY <1>2, <1>3, <1>4, <1>6

\* A configuration in force is one of the constants.
LEMMA ConfigType ==
    ASSUME NEW c \in {InitConfig} \cup Configs
    PROVE  /\ c.challenge_timeout \in Nat
           /\ c.server_timeout \in Nat
           /\ c.admin_timeout \in Nat
           /\ c.family \in {"v4", "v6"}
BY MasterServerAssumption DEF Config

\* The clock never leaves its bound.
LEMMA NowType ==
    ASSUME TypeOK
    PROVE  Now \in RelativeTimes
BY FromMillisType, MasterServerAssumption DEF TypeOK, Now

\* A handler that reads the clock again reads a time in range.
LEMMA LaterType ==
    ASSUME TypeOK, ClockMayAdvance
    PROVE  uptime' \in 0 .. MaxUptime /\ Later \in RelativeTimes
<1>1. uptime' \in 0 .. MaxUptime
    BY MasterServerAssumption DEF TypeOK, ClockMayAdvance
<1> QED
    BY <1>1, FromMillisType, MasterServerAssumption DEF Later

\* The clock does not wrap within the bound: for 2^32 units, about 397 days.
NoWrap == MaxUptime < ClockRange * UnitsPerSec

-----------------------------------------------------------------------------
(* What the handlers do to a map                                           *)

\* add_server registers its address at most.
LEMMA AddServerType ==
    ASSUME NEW T, IsTimedHashMap(servers, Addr, ServerInfo, T),
           NEW addr \in Addr, NEW info \in ServerInfo, NEW now \in RelativeTimes
    PROVE  /\ IsTimedHashMap(AddServer(addr, info, now), Addr, ServerInfo, T)
           /\ Keys(AddServer(addr, info, now)) \subseteq Keys(servers) \cup {addr}
<1> DEFINE e == Entry(servers, addr, now)
<1>1. IsTimedHashMap(e, Addr, ServerInfo, T) /\ Keys(e) \subseteq Keys(servers)
    BY EntryType
<1> HIDE DEF e
<1>2. /\ IsTimedHashMap(Put(e, addr, info, now), Addr, ServerInfo, T)
      /\ Keys(Put(e, addr, info, now)) = Keys(e) \cup {addr}
    BY <1>1, PutType
<1>3. /\ IsTimedHashMap(Insert(e, addr, info, now), Addr, ServerInfo, T)
      /\ Keys(Insert(e, addr, info, now)) \subseteq Keys(e) \cup {addr}
    BY <1>1, InsertType
<1>4. AddServer(addr, info, now) \in
          {e, Put(e, addr, info, now), Insert(e, addr, info, now)}
    BY DEF AddServer, e
<1> QED
    BY <1>1, <1>2, <1>3, <1>4

\* It keeps every other server that is valid, with its entry, and stamps its own.
LEMMA AddServerEntries ==
    ASSUME NEW T, IsTimedHashMap(servers, Addr, ServerInfo, T),
           NEW addr \in Addr, NEW info \in ServerInfo, NEW now \in RelativeTimes
    PROVE  /\ ValidKeys(servers, now) \ {addr} \subseteq Keys(AddServer(addr, info, now))
           /\ \A x \in Keys(AddServer(addr, info, now)) :
                 IF x = addr
                 THEN AddServer(addr, info, now).map[x].time = now
                 ELSE /\ x \in Keys(servers)
                      /\ AddServer(addr, info, now).map[x] = servers.map[x]
<1> DEFINE e == Entry(servers, addr, now)
           put == Put(e, addr, info, now)
           ins == Insert(e, addr, info, now)
           Fine(m) == /\ ValidKeys(servers, now) \ {addr} \subseteq Keys(m)
                      /\ \A x \in Keys(m) :
                            IF x = addr THEN m.map[x].time = now
                            ELSE x \in Keys(servers) /\ m.map[x] = servers.map[x]
<1>1. /\ IsTimedHashMap(e, Addr, ServerInfo, T)
      /\ Keys(e) \subseteq Keys(servers)
      /\ ValidKeys(servers, now) \subseteq Keys(e)
      /\ e.timeout = servers.timeout
      /\ \A x \in Keys(e) : e.map[x] = servers.map[x]
    BY EntryType
<1>2. AddServer(addr, info, now) =
          IF addr \in Keys(e) THEN put
          ELSE IF CountServers(e, addr.ip, now) >= cfg.max_servers_per_ip THEN e
          ELSE ins
    BY DEF AddServer
<1> HIDE DEF e
<1>3. ValidKeys(servers, now) \subseteq ValidKeys(e, now)
    BY <1>1 DEF ValidKeys, IsValid
<1>4. Keys(put) = Keys(e) \cup {addr}
    BY <1>1, PutType
<1>5. /\ put.map[addr] = [time |-> now, value |-> info]
      /\ \A x \in Keys(e) \ {addr} : put.map[x] = e.map[x]
    BY <1>1, PutEntries
<1>6. Keys(ins) \subseteq Keys(e) \cup {addr}
    BY <1>1, InsertType
<1>7. /\ ValidKeys(e, now) \ {addr} \subseteq Keys(ins)
      /\ \A x \in Keys(ins) :
            IF x = addr THEN ins.map[x].time = now ELSE ins.map[x] = e.map[x]
    BY <1>1, InsertEntries
<1> HIDE DEF put, ins
<1>8. Fine(put)
    BY <1>1, <1>4, <1>5
<1>9. Fine(ins)
    BY <1>1, <1>3, <1>6, <1>7
<1>10. addr \notin Keys(e) => Fine(e)
    BY <1>1
<1>11. Fine(AddServer(addr, info, now))
    <2> HIDE DEF Fine
    <2> QED
        BY <1>2, <1>8, <1>9, <1>10
<1> QED
    BY <1>11

\* allow_game_request counts for its address at most.
LEMMA CountedType ==
    ASSUME TypeOK, NEW ip \in Ips
    PROVE  /\ IsTimedHashMap(Counted(ip), Ips, 0 .. CounterMax, {ClientWindow})
           /\ Keys(Counted(ip)) \subseteq Keys(client_rate_limit) \cup {ip}
<1> DEFINE e == Entry(client_rate_limit, ip, Now)
           T == {ClientWindow}
           V == 0 .. CounterMax
           Goal == /\ IsTimedHashMap(Counted(ip), Ips, V, T)
                   /\ Keys(Counted(ip)) \subseteq Keys(client_rate_limit) \cup {ip}
<1>1. IsTimedHashMap(client_rate_limit, Ips, V, T) /\ Now \in RelativeTimes
    BY NowType DEF TypeOK
<1>2. \A n \in Nat : Saturated(n) \in V
    BY MasterServerAssumption DEF Saturated
<1>3. \A n \in V : n + 1 \in Nat
    BY MasterServerAssumption
<1> HIDE DEF V, T
<1>4. IsTimedHashMap(e, Ips, V, T) /\ Keys(e) \subseteq Keys(client_rate_limit)
    BY <1>1, EntryType
<1>5. ASSUME cfg.client_rate_limit = 0 PROVE Goal
    BY <1>1, <1>5 DEF Counted
<1>6. ASSUME cfg.client_rate_limit # 0, ip \in Keys(e) PROVE Goal
    <2> DEFINE n == Saturated(e.map[ip].value + 1)
    <2>1. Counted(ip) = [e EXCEPT !.map[ip].value = n]
        BY <1>6 DEF Counted
    <2>2. e.map[ip].value \in V
        BY <1>4, <1>6 DEF IsTimedHashMap, Keys
    <2>3. n \in V
        BY <1>2, <1>3, <2>2
    <2> HIDE DEF e, n
    <2> QED
        BY <1>4, <1>6, <2>1, <2>3, ReplaceValueType
<1>7. ASSUME cfg.client_rate_limit # 0, ip \notin Keys(e) PROVE Goal
    <2>1. Counted(ip) = Put(e, ip, Saturated(1), Now)
        BY <1>7 DEF Counted
    <2>2. Saturated(1) \in V
        BY <1>2
    <2> HIDE DEF e
    <2> QED
        BY <1>1, <1>4, <2>1, <2>2, PutType
<1>8. Goal
    BY <1>5, <1>6, <1>7
<1> QED
    BY <1>8 DEF V, T

-----------------------------------------------------------------------------
(* The inductive invariant: types, no banned server, one IP version.       *)

IInv == TypeOK /\ NoBannedServer /\ OneFamily

\* What run() checks before it hands a datagram to its handler.
Admitted(p) == FamilyOf(p.from.ip) = cfg.family /\ p.from.ip \notin blocklist

\* The master starts well formed and with nothing to forget (MasterServer::new).
LEMMA InitInv == Init => IInv
<1> SUFFICES ASSUME Init PROVE IInv
    OBVIOUS
<1>1. TypeOK
    BY NewMapType, MasterServerAssumption DEF Init, InitWith, TypeOK
<1>2. /\ Keys(challenges) = {} /\ Keys(servers) = {} /\ Keys(update_gamedir) = {}
      /\ Keys(admin_challenges) = {} /\ Keys(admin_limit) = {}
      /\ Keys(client_rate_limit) = {} /\ blocklist = {}
    BY DEF Init, InitWith, NewMap, Keys
<1> QED
    BY <1>1, <1>2 DEF IInv, NoBannedServer, OneFamily

\* A challenge is kept for an address that run() admitted.
LEMMA ServerChallengeInv ==
    ASSUME IInv, NEW p \in Packets, Admitted(p), HandleServerChallenge(p)
    PROVE  IInv'
<1> DEFINE e == Entry(challenges, p.from, Now)
           T == {cfg.challenge_timeout}
<1>1. IsTimedHashMap(challenges, Addr, Numbers, T) /\ Now \in RelativeTimes
    BY NowType DEF IInv, TypeOK
<1>2. IsTimedHashMap(e, Addr, Numbers, T) /\ Keys(e) \subseteq Keys(challenges)
    BY <1>1, EntryType
<1>3. PICK number \in Numbers :
          challenges' = IF p.from \in Keys(e) THEN e ELSE Put(e, p.from, number, Now)
    BY DEF HandleServerChallenge
<1> HIDE DEF e
<1>4. /\ IsTimedHashMap(Put(e, p.from, number, Now), Addr, Numbers, T)
      /\ Keys(Put(e, p.from, number, Now)) = Keys(e) \cup {p.from}
    BY <1>1, <1>2, PutType, PacketType
<1>5. /\ IsTimedHashMap(challenges', Addr, Numbers, T)
      /\ Keys(challenges') \subseteq Keys(challenges) \cup {p.from}
    BY <1>2, <1>3, <1>4
<1>6. UNCHANGED <<servers, adminVars, clientVars, configVars, uptime>>
    BY DEF HandleServerChallenge
<1> QED
    BY <1>5, <1>6 DEF IInv, TypeOK, NoBannedServer, OneFamily, Admitted,
        adminVars, clientVars, configVars, Keys, FamilyOf

\* A registration adds at most the address that asked for it.
LEMMA ServerAddInv ==
    ASSUME IInv, NEW p \in Packets, Admitted(p), HandleServerAdd(p)
    PROVE  IInv'
<1>1. uptime' \in 0 .. MaxUptime /\ Later \in RelativeTimes
    BY LaterType DEF IInv, HandleServerAdd
<1>2. p.from \in Addr /\ p.info \in ServerInfo
    BY PacketType DEF HandleServerAdd
<1>3. /\ IsTimedHashMap(challenges', Addr, Numbers, {cfg.challenge_timeout})
      /\ Keys(challenges') \subseteq Keys(challenges)
    BY RemoveType DEF IInv, TypeOK, HandleServerAdd, serverVars
<1>4. /\ IsTimedHashMap(servers', Addr, ServerInfo, {cfg.server_timeout})
      /\ Keys(servers') \subseteq Keys(servers) \cup {p.from}
    BY <1>1, <1>2, AddServerType DEF IInv, TypeOK, HandleServerAdd, serverVars
<1>5. UNCHANGED <<adminVars, clientVars, configVars>>
    BY DEF HandleServerAdd
<1> QED
    BY <1>1, <1>3, <1>4, <1>5 DEF IInv, TypeOK, NoBannedServer, OneFamily, Admitted,
        adminVars, clientVars, configVars, FamilyOf

\* Handlers that leave everything but the output, or the request counters, alone.
LEMMA NothingInv ==
    ASSUME IInv,
           UNCHANGED <<serverVars, adminVars, clientVars, configVars, uptime>>
    PROVE  IInv'
BY DEF IInv, TypeOK, NoBannedServer, OneFamily, serverVars, adminVars, clientVars,
    configVars, Keys, FamilyOf

\* A counted game request; old clients leave their game directory.
LEMMA GameRequestInv ==
    ASSUME IInv, NEW p \in Packets, Admitted(p),
           client_rate_limit' = Counted(p.from.ip),
           IsTimedHashMap(update_gamedir', Addr, Gamedirs, {GamedirTimeout}),
           Keys(update_gamedir') \subseteq Keys(update_gamedir) \cup {p.from},
           UNCHANGED <<serverVars, adminVars, configVars, uptime>>
    PROVE  IInv'
<1>1. /\ IsTimedHashMap(client_rate_limit', Ips, 0 .. CounterMax, {ClientWindow})
      /\ Keys(client_rate_limit') \subseteq Keys(client_rate_limit) \cup {p.from.ip}
    BY CountedType, PacketType DEF IInv
<1> QED
    BY <1>1 DEF IInv, TypeOK, NoBannedServer, OneFamily, Admitted, serverVars,
        adminVars, configVars, FamilyOf

\* A query counts for its address and may leave a game directory.
LEMMA QueryServersInv ==
    ASSUME IInv, NEW p \in Packets, Admitted(p), HandleGameQueryServers(p)
    PROVE  IInv'
<1> DEFINE T == {GamedirTimeout}
<1>1. IsTimedHashMap(update_gamedir, Addr, Gamedirs, T) /\ Now \in RelativeTimes
    BY NowType DEF IInv, TypeOK
<1>2. p.from \in Addr /\ p.query.gamedir \in Gamedirs \cup {None}
    BY PacketType DEF HandleGameQueryServers
<1>3. \/ update_gamedir' = update_gamedir
      \/ /\ p.query.gamedir # None
         /\ update_gamedir' = Insert(update_gamedir, p.from, p.query.gamedir, Now)
    BY DEF HandleGameQueryServers, AnswerOldClient
<1>4. /\ IsTimedHashMap(update_gamedir', Addr, Gamedirs, T)
      /\ Keys(update_gamedir') \subseteq Keys(update_gamedir) \cup {p.from}
    BY <1>1, <1>2, <1>3, InsertType
<1> QED
    BY <1>4, GameRequestInv DEF HandleGameQueryServers

\* A question for server info counts and uses up the game directory.
LEMMA GetServerInfoInv ==
    ASSUME IInv, NEW p \in Packets, Admitted(p), HandleGameGetServerInfo(p)
    PROVE  IInv'
<1>1. /\ IsTimedHashMap(update_gamedir', Addr, Gamedirs, {GamedirTimeout})
      /\ Keys(update_gamedir') \subseteq Keys(update_gamedir) \cup {p.from}
    BY RemoveType DEF IInv, TypeOK, HandleGameGetServerInfo
<1> QED
    BY <1>1, GameRequestInv DEF HandleGameGetServerInfo

\* A refused game request counts and does nothing else.
LEMMA RefuseGameInv ==
    ASSUME IInv, NEW p \in Packets, Admitted(p), RefuseGameRequest(p)
    PROVE  IInv'
BY GameRequestInv DEF RefuseGameRequest, IInv, TypeOK, Keys

\* An admin challenge is kept for the address that asked for it.
LEMMA AdminChallengeInv ==
    ASSUME IInv, NEW p \in Packets, Admitted(p), HandleAdminChallenge(p)
    PROVE  IInv'
<1> DEFINE V == [master : Numbers, hash : Numbers]
           T == {cfg.challenge_timeout}
<1>1. IsTimedHashMap(admin_challenges, Ips, V, T) /\ Now \in RelativeTimes
    BY NowType DEF IInv, TypeOK
<1>2. PICK pair \in V :
          admin_challenges' = Insert(admin_challenges, p.from.ip, pair, Now)
    BY DEF HandleAdminChallenge
<1> HIDE DEF V, T
<1>3. /\ IsTimedHashMap(admin_challenges', Ips, V, T)
      /\ Keys(admin_challenges') \subseteq Keys(admin_challenges) \cup {p.from.ip}
    BY <1>1, <1>2, InsertType, PacketType
<1>4. UNCHANGED <<serverVars, admin_limit, blocklist, clientVars, configVars, uptime>>
    BY DEF HandleAdminChallenge
<1> QED
    BY <1>3, <1>4 DEF IInv, TypeOK, NoBannedServer, OneFamily, Admitted, serverVars,
        clientVars, configVars, FamilyOf, Keys, V, T

\* ban puts addresses of the family in use on the blocklist and takes their
\* servers off the list; unban and everything else leaves the servers alone.
LEMMA RunAdminCommandInv ==
    ASSUME IInv, NEW p \in Packets, p.type = "admin_command", NEW now \in RelativeTimes,
           RunAdminCommand(p.command, now)
    PROVE  /\ IsTimedHashMap(servers', Addr, ServerInfo, {cfg.server_timeout})
           /\ Keys(servers') \subseteq Keys(servers)
           /\ blocklist' \subseteq Ips
           /\ \A ip \in blocklist' \ blocklist : FamilyOf(ip) = cfg.family
           /\ \A a \in Keys(servers') : a.ip \notin blocklist' \ blocklist
<1>1. IsTimedHashMap(servers, Addr, ServerInfo, {cfg.server_timeout})
    BY DEF IInv, TypeOK
<1>2. p.command.ips \subseteq Ips /\ p.command.op \in {"ban", "unban", "other"}
    <2>1. p \in Packet
        BY MasterServerAssumption
    <2>2. p.command \in Command
        BY <2>1 DEF Packet
    <2> QED
        BY <2>2 DEF Command
<1>3. CASE p.command.op = "ban"
    <2> DEFINE new == AddressesIn(p.command) \ blocklist
               others == {a \in Keys(servers) : a.ip \notin new}
    <2>1. /\ blocklist' = blocklist \cup new
          /\ servers' = IF new = {} THEN servers ELSE Retain(servers, others, now)
        BY <1>3 DEF RunAdminCommand, Ban, RemoveServersByIp
    <2>2. new \subseteq Ips /\ \A ip \in new : FamilyOf(ip) = cfg.family
        BY <1>2 DEF AddressesIn
    <2> HIDE DEF new
    <2>3. /\ IsTimedHashMap(Retain(servers, others, now), Addr, ServerInfo,
                            {cfg.server_timeout})
          /\ Keys(Retain(servers, others, now)) \subseteq Keys(servers) \cap others
        BY <1>1, RetainType
    <2>4. blocklist' \ blocklist \subseteq new
        BY <2>1
    <2>5. CASE new = {}
        BY <1>1, <2>1, <2>4, <2>5 DEF IInv, TypeOK
    <2>6. CASE new # {}
        BY <2>1, <2>2, <2>3, <2>4, <2>6 DEF IInv, TypeOK
    <2> QED
        BY <2>5, <2>6
<1>4. CASE p.command.op # "ban"
    BY <1>1, <1>2, <1>4 DEF RunAdminCommand, IInv, TypeOK, Keys
<1> QED
    BY <1>3, <1>4

\* A command bans addresses of the family in use only, and takes their servers off
\* the list; a wrong hash locks the address it came from.
LEMMA AdminCommandInv ==
    ASSUME IInv, NEW p \in Packets, Admitted(p), HandleAdminCommand(p)
    PROVE  IInv'
<1>1. uptime' \in 0 .. MaxUptime /\ Later \in RelativeTimes
    BY LaterType DEF IInv, HandleAdminCommand
<1>2. UNCHANGED <<challenges, clientVars, configVars>>
    BY DEF HandleAdminCommand
<1>3. CASE /\ RunAdminCommand(p.command, Later)
           /\ admin_challenges' = Remove(admin_challenges, p.from.ip)
           /\ UNCHANGED admin_limit
    <2>1. /\ IsTimedHashMap(servers', Addr, ServerInfo, {cfg.server_timeout})
          /\ Keys(servers') \subseteq Keys(servers)
          /\ blocklist' \subseteq Ips
          /\ \A ip \in blocklist' \ blocklist : FamilyOf(ip) = cfg.family
          /\ \A a \in Keys(servers') : a.ip \notin blocklist' \ blocklist
        BY <1>1, <1>3, RunAdminCommandInv DEF HandleAdminCommand
    <2>2. /\ IsTimedHashMap(admin_challenges', Ips, [master : Numbers, hash : Numbers],
                            {cfg.challenge_timeout})
          /\ Keys(admin_challenges') \subseteq Keys(admin_challenges)
        BY <1>3, RemoveType DEF IInv, TypeOK
    <2> QED
        BY <1>1, <1>2, <1>3, <2>1, <2>2 DEF IInv, TypeOK, NoBannedServer, OneFamily,
            clientVars, configVars, FamilyOf, Keys
<1>4. CASE /\ admin_limit' = Insert(admin_limit, p.from.ip, {}, Later)
           /\ UNCHANGED <<servers, admin_challenges, blocklist>>
    <2> DEFINE V == {{}}
               T == {cfg.admin_timeout}
    <2>1. IsTimedHashMap(admin_limit, Ips, V, T) /\ {} \in V
        BY DEF IInv, TypeOK
    <2> HIDE DEF V, T
    <2>2. /\ IsTimedHashMap(admin_limit', Ips, V, T)
          /\ Keys(admin_limit') \subseteq Keys(admin_limit) \cup {p.from.ip}
        BY <1>1, <1>4, <2>1, InsertType, PacketType
    <2> QED
        BY <1>1, <1>2, <1>4, <2>2 DEF V, T, IInv, TypeOK, NoBannedServer, OneFamily,
            Admitted, clientVars, configVars, FamilyOf, Keys
<1> QED
    BY <1>3, <1>4 DEF HandleAdminCommand

\* Every handler preserves the invariant.
LEMMA ReceiveInv ==
    ASSUME IInv, NEW p \in Packets, Receive(p)
    PROVE  IInv'
<1>0. Admitted(p)
    BY DEF Receive, IsBlocked, Admitted
<1>1. CASE HandleServerChallenge(p)
    BY <1>0, <1>1, ServerChallengeInv
<1>2. CASE HandleServerAdd(p)
    BY <1>0, <1>2, ServerAddInv
<1>3. CASE HandleServerRemove(p) \/ RefuseAdminRequest(p) \/ RefuseMalformed(p)
    BY <1>3, NothingInv DEF HandleServerRemove, RefuseAdminRequest, RefuseMalformed
<1>4. CASE HandleGameQueryServers(p)
    BY <1>0, <1>4, QueryServersInv
<1>5. CASE HandleGameGetServerInfo(p)
    BY <1>0, <1>5, GetServerInfoInv
<1>6. CASE RefuseGameRequest(p)
    BY <1>0, <1>6, RefuseGameInv
<1>7. CASE HandleAdminChallenge(p)
    BY <1>0, <1>7, AdminChallengeInv
<1>8. CASE HandleAdminCommand(p)
    BY <1>0, <1>8, AdminCommandInv
<1> QED
    BY <1>1, <1>2, <1>3, <1>4, <1>5, <1>6, <1>7, <1>8 DEF Receive, HandlePacket

\* A new MasterServer knows nothing of the old one.
LEMMA RestartInv ==
    ASSUME IInv, NEW c \in Configs, Restart(c)
    PROVE  IInv'
<1>1. TypeOK'
    BY NewMapType, ConfigType DEF IInv, TypeOK, Restart
<1>2. /\ Keys(challenges') = {} /\ Keys(servers') = {} /\ Keys(update_gamedir') = {}
      /\ Keys(admin_challenges') = {} /\ Keys(admin_limit') = {}
      /\ Keys(client_rate_limit') = {} /\ blocklist' = {}
    BY DEF Restart, NewMap, Keys
<1> QED
    BY <1>1, <1>2 DEF IInv, NoBannedServer, OneFamily

\* A move forgets entries at most, and every map gets its new timeout.
LEMMA ClearIfType ==
    ASSUME NEW K, NEW V, NEW T, NEW m, IsTimedHashMap(m, K, V, T), NEW moved \in BOOLEAN
    PROVE  /\ IsTimedHashMap(ClearIf(moved, m), K, V, T)
           /\ Keys(ClearIf(moved, m)) \subseteq Keys(m)
BY ClearType DEF ClearIf

\* A map that a reload updates has its new timeout and no new key.
LEMMA UpdatedMapType ==
    ASSUME NEW K, NEW V, NEW T, NEW m, IsTimedHashMap(m, K, V, T),
           NEW moved \in BOOLEAN, NEW t
    PROVE  /\ IsTimedHashMap(SetTimeout(ClearIf(moved, m), t), K, V, {t})
           /\ Keys(SetTimeout(ClearIf(moved, m), t)) \subseteq Keys(m)
<1> DEFINE U == {t}
           n == ClearIf(moved, m)
<1>1. t \in U
    OBVIOUS
<1>2. IsTimedHashMap(n, K, V, T) /\ Keys(n) \subseteq Keys(m)
    BY ClearIfType
<1> HIDE DEF U, n
<1>3. IsTimedHashMap(SetTimeout(n, t), K, V, U) /\ Keys(SetTimeout(n, t)) = Keys(n)
    BY <1>1, <1>2, SetTimeoutType
<1> QED
    BY <1>2, <1>3 DEF U, n

\* A reload that keeps the IP version keeps at most what there was.
LEMMA UpdateConfigInv ==
    ASSUME IInv, NEW c \in Configs, UpdateConfig(c)
    PROVE  IInv'
<1> DEFINE moved == c.listen # cfg.listen
<1>0. /\ cfg' = c /\ c.family = cfg.family
      /\ update_addr' \in UpdateAddresses(c)
      /\ UNCHANGED <<update_gamedir, blocklist, uptime>>
    BY DEF UpdateConfig
<1>1. /\ IsTimedHashMap(challenges', Addr, Numbers, {c.challenge_timeout})
      /\ Keys(challenges') \subseteq Keys(challenges)
    BY UpdatedMapType DEF IInv, TypeOK, UpdateConfig
<1>2. /\ IsTimedHashMap(servers', Addr, ServerInfo, {c.server_timeout})
      /\ Keys(servers') \subseteq Keys(servers)
    BY UpdatedMapType DEF IInv, TypeOK, UpdateConfig
<1>3. /\ IsTimedHashMap(admin_challenges', Ips, [master : Numbers, hash : Numbers],
                        {c.challenge_timeout})
      /\ Keys(admin_challenges') \subseteq Keys(admin_challenges)
    BY UpdatedMapType DEF IInv, TypeOK, UpdateConfig
<1>4. IsTimedHashMap(admin_limit', Ips, {{}}, {c.admin_timeout})
    BY SetTimeoutType DEF IInv, TypeOK, UpdateConfig
<1>5. Keys(admin_limit') = Keys(admin_limit)
    BY DEF UpdateConfig, SetTimeout, Keys
<1>6. /\ IsTimedHashMap(client_rate_limit', Ips, 0 .. CounterMax, {ClientWindow})
      /\ Keys(client_rate_limit') \subseteq Keys(client_rate_limit)
    BY ClearIfType DEF IInv, TypeOK, UpdateConfig
<1>7. TypeOK'
    BY <1>0, <1>1, <1>2, <1>3, <1>4, <1>6 DEF IInv, TypeOK
<1>8. NoBannedServer'
    BY <1>0, <1>2 DEF IInv, NoBannedServer
<1>9. OneFamily'
    BY <1>0, <1>1, <1>2, <1>3, <1>5, <1>6 DEF IInv, OneFamily, FamilyOf, Keys
<1> QED
    BY <1>7, <1>8, <1>9 DEF IInv

\* The passing of time changes no map.
LEMMA TickInv ==
    ASSUME IInv, NEW d \in TickSteps, Tick(d)
    PROVE  IInv'
<1>1. uptime' \in 0 .. MaxUptime
    BY MasterServerAssumption DEF IInv, TypeOK, Tick
<1> QED
    BY <1>1 DEF IInv, TypeOK, NoBannedServer, OneFamily, Tick, serverVars, adminVars,
        clientVars, configVars, FamilyOf, Keys

\* The invariant is inductive.
LEMMA NextInv == IInv /\ [Next]_vars => IInv'
<1> SUFFICES ASSUME IInv, [Next]_vars PROVE IInv'
    OBVIOUS
<1>1. CASE \E p \in Packets : Receive(p)
    BY <1>1, ReceiveInv
<1>2. ASSUME NEW c \in Configs, Reload(c) PROVE IInv'
    <2>1. CASE Restart(c)
        BY <2>1, RestartInv
    <2>2. CASE UpdateConfig(c)
        BY <2>2, UpdateConfigInv
    <2>3. CASE FailToBind(c)
        BY <2>3, NothingInv DEF FailToBind
    <2> QED
        BY <1>2, <2>1, <2>2, <2>3 DEF Reload
<1>3. CASE \E d \in TickSteps : Tick(d)
    BY <1>3, TickInv
<1>4. CASE UNCHANGED vars
    BY <1>4, NothingInv DEF vars
<1> QED
    BY <1>1, <1>2, <1>3, <1>4 DEF Next

\* The invariant holds in every reachable state.
THEOREM Invariance == Spec => []IInv
BY InitInv, NextInv, PTL DEF Spec

-----------------------------------------------------------------------------
(* What the runs check, for all values of the constants                    *)

\* Every value the handlers store is one their readers expect: no packet, reload or
\* passing of time brings a map, its timeout or its periodic counter out of range.
THEOREM TypeCorrectness == Spec => []TypeOK
BY Invariance, PTL DEF IInv

\* While an address is banned no server of it is in the list, whatever challenges
\* were out when the ban came, and across every reload (admin_command, run).
THEOREM BannedServersStayOut == Spec => []NoBannedServer
BY Invariance, PTL DEF IInv

\* Servers, challenges, locks, counters and bans all belong to the IP version the
\* master listens on (Master::update_config).
THEOREM OneFamilyOnly == Spec => []OneFamily
BY Invariance, PTL DEF IInv

-----------------------------------------------------------------------------
(* Nothing is sent to a banned address                                     *)

\* What Send reports as sent are the messages it was given.
LEMMA SendSilent ==
    ASSUME NEW first, NEW others, NEW events, Send(first, others, events),
           first.to.ip \notin blocklist, \A o \in others : o.to.ip \notin blocklist
    PROVE  \A m \in out'.sent : m.to.ip \notin blocklist
BY DEF Send

\* A step that sends nothing is silent to everybody.
LEMMA QuietSilent ==
    ASSUME NEW events, Quiet(events)
    PROVE  out'.sent = {}
BY DEF Quiet

\* The announcements of a client go to listed servers only, and no listed server
\* is banned.
LEMMA QuerySilent ==
    ASSUME IInv, NEW p \in Packets, Admitted(p), HandleGameQueryServers(p)
    PROVE  SilentToBanned'
<1> DEFINE from == p.from
           q == p.query
<1>0. blocklist' = blocklist
    BY DEF HandleGameQueryServers, adminVars
<1>1. CASE AnswerOldClient(from, q)
    <2> DEFINE first == Message(from, "update", [addr |-> update_addr, key |-> q.key])
    <2>1. Send(first, {}, {"query"})
        BY <1>1 DEF AnswerOldClient
    <2>2. first.to.ip \notin blocklist
        BY DEF Message, Admitted
    <2> HIDE DEF first
    <2> QED
        BY <1>0, <2>1, <2>2, SendSilent DEF SilentToBanned
<1>2. CASE AnswerQuery(from, q)
    <2> DEFINE first == Message(from, "servers",
                                [list |-> FilteredServers(q), key |-> q.key])
               announcements == {Message(a, "announce", [client |-> from]) :
                                     a \in FilteredServersNat(q)}
               others == IF q.nat = FALSE THEN {} ELSE announcements
    <2>1. Send(first, others, {"query"})
        BY <1>2 DEF AnswerQuery
    <2>2. first.to.ip \notin blocklist
        BY DEF Message, Admitted
    <2>3. \A a \in FilteredServersNat(q) : a.ip \notin blocklist
        BY DEF FilteredServersNat, FilteredServers, ValidKeys, IInv, NoBannedServer
    <2>4. \A o \in announcements : o.to.ip \notin blocklist
        BY <2>3 DEF Message
    <2>5. \A o \in others : o.to.ip \notin blocklist
        BY <2>4
    <2> HIDE DEF first, others
    <2> QED
        BY <1>0, <2>1, <2>2, <2>5, SendSilent DEF SilentToBanned
<1> QED
    BY <1>1, <1>2 DEF HandleGameQueryServers

\* An answer goes to the address the datagram came from, which run() admitted.
LEMMA AnswerSilent ==
    ASSUME NEW p \in Packets, Admitted(p), NEW kind, NEW body,
           Send(Message(p.from, kind, body), {}, {}), blocklist' = blocklist
    PROVE  SilentToBanned'
<1> DEFINE first == Message(p.from, kind, body)
<1>1. first.to.ip \notin blocklist
    BY DEF Message, Admitted
<1> HIDE DEF first
<1> QED
    BY <1>1, SendSilent DEF SilentToBanned, first

\* No handler sends to an address that is banned when it ends.
LEMMA ReceiveSilent ==
    ASSUME IInv, NEW p \in Packets, Receive(p)
    PROVE  SilentToBanned'
<1>0. Admitted(p)
    BY DEF Receive, IsBlocked, Admitted
<1>1. CASE HandleServerChallenge(p)
    <2>1. PICK c : Send(Message(p.from, "challenge", [number |-> c]), {}, {})
        BY <1>1 DEF HandleServerChallenge
    <2> QED
        BY <1>0, <1>1, <2>1, AnswerSilent DEF HandleServerChallenge, adminVars
<1>2. CASE HandleServerAdd(p)
    BY <1>2 DEF HandleServerAdd, Quiet, SilentToBanned
<1>3. CASE HandleServerRemove(p) \/ RefuseAdminRequest(p) \/ RefuseMalformed(p)
                \/ RefuseGameRequest(p) \/ HandleAdminCommand(p)
    <2>1. \E events : Quiet(events)
        BY <1>3 DEF HandleServerRemove, RefuseAdminRequest, RefuseMalformed,
            RefuseGameRequest, HandleAdminCommand
    <2> QED
        BY <2>1, QuietSilent DEF SilentToBanned
<1>4. CASE HandleGameQueryServers(p)
    BY <1>0, <1>4, QuerySilent
<1>5. CASE HandleGameGetServerInfo(p)
    <2>1. PICK dir : Send(Message(p.from, "info", [gamedir |-> dir]), {}, {})
        BY <1>5 DEF HandleGameGetServerInfo
    <2> QED
        BY <1>0, <1>5, <2>1, AnswerSilent DEF HandleGameGetServerInfo, adminVars
<1>6. CASE HandleAdminChallenge(p)
    <2>1. PICK x, y : Send(Message(p.from, "admin_challenge",
                                   [master |-> x, hash |-> y]), {}, {})
        BY <1>6 DEF HandleAdminChallenge
    <2> QED
        BY <1>0, <1>6, <2>1, AnswerSilent DEF HandleAdminChallenge
<1> QED
    BY <1>1, <1>2, <1>3, <1>4, <1>5, <1>6 DEF Receive, HandlePacket

\* No step sends to a banned address.
LEMMA NextSilent == IInv /\ SilentToBanned /\ [Next]_vars => SilentToBanned'
<1> SUFFICES ASSUME IInv, SilentToBanned, [Next]_vars PROVE SilentToBanned'
    OBVIOUS
<1>1. CASE \E p \in Packets : Receive(p)
    BY <1>1, ReceiveSilent
<1>2. ASSUME NEW c \in Configs, Reload(c) PROVE SilentToBanned'
    BY <1>2, QuietSilent DEF Reload, Restart, UpdateConfig, FailToBind, SilentToBanned
<1>3. CASE \E d \in TickSteps : Tick(d)
    BY <1>3, QuietSilent DEF Tick, SilentToBanned
<1>4. CASE UNCHANGED vars
    BY <1>4 DEF vars, adminVars, SilentToBanned
<1> QED
    BY <1>1, <1>2, <1>3, <1>4 DEF Next

\* A banned address gets neither an answer nor the announcement of a client: run()
\* drops its datagrams, and the ban took its servers off the list.
THEOREM BannedHostsHearNothing == Spec => []SilentToBanned
<1>1. Init => SilentToBanned
    BY DEF Init, InitWith, SilentToBanned
<1> QED
    BY <1>1, NextSilent, Invariance, PTL DEF Spec

=============================================================================

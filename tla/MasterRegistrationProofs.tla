---------------------- MODULE MasterRegistrationProofs ----------------------
(***************************************************************************)
(* The registration of game servers, for every instance of the master      *)
(* server: a challenge registers at most one server once, the lists are    *)
(* fresh and complete, and the servers of an IP are within their limit.    *)
(***************************************************************************)
EXTENDS MasterRegistration, MasterServerProofs, FiniteSetTheorems

\* A challenge that is in the map was not spent.  An address whose entry is gone
\* may have spent it or not.
Unspent ==
    /\ unspent \in [Addr -> {0, 1}]
    /\ \A a \in Keys(challenges) : unspent[a] = 1

RegIInv == IInv /\ Unspent

-----------------------------------------------------------------------------
\* Of the handlers only that of ServerAdd reports an addition.
LEMMA OnlyAddRegisters ==
    ASSUME NEW p \in Packets, Receive(p), Registers
    PROVE  HandleServerAdd(p)
<1>1. ASSUME NEW first, NEW others, NEW events \in SUBSET {"query"},
             Send(first, others, events)
      PROVE  FALSE
    BY <1>1 DEF Send, Registers, Event
<1>2. ASSUME NEW events \in SUBSET {"del", "error"}, Quiet(events) PROVE FALSE
    BY <1>2 DEF Quiet, Registers, Event
<1> DEFINE answer(kind, body) == Send(Message(p.from, kind, body), {}, {})
<1>12. \A kind, body : ~answer(kind, body)
    BY <1>1
<1> HIDE DEF answer
<1>3. ~HandleServerChallenge(p)
    <2> SUFFICES ASSUME NEW c, Send(Message(p.from, "challenge", [number |-> c]), {}, {})
                 PROVE  FALSE
        BY DEF HandleServerChallenge
    <2> QED
        BY <1>12 DEF answer
<1>4. ~HandleServerRemove(p)
    BY <1>2 DEF HandleServerRemove
<1>5. ~HandleGameQueryServers(p)
    BY <1>1 DEF HandleGameQueryServers, AnswerQuery, AnswerOldClient
<1>6. ~HandleGameGetServerInfo(p)
    BY <1>1 DEF HandleGameGetServerInfo
<1>7. ~RefuseGameRequest(p)
    BY <1>2 DEF RefuseGameRequest
<1>8. ~HandleAdminChallenge(p)
    <2> SUFFICES ASSUME NEW x, NEW y,
                        Send(Message(p.from, "admin_challenge",
                                     [master |-> x, hash |-> y]), {}, {})
                 PROVE  FALSE
        BY DEF HandleAdminChallenge
    <2> QED
        BY <1>12 DEF answer
<1>9. ~HandleAdminCommand(p)
    BY <1>2 DEF HandleAdminCommand
<1>10. ~RefuseAdminRequest(p)
    BY <1>2 DEF RefuseAdminRequest
<1>11. ~RefuseMalformed(p)
    BY <1>2 DEF RefuseMalformed
<1> QED
    BY <1>3, <1>4, <1>5, <1>6, <1>7, <1>8, <1>9, <1>10, <1>11
       DEF Receive, HandlePacket

\* An addition uses the challenge up.
LEMMA AddSpends ==
    ASSUME IInv, NEW p \in Packets, HandleServerAdd(p)
    PROVE  /\ Keys(challenges') \subseteq Keys(challenges)
           /\ Registers => p.from \in Keys(challenges) \ Keys(challenges')
<1>1. IsTimedHashMap(challenges, Addr, Numbers, {cfg.challenge_timeout})
    BY DEF IInv, TypeOK
<1>2. Keys(Remove(challenges, p.from)) = Keys(challenges) \ {p.from}
    BY <1>1, RemoveType
<1>3. CASE AddIsExpected(p)
    BY <1>2, <1>3 DEF HandleServerAdd, AddIsExpected, ValidKeys
<1>4. CASE ~AddIsExpected(p)
    BY <1>4 DEF HandleServerAdd, Quiet, Registers, serverVars
<1> QED
    BY <1>3, <1>4

\* Only the handler of a challenge puts one into the map.
LEMMA OnlyChallengesAppear ==
    ASSUME IInv, NEW p \in Packets, Receive(p), p.type # "challenge"
    PROVE  Keys(challenges') \subseteq Keys(challenges)
<1>1. CASE HandleServerAdd(p)
    BY <1>1, AddSpends
<1>2. CASE ~HandleServerAdd(p)
    BY <1>2 DEF Receive, HandlePacket, HandleServerChallenge, HandleServerRemove,
        HandleGameQueryServers, HandleGameGetServerInfo, RefuseGameRequest,
        HandleAdminChallenge, HandleAdminCommand, RefuseAdminRequest,
        RefuseMalformed, serverVars, Keys
<1> QED
    BY <1>1, <1>2

\* A challenge that is handed out again was not spent, and a new one is not yet.
LEMMA ChallengeUnspent ==
    ASSUME RegIInv, NEW p \in Packets, Receive(p), Received(p), p.type = "challenge"
    PROVE  Unspent'
<1>1. HandleServerChallenge(p)
    BY DEF Receive, HandlePacket, HandleServerChallenge, HandleServerAdd,
        HandleServerRemove, HandleGameQueryServers, HandleGameGetServerInfo,
        RefuseGameRequest, HandleAdminChallenge, HandleAdminCommand,
        RefuseAdminRequest, RefuseMalformed
<1>2. ~Registers
    BY OnlyAddRegisters DEF HandleServerAdd
<1>3. p.from \in Addr
    BY PacketType
<1> DEFINE e == Entry(challenges, p.from, Now)
           T == {cfg.challenge_timeout}
<1>4. IsTimedHashMap(challenges, Addr, Numbers, T) /\ Now \in RelativeTimes
    BY NowType DEF RegIInv, IInv, TypeOK
<1>5. /\ IsTimedHashMap(e, Addr, Numbers, T) /\ Keys(e) \subseteq Keys(challenges)
      /\ p.from \in Keys(e) <=> p.from \in ValidKeys(challenges, Now)
    BY <1>4, EntryType
<1>6. PICK number \in Numbers :
          challenges' = IF p.from \in Keys(e) THEN e ELSE Put(e, p.from, number, Now)
    BY <1>1 DEF HandleServerChallenge
<1> HIDE DEF e, T
<1>7. Keys(Put(e, p.from, number, Now)) = Keys(e) \cup {p.from}
    BY <1>3, <1>4, <1>5, PutType
<1>8. CASE p.from \in ValidKeys(challenges, Now)
    BY <1>2, <1>5, <1>6, <1>8 DEF RegIInv, Unspent, Received, Draws
<1>9. CASE p.from \notin ValidKeys(challenges, Now)
    <2>1. unspent' = [unspent EXCEPT ![p.from] = 1]
        BY <1>9 DEF Received, Draws
    <2>2. Keys(challenges') \subseteq Keys(challenges) \cup {p.from}
        BY <1>5, <1>6, <1>7
    <2> QED
        BY <1>3, <2>1, <2>2 DEF RegIInv, Unspent
<1> QED
    BY <1>8, <1>9

\* Every handler keeps the account of challenges.
LEMMA ReceivedUnspent ==
    ASSUME RegIInv, NEW p \in Packets, Receive(p), Received(p)
    PROVE  Unspent'
<1>1. CASE p.type = "challenge"
    BY <1>1, ChallengeUnspent
<1>2. CASE p.type # "challenge" /\ Registers
    <2>1. /\ Keys(challenges') \subseteq Keys(challenges)
          /\ p.from \in Keys(challenges) \ Keys(challenges')
        BY <1>2, OnlyAddRegisters, AddSpends DEF RegIInv
    <2>2. unspent' = [unspent EXCEPT ![p.from] = @ - 1]
        BY <1>2 DEF Received, Draws
    <2>3. p.from \in Addr /\ unspent[p.from] = 1
        BY <2>1, PacketType DEF RegIInv, Unspent
    <2>4. unspent' = [unspent EXCEPT ![p.from] = 0]
        BY <2>2, <2>3
    <2> QED
        BY <2>1, <2>3, <2>4 DEF RegIInv, Unspent
<1>3. CASE p.type # "challenge" /\ ~Registers
    <2>1. Keys(challenges') \subseteq Keys(challenges)
        BY <1>3, OnlyChallengesAppear DEF RegIInv
    <2> QED
        BY <1>3, <2>1 DEF RegIInv, Unspent, Received, Draws
<1> QED
    BY <1>1, <1>2, <1>3

\* A reload that starts the history anew has emptied the map.
LEMMA ReloadedUnspent ==
    ASSUME RegIInv, NEW c \in Configs, Reload(c), Reloaded(c)
    PROVE  Unspent'
<1> DEFINE zero == [a \in Addr |-> 0]
<1>0. /\ IsTimedHashMap(challenges, Addr, Numbers, {cfg.challenge_timeout})
      /\ unspent' \in {unspent, zero}
    BY DEF RegIInv, IInv, TypeOK, Reloaded, historyVars
<1>1. CASE Restart(c)
    <2>1. Keys(challenges') = {}
        BY <1>1 DEF Restart, NewMap, Keys
    <2> QED
        BY <1>0, <2>1 DEF RegIInv, Unspent
<1>2. CASE UpdateConfig(c)
    <2> DEFINE moved == c.listen # cfg.listen
               n == ClearIf(moved, challenges)
    <2>1. challenges' = SetTimeout(n, c.challenge_timeout)
        BY <1>2 DEF UpdateConfig
    <2>2. Keys(challenges') = Keys(n)
        BY <2>1 DEF SetTimeout, Keys
    <2>3. CASE moved
        <3>1. Keys(n) = {}
            BY <1>0, <2>3, ClearType DEF ClearIf
        <3> QED
            BY <1>0, <2>2, <3>1 DEF RegIInv, Unspent
    <2>4. CASE ~moved
        <3>1. Keys(n) = Keys(challenges)
            BY <2>4 DEF ClearIf
        <3>2. unspent' = unspent
            BY <1>2, <2>4 DEF Reloaded, UpdateConfig, Quiet, Event, historyVars
        <3> QED
            BY <2>2, <3>1, <3>2 DEF RegIInv, Unspent
    <2> QED
        BY <2>3, <2>4
<1>3. CASE FailToBind(c)
    BY <1>3 DEF FailToBind, Reloaded, RegIInv, Unspent, serverVars, configVars,
        historyVars, Keys
<1> QED
    BY <1>1, <1>2, <1>3 DEF Reload

\* At the start no challenge was drawn.
LEMMA RegInitInv == RegInit => RegIInv
<1> SUFFICES ASSUME RegInit PROVE RegIInv
    OBVIOUS
<1>1. Keys(challenges) = {}
    BY DEF RegInit, Init, InitWith, NewMap, Keys
<1> QED
    BY <1>1, InitInv DEF RegInit, RegIInv, Unspent

\* The account of challenges is inductive.
LEMMA RegNextInv == RegIInv /\ [RegNext]_regVars => RegIInv'
<1> SUFFICES ASSUME RegIInv, [RegNext]_regVars PROVE RegIInv'
    OBVIOUS
<1>1. [Next]_vars
    BY DEF RegNext, Next, regVars
<1>2. IInv'
    BY <1>1, NextInv DEF RegIInv
<1>3. ASSUME NEW p \in Packets, Receive(p), Received(p) PROVE Unspent'
    BY <1>3, ReceivedUnspent
<1>4. ASSUME NEW c \in Configs, Reload(c), Reloaded(c) PROVE Unspent'
    BY <1>4, ReloadedUnspent
<1>5. ASSUME NEW d \in TickSteps, Tick(d), UNCHANGED historyVars PROVE Unspent'
    BY <1>5 DEF Tick, serverVars, historyVars, RegIInv, Unspent, Keys
<1>6. ASSUME UNCHANGED regVars PROVE Unspent'
    BY <1>6 DEF regVars, vars, serverVars, historyVars, RegIInv, Unspent, Keys
<1>7. Unspent'
    BY <1>3, <1>4, <1>5, <1>6 DEF RegNext
<1> QED
    BY <1>2, <1>7 DEF RegIInv

\* However often a ServerAdd is repeated, delayed or reordered, each challenge the
\* master drew registers its address at most once (handle_server_add).
THEOREM ChallengesAreSingleUse == RegSpec => []OneRegistrationPerChallenge
<1>1. RegIInv => OneRegistrationPerChallenge
    BY DEF RegIInv, Unspent, OneRegistrationPerChallenge
<1> QED
    BY <1>1, RegInitInv, RegNextInv, PTL DEF RegSpec

-----------------------------------------------------------------------------
(* How long a server stays listed, while the clock does not wrap           *)

\* The timeout is over for a registration at addedAt[a], or nearly.
Aged(a) == uptime - addedAt[a] > 1000 * cfg.server_timeout - UnitsPerSec

History ==
    /\ addedAt \in [Addr -> Nat]
    /\ \A a \in Addr : addedAt[a] <= uptime
    /\ joined \subseteq Addr

\* The entry of a server was written when its registration was reported.
Stamped == \A a \in Keys(servers) : servers.map[a].time = FromMillis(addedAt[a])

\* Only what is outdated is dropped.
KeptWhileFresh == \A a \in joined : a \in Keys(servers) \/ Aged(a)

FreshIInv == RegIInv /\ History /\ Stamped /\ KeptWhileFresh

\* What IInv says of the list of servers and of the clock.
LEMMA ListType ==
    ASSUME IInv
    PROVE  /\ IsTimedHashMap(servers, Addr, ServerInfo, {cfg.server_timeout})
           /\ servers.timeout = cfg.server_timeout
           /\ cfg.server_timeout \in Nat
           /\ Keys(servers) \subseteq Addr
           /\ uptime \in Nat /\ uptime <= MaxUptime
BY ConfigType, MasterServerAssumption DEF IInv, TypeOK, IsTimedHashMap, Keys

\* A server that a reader of the clock at ms does not see has aged, one that it sees
\* has not.
LEMMA SeenWhileFresh ==
    ASSUME NoWrap, FreshIInv, NEW a \in Keys(servers),
           NEW ms \in Nat, uptime <= ms, ms <= MaxUptime
    PROVE  IF a \in ValidKeys(servers, FromMillis(ms))
           THEN ms - addedAt[a] < 1000 * cfg.server_timeout + UnitsPerSec
           ELSE ms - addedAt[a] > 1000 * cfg.server_timeout - UnitsPerSec
<1>1. /\ servers.timeout = cfg.server_timeout
      /\ cfg.server_timeout \in Nat
      /\ a \in Addr
    BY ListType DEF FreshIInv, RegIInv
<1>2. addedAt[a] \in Nat /\ addedAt[a] <= ms
    BY <1>1, ListType DEF FreshIInv, RegIInv, History
<1>3. ms < ClockRange * UnitsPerSec
    BY MasterServerAssumption, ClockRangeAssumption DEF NoWrap, UnitsPerSec
<1>4. servers.map[a].time = FromMillis(addedAt[a])
    BY DEF FreshIInv, Stamped
<1> QED
    BY <1>1, <1>2, <1>3, <1>4, AgeOfEntry

\* A step that drops servers only because they are outdated or banned.
LEMMA DroppingKeepsFresh ==
    ASSUME NoWrap, FreshIInv,
           uptime' \in Nat, uptime <= uptime', uptime' <= MaxUptime,
           cfg' = cfg, addedAt' = addedAt, joined' \subseteq joined,
           \A x \in Keys(servers') : /\ x \in Keys(servers)
                                     /\ servers'.map[x] = servers.map[x],
           \A a \in joined' \cap ValidKeys(servers, FromMillis(uptime')) :
               a \in Keys(servers')
    PROVE  History' /\ Stamped' /\ KeptWhileFresh'
<1>1. /\ uptime \in Nat
      /\ cfg.server_timeout \in Nat
      /\ Keys(servers) \subseteq Addr
    BY ListType DEF FreshIInv, RegIInv
<1>2. History'
    BY <1>1 DEF FreshIInv, History
<1>3. Stamped'
    BY DEF FreshIInv, Stamped
<1>4. ASSUME NEW a \in joined', a \notin Keys(servers') PROVE Aged(a)'
    <2>1. a \notin ValidKeys(servers, FromMillis(uptime'))
        BY <1>4
    <2>2. a \in Addr /\ addedAt[a] \in Nat
        BY <1>4 DEF FreshIInv, History
    <2>3. CASE a \in Keys(servers)
        <3>1. uptime' - addedAt[a] > 1000 * cfg.server_timeout - UnitsPerSec
            BY <2>1, <2>3, SeenWhileFresh
        <3> QED
            BY <3>1 DEF Aged
    <2>4. CASE a \notin Keys(servers)
        <3>1. uptime - addedAt[a] > 1000 * cfg.server_timeout - UnitsPerSec
            BY <1>4, <2>4 DEF FreshIInv, KeptWhileFresh, Aged
        <3> QED
            BY <1>1, <2>2, <3>1 DEF Aged, UnitsPerSec
    <2> QED
        BY <2>3, <2>4
<1>5. KeptWhileFresh'
    BY <1>4 DEF KeptWhileFresh
<1> QED
    BY <1>2, <1>3, <1>5

\* A registration is stamped with the clock that the report carries, and takes the
\* place of no other server.
LEMMA AddKeepsFresh ==
    ASSUME NoWrap, FreshIInv, NEW p \in Packets, HandleServerAdd(p), Received(p),
           Registers
    PROVE  History' /\ Stamped' /\ KeptWhileFresh'
<1> DEFINE T == {cfg.server_timeout}
<1>1. /\ IsTimedHashMap(servers, Addr, ServerInfo, T)
      /\ cfg.server_timeout \in Nat
      /\ Keys(servers) \subseteq Addr
      /\ uptime \in Nat
    BY ListType DEF FreshIInv, RegIInv
<1>2. /\ uptime' \in Nat /\ uptime <= uptime' /\ uptime' <= MaxUptime
      /\ Later = FromMillis(uptime')
      /\ Later \in RelativeTimes
    <2>1. uptime' \in 0 .. MaxUptime /\ Later \in RelativeTimes
        BY LaterType DEF FreshIInv, RegIInv, IInv, HandleServerAdd
    <2>2. uptime <= uptime'
        BY <1>1, MasterServerAssumption DEF HandleServerAdd, ClockMayAdvance
    <2> QED
        BY <2>1, <2>2, MasterServerAssumption DEF Later
<1>3. p.type = "add" /\ p.from \in Addr /\ p.info \in ServerInfo
    BY PacketType DEF HandleServerAdd
<1> DEFINE new == AddServer(p.from, p.info, Later)
<1>4. servers' = new
    BY DEF HandleServerAdd, Registers, Quiet
<1>5. cfg' = cfg /\ blocklist' = blocklist
    BY DEF HandleServerAdd, configVars, adminVars
<1>6. /\ ValidKeys(servers, Later) \ {p.from} \subseteq Keys(new)
      /\ \A x \in Keys(new) :
            IF x = p.from THEN new.map[x].time = Later
            ELSE x \in Keys(servers) /\ new.map[x] = servers.map[x]
    <2> HIDE DEF T
    <2> QED
        BY <1>1, <1>2, <1>3, AddServerEntries
<1> HIDE DEF new, T
<1>7. /\ addedAt' = [addedAt EXCEPT ![p.from] = uptime']
      /\ joined' \subseteq joined \cup {p.from}
      /\ p.from \in joined' => p.from \in Keys(servers')
    BY DEF Received
<1>8. History'
    BY <1>1, <1>2, <1>3, <1>7 DEF FreshIInv, History
<1>9. Stamped'
    <2> SUFFICES ASSUME NEW x \in Keys(servers')
                 PROVE  servers'.map[x].time = FromMillis(addedAt'[x])
        BY DEF Stamped
    <2>1. CASE x = p.from
        BY <1>2, <1>3, <1>4, <1>6, <1>7, <2>1 DEF FreshIInv, History
    <2>2. CASE x # p.from
        BY <1>1, <1>3, <1>4, <1>6, <1>7, <2>2 DEF FreshIInv, History, Stamped
    <2> QED
        BY <2>1, <2>2
<1>10. KeptWhileFresh'
    <2> SUFFICES ASSUME NEW a \in joined', a \notin Keys(servers') PROVE Aged(a)'
        BY DEF KeptWhileFresh
    <2>1. a # p.from /\ a \in joined
        BY <1>7
    <2>2. a \in Addr /\ addedAt[a] \in Nat /\ addedAt'[a] = addedAt[a]
        BY <1>3, <1>7, <2>1 DEF FreshIInv, History
    <2>3. a \notin ValidKeys(servers, FromMillis(uptime'))
        BY <1>2, <1>4, <1>6, <2>1
    <2>4. CASE a \in Keys(servers)
        <3>1. uptime' - addedAt[a] > 1000 * cfg.server_timeout - UnitsPerSec
            BY <1>2, <2>3, <2>4, SeenWhileFresh
        <3> QED
            BY <1>5, <2>2, <3>1 DEF Aged
    <2>5. CASE a \notin Keys(servers)
        <3>1. uptime - addedAt[a] > 1000 * cfg.server_timeout - UnitsPerSec
            BY <2>1, <2>5 DEF FreshIInv, KeptWhileFresh, Aged
        <3> QED
            BY <1>1, <1>2, <1>5, <2>2, <3>1 DEF Aged, UnitsPerSec
    <2> QED
        BY <2>4, <2>5
<1> QED
    BY <1>8, <1>9, <1>10

\* A command drops servers only because they are outdated or banned.
LEMMA CommandDrops ==
    ASSUME IInv, NEW p \in Packets, p.type = "admin_command", NEW now,
           RunAdminCommand(p.command, now)
    PROVE  /\ \A x \in Keys(servers') : /\ x \in Keys(servers)
                                        /\ servers'.map[x] = servers.map[x]
           /\ \A x \in ValidKeys(servers, now) :
                 x.ip \notin blocklist' => x \in Keys(servers')
<1> DEFINE T == {cfg.server_timeout}
<1>1. IsTimedHashMap(servers, Addr, ServerInfo, T)
    BY DEF IInv, TypeOK
<1>2. p.command.op \in {"ban", "unban", "other"}
    <2>1. p \in Packet
        BY MasterServerAssumption
    <2>2. p.command \in Command
        BY <2>1 DEF Packet
    <2> QED
        BY <2>2 DEF Command
<1>3. ValidKeys(servers, now) \subseteq Keys(servers)
    BY DEF ValidKeys
<1>4. CASE p.command.op = "ban"
    <2> DEFINE new == AddressesIn(p.command) \ blocklist
               others == {a \in Keys(servers) : a.ip \notin new}
               kept == Retain(servers, others, now)
    <2>1. /\ blocklist' = blocklist \cup new
          /\ servers' = IF new = {} THEN servers ELSE kept
        BY <1>4 DEF RunAdminCommand, Ban, RemoveServersByIp
    <2>2. \A x \in Keys(servers) : x.ip \notin new => x \in others
        OBVIOUS
    <2> HIDE DEF T, new, others
    <2>3. /\ Keys(kept) \subseteq Keys(servers) \cap others
          /\ ValidKeys(servers, now) \cap others \subseteq Keys(kept)
          /\ \A k \in Keys(kept) : kept.map[k] = servers.map[k]
        BY <1>1, RetainType
    <2> HIDE DEF kept
    <2> QED
        BY <1>3, <2>1, <2>2, <2>3
<1>5. CASE p.command.op # "ban"
    BY <1>2, <1>3, <1>5 DEF RunAdminCommand
<1> QED
    BY <1>4, <1>5

\* Every handler keeps the stamps and drops nothing that is fresh.
LEMMA ReceivedKeepsFresh ==
    ASSUME NoWrap, FreshIInv, NEW p \in Packets, Receive(p), Received(p)
    PROVE  History' /\ Stamped' /\ KeptWhileFresh'
<1>1. CASE Registers
    BY <1>1, OnlyAddRegisters, AddKeepsFresh
<1>2. CASE ~Registers
    <2>1. /\ addedAt' = addedAt
          /\ joined' \subseteq joined
          /\ \A a \in joined' : a.ip \notin blocklist'
        BY <1>2 DEF Received
    <2>2. uptime \in Nat /\ uptime <= MaxUptime
        BY ListType DEF FreshIInv, RegIInv
    <2>3. ASSUME ClockMayAdvance
          PROVE  /\ uptime' \in Nat /\ uptime <= uptime' /\ uptime' <= MaxUptime
                 /\ Later = FromMillis(uptime')
        <3>1. uptime' \in 0 .. MaxUptime
            BY <2>3, LaterType DEF FreshIInv, RegIInv, IInv
        <3>2. uptime <= uptime'
            BY <2>2, <2>3, MasterServerAssumption DEF ClockMayAdvance
        <3> QED
            BY <3>1, <3>2, MasterServerAssumption DEF Later
    <2>4. ASSUME uptime' \in Nat, uptime <= uptime', uptime' <= MaxUptime,
                 servers' = servers, cfg' = cfg
          PROVE  History' /\ Stamped' /\ KeptWhileFresh'
        <3>1. \A a \in joined' \cap ValidKeys(servers, FromMillis(uptime')) :
                  a \in Keys(servers)
            BY DEF ValidKeys
        <3>2. \A x \in Keys(servers') : /\ x \in Keys(servers)
                                        /\ servers'.map[x] = servers.map[x]
            BY <2>4
        <3>3. \A a \in joined' \cap ValidKeys(servers, FromMillis(uptime')) :
                  a \in Keys(servers')
            BY <2>4, <3>1
        <3> QED
            BY <2>1, <2>4, <3>2, <3>3, DroppingKeepsFresh
    <2>5. CASE HandleServerAdd(p)
        <3>1. servers' = servers
            BY <1>2, <2>5 DEF HandleServerAdd, Registers, serverVars
        <3>2. cfg' = cfg
            BY <2>5 DEF HandleServerAdd, configVars
        <3> QED
            BY <2>3, <2>4, <2>5, <3>1, <3>2 DEF HandleServerAdd
    <2>6. CASE HandleAdminCommand(p) /\ RunAdminCommand(p.command, Later)
        <3>1. /\ \A x \in Keys(servers') : /\ x \in Keys(servers)
                                           /\ servers'.map[x] = servers.map[x]
              /\ \A x \in ValidKeys(servers, Later) :
                    x.ip \notin blocklist' => x \in Keys(servers')
            BY <2>6, CommandDrops DEF HandleAdminCommand, FreshIInv, RegIInv
        <3>2. cfg' = cfg
            BY <2>6 DEF HandleAdminCommand, configVars
        <3>3. /\ uptime' \in Nat /\ uptime <= uptime' /\ uptime' <= MaxUptime
              /\ Later = FromMillis(uptime')
            BY <2>3, <2>6 DEF HandleAdminCommand
        <3>4. \A a \in joined' \cap ValidKeys(servers, FromMillis(uptime')) :
                  a \in Keys(servers')
            BY <2>1, <3>1, <3>3
        <3> QED
            BY <2>1, <3>1, <3>2, <3>3, <3>4, DroppingKeepsFresh
    <2>7. CASE HandleAdminCommand(p) /\ UNCHANGED servers
        <3>1. cfg' = cfg
            BY <2>7 DEF HandleAdminCommand, configVars
        <3> QED
            BY <2>3, <2>4, <2>7, <3>1 DEF HandleAdminCommand
    <2>8. CASE ~HandleServerAdd(p) /\ ~HandleAdminCommand(p)
        <3>1. UNCHANGED <<servers, cfg, uptime>>
            BY <2>8 DEF Receive, HandlePacket, HandleServerChallenge,
                HandleServerRemove, HandleGameQueryServers, HandleGameGetServerInfo,
                RefuseGameRequest, HandleAdminChallenge, RefuseAdminRequest,
                RefuseMalformed, serverVars, configVars
        <3> QED
            BY <2>2, <2>4, <3>1
    <2>9. HandleAdminCommand(p) => RunAdminCommand(p.command, Later) \/ UNCHANGED servers
        BY DEF HandleAdminCommand
    <2> QED
        BY <2>5, <2>6, <2>7, <2>8, <2>9
<1> QED
    BY <1>1, <1>2

\* A reload that counts keeps every server or forgets them all.
LEMMA ReloadedKeepsFresh ==
    ASSUME NoWrap, FreshIInv, NEW c \in Configs, Reload(c), Reloaded(c)
    PROVE  History' /\ Stamped' /\ KeptWhileFresh'
<1>1. /\ IsTimedHashMap(servers, Addr, ServerInfo, {cfg.server_timeout})
      /\ uptime \in Nat
    BY ListType DEF FreshIInv, RegIInv
<1>2. uptime' = uptime
    BY DEF Reload, Restart, UpdateConfig, FailToBind
<1>3. addedAt' = addedAt /\ joined' \subseteq joined
    BY DEF Reloaded, historyVars
<1>4. History'
    BY <1>2, <1>3 DEF FreshIInv, History
<1>5. CASE Keys(servers') = {} /\ joined' = {}
    BY <1>4, <1>5 DEF Stamped, KeptWhileFresh
<1>6. CASE servers'.map = servers.map /\ joined' \subseteq Keys(servers)
    <2>1. Keys(servers') = Keys(servers)
        BY <1>6 DEF Keys
    <2>2. Stamped'
        BY <1>3, <1>6, <2>1 DEF FreshIInv, Stamped
    <2>3. KeptWhileFresh'
        BY <1>6, <2>1 DEF KeptWhileFresh
    <2> QED
        BY <1>4, <2>2, <2>3
<1>7. CASE UNCHANGED <<servers, cfg, historyVars>>
    <2>1. Stamped'
        BY <1>7 DEF FreshIInv, Stamped, historyVars, Keys
    <2>2. KeptWhileFresh'
        BY <1>2, <1>7 DEF FreshIInv, KeptWhileFresh, Aged, historyVars, Keys
    <2> QED
        BY <1>4, <2>1, <2>2
<1>8. CASE Restart(c)
    <2>1. Keys(servers') = {}
        BY <1>8 DEF Restart, NewMap, Keys
    <2>2. joined' = {}
        BY <1>8 DEF Restart, Reloaded
    <2> QED
        BY <1>5, <2>1, <2>2
<1>9. CASE FailToBind(c)
    BY <1>7, <1>9 DEF FailToBind, Reloaded, serverVars, configVars
<1>10. CASE UpdateConfig(c)
    <2> DEFINE moved == c.listen # cfg.listen
               n == ClearIf(moved, servers)
    <2>1. servers' = SetTimeout(n, c.server_timeout) /\ cfg' = c
        BY <1>10 DEF UpdateConfig
    <2>2. servers'.map = n.map
        BY <1>1, <2>1, ClearType DEF SetTimeout, IsTimedHashMap, ClearIf
    <2>3. CASE moved
        <3>1. Keys(servers') = {}
            BY <1>1, <2>2, <2>3, ClearType DEF ClearIf, Keys
        <3>2. Event("clear") \in out'.events
            BY <1>10, <2>3 DEF UpdateConfig, Quiet
        <3>3. cfg' # cfg
            BY <2>1, <2>3
        <3>4. joined' = {}
            BY <3>2, <3>3 DEF Reloaded
        <3> QED
            BY <1>5, <3>1, <3>4
    <2>4. CASE ~moved /\ cfg' = cfg
        <3>1. servers' = SetTimeout(servers, cfg.server_timeout)
            BY <2>1, <2>4 DEF ClearIf
        <3>2. servers' = servers
            BY <1>1, <3>1 DEF SetTimeout, IsTimedHashMap
        <3> QED
            BY <1>7, <2>4, <3>2 DEF Reloaded
    <2>5. CASE ~moved /\ cfg' # cfg
        <3>1. servers'.map = servers.map
            BY <2>2, <2>5 DEF ClearIf
        <3>2. joined' \subseteq Keys(servers)
            BY <2>5 DEF Reloaded, ValidKeys
        <3> QED
            BY <1>6, <3>1, <3>2
    <2> QED
        BY <2>3, <2>4, <2>5
<1> QED
    BY <1>8, <1>9, <1>10 DEF Reload

\* At the start nothing is listed.
LEMMA FreshInitInv == RegInit => FreshIInv
<1> SUFFICES ASSUME RegInit PROVE FreshIInv
    OBVIOUS
<1>1. Keys(servers) = {}
    BY DEF RegInit, Init, InitWith, NewMap, Keys
<1>2. uptime = 0 /\ addedAt = [a \in Addr |-> 0] /\ joined = {}
    BY DEF RegInit, Init, InitWith
<1> QED
    BY <1>1, <1>2, RegInitInv DEF FreshIInv, History, Stamped, KeptWhileFresh

\* Stamps and the freshness of what is dropped are inductive.
LEMMA FreshNextInv ==
    ASSUME NoWrap, FreshIInv, [RegNext]_regVars
    PROVE  FreshIInv'
<1> DEFINE Fresh == History /\ Stamped /\ KeptWhileFresh
<1>1. RegIInv'
    BY RegNextInv DEF FreshIInv
<1>2. ASSUME NEW p \in Packets, Receive(p), Received(p) PROVE Fresh'
    BY <1>2, ReceivedKeepsFresh
<1>3. ASSUME NEW c \in Configs, Reload(c), Reloaded(c) PROVE Fresh'
    BY <1>3, ReloadedKeepsFresh
<1>4. /\ uptime \in Nat /\ uptime <= MaxUptime
      /\ Keys(servers) \subseteq Addr
    BY ListType DEF FreshIInv, RegIInv
<1>5. \A a \in joined \cap ValidKeys(servers, FromMillis(uptime')) : a \in Keys(servers)
    BY DEF ValidKeys
<1>6. ASSUME uptime' \in Nat, uptime <= uptime', uptime' <= MaxUptime,
             UNCHANGED <<servers, cfg, historyVars>>
      PROVE  Fresh'
    <2>1. servers' = servers /\ cfg' = cfg /\ addedAt' = addedAt /\ joined' = joined
        BY <1>6 DEF historyVars
    <2>2. \A x \in Keys(servers') : /\ x \in Keys(servers)
                                    /\ servers'.map[x] = servers.map[x]
        BY <2>1
    <2>3. \A a \in joined' \cap ValidKeys(servers, FromMillis(uptime')) :
              a \in Keys(servers')
        BY <1>5, <2>1
    <2> QED
        BY <1>6, <2>1, <2>2, <2>3, DroppingKeepsFresh
<1>7. ASSUME NEW d \in TickSteps, Tick(d), UNCHANGED historyVars PROVE Fresh'
    <2>1. uptime' \in Nat /\ uptime <= uptime' /\ uptime' <= MaxUptime
        BY <1>4, <1>7, MasterServerAssumption DEF Tick
    <2>2. UNCHANGED <<servers, cfg, historyVars>>
        BY <1>7 DEF Tick, serverVars, configVars
    <2> QED
        BY <1>6, <2>1, <2>2
<1>8. ASSUME UNCHANGED regVars PROVE Fresh'
    <2>1. UNCHANGED <<servers, cfg, historyVars, uptime>>
        BY <1>8 DEF regVars, vars, serverVars, configVars
    <2> QED
        BY <1>4, <1>6, <2>1
<1> HIDE DEF Fresh
<1>9. Fresh'
    BY <1>2, <1>3, <1>7, <1>8 DEF RegNext
<1> QED
    BY <1>1, <1>9 DEF FreshIInv, Fresh

\* While the clock does not wrap, the lists contain only servers that registered
\* within the timeout in force, to the unit of the clock, whichever cleanups, bans,
\* refused registrations and reloads there were (servers.iter()).
THEOREM ListsAreFresh ==
    ASSUME NoWrap
    PROVE  RegSpec => []ListedServersAreFresh
<1>1. FreshIInv /\ [RegNext]_regVars => FreshIInv'
    BY FreshNextInv
<1>2. FreshIInv => ListedServersAreFresh
    <2> SUFFICES ASSUME FreshIInv, NEW a \in ValidKeys(servers, Now)
                 PROVE  uptime - addedAt[a] < 1000 * cfg.server_timeout + UnitsPerSec
        BY DEF ListedServersAreFresh
    <2>1. uptime \in Nat /\ uptime <= MaxUptime
        BY ListType DEF FreshIInv, RegIInv
    <2>2. a \in Keys(servers) /\ a \in ValidKeys(servers, FromMillis(uptime))
        BY DEF ValidKeys, Now
    <2>3. uptime <= uptime
        BY <2>1
    <2> QED
        BY <2>1, <2>2, <2>3, SeenWhileFresh
<1> QED
    BY <1>1, <1>2, FreshInitInv, PTL DEF RegSpec

\* And they contain each of them until its timeout is over, unless it was banned or
\* the master moved: no cleanup and no other server takes it off the list earlier.
THEOREM ServersStayListed ==
    ASSUME NoWrap
    PROVE  RegSpec => []RegisteredServersStayListed
<1>1. FreshIInv /\ [RegNext]_regVars => FreshIInv'
    BY FreshNextInv
<1>2. FreshIInv => RegisteredServersStayListed
    <2> SUFFICES ASSUME FreshIInv, NEW a \in joined, a \notin ValidKeys(servers, Now)
                 PROVE  uptime - addedAt[a] > 1000 * cfg.server_timeout - UnitsPerSec
        BY DEF RegisteredServersStayListed
    <2>1. uptime \in Nat /\ uptime <= MaxUptime /\ uptime <= uptime
        BY ListType DEF FreshIInv, RegIInv
    <2>2. CASE a \in Keys(servers)
        BY <2>1, <2>2, SeenWhileFresh DEF Now
    <2>3. CASE a \notin Keys(servers)
        BY <2>3 DEF FreshIInv, KeptWhileFresh, Aged
    <2> QED
        BY <2>2, <2>3
<1> QED
    BY <1>1, <1>2, FreshInitInv, PTL DEF RegSpec

-----------------------------------------------------------------------------
(* The limit of servers per IP, while the clock does not wrap              *)

\* A reload lowers the server timeout or raises the limit, if it changes them: with a
\* longer timeout an outdated server can come back next to those that took its place,
\* and with a lower limit those that are listed stay.
LimitKept ==
    /\ cfg'.server_timeout <= cfg.server_timeout
    /\ cfg.max_servers_per_ip <= cfg'.max_servers_per_ip

ServersOf(S, ip) == {a \in S : a.ip = ip}

CountInv == IInv /\ IsFiniteSet(Keys(servers)) /\ MaxServersPerIp

\* What IInv says of the list, the clock and the limit.
LEMMA ServersType ==
    ASSUME IInv
    PROVE  /\ IsTimedHashMap(servers, Addr, ServerInfo, {cfg.server_timeout})
           /\ servers.timeout = cfg.server_timeout /\ cfg.server_timeout \in Nat
           /\ \A a \in Keys(servers) : servers.map[a].time \in Nat
           /\ uptime \in Nat /\ uptime <= MaxUptime
           /\ cfg.max_servers_per_ip \in Nat
           /\ cfg \in {InitConfig} \cup Configs
<1>1. IsTimedHashMap(servers, Addr, ServerInfo, {cfg.server_timeout})
    BY DEF IInv, TypeOK
<1>2. /\ servers.timeout = cfg.server_timeout
      /\ \A a \in Keys(servers) : servers.map[a].time \in RelativeTimes
    <2> DEFINE V == ServerInfo
    <2>1. IsTimedHashMap(servers, Addr, V, {cfg.server_timeout})
        BY <1>1
    <2> HIDE DEF V
    <2> QED
        BY <2>1 DEF IsTimedHashMap, Keys
<1>3. \A t \in RelativeTimes : t \in Nat
    BY ClockRangeAssumption DEF RelativeTimes
<1>4. cfg \in {InitConfig} \cup Configs
    BY DEF IInv, TypeOK
<1>5. cfg.max_servers_per_ip \in Nat /\ cfg.server_timeout \in Nat
    BY <1>4, MasterServerAssumption DEF Config
<1> QED
    BY <1>1, <1>2, <1>3, <1>4, <1>5, MasterServerAssumption DEF IInv, TypeOK

\* The list has the timeout of the configuration in force after a step, too.
LEMMA TimeoutInForce ==
    ASSUME IInv'
    PROVE  servers'.timeout = cfg'.server_timeout
<1> DEFINE V == ServerInfo
<1>1. IsTimedHashMap(servers', Addr, V, {cfg'.server_timeout})
    BY DEF IInv, TypeOK
<1> HIDE DEF V
<1> QED
    BY <1>1 DEF IsTimedHashMap

\* Time only takes servers off the list.
LEMMA LaterSeesLess ==
    ASSUME NoWrap, IInv, NEW ms \in Nat, uptime <= ms, ms <= MaxUptime
    PROVE  ValidKeys(servers, FromMillis(ms)) \subseteq ValidKeys(servers, Now)
<1>1. ms < ClockRange * UnitsPerSec /\ uptime < ClockRange * UnitsPerSec /\ uptime \in Nat
    BY ServersType, MasterServerAssumption, ClockRangeAssumption DEF NoWrap, UnitsPerSec
<1> DEFINE now == FromMillis(uptime)
           later == FromMillis(ms)
<1>2. /\ now \in Nat /\ 8 * now <= uptime /\ uptime < 8 * now + 8
      /\ later \in Nat /\ 8 * later <= ms /\ ms < 8 * later + 8
    BY <1>1, WholeUnits
<1> HIDE DEF now, later
<1>3. now <= later
    BY <1>1, <1>2
<1> SUFFICES ASSUME NEW a \in Keys(servers), IsValid(servers, a, later)
             PROVE  IsValid(servers, a, now)
    BY DEF ValidKeys, Now, now, later
<1> DEFINE t == servers.map[a].time
<1>4. t \in Nat /\ servers.timeout \in Nat
    BY ServersType
<1> HIDE DEF t
<1>5. /\ DurationSince(now, t) \in Nat /\ DurationSince(later, t) \in Nat
      /\ DurationSince(now, t) <= DurationSince(later, t)
    BY <1>2, <1>3, <1>4 DEF DurationSince, AsMillis, UnitsPerSec
<1>6. DurationSince(later, t) < 1000 * servers.timeout
    BY <1>4, <1>5, ValidMillis DEF t
<1>7. DurationSince(now, t) < 1000 * servers.timeout
    BY <1>4, <1>5, <1>6
<1> QED
    BY <1>4, <1>5, <1>7, ValidMillis DEF t

\* A set of listed servers is within the limit.
LEMMA SomeServers ==
    ASSUME CountInv, NEW S \in SUBSET ValidKeys(servers, Now), NEW ip \in Ips
    PROVE  /\ IsFiniteSet(ServersOf(S, ip))
           /\ Cardinality(ServersOf(S, ip)) \in Nat
           /\ Cardinality(ServersOf(S, ip)) <= cfg.max_servers_per_ip
<1> DEFINE all == {a \in ValidKeys(servers, Now) : a.ip = ip}
<1>1. all \in SUBSET Keys(servers) /\ ServersOf(S, ip) \in SUBSET all
    BY DEF ValidKeys, ServersOf
<1>2. IsFiniteSet(all)
    BY <1>1, FS_Subset DEF CountInv
<1>3. Cardinality(all) <= cfg.max_servers_per_ip
    BY DEF CountInv, MaxServersPerIp, CountServers
<1> HIDE DEF all
<1>4. IsFiniteSet(ServersOf(S, ip)) /\ Cardinality(ServersOf(S, ip)) <= Cardinality(all)
    BY <1>1, <1>2, FS_Subset
<1>5. Cardinality(ServersOf(S, ip)) \in Nat /\ Cardinality(all) \in Nat
    BY <1>2, <1>4, FS_CardinalityType
<1>6. cfg.max_servers_per_ip \in Nat
    BY ServersType DEF CountInv
<1> QED
    BY <1>3, <1>4, <1>5, <1>6

\* Fewer entries of the same age are listed where they were.
LEMMA FewerListed ==
    ASSUME NEW m, NEW n, NEW now, Keys(n) \subseteq Keys(m), n.timeout = m.timeout,
           \A a \in Keys(n) : n.map[a] = m.map[a]
    PROVE  ValidKeys(n, now) \subseteq ValidKeys(m, now)
BY DEF ValidKeys, IsValid

\* With a shorter timeout fewer entries are listed.
LEMMA ShorterListed ==
    ASSUME IInv, NEW m, m.map = servers.map, m.timeout \in Nat,
           m.timeout <= servers.timeout
    PROVE  ValidKeys(m, Now) \subseteq ValidKeys(servers, Now)
<1> SUFFICES ASSUME NEW a \in Keys(servers), IsValid(m, a, Now)
             PROVE  IsValid(servers, a, Now)
    BY DEF ValidKeys, Keys
<1>1. Now \in Nat
    BY ServersType, FromMillisType, ClockRangeAssumption DEF Now, RelativeTimes
<1> DEFINE t == servers.map[a].time
           age == DurationSince(Now, t)
<1>2. t \in Nat /\ servers.timeout \in Nat
    BY ServersType
<1> HIDE DEF t
<1>3. age \in Nat
    BY <1>1, <1>2 DEF DurationSince, AsMillis, UnitsPerSec
<1>4. m.map[a].time = t
    BY DEF t
<1> HIDE DEF age
<1>5. age < 1000 * m.timeout
    BY <1>3, <1>4, ValidMillis DEF age
<1>6. age < 1000 * servers.timeout
    BY <1>2, <1>3, <1>5
<1> QED
    BY <1>2, <1>3, <1>6, ValidMillis DEF age, t

\* A step after which no other servers are listed.
LEMMA SubsetCounted ==
    ASSUME CountInv, Keys(servers') \subseteq Keys(servers),
           ValidKeys(servers', Now') \subseteq ValidKeys(servers, Now),
           cfg'.max_servers_per_ip \in Nat,
           cfg.max_servers_per_ip <= cfg'.max_servers_per_ip
    PROVE  IsFiniteSet(Keys(servers')) /\ MaxServersPerIp'
<1>1. IsFiniteSet(Keys(servers'))
    BY FS_Subset DEF CountInv
<1>2. cfg.max_servers_per_ip \in Nat
    BY ServersType DEF CountInv
<1>3. ASSUME NEW ip \in Ips PROVE CountServers(servers', ip, Now') <= cfg'.max_servers_per_ip
    <2> DEFINE S == ValidKeys(servers', Now')
               n == Cardinality(ServersOf(S, ip))
    <2>1. n \in Nat /\ n <= cfg.max_servers_per_ip
        BY SomeServers
    <2>2. CountServers(servers', ip, Now') = n
        BY DEF CountServers, ServersOf
    <2> HIDE DEF n
    <2> QED
        BY <1>2, <2>1, <2>2
<1> QED
    BY <1>1, <1>3 DEF MaxServersPerIp

\* A step that registers nobody.
LEMMA FewerCounted ==
    ASSUME NoWrap, CountInv, Keys(servers') \subseteq Keys(servers),
           servers'.timeout = servers.timeout,
           \A a \in Keys(servers') : servers'.map[a] = servers.map[a],
           uptime' \in Nat, uptime <= uptime', uptime' <= MaxUptime,
           cfg'.max_servers_per_ip = cfg.max_servers_per_ip
    PROVE  IsFiniteSet(Keys(servers')) /\ MaxServersPerIp'
<1>1. ValidKeys(servers', Now') \subseteq ValidKeys(servers, Now)
    BY LaterSeesLess, FewerListed DEF CountInv, Now
<1>2. cfg.max_servers_per_ip \in Nat
    BY ServersType DEF CountInv
<1> QED
    BY <1>1, <1>2, SubsetCounted

\* A registration finds fewer servers of its IP than the limit, or takes the place
\* of its own entry.
LEMMA AddCounted ==
    ASSUME NoWrap, CountInv, NEW p \in Packets, HandleServerAdd(p),
           servers' = AddServer(p.from, p.info, Later)
    PROVE  IsFiniteSet(Keys(servers')) /\ MaxServersPerIp'
<1> DEFINE addr == p.from
           info == p.info
           T == {cfg.server_timeout}
           now == Later
           e == Entry(servers, addr, now)
           max == cfg.max_servers_per_ip
<1>1. /\ uptime' \in Nat /\ uptime <= uptime' /\ uptime' <= MaxUptime
      /\ now \in RelativeTimes /\ now = FromMillis(uptime')
    <2>1. uptime \in Nat /\ uptime' \in 0 .. MaxUptime /\ now \in RelativeTimes
        BY ServersType, LaterType DEF CountInv, IInv, HandleServerAdd
    <2>2. uptime <= uptime'
        BY <2>1, MasterServerAssumption DEF HandleServerAdd, ClockMayAdvance
    <2> QED
        BY <2>1, <2>2, MasterServerAssumption DEF Later
<1>2. /\ addr \in Addr /\ info \in ServerInfo /\ cfg' = cfg /\ addr.ip \in Ips
      /\ max \in Nat
    BY PacketType, ServersType DEF HandleServerAdd, configVars, CountInv
<1>3. IsTimedHashMap(servers, Addr, ServerInfo, T)
    BY ServersType DEF CountInv
<1> HIDE DEF addr, info, now, T, max
<1>4. /\ IsTimedHashMap(e, Addr, ServerInfo, T)
      /\ Keys(e) \subseteq Keys(servers)
      /\ addr \in Keys(e) <=> addr \in ValidKeys(servers, now)
      /\ e.timeout = servers.timeout
      /\ \A x \in Keys(e) : e.map[x] = servers.map[x]
    BY <1>3, EntryType
<1>5. servers' = IF addr \in Keys(e) THEN Put(e, addr, info, now)
                 ELSE IF CountServers(e, addr.ip, now) >= max THEN e
                 ELSE Insert(e, addr, info, now)
    BY DEF AddServer, addr, info, now, e, max
<1> HIDE DEF e
<1>6. ValidKeys(e, now) \subseteq ValidKeys(servers, now)
    BY <1>4, FewerListed
<1>7. ValidKeys(servers, now) \subseteq ValidKeys(servers, Now)
    BY <1>1, LaterSeesLess DEF CountInv
<1>8. ASSUME NEW m, Keys(m) \subseteq Keys(e) \cup {addr}, m.timeout = e.timeout,
             \A x \in Keys(m) \ {addr} : m.map[x] = e.map[x]
      PROVE  /\ IsFiniteSet(Keys(m))
             /\ ValidKeys(m, now) \subseteq ValidKeys(e, now) \cup {addr}
    <2>1. IsFiniteSet(Keys(servers) \cup {addr})
        BY FS_AddElement DEF CountInv
    <2>2. Keys(m) \in SUBSET (Keys(servers) \cup {addr})
        BY <1>4, <1>8
    <2>3. ValidKeys(m, now) \subseteq ValidKeys(e, now) \cup {addr}
        BY <1>8 DEF ValidKeys, IsValid
    <2> QED
        BY <2>1, <2>2, <2>3, FS_Subset
<1>9. ASSUME IsFiniteSet(Keys(servers')),
             \A ip \in Ips : Cardinality(ServersOf(ValidKeys(servers', now), ip)) <= max
      PROVE  IsFiniteSet(Keys(servers')) /\ MaxServersPerIp'
    BY <1>1, <1>2, <1>9 DEF MaxServersPerIp, CountServers, ServersOf, Now, max
<1>10. CASE addr \in Keys(e)
    <2> DEFINE put == Put(e, addr, info, now)
    <2>1. Keys(put) = Keys(e) \cup {addr} /\ put.timeout = e.timeout
        BY <1>1, <1>2, <1>4, PutType
    <2>2. /\ put.map[addr] = [time |-> now, value |-> info]
          /\ \A x \in Keys(e) \ {addr} : put.map[x] = e.map[x]
        BY <1>4, PutEntries
    <2>3. \A x \in Keys(put) \ {addr} : put.map[x] = e.map[x]
        BY <2>1, <2>2
    <2>4. servers' = put
        BY <1>5, <1>10
    <2> HIDE DEF put
    <2>5. /\ IsFiniteSet(Keys(put))
          /\ ValidKeys(put, now) \subseteq ValidKeys(e, now) \cup {addr}
        BY <1>8, <2>1, <2>3
    <2>6. ValidKeys(put, now) \in SUBSET ValidKeys(servers, Now)
        BY <1>4, <1>6, <1>7, <1>10, <2>5
    <2> QED
        BY <1>9, <2>4, <2>5, <2>6, SomeServers DEF max
<1>11. CASE addr \notin Keys(e) /\ CountServers(e, addr.ip, now) >= max
    <2>1. servers' = e
        BY <1>5, <1>11
    <2>2. IsFiniteSet(Keys(e))
        BY <1>8
    <2>3. ValidKeys(e, now) \in SUBSET ValidKeys(servers, Now)
        BY <1>6, <1>7
    <2> QED
        BY <1>9, <2>1, <2>2, <2>3, SomeServers DEF max
<1>12. CASE addr \notin Keys(e) /\ ~(CountServers(e, addr.ip, now) >= max)
    <2> DEFINE ins == Insert(e, addr, info, now)
    <2>1. Keys(ins) \subseteq Keys(e) \cup {addr} /\ ins.timeout = e.timeout
        BY <1>1, <1>2, <1>4, InsertType
    <2>2. \A x \in Keys(ins) \ {addr} : ins.map[x] = e.map[x]
        BY <1>1, <1>2, <1>4, InsertEntries
    <2>3. servers' = ins
        BY <1>5, <1>12
    <2> HIDE DEF ins
    <2>4. /\ IsFiniteSet(Keys(ins))
          /\ ValidKeys(ins, now) \subseteq ValidKeys(e, now) \cup {addr}
        BY <1>8, <2>1, <2>2
    <2>5. ValidKeys(e, now) \in SUBSET ValidKeys(servers, Now)
        BY <1>6, <1>7
    <2>6. ASSUME NEW ip \in Ips
          PROVE  Cardinality(ServersOf(ValidKeys(ins, now), ip)) <= max
        <3> DEFINE old == ServersOf(ValidKeys(e, now), ip)
                   new == ServersOf(ValidKeys(ins, now), ip)
        <3>1. /\ IsFiniteSet(old) /\ Cardinality(old) \in Nat
              /\ Cardinality(old) <= max
            BY <2>5, SomeServers DEF max
        <3>2. CASE ip # addr.ip
            <4>1. new \in SUBSET old
                BY <2>4, <3>2 DEF ServersOf
            <4>2. IsFiniteSet(new) /\ Cardinality(new) <= Cardinality(old)
                BY <3>1, <4>1, FS_Subset
            <4>3. Cardinality(new) \in Nat
                BY <4>2, FS_CardinalityType
            <4> QED
                BY <1>2, <3>1, <4>2, <4>3
        <3>3. CASE ip = addr.ip
            <4>1. new \in SUBSET (old \cup {addr})
                BY <2>4 DEF ServersOf
            <4>2. Cardinality(old) < max
                BY <1>2, <1>12, <3>1, <3>3 DEF CountServers, ServersOf
            <4> HIDE DEF old, new
            <4>3. /\ IsFiniteSet(old \cup {addr})
                  /\ Cardinality(old \cup {addr}) \in
                        {Cardinality(old), Cardinality(old) + 1}
                BY <3>1, FS_AddElement
            <4>4. IsFiniteSet(new) /\ Cardinality(new) <= Cardinality(old \cup {addr})
                BY <4>1, <4>3, FS_Subset
            <4>5. Cardinality(new) \in Nat
                BY <4>4, FS_CardinalityType
            <4>6. Cardinality(new) <= max
                BY <1>2, <3>1, <4>2, <4>3, <4>4, <4>5
            <4> QED
                BY <4>6 DEF new
        <3> QED
            BY <3>2, <3>3
    <2> QED
        BY <1>9, <2>3, <2>4, <2>6
<1> QED
    BY <1>10, <1>11, <1>12

\* Nothing is listed when the list is empty.
LEMMA EmptyCounted ==
    ASSUME IInv', Keys(servers') = {}
    PROVE  IsFiniteSet(Keys(servers')) /\ MaxServersPerIp'
<1>1. IsFiniteSet(Keys(servers'))
    BY FS_EmptySet
<1>2. ASSUME NEW ip \in Ips PROVE CountServers(servers', ip, Now') = 0
    <2>1. {a \in ValidKeys(servers', Now') : a.ip = ip} = {}
        BY DEF ValidKeys
    <2> QED
        BY <2>1, FS_EmptySet DEF CountServers
<1>3. cfg'.max_servers_per_ip \in Nat
    <2>1. cfg' \in {InitConfig} \cup Configs
        BY DEF IInv, TypeOK
    <2> QED
        BY <2>1, MasterServerAssumption DEF Config
<1>4. ASSUME NEW ip \in Ips
      PROVE  CountServers(servers', ip, Now') <= cfg'.max_servers_per_ip
    BY <1>2, <1>3
<1> QED
    BY <1>1, <1>4 DEF MaxServersPerIp

\* Only add_server lists anybody.
LEMMA ReceivedCounted ==
    ASSUME NoWrap, CountInv, NEW p \in Packets, Receive(p)
    PROVE  IsFiniteSet(Keys(servers')) /\ MaxServersPerIp'
<1> DEFINE Goal == IsFiniteSet(Keys(servers')) /\ MaxServersPerIp'
<1>1. uptime \in Nat /\ uptime <= MaxUptime
    BY ServersType DEF CountInv
<1>2. ASSUME ClockMayAdvance
      PROVE  uptime' \in Nat /\ uptime <= uptime' /\ uptime' <= MaxUptime
    <2>1. uptime' \in 0 .. MaxUptime
        BY <1>2, LaterType DEF CountInv, IInv
    <2>2. uptime <= uptime'
        BY <1>1, <1>2, MasterServerAssumption DEF ClockMayAdvance
    <2> QED
        BY <2>1, <2>2, MasterServerAssumption
<1>3. ASSUME uptime' \in Nat, uptime <= uptime', uptime' <= MaxUptime,
             servers' = servers, cfg' = cfg
      PROVE  Goal
    BY <1>3, FewerCounted
<1>4. CASE HandleServerAdd(p)
    <2>1. servers' = AddServer(p.from, p.info, Later) \/ servers' = servers
        BY <1>4 DEF HandleServerAdd, serverVars
    <2>2. ClockMayAdvance /\ cfg' = cfg
        BY <1>4 DEF HandleServerAdd, configVars
    <2> QED
        BY <1>2, <1>3, <1>4, <2>1, <2>2, AddCounted
<1>5. CASE HandleAdminCommand(p)
    <2>1. ClockMayAdvance /\ cfg' = cfg /\ p.type = "admin_command"
        BY <1>5 DEF HandleAdminCommand, configVars
    <2>2. RunAdminCommand(p.command, Later) \/ servers' = servers
        BY <1>5 DEF HandleAdminCommand
    <2>3. CASE RunAdminCommand(p.command, Later)
        <3>1. \A x \in Keys(servers') : /\ x \in Keys(servers)
                                        /\ servers'.map[x] = servers.map[x]
            BY <2>1, <2>3, CommandDrops DEF CountInv
        <3>2. servers'.timeout = servers.timeout
            <4>1. IInv'
                BY ReceiveInv DEF CountInv
            <4>2. servers.timeout = cfg.server_timeout
                BY ServersType DEF CountInv
            <4>3. servers'.timeout = cfg'.server_timeout
                BY <4>1, TimeoutInForce
            <4> QED
                BY <2>1, <4>2, <4>3
        <3>3. Keys(servers') \subseteq Keys(servers)
            BY <3>1
        <3> QED
            BY <1>2, <2>1, <3>1, <3>2, <3>3, FewerCounted
    <2> QED
        BY <1>2, <1>3, <2>1, <2>2, <2>3
<1>6. CASE ~HandleServerAdd(p) /\ ~HandleAdminCommand(p)
    <2>1. UNCHANGED <<servers, cfg, uptime>>
        BY <1>6 DEF Receive, HandlePacket, HandleServerChallenge,
            HandleServerRemove, HandleGameQueryServers, HandleGameGetServerInfo,
            RefuseGameRequest, HandleAdminChallenge, RefuseAdminRequest,
            RefuseMalformed, serverVars, configVars
    <2> QED
        BY <1>1, <1>3, <2>1
<1> QED
    BY <1>4, <1>5, <1>6

\* A reload forgets the servers or keeps them, with no longer timeout and no lower limit.
LEMMA ReloadedCounted ==
    ASSUME NoWrap, [LimitKept]_cfg, CountInv, NEW c \in Configs, Reload(c)
    PROVE  IsFiniteSet(Keys(servers')) /\ MaxServersPerIp'
<1> DEFINE T == {cfg.server_timeout}
<1>1. /\ IsTimedHashMap(servers, Addr, ServerInfo, T)
      /\ servers.timeout = cfg.server_timeout
      /\ uptime \in Nat /\ uptime <= MaxUptime
      /\ cfg \in {InitConfig} \cup Configs
    BY ServersType DEF CountInv
<1>2. IInv' /\ uptime' = uptime
    <2>1. [Next]_vars
        BY DEF Next
    <2> QED
        BY <2>1, NextInv DEF CountInv, Reload, Restart, UpdateConfig, FailToBind
<1>3. /\ cfg.max_servers_per_ip \in Nat /\ cfg.server_timeout \in Nat
      /\ c.max_servers_per_ip \in Nat /\ c.server_timeout \in Nat
    BY ServersType, MasterServerAssumption DEF CountInv, Config
<1> HIDE DEF T
<1>4. CASE Restart(c)
    <2>1. Keys(servers') = {}
        BY <1>4 DEF Restart, NewMap, Keys
    <2> QED
        BY <1>2, <2>1, EmptyCounted
<1>5. CASE FailToBind(c)
    <2>1. servers' = servers /\ cfg' = cfg
        BY <1>5 DEF FailToBind, serverVars, configVars
    <2> QED
        BY <1>1, <1>2, <2>1, FewerCounted
<1>6. CASE UpdateConfig(c)
    <2> DEFINE n == ClearIf(c.listen # cfg.listen, servers)
    <2>1. servers' = SetTimeout(n, c.server_timeout) /\ cfg' = c
        BY <1>6 DEF UpdateConfig
    <2>2. CASE c.listen # cfg.listen
        <3>1. n = Clear(servers)
            BY <2>2 DEF ClearIf
        <3>2. IsTimedHashMap(n, Addr, ServerInfo, T) /\ Keys(n) = {}
            BY <1>1, <3>1, ClearType
        <3> HIDE DEF n
        <3>3. Keys(servers') = {}
            BY <2>1, <3>2 DEF SetTimeout, Keys, IsTimedHashMap
        <3> QED
            BY <1>2, <3>3, EmptyCounted
    <2>3. CASE c.listen = cfg.listen
        <3>1. n = servers
            BY <2>3 DEF ClearIf
        <3>2. /\ servers'.map = servers.map /\ Keys(servers') = Keys(servers)
              /\ servers'.timeout = c.server_timeout
            BY <1>1, <2>1, <3>1 DEF SetTimeout, IsTimedHashMap, Keys
        <3>3. /\ c.server_timeout <= servers.timeout
              /\ cfg.max_servers_per_ip <= cfg'.max_servers_per_ip
            BY <1>1, <1>3, <2>1 DEF LimitKept
        <3>4. ValidKeys(servers', Now') \subseteq ValidKeys(servers, Now)
            BY <1>2, <1>3, <3>2, <3>3, ShorterListed DEF CountInv, Now
        <3> QED
            BY <1>3, <2>1, <3>2, <3>3, <3>4, SubsetCounted
    <2> QED
        BY <2>2, <2>3
<1> QED
    BY <1>4, <1>5, <1>6 DEF Reload

\* The limit is inductive next to the types.
LEMMA CountNextInv ==
    ASSUME NoWrap, [LimitKept]_cfg, CountInv, [Next]_vars
    PROVE  CountInv'
<1> DEFINE Goal == IsFiniteSet(Keys(servers')) /\ MaxServersPerIp'
<1>1. IInv'
    BY NextInv DEF CountInv
<1>2. ASSUME NEW p \in Packets, Receive(p) PROVE Goal
    BY <1>2, ReceivedCounted
<1>3. ASSUME NEW c \in Configs, Reload(c) PROVE Goal
    BY <1>3, ReloadedCounted
<1>4. uptime \in Nat /\ uptime <= MaxUptime
    BY ServersType DEF CountInv
<1>5. ASSUME NEW d \in TickSteps, Tick(d) PROVE Goal
    <2>1. uptime' \in Nat /\ uptime <= uptime' /\ uptime' <= MaxUptime
        BY <1>4, <1>5, MasterServerAssumption DEF Tick
    <2>2. servers' = servers /\ cfg' = cfg
        BY <1>5 DEF Tick, serverVars, configVars
    <2> QED
        BY <2>1, <2>2, FewerCounted
<1>6. ASSUME UNCHANGED vars PROVE Goal
    <2>1. servers' = servers /\ cfg' = cfg /\ uptime' = uptime
        BY <1>6 DEF vars, serverVars, configVars
    <2> QED
        BY <1>4, <2>1, FewerCounted
<1>7. Goal
    BY <1>2, <1>3, <1>5, <1>6 DEF Next
<1> QED
    BY <1>1, <1>7 DEF CountInv

\* At the start nothing is listed.
LEMMA CountInitInv == Init => CountInv
<1> SUFFICES ASSUME Init PROVE CountInv
    OBVIOUS
<1>1. IInv
    BY InitInv
<1>2. Keys(servers) = {}
    BY DEF Init, InitWith, NewMap, Keys
<1>3. IsFiniteSet(Keys(servers))
    BY <1>2, FS_EmptySet
<1>4. ASSUME NEW ip \in Ips PROVE CountServers(servers, ip, Now) = 0
    <2>1. {a \in ValidKeys(servers, Now) : a.ip = ip} = {}
        BY <1>2 DEF ValidKeys
    <2> QED
        BY <2>1, FS_EmptySet DEF CountServers
<1>5. cfg.max_servers_per_ip \in Nat
    BY <1>1, ServersType
<1>6. ASSUME NEW ip \in Ips PROVE CountServers(servers, ip, Now) <= cfg.max_servers_per_ip
    BY <1>4, <1>5
<1> QED
    BY <1>1, <1>3, <1>6 DEF CountInv, MaxServersPerIp

\* While the clock does not wrap and no reload lowers the limit or makes the server
\* timeout longer, at most max_servers_per_ip servers of an address are listed, whichever
\* of them time out, come back, are banned or are forgotten (add_server, update_config).
THEOREM LimitPerIp ==
    ASSUME NoWrap
    PROVE  RegSpec /\ [][LimitKept]_cfg => []MaxServersPerIp
<1>1. RegInit => CountInv
    BY CountInitInv DEF RegInit
<1>2. CountInv /\ [RegNext]_regVars /\ [LimitKept]_cfg => CountInv'
    <2>1. [RegNext]_regVars => [Next]_vars
        BY DEF RegNext, Next, regVars
    <2> QED
        BY <2>1, CountNextInv
<1>3. CountInv => MaxServersPerIp
    BY DEF CountInv
<1> QED
    BY <1>1, <1>2, <1>3, PTL DEF RegSpec

=============================================================================

------------------------ MODULE MasterRequestsProofs ------------------------
(***************************************************************************)
(* What administrators and game clients may rely on, for every instance of *)
(* the master server: admin challenges are used once, a wrong password     *)
(* locks its host, the request limit holds over any two windows, and the   *)
(* game directory in an answer is the client's own.                        *)
(***************************************************************************)
EXTENDS MasterAdmin, MasterClients, MasterServerProofs

\* An admin challenge that is in the map was not spent.
Unspent ==
    /\ unspent \in [Ips -> {0, 1}]
    /\ \A ip \in Keys(admin_challenges) : unspent[ip] = 1

\* A lock set at wrongAt[ip] is over, or nearly.
Aged(ip) == uptime - wrongAt[ip] > 1000 * cfg.admin_timeout - UnitsPerSec

\* The lock of a host carries the time of its last mistake, until it is over.
Locked ==
    /\ wrongAt \in [Ips -> Nat \cup {None}]
    /\ \A ip \in Ips :
          wrongAt[ip] # None =>
              /\ wrongAt[ip] <= uptime
              /\ IF ip \in Keys(admin_limit)
                 THEN admin_limit.map[ip].time = FromMillis(wrongAt[ip])
                 ELSE Aged(ip)

ChallengeInv == IInv /\ Unspent
LockInv == IInv /\ Unspent /\ Locked

-----------------------------------------------------------------------------
(* The account of challenges                                               *)

\* A new challenge for an administrator is unspent.
LEMMA AdminChallengeUnspent ==
    ASSUME ChallengeInv, NEW p \in Packets, HandleAdminChallenge(p), Received(p)
    PROVE  Unspent'
<1> DEFINE V == [master : Numbers, hash : Numbers]
           T == {cfg.challenge_timeout}
<1>1. PICK x \in Numbers, y \in Numbers :
          admin_challenges' =
              Insert(admin_challenges, p.from.ip, [master |-> x, hash |-> y], Now)
    BY DEF HandleAdminChallenge
<1>2. IsTimedHashMap(admin_challenges, Ips, V, T) /\ Now \in RelativeTimes
    BY NowType DEF ChallengeInv, IInv, TypeOK
<1>3. p.from.ip \in Ips /\ [master |-> x, hash |-> y] \in V
    BY PacketType
<1> DEFINE v == [master |-> x, hash |-> y]
<1> HIDE DEF V, T, v
<1>4. Keys(Insert(admin_challenges, p.from.ip, v, Now))
          \subseteq Keys(admin_challenges) \cup {p.from.ip}
    BY <1>2, <1>3, InsertType DEF v
<1>5. Keys(admin_challenges') \subseteq Keys(admin_challenges) \cup {p.from.ip}
    BY <1>1, <1>4 DEF v
<1>6. unspent' = [unspent EXCEPT ![p.from.ip] = 1]
    BY DEF HandleAdminChallenge, Received, Draws
<1> QED
    BY <1>3, <1>5, <1>6 DEF ChallengeInv, Unspent

\* A command takes the challenge it spends out of the map.
LEMMA CommandUnspent ==
    ASSUME ChallengeInv, NEW p \in Packets, HandleAdminCommand(p), Received(p)
    PROVE  Unspent'
<1>1. /\ ~Draws(p) /\ Handled(p)
      /\ p.from.ip \in Ips
      /\ p.from.ip \in Keys(admin_challenges)
    BY PacketType DEF HandleAdminCommand, Draws, Handled, MasterChallengeMatches,
        ValidKeys
<1>2. CASE HashMatches(p)
    <2>1. admin_challenges' = Remove(admin_challenges, p.from.ip)
        BY <1>2 DEF HandleAdminCommand
    <2>2. Keys(admin_challenges') = Keys(admin_challenges) \ {p.from.ip}
        BY <2>1, RemoveType DEF ChallengeInv, IInv, TypeOK
    <2>3. unspent' = [unspent EXCEPT ![p.from.ip] = @ - 1]
        BY <1>1, <1>2 DEF Received, Executes
    <2>4. unspent[p.from.ip] = 1
        BY <1>1 DEF ChallengeInv, Unspent
    <2>5. unspent' = [unspent EXCEPT ![p.from.ip] = 0]
        BY <2>3, <2>4
    <2> QED
        BY <1>1, <2>2, <2>5 DEF ChallengeInv, Unspent
<1>3. CASE ~HashMatches(p)
    BY <1>1, <1>3 DEF HandleAdminCommand, Received, Executes, ChallengeInv, Unspent, Keys
<1> QED
    BY <1>2, <1>3

\* Every other handler leaves the challenges of administrators alone.
LEMMA OthersLeaveAdmin ==
    ASSUME NEW p \in Packets, Receive(p), ~HandleAdminChallenge(p),
           ~HandleAdminCommand(p)
    PROVE  /\ UNCHANGED <<admin_challenges, admin_limit>>
           /\ ~Draws(p) /\ ~Handled(p)
<1>1. UNCHANGED <<admin_challenges, admin_limit>>
    BY DEF Receive, HandlePacket, HandleServerChallenge, HandleServerAdd,
        HandleServerRemove, HandleGameQueryServers, HandleGameGetServerInfo,
        RefuseGameRequest, RefuseAdminRequest, RefuseMalformed, adminVars
<1>2. \/ p.type \notin {"admin_challenge", "admin_command"}
      \/ RefuseAdminRequest(p)
    BY DEF Receive, HandlePacket, HandleServerChallenge, HandleServerAdd,
        HandleServerRemove, HandleGameQueryServers, HandleGameGetServerInfo,
        RefuseGameRequest, RefuseMalformed
<1> QED
    BY <1>1, <1>2 DEF RefuseAdminRequest, Draws, Handled

\* Every handler keeps the account of challenges.
LEMMA ReceivedUnspent ==
    ASSUME ChallengeInv, NEW p \in Packets, Receive(p), Received(p)
    PROVE  Unspent'
<1>1. CASE HandleAdminChallenge(p)
    BY <1>1, AdminChallengeUnspent
<1>2. CASE HandleAdminCommand(p)
    BY <1>2, CommandUnspent
<1>3. CASE ~HandleAdminChallenge(p) /\ ~HandleAdminCommand(p)
    <2>1. UNCHANGED <<admin_challenges, admin_limit>> /\ ~Draws(p) /\ ~Handled(p)
        BY <1>3, OthersLeaveAdmin
    <2>2. unspent' = unspent
        BY <2>1 DEF Received, Executes
    <2> QED
        BY <2>1, <2>2 DEF ChallengeInv, Unspent, Keys
<1> QED
    BY <1>1, <1>2, <1>3

\* A reload that starts the account anew has emptied the map.
LEMMA ReloadedUnspent ==
    ASSUME ChallengeInv, NEW c \in Configs, Reload(c), Reloaded(c)
    PROVE  Unspent'
<1> DEFINE zero == [ip \in Ips |-> 0]
           V == [master : Numbers, hash : Numbers]
<1>0. /\ IsTimedHashMap(admin_challenges, Ips, V, {cfg.challenge_timeout})
      /\ unspent' \in {unspent, zero}
    BY DEF ChallengeInv, IInv, TypeOK, Reloaded
<1> HIDE DEF V
<1>1. CASE Restart(c)
    <2>1. Keys(admin_challenges') = {}
        BY <1>1 DEF Restart, NewMap, Keys
    <2> QED
        BY <1>0, <2>1 DEF ChallengeInv, Unspent
<1>2. CASE UpdateConfig(c)
    <2> DEFINE moved == c.listen # cfg.listen
               n == ClearIf(moved, admin_challenges)
    <2>1. admin_challenges' = SetTimeout(n, c.challenge_timeout)
        BY <1>2 DEF UpdateConfig
    <2>2. Keys(admin_challenges') = Keys(n)
        BY <2>1 DEF SetTimeout, Keys
    <2>3. CASE moved
        <3>1. Keys(n) = {}
            BY <1>0, <2>3, ClearType DEF ClearIf
        <3> QED
            BY <1>0, <2>2, <3>1 DEF ChallengeInv, Unspent
    <2>4. CASE ~moved
        <3>1. Keys(n) = Keys(admin_challenges)
            BY <2>4 DEF ClearIf
        <3>2. unspent' = unspent
            BY <1>2, <2>4 DEF Reloaded, UpdateConfig, Quiet, Event
        <3> QED
            BY <2>2, <3>1, <3>2 DEF ChallengeInv, Unspent
    <2> QED
        BY <2>3, <2>4
<1>3. CASE FailToBind(c)
    BY <1>3 DEF FailToBind, Quiet, Reloaded, ChallengeInv, Unspent, adminVars,
        configVars, Keys
<1> QED
    BY <1>1, <1>2, <1>3 DEF Reload

\* At the start no challenge was drawn.
LEMMA ChallengeInitInv == AdmInit => ChallengeInv
<1> SUFFICES ASSUME AdmInit PROVE ChallengeInv
    OBVIOUS
<1>1. Keys(admin_challenges) = {}
    BY DEF AdmInit, AdminHistoryInit, Init, InitWith, NewMap, Keys
<1> QED
    BY <1>1, InitInv DEF AdmInit, AdminHistoryInit, ChallengeInv, Unspent

\* The account of challenges is inductive.
LEMMA ChallengeNextInv == ChallengeInv /\ [AdmNext]_admVars => ChallengeInv'
<1> SUFFICES ASSUME ChallengeInv, [AdmNext]_admVars PROVE ChallengeInv'
    OBVIOUS
<1>1. [Next]_vars
    BY DEF AdmNext, AdmReceive, AdmReload, AdmTick, Next, admVars
<1>2. IInv'
    BY <1>1, NextInv DEF ChallengeInv
<1>3. ASSUME NEW p \in Packets, Receive(p), Received(p) PROVE Unspent'
    BY <1>3, ReceivedUnspent
<1>4. ASSUME NEW c \in Configs, Reload(c), Reloaded(c) PROVE Unspent'
    BY <1>4, ReloadedUnspent
<1>5. ASSUME UNCHANGED <<admin_challenges, adminHistory>> PROVE Unspent'
    BY <1>5 DEF adminHistory, ChallengeInv, Unspent, Keys
<1>6. Unspent'
    BY <1>3, <1>4, <1>5 DEF AdmNext, AdmReceive, AdmReload, AdmTick, Tick, admVars, vars, adminVars
<1> QED
    BY <1>2, <1>6 DEF ChallengeInv

\* However often a command is repeated, delayed or reordered, each challenge the
\* master drew runs at most one command (handle_admin_command).
THEOREM CommandsRunOnce == AdmSpec => []OneCommandPerChallenge
<1>1. ChallengeInv => OneCommandPerChallenge
    BY DEF ChallengeInv, Unspent, OneCommandPerChallenge
<1> QED
    BY <1>1, ChallengeInitInv, ChallengeNextInv, PTL DEF AdmSpec

-----------------------------------------------------------------------------
(* The lock after a wrong password, while the clock does not wrap          *)

\* What IInv says of the lock and of the clock.
LEMMA LimitType ==
    ASSUME IInv
    PROVE  /\ admin_limit.timeout = cfg.admin_timeout
           /\ cfg.admin_timeout \in Nat
           /\ Keys(admin_limit) \subseteq Ips
           /\ uptime \in Nat /\ uptime <= MaxUptime
BY ConfigType, MasterServerAssumption DEF IInv, TypeOK, IsTimedHashMap, Keys

\* A lock that a reader of the clock at ms does not see is over.
LEMMA OverWhenUnseen ==
    ASSUME NoWrap, LockInv, NEW ip \in Ips, wrongAt[ip] # None,
           NEW ms \in Nat, uptime <= ms, ms <= MaxUptime,
           ip \notin ValidKeys(admin_limit, FromMillis(ms))
    PROVE  ms - wrongAt[ip] > 1000 * cfg.admin_timeout - UnitsPerSec
<1>1. /\ admin_limit.timeout = cfg.admin_timeout
      /\ cfg.admin_timeout \in Nat
      /\ uptime \in Nat
    BY LimitType DEF LockInv
<1>2. wrongAt[ip] \in Nat /\ wrongAt[ip] <= uptime
    BY DEF LockInv, Locked
<1>3. CASE ip \in Keys(admin_limit)
    <2>1. admin_limit.map[ip].time = FromMillis(wrongAt[ip])
        BY <1>3 DEF LockInv, Locked
    <2>2. wrongAt[ip] <= ms /\ ms < ClockRange * UnitsPerSec
        BY <1>1, <1>2, MasterServerAssumption, ClockRangeAssumption
           DEF NoWrap, UnitsPerSec
    <2> QED
        BY <1>1, <1>2, <1>3, <2>1, <2>2, AgeOfEntry
<1>4. CASE ip \notin Keys(admin_limit)
    <2>1. uptime - wrongAt[ip] > 1000 * cfg.admin_timeout - UnitsPerSec
        BY <1>4 DEF LockInv, Locked, Aged
    <2> QED
        BY <1>1, <1>2, <2>1 DEF UnitsPerSec
<1> QED
    BY <1>3, <1>4

\* A wrong hash locks its host; the cleanup that comes with it ends no lock early.
LEMMA MistakeLocks ==
    ASSUME NoWrap, LockInv, NEW p \in Packets, HandleAdminCommand(p), ~HashMatches(p),
           Received(p)
    PROVE  Locked'
<1> DEFINE V == {{}}
           T == {cfg.admin_timeout}
           new == Insert(admin_limit, p.from.ip, {}, Later)
<1>1. /\ admin_limit.timeout = cfg.admin_timeout
      /\ cfg.admin_timeout \in Nat
      /\ uptime \in Nat
      /\ IsTimedHashMap(admin_limit, Ips, V, T)
      /\ {} \in V
    BY LimitType DEF LockInv, IInv, TypeOK
<1>2. p.from.ip \in Ips
    BY PacketType
<1>3. /\ uptime' \in Nat /\ uptime <= uptime' /\ uptime' <= MaxUptime
      /\ Later \in RelativeTimes /\ Later = FromMillis(uptime')
    <2>1. uptime' \in 0 .. MaxUptime /\ Later \in RelativeTimes
        BY LaterType DEF LockInv, IInv, HandleAdminCommand
    <2>2. uptime <= uptime'
        BY <1>1, MasterServerAssumption DEF HandleAdminCommand, ClockMayAdvance
    <2> QED
        BY <2>1, <2>2, MasterServerAssumption DEF Later
<1>4. admin_limit' = new /\ cfg' = cfg
    BY DEF HandleAdminCommand, configVars
<1>5. wrongAt' = [wrongAt EXCEPT ![p.from.ip] = uptime']
    BY DEF HandleAdminCommand, Received, Mistakes, Handled
<1> HIDE DEF V, T
<1>6. /\ ValidKeys(admin_limit, Later) \ {p.from.ip} \subseteq Keys(new)
      /\ \A x \in Keys(new) :
            IF x = p.from.ip THEN new.map[x].time = Later
                             ELSE new.map[x] = admin_limit.map[x]
    BY <1>1, <1>2, <1>3, InsertEntries
<1>7. Keys(new) \subseteq Keys(admin_limit) \cup {p.from.ip}
    BY <1>1, <1>2, <1>3, InsertType
<1>8. cfg.admin_timeout > 0 => p.from.ip \in Keys(new)
    BY <1>1, <1>2, <1>3, InsertOwnKey
<1> HIDE DEF new
<1>9. wrongAt' \in [Ips -> Nat \cup {None}]
    BY <1>3, <1>5 DEF LockInv, Locked
<1>10. ASSUME NEW ip \in Ips, wrongAt'[ip] # None
       PROVE  /\ wrongAt'[ip] <= uptime'
              /\ IF ip \in Keys(admin_limit')
                 THEN admin_limit'.map[ip].time = FromMillis(wrongAt'[ip])
                 ELSE Aged(ip)'
    <2>1. CASE ip = p.from.ip
        <3>1. wrongAt'[ip] = uptime'
            BY <1>5, <2>1 DEF LockInv, Locked
        <3>2. CASE ip \in Keys(new)
            BY <1>3, <1>4, <1>6, <2>1, <3>1, <3>2
        <3>3. CASE ip \notin Keys(new)
            <4>1. cfg.admin_timeout = 0
                BY <1>1, <1>8, <2>1, <3>3
            <4>2. cfg'.admin_timeout = 0
                BY <1>4, <4>1
            <4>3. uptime' - wrongAt'[ip] = 0
                <5>1. \A n \in Nat : n - n = 0
                    OBVIOUS
                <5> QED
                    BY <1>3, <3>1, <5>1
            <4>4. Aged(ip)'
                <5>1. 1000 * 0 - 8 < 0
                    OBVIOUS
                <5>2. 1000 * cfg'.admin_timeout - 8 < 0
                    BY <4>2, <5>1
                <5> QED
                    BY <4>3, <5>2 DEF Aged, UnitsPerSec
            <4> QED
                BY <1>3, <1>4, <3>1, <3>3, <4>4
        <3> QED
            BY <3>2, <3>3
    <2>2. CASE ip # p.from.ip
        <3>1. /\ wrongAt'[ip] = wrongAt[ip]
              /\ wrongAt[ip] \in Nat /\ wrongAt[ip] <= uptime
            BY <1>5, <1>10, <2>2 DEF LockInv, Locked
        <3>2. wrongAt'[ip] <= uptime'
            BY <1>1, <1>3, <3>1
        <3>3. CASE ip \in Keys(new)
            <4>1. ip \in Keys(admin_limit)
                BY <1>7, <2>2, <3>3
            <4>2. admin_limit.map[ip].time = FromMillis(wrongAt[ip])
                BY <1>10, <3>1, <4>1 DEF LockInv, Locked
            <4> QED
                BY <1>4, <1>6, <2>2, <3>1, <3>2, <3>3, <4>2
        <3>4. CASE ip \notin Keys(new)
            <4>1. ip \notin ValidKeys(admin_limit, FromMillis(uptime'))
                BY <1>3, <1>6, <2>2, <3>4
            <4>2. uptime' - wrongAt[ip] > 1000 * cfg.admin_timeout - UnitsPerSec
                BY <1>3, <1>10, <3>1, <4>1, OverWhenUnseen
            <4>3. Aged(ip)'
                BY <1>4, <3>1, <4>2 DEF Aged
            <4> QED
                BY <1>4, <3>2, <3>4, <4>3
        <3> QED
            BY <3>3, <3>4
    <2> QED
        BY <2>1, <2>2
<1> QED
    BY <1>9, <1>10 DEF Locked

\* Time alone ends locks, and a lock that is over stays so.
LEMMA TimeKeepsLocked ==
    ASSUME LockInv, uptime' \in Nat, uptime <= uptime',
           UNCHANGED <<admin_limit, cfg, wrongAt>>
    PROVE  Locked'
<1>1. uptime \in Nat /\ cfg.admin_timeout \in Nat
    BY LimitType DEF LockInv
<1>2. ASSUME NEW ip \in Ips, wrongAt[ip] # None
      PROVE  /\ wrongAt[ip] <= uptime'
             /\ Aged(ip) => Aged(ip)'
    BY <1>1, <1>2 DEF LockInv, Locked, Aged, UnitsPerSec
<1> QED
    BY <1>2 DEF LockInv, Locked, Keys

\* No handler sets the clock back.
LEMMA TimeMovesOn ==
    ASSUME IInv, NEW p \in Packets, Receive(p)
    PROVE  uptime' \in Nat /\ uptime <= uptime'
<1>1. uptime \in Nat
    BY LimitType
<1>2. ASSUME ClockMayAdvance PROVE uptime' \in Nat /\ uptime <= uptime'
    BY <1>1, <1>2, MasterServerAssumption DEF ClockMayAdvance
<1>3. ClockMayAdvance \/ uptime' = uptime
    BY DEF Receive, HandlePacket, HandleServerChallenge, HandleServerAdd,
        HandleServerRemove, HandleGameQueryServers, HandleGameGetServerInfo,
        RefuseGameRequest, HandleAdminChallenge, HandleAdminCommand,
        RefuseAdminRequest, RefuseMalformed
<1> QED
    BY <1>1, <1>2, <1>3

\* Every handler keeps the locks.
LEMMA ReceivedLocked ==
    ASSUME NoWrap, LockInv, NEW p \in Packets, Receive(p), Received(p)
    PROVE  Locked'
<1>1. uptime' \in Nat /\ uptime <= uptime'
    BY TimeMovesOn DEF LockInv
<1>2. cfg' = cfg
    BY DEF Receive, HandlePacket, HandleServerChallenge, HandleServerAdd,
        HandleServerRemove, HandleGameQueryServers, HandleGameGetServerInfo,
        RefuseGameRequest, HandleAdminChallenge, HandleAdminCommand,
        RefuseAdminRequest, RefuseMalformed, configVars
<1>3. CASE HandleAdminCommand(p) /\ ~HashMatches(p)
    BY <1>3, MistakeLocks
<1>4. CASE HandleAdminCommand(p) /\ HashMatches(p)
    <2>1. admin_limit' = admin_limit /\ wrongAt' = wrongAt
        BY <1>4 DEF HandleAdminCommand, Received, Mistakes
    <2> QED
        BY <1>1, <1>2, <2>1, TimeKeepsLocked
<1>5. CASE HandleAdminChallenge(p)
    <2>1. admin_limit' = admin_limit /\ wrongAt' = wrongAt
        BY <1>5 DEF HandleAdminChallenge, Received, Mistakes, Handled
    <2> QED
        BY <1>1, <1>2, <2>1, TimeKeepsLocked
<1>6. CASE ~HandleAdminChallenge(p) /\ ~HandleAdminCommand(p)
    <2>1. UNCHANGED <<admin_challenges, admin_limit>> /\ ~Draws(p) /\ ~Handled(p)
        BY <1>6, OthersLeaveAdmin
    <2>2. wrongAt' = wrongAt
        BY <2>1 DEF Received, Mistakes
    <2> QED
        BY <1>1, <1>2, <2>1, <2>2, TimeKeepsLocked
<1> QED
    BY <1>3, <1>4, <1>5, <1>6

\* A reload that changes the timeout counts the locks still in force.
LEMMA ReloadedLocked ==
    ASSUME NoWrap, LockInv, NEW c \in Configs, Reload(c), Reloaded(c)
    PROVE  Locked'
<1>1. uptime' = uptime /\ uptime \in Nat /\ uptime <= uptime
    BY LimitType DEF LockInv, Reload, Restart, UpdateConfig, FailToBind
<1>2. wrongAt' = [ip \in Ips |->
                     IF \/ cfg'.family # cfg.family
                        \/ cfg' # cfg /\ AdminRequestAllowed(ip)
                     THEN None ELSE wrongAt[ip]]
    BY DEF Reloaded
<1>3. wrongAt' \in [Ips -> Nat \cup {None}]
    BY <1>2 DEF LockInv, Locked
<1>4. CASE cfg'.family # cfg.family
    BY <1>2, <1>3, <1>4 DEF Locked
<1>5. CASE cfg' = cfg /\ admin_limit' = admin_limit
    <2>1. wrongAt' = wrongAt
        BY <1>2, <1>5 DEF LockInv, Locked
    <2> QED
        BY <1>1, <1>5, <2>1, TimeKeepsLocked
<1>6. CASE /\ cfg' # cfg /\ cfg'.family = cfg.family
           /\ admin_limit' = SetTimeout(admin_limit, c.admin_timeout)
    <2>1. Keys(admin_limit') = Keys(admin_limit) /\ admin_limit'.map = admin_limit.map
        <3>1. IsTimedHashMap(admin_limit, Ips, {{}}, {cfg.admin_timeout})
            BY DEF LockInv, IInv, TypeOK
        <3> QED
            BY <1>6, <3>1 DEF SetTimeout, Keys, IsTimedHashMap
    <2>2. ASSUME NEW ip \in Ips, wrongAt'[ip] # None
          PROVE  /\ wrongAt'[ip] <= uptime'
                 /\ ip \in Keys(admin_limit')
                 /\ admin_limit'.map[ip].time = FromMillis(wrongAt'[ip])
        <3>1. wrongAt'[ip] = wrongAt[ip] /\ ~AdminRequestAllowed(ip)
            BY <1>2, <1>6, <2>2
        <3>2. ip \in Keys(admin_limit)
            BY <3>1 DEF AdminRequestAllowed, ValidKeys
        <3> QED
            BY <1>1, <2>1, <2>2, <3>1, <3>2 DEF LockInv, Locked
    <2> QED
        BY <1>3, <2>2 DEF Locked
<1>7. CASE Restart(c)
    BY <1>4, <1>7 DEF Restart
<1>8. CASE FailToBind(c)
    BY <1>5, <1>8 DEF FailToBind, configVars, adminVars
<1>9. CASE UpdateConfig(c)
    <2>1. /\ cfg' = c /\ c.family = cfg.family
          /\ admin_limit' = SetTimeout(admin_limit, c.admin_timeout)
        BY <1>9 DEF UpdateConfig
    <2>2. c = cfg => admin_limit' = admin_limit
        BY <2>1 DEF SetTimeout, LockInv, IInv, TypeOK, IsTimedHashMap
    <2> QED
        BY <1>5, <1>6, <2>1, <2>2
<1> QED
    BY <1>7, <1>8, <1>9 DEF Reload

\* The times of the locks are inductive.
LEMMA LockNextInv ==
    ASSUME NoWrap, LockInv, [AdmNext]_admVars
    PROVE  LockInv'
<1>2. IInv' /\ Unspent'
    BY ChallengeNextInv DEF LockInv, ChallengeInv
<1>3. ASSUME NEW p \in Packets, Receive(p), Received(p) PROVE Locked'
    BY <1>3, ReceivedLocked
<1>4. ASSUME NEW c \in Configs, Reload(c), Reloaded(c) PROVE Locked'
    BY <1>4, ReloadedLocked
<1>5. uptime \in Nat
    BY LimitType DEF LockInv
<1>6. ASSUME NEW d \in TickSteps, Tick(d), UNCHANGED adminHistory PROVE Locked'
    <2>1. uptime' \in Nat /\ uptime <= uptime'
        BY <1>5, <1>6, MasterServerAssumption DEF Tick
    <2>2. UNCHANGED <<admin_limit, cfg, wrongAt>>
        BY <1>6 DEF Tick, adminVars, configVars, adminHistory
    <2> QED
        BY <2>1, <2>2, TimeKeepsLocked
<1>7. ASSUME UNCHANGED admVars PROVE Locked'
    <2>1. uptime' \in Nat /\ uptime <= uptime'
        BY <1>5, <1>7 DEF admVars, vars
    <2>2. UNCHANGED <<admin_limit, cfg, wrongAt>>
        BY <1>7 DEF admVars, vars, adminVars, configVars, adminHistory
    <2> QED
        BY <2>1, <2>2, TimeKeepsLocked
<1>8. Locked'
    BY <1>3, <1>4, <1>6, <1>7 DEF AdmNext, AdmReceive, AdmReload, AdmTick
<1> QED
    BY <1>2, <1>8 DEF LockInv

\* At the start no host was wrong.
LEMMA LockInitInv == AdmInit => LockInv
<1> SUFFICES ASSUME AdmInit PROVE LockInv
    OBVIOUS
<1>1. IInv /\ Unspent
    BY ChallengeInitInv DEF ChallengeInv
<1> QED
    BY <1>1 DEF AdmInit, AdminHistoryInit, LockInv, Locked

\* Admin challenges and server info are sent only by the handlers that answer them.
LEMMA SentKinds ==
    ASSUME NEW p \in Packets, Receive(p), NEW m \in out'.sent
    PROVE  /\ m.kind = "admin_challenge" => HandleAdminChallenge(p)
           /\ m.kind = "info" => HandleGameGetServerInfo(p)
<1> DEFINE Others(to) == {Message(a, "announce", [client |-> p.from]) : a \in to}
<1>1. ASSUME NEW kind, NEW body, NEW to, NEW events,
             \/ Send(Message(p.from, kind, body), {}, events)
             \/ Send(Message(p.from, kind, body), Others(to), events)
      PROVE  m.kind \in {kind, "announce"}
    BY <1>1 DEF Send, Message
<1>2. ASSUME NEW events, Quiet(events) PROVE FALSE
    BY <1>2 DEF Quiet
<1> HIDE DEF Others
<1>3. CASE HandleServerChallenge(p)
    <2>1. PICK c : Send(Message(p.from, "challenge", [number |-> c]), {}, {})
        BY <1>3 DEF HandleServerChallenge
    <2>2. m.kind \in {"challenge", "announce"}
        BY <1>1, <2>1
    <2> QED
        BY <2>2
<1>4. CASE HandleServerAdd(p)
    <2>1. out'.sent = {}
        BY <1>4 DEF HandleServerAdd, Quiet
    <2> QED
        BY <2>1
<1>5. CASE HandleServerRemove(p) \/ RefuseGameRequest(p) \/ HandleAdminCommand(p)
                \/ RefuseAdminRequest(p) \/ RefuseMalformed(p)
    BY <1>2, <1>5 DEF HandleServerRemove, RefuseGameRequest, HandleAdminCommand,
        RefuseAdminRequest, RefuseMalformed
<1>6. CASE HandleGameQueryServers(p)
    <2>1. CASE AnswerOldClient(p.from, p.query)
        <3> DEFINE body == [addr |-> update_addr, key |-> p.query.key]
        <3>1. Send(Message(p.from, "update", body), {}, {"query"})
            BY <2>1 DEF AnswerOldClient
        <3> HIDE DEF body
        <3>2. m.kind \in {"update", "announce"}
            BY <1>1, <3>1
        <3> QED
            BY <3>2
    <2>2. CASE AnswerQuery(p.from, p.query)
        <3> DEFINE body == [list |-> FilteredServers(p.query), key |-> p.query.key]
        <3>1. \/ Send(Message(p.from, "servers", body), {}, {"query"})
              \/ Send(Message(p.from, "servers", body),
                      Others(FilteredServersNat(p.query)), {"query"})
            BY <2>2 DEF AnswerQuery, Others
        <3> HIDE DEF body
        <3>2. m.kind \in {"servers", "announce"}
            BY <1>1, <3>1
        <3> QED
            BY <3>2
    <2> QED
        BY <1>6, <2>1, <2>2 DEF HandleGameQueryServers
<1>7. CASE HandleGameGetServerInfo(p)
    <2>1. PICK d : Send(Message(p.from, "info", [gamedir |-> d]), {}, {})
        BY <1>7 DEF HandleGameGetServerInfo
    <2>2. m.kind \in {"info", "announce"}
        BY <1>1, <2>1
    <2> QED
        BY <1>7, <2>2
<1>8. CASE HandleAdminChallenge(p)
    <2>1. PICK x, y : Send(Message(p.from, "admin_challenge",
                                   [master |-> x, hash |-> y]), {}, {})
        BY <1>8 DEF HandleAdminChallenge
    <2>2. m.kind \in {"admin_challenge", "announce"}
        BY <1>1, <2>1
    <2> QED
        BY <1>8, <2>2
<1> QED
    BY <1>3, <1>4, <1>5, <1>6, <1>7, <1>8 DEF Receive, HandlePacket

\* It goes to the host that asked and was allowed to.
LEMMA ChallengeAnswered ==
    ASSUME NEW p \in Packets, Receive(p),
           NEW m \in out'.sent, m.kind = "admin_challenge"
    PROVE  AdminRequestAllowed(p.from.ip) /\ m.to.ip = p.from.ip
<1>1. HandleAdminChallenge(p)
    BY SentKinds
<1>2. PICK x, y : Send(Message(p.from, "admin_challenge", [master |-> x, hash |-> y]),
                       {}, {})
    BY <1>1 DEF HandleAdminChallenge
<1>3. m.to = p.from
    BY <1>2 DEF Send, Message
<1> QED
    BY <1>1, <1>3 DEF HandleAdminChallenge

\* Only a request that is allowed is served.
LEMMA ServedIsAllowed ==
    ASSUME LockInv, AdmNext, NEW ip \in Ips, Served(ip)
    PROVE  AdminRequestAllowed(ip)
<1>1. ASSUME NEW p \in Packets, Receive(p), Received(p) PROVE AdminRequestAllowed(ip)
    <2>1. CASE unspent'[ip] # unspent[ip] \/ wrongAt'[ip] # wrongAt[ip]
        <3>1. ip = p.from.ip /\ (Draws(p) \/ Handled(p))
            <4>1. CASE Draws(p) \/ Handled(p)
                <5>1. \/ unspent' = unspent
                      \/ unspent' = [unspent EXCEPT ![p.from.ip] = 1]
                      \/ unspent' = [unspent EXCEPT ![p.from.ip] = @ - 1]
                    BY <1>1 DEF Received
                <5>2. \/ wrongAt' = wrongAt
                      \/ wrongAt' = [wrongAt EXCEPT ![p.from.ip] = uptime']
                    BY <1>1 DEF Received
                <5>3. unspent'[ip] # unspent[ip] => ip = p.from.ip
                    BY <5>1 DEF LockInv, Unspent
                <5>4. wrongAt'[ip] # wrongAt[ip] => ip = p.from.ip
                    BY <5>2 DEF LockInv, Locked
                <5> QED
                    BY <2>1, <4>1, <5>3, <5>4
            <4>2. CASE ~Draws(p) /\ ~Handled(p)
                BY <1>1, <2>1, <4>2 DEF Received, Executes, Mistakes
            <4> QED
                BY <4>1, <4>2
        <3> QED
            BY <3>1 DEF Draws, Handled
    <2>2. CASE \E m \in out'.sent : m.kind = "admin_challenge" /\ m.to.ip = ip
        BY <1>1, <2>2, ChallengeAnswered
    <2> QED
        BY <2>1, <2>2 DEF Served
<1>2. ASSUME NEW c \in Configs, Reload(c), Reloaded(c) PROVE FALSE
    <2>1. out'.sent = {}
        BY <1>2 DEF Reload, Restart, UpdateConfig, FailToBind, Quiet
    <2>2. ASSUME cfg' = cfg PROVE Event("clear") \notin out'.events
        BY <1>2, <2>2 DEF Reload, Restart, UpdateConfig, FailToBind, Quiet, Event
    <2>3. ASSUME cfg' = cfg PROVE unspent' = unspent /\ wrongAt'[ip] = wrongAt[ip]
        BY <1>2, <2>2, <2>3 DEF Reloaded
    <2> QED
        BY <2>1, <2>3 DEF Served
<1>3. ASSUME NEW d \in TickSteps, Tick(d), UNCHANGED adminHistory PROVE FALSE
    <2>1. out'.sent = {} /\ unspent' = unspent /\ wrongAt' = wrongAt
        BY <1>3 DEF Tick, Quiet, adminHistory
    <2> QED
        BY <2>1 DEF Served
<1> QED
    BY <1>1, <1>2, <1>3 DEF AdmNext, AdmReceive, AdmReload, AdmTick

\* While the clock does not wrap, no admin request of a host is let through before
\* the time after its last wrong password is over, whatever other hosts, cleanups
\* and reloads did in between (allow_admin_request).
THEOREM WrongPasswordsLock ==
    ASSUME NoWrap
    PROVE  AdmSpec => WrongPasswordLocks
<1>1. LockInv /\ [AdmNext]_admVars => LockInv'
    BY LockNextInv
<1>2. LockInv /\ [AdmNext]_admVars =>
          [\A ip \in Ips :
              Served(ip) /\ wrongAt[ip] # None =>
                  uptime - wrongAt[ip] > 1000 * cfg.admin_timeout - UnitsPerSec]_admVars
    <2> SUFFICES ASSUME LockInv, AdmNext, NEW ip \in Ips, Served(ip), wrongAt[ip] # None
                 PROVE  uptime - wrongAt[ip] > 1000 * cfg.admin_timeout - UnitsPerSec
        OBVIOUS
    <2>1. ip \notin ValidKeys(admin_limit, FromMillis(uptime))
        BY ServedIsAllowed DEF AdminRequestAllowed, Now
    <2>2. uptime \in Nat /\ uptime <= uptime /\ uptime <= MaxUptime
        BY LimitType DEF LockInv
    <2> QED
        BY <2>1, <2>2, OverWhenUnseen
<1> QED
    BY <1>1, <1>2, LockInitInv, PTL DEF AdmSpec, WrongPasswordLocks

-----------------------------------------------------------------------------
(* The request limit of game clients, while the clock does not wrap        *)

\* Below the limit the counters do not saturate: u32::MAX is no limit at all.
LimitsCount == \A c \in {InitConfig} \cup Configs : c.client_rate_limit < CounterMax

Second == 1000 - UnitsPerSec

\* What a history of two windows and one request more must look like.
Apart(times, limit) ==
    Len(times) = 2 * limit + 1 => times[2 * limit + 1] - times[1] > Second

\* The last times are of a window that began at start, the first k of earlier ones:
\* at most the last `limit` of these are of the window just before.
Split(times, start, k, limit, now) ==
    /\ start <= now /\ k <= Len(times) /\ Len(times) - k <= limit
    /\ \A i \in 1 .. Len(times) : times[i] <= now
    /\ \A i \in 1 .. k : times[i] <= start
    /\ \A i \in 1 .. k : i <= k - limit => start - times[i] > Second

\* What Extended does, for a limit that is not yet that of a state.
Longer(times, limit, t) ==
    IF Len(times) > 2 * limit THEN Append(Tail(times), t) ELSE Append(times, t)

\* One more request of the window under way.
LEMMA OneMore ==
    ASSUME NEW times \in Seq(Nat), NEW limit \in Nat, NEW now \in Nat,
           NEW start \in Nat, NEW k \in Nat, Split(times, start, k, limit, now),
           Len(times) - k < limit, Len(times) <= 2 * limit + 1
    PROVE  /\ Longer(times, limit, now) \in Seq(Nat)
           /\ Len(Longer(times, limit, now)) <= 2 * limit + 1
           /\ Apart(Longer(times, limit, now), limit)
           /\ \E j \in Nat :
                 /\ Split(Longer(times, limit, now), start, j, limit, now)
                 /\ Len(Longer(times, limit, now)) - j = Len(times) - k + 1
<1> DEFINE n == Len(times)
           new == Longer(times, limit, now)
<1>0. n \in Nat /\ \A i \in 1 .. n : times[i] \in Nat
    OBVIOUS
<1>1. CASE n > 2 * limit
    <2>1. new = Append(Tail(times), now) /\ times # <<>>
        BY <1>1 DEF Longer
    <2>2. /\ Tail(times) \in Seq(Nat) /\ Len(Tail(times)) = n - 1
          /\ \A i \in 1 .. n - 1 : Tail(times)[i] = times[i + 1]
        BY <2>1
    <2>3. /\ new \in Seq(Nat) /\ Len(new) = n
          /\ \A i \in 1 .. n - 1 : new[i] = times[i + 1]
          /\ new[n] = now
        BY <2>1, <2>2
    <2>4. n = 2 * limit + 1 /\ k - 1 \in Nat /\ 2 <= k - limit /\ limit >= 1
        BY <1>0, <1>1
           DEF Split
    <2> HIDE DEF new, n
    <2>5. /\ \A i \in 1 .. n : new[i] <= now
          /\ \A i \in 1 .. k - 1 : new[i] <= start
          /\ \A i \in 1 .. k - 1 : i <= k - 1 - limit => start - new[i] > Second
        <3>1. ASSUME NEW i \in 1 .. n PROVE new[i] <= now
            <4>1. CASE i = n
                BY <2>3, <4>1
            <4>2. CASE i # n
                <5>1. i \in 1 .. n - 1 /\ i + 1 \in 1 .. n
                    BY <1>0, <4>2
                <5> QED
                    BY <2>3, <5>1 DEF Split, n
            <4> QED
                BY <4>1, <4>2
        <3>2. ASSUME NEW i \in 1 .. k - 1
              PROVE  /\ new[i] <= start
                     /\ i <= k - 1 - limit => start - new[i] > Second
            <4>1. i \in 1 .. n - 1 /\ i + 1 \in 1 .. k
                BY <1>0, <2>4 DEF Split, n
            <4>2. new[i] = times[i + 1]
                BY <2>3, <4>1
            <4>3. i <= k - 1 - limit => i + 1 <= k - limit
                BY <4>1
            <4> QED
                BY <4>1, <4>2, <4>3 DEF Split
        <3> QED
            BY <3>1, <3>2
    <2>6. Split(new, start, k - 1, limit, now)
        BY <1>0, <2>3, <2>4, <2>5 DEF Split, n
    <2>7. new[1] = times[2] /\ start - times[2] > Second /\ times[2] \in Nat
        <3>1. 1 \in 1 .. n - 1 /\ 2 \in 1 .. k /\ 2 \in 1 .. n
            BY <1>0, <2>4 DEF Split, n
        <3>2. new[1] = times[1 + 1]
            BY <2>3, <3>1
        <3> QED
            BY <1>0, <2>4, <3>1, <3>2 DEF Split
    <2>8. Apart(new, limit)
        <3>1. start <= now
            BY DEF Split
        <3>2. now - new[1] > Second
            <4> DEFINE first == new[1]
            <4>1. first \in Nat /\ start - first > Second
                BY <2>7
            <4>2. Second \in Nat
                BY DEF Second, UnitsPerSec
            <4> HIDE DEF first
            <4>3. now - first > Second
                BY <3>1, <4>1, <4>2
            <4> QED
                BY <4>3 DEF first
        <3>3. Len(new) = 2 * limit + 1 /\ new[2 * limit + 1] = now
            BY <2>3, <2>4
        <3> QED
            BY <3>2, <3>3 DEF Apart
    <2> QED
        BY <1>0, <2>3, <2>4, <2>6, <2>8 DEF new, n
<1>2. CASE n <= 2 * limit
    <2>1. new = Append(times, now)
        BY <1>0, <1>2 DEF Longer
    <2>2. /\ new \in Seq(Nat) /\ Len(new) = n + 1
          /\ \A i \in 1 .. n : new[i] = times[i]
          /\ new[n + 1] = now
        BY <2>1
    <2> HIDE DEF new, n
    <2>3. Split(new, start, k, limit, now)
        <3>1. \A i \in 1 .. k : i \in 1 .. n
            BY <1>0 DEF Split, n
        <3>2. ASSUME NEW i \in 1 .. n + 1 PROVE new[i] <= now
            <4>1. i \in 1 .. n \/ i = n + 1
                BY <1>0
            <4>2. CASE i \in 1 .. n
                <5>1. times[i] <= now
                    BY <4>2 DEF Split, n
                <5>2. new[i] = times[i]
                    BY <2>2, <4>2
                <5> QED
                    BY <5>1, <5>2
            <4>3. CASE i = n + 1
                <5>1. new[i] = now
                    BY <2>2, <4>3
                <5> HIDE DEF Split
                <5> QED
                    BY <5>1
            <4> QED
                BY <4>1, <4>2, <4>3
        <3>3. n + 1 - k <= limit /\ k <= n + 1 /\ start <= now
            BY <1>0 DEF Split, n
        <3> QED
            <4>1. /\ \A i \in 1 .. k : times[i] <= start
                  /\ \A i \in 1 .. k : i <= k - limit => start - times[i] > Second
                BY DEF Split
            <4>2. /\ \A i \in 1 .. k : new[i] <= start
                  /\ \A i \in 1 .. k : i <= k - limit => start - new[i] > Second
                BY <2>2, <3>1, <4>1
            <4>3. \A i \in 1 .. Len(new) : new[i] <= now
                BY <2>2, <3>2
            <4>4. start <= now /\ Len(new) - k <= limit /\ k <= Len(new)
                BY <1>0, <2>2, <3>3
            <4> QED
                BY <4>2, <4>3, <4>4 DEF Split
    <2>4. Apart(new, limit)
        <3>0. Len(new) = 2 * limit + 1 => n = 2 * limit
            BY <1>0, <2>2
        <3> SUFFICES ASSUME n = 2 * limit PROVE new[n + 1] - new[1] > Second
            BY <3>0 DEF Apart
        <3>1. /\ k >= 1 /\ 1 <= k - limit /\ n >= 1 /\ start <= now
              /\ 1 \in 1 .. k /\ 1 \in 1 .. n
            BY <1>0 DEF Split, n
        <3>2. start - times[1] > Second /\ times[1] \in Nat
            BY <1>0, <3>1 DEF Split, n
        <3>3. new[n + 1] = now /\ new[1] = times[1]
            BY <2>2, <3>1
        <3> QED
            BY <3>1, <3>2, <3>3 DEF Second, UnitsPerSec
    <2> QED
        BY <1>0, <1>2, <2>2, <2>3, <2>4 DEF new, n
<1> QED
    BY <1>0, <1>1, <1>2

\* A new window: everything so far was of earlier ones.
LEMMA NewWindow ==
    ASSUME NEW times \in Seq(Nat), NEW limit \in Nat, NEW now \in Nat,
           NEW start \in Nat, NEW k \in Nat, Split(times, start, k, limit, now),
           times = <<>> \/ now - start > Second
    PROVE  Split(times, now, Len(times), limit, now)
<1>0. Len(times) \in Nat /\ \A i \in 1 .. Len(times) : times[i] \in Nat
    OBVIOUS
<1>1. CASE times = <<>>
    BY <1>1 DEF Split
<1>2. CASE now - start > Second
    <2>1. ASSUME NEW i \in 1 .. Len(times), i <= Len(times) - limit
          PROVE  now - times[i] > Second
        <3>1. i <= k
            BY <1>0, <2>1 DEF Split
        <3>2. times[i] <= start
            BY <3>1 DEF Split
        <3> QED
            BY <1>0, <1>2, <3>2 DEF Second, UnitsPerSec
    <2> QED
        BY <1>0, <2>1 DEF Split
<1> QED
    BY <1>1, <1>2

\* An empty history fits every limit.
LEMMA NoTimes ==
    ASSUME NEW limit \in Nat, NEW start \in Nat, NEW now \in Nat, start <= now
    PROVE  /\ Len(<<>>) = 0 /\ Len(<<>>) <= 2 * limit + 1
           /\ Apart(<<>>, limit) /\ Split(<<>>, start, 0, limit, now)
BY DEF Apart, Split

\* The history of a host fits its counter, or the window it ended with is over.
InWindows(ip) ==
    \E start \in Nat, k \in Nat :
        /\ Split(answered[ip], start, k, Limit, uptime)
        /\ IF ip \in Keys(client_rate_limit)
           THEN /\ client_rate_limit.map[ip].time = FromMillis(start)
                /\ Len(answered[ip]) - k <= client_rate_limit.map[ip].value
           ELSE answered[ip] = <<>> \/ uptime - start > Second

Answered ==
    /\ answered \in [Ips -> Seq(Nat)]
    /\ \A ip \in Ips :
          /\ Len(answered[ip]) <= 2 * Limit + 1
          /\ Limit = 0 => answered[ip] = <<>>
          /\ Apart(answered[ip], Limit)
          /\ InWindows(ip)

RateInv == IInv /\ Answered

\* What IInv says of the counters and of the clock.
LEMMA CounterType ==
    ASSUME IInv
    PROVE  /\ Limit \in Nat
           /\ uptime \in Nat /\ uptime <= MaxUptime
           /\ client_rate_limit.timeout = 1
           /\ \A ip \in Keys(client_rate_limit) :
                 ip \in Ips /\ client_rate_limit.map[ip].value \in 0 .. CounterMax
<1>1. Limit \in Nat
    BY MasterServerAssumption DEF IInv, TypeOK, Limit, Config
<1>2. uptime \in Nat /\ uptime <= MaxUptime
    BY MasterServerAssumption DEF IInv, TypeOK
<1> DEFINE V == 0 .. CounterMax
<1>3. IsTimedHashMap(client_rate_limit, Ips, V, {1})
    BY DEF IInv, TypeOK, ClientWindow
<1> HIDE DEF V
<1>4. /\ client_rate_limit.timeout = 1
      /\ \A ip \in Keys(client_rate_limit) :
            ip \in Ips /\ client_rate_limit.map[ip].value \in V
    BY <1>3 DEF IsTimedHashMap, Keys
<1> QED
    BY <1>1, <1>2, <1>4 DEF V

\* allow_game_request counts a request of its address, in the window under way or
\* in a new one, and ends windows of others only when they are over.
LEMMA CountedEntries ==
    ASSUME IInv, Limit > 0, NEW ip \in Ips
    PROVE  /\ ip \in Keys(Counted(ip))
           /\ IF ip \in ValidKeys(client_rate_limit, Now)
              THEN /\ ip \in Keys(client_rate_limit)
                   /\ Counted(ip).map[ip].time = client_rate_limit.map[ip].time
                   /\ Counted(ip).map[ip].value =
                          Saturated(client_rate_limit.map[ip].value + 1)
              ELSE Counted(ip).map[ip] = [time |-> Now, value |-> Saturated(1)]
           /\ ValidKeys(client_rate_limit, Now) \subseteq Keys(Counted(ip))
           /\ \A x \in Keys(Counted(ip)) \ {ip} :
                 /\ x \in Keys(client_rate_limit)
                 /\ Counted(ip).map[x] = client_rate_limit.map[x]
<1> DEFINE V == 0 .. CounterMax
           e == Entry(client_rate_limit, ip, Now)
           c == Counted(ip)
<1>1. IsTimedHashMap(client_rate_limit, Ips, V, {ClientWindow})
    BY DEF IInv, TypeOK
<1> HIDE DEF V
<1>2. /\ IsTimedHashMap(e, Ips, V, {ClientWindow})
      /\ Keys(e) \subseteq Keys(client_rate_limit)
      /\ ip \in Keys(e) <=> ip \in ValidKeys(client_rate_limit, Now)
      /\ ValidKeys(client_rate_limit, Now) \subseteq Keys(e)
      /\ \A x \in Keys(e) : e.map[x] = client_rate_limit.map[x]
    BY <1>1, EntryType
<1>3. cfg.client_rate_limit # 0
    BY CounterType DEF Limit
<1>4. c = IF ip \in Keys(e)
          THEN [e EXCEPT !.map[ip].value = Saturated(e.map[ip].value + 1)]
          ELSE Put(e, ip, Saturated(1), Now)
    BY <1>3 DEF Counted
<1> HIDE DEF e, c
<1>5. CASE ip \in Keys(e)
    <2> DEFINE n == Saturated(e.map[ip].value + 1)
    <2>1. c = [e EXCEPT !.map[ip].value = n]
        BY <1>4, <1>5
    <2> HIDE DEF n
    <2>2. /\ Keys(c) = Keys(e)
          /\ c.map[ip].time = e.map[ip].time /\ c.map[ip].value = n
          /\ \A x \in Keys(e) \ {ip} : c.map[x] = e.map[x]
        BY <1>2, <1>5, <2>1 DEF IsTimedHashMap, Keys
    <2> QED
        BY <1>2, <1>5, <2>2 DEF n, c
<1>6. CASE ip \notin Keys(e)
    <2>1. c = Put(e, ip, Saturated(1), Now)
        BY <1>4, <1>6
    <2>2. Keys(c) = Keys(e) \cup {ip}
        BY <2>1 DEF Put, Keys
    <2>3. /\ c.map[ip] = [time |-> Now, value |-> Saturated(1)]
          /\ \A x \in Keys(e) \ {ip} : c.map[x] = e.map[x]
        BY <1>2, <2>1, PutEntries
    <2> QED
        BY <1>2, <1>6, <2>2, <2>3 DEF c
<1> QED
    BY <1>5, <1>6

\* A window that a reader of the clock does not see is over.
LEMMA OverWhenGone ==
    ASSUME NoWrap, IInv, NEW ip \in Ips, NEW start \in Nat, start <= uptime,
           ip \notin ValidKeys(client_rate_limit, Now),
           ip \in Keys(client_rate_limit) =>
               client_rate_limit.map[ip].time = FromMillis(start),
           ip \notin Keys(client_rate_limit) =>
               answered[ip] = <<>> \/ uptime - start > Second
    PROVE  answered[ip] = <<>> \/ uptime - start > Second
<1> SUFFICES ASSUME ip \in Keys(client_rate_limit) PROVE uptime - start > Second
    OBVIOUS
<1>1. /\ uptime \in Nat /\ uptime < ClockRange * UnitsPerSec
      /\ client_rate_limit.timeout = 1 /\ 1 \in Nat
    BY CounterType, MasterServerAssumption, ClockRangeAssumption DEF NoWrap, UnitsPerSec
<1>2. uptime - start > 1000 * client_rate_limit.timeout - UnitsPerSec
    BY <1>1, AgeOfEntry DEF Now
<1> QED
    BY <1>1, <1>2 DEF Second, UnitsPerSec

\* The history of a host whose counter and history stay fits as time passes.
LEMMA WindowsStay ==
    ASSUME IInv, NEW ip \in Ips, InWindows(ip), answered[ip] \in Seq(Nat),
           answered'[ip] = answered[ip], Limit' = Limit,
           uptime' \in Nat, uptime <= uptime',
           IF ip \in Keys(client_rate_limit')
           THEN /\ ip \in Keys(client_rate_limit)
                /\ client_rate_limit'.map[ip].time = client_rate_limit.map[ip].time
                /\ client_rate_limit'.map[ip].value >= client_rate_limit.map[ip].value
                /\ client_rate_limit'.map[ip].value \in Nat
           ELSE \A start \in Nat :
                   /\ start <= uptime
                   /\ ip \in Keys(client_rate_limit) =>
                          client_rate_limit.map[ip].time = FromMillis(start)
                   /\ ip \notin Keys(client_rate_limit) =>
                          answered[ip] = <<>> \/ uptime - start > Second
                   => answered[ip] = <<>> \/ uptime - start > Second
    PROVE  InWindows(ip)'
<1>1. PICK start \in Nat, k \in Nat :
          /\ Split(answered[ip], start, k, Limit, uptime)
          /\ IF ip \in Keys(client_rate_limit)
             THEN /\ client_rate_limit.map[ip].time = FromMillis(start)
                  /\ Len(answered[ip]) - k <= client_rate_limit.map[ip].value
             ELSE answered[ip] = <<>> \/ uptime - start > Second
    BY DEF InWindows
<1>0. uptime \in Nat /\ CounterMax \in Nat
    BY CounterType, MasterServerAssumption
<1>2. Split(answered'[ip], start, k, Limit', uptime')
    <2> DEFINE times == answered[ip]
    <2>1. times \in Seq(Nat) /\ Split(times, start, k, Limit, uptime)
        BY <1>1
    <2> HIDE DEF times
    <2>2. \A i \in 1 .. Len(times) : times[i] \in Nat
        BY <2>1
    <2>3. Split(times, start, k, Limit, uptime')
        BY <1>0, <2>1, <2>2 DEF Split
    <2> QED
        BY <2>3 DEF times
<1>3. CASE ip \in Keys(client_rate_limit')
    <2>1. client_rate_limit.map[ip].value \in Nat
        BY <1>0, <1>3, CounterType
    <2>2. Len(answered[ip]) \in Nat
        OBVIOUS
    <2>3. Len(answered'[ip]) - k <= client_rate_limit'.map[ip].value
        BY <1>1, <1>3, <2>1, <2>2
    <2> QED
        BY <1>1, <1>2, <1>3, <2>3 DEF InWindows
<1>4. CASE ip \notin Keys(client_rate_limit')
    <2>1. answered[ip] = <<>> \/ uptime - start > Second
        BY <1>1, <1>4 DEF Split
    <2>2. answered'[ip] = <<>> \/ uptime' - start > Second
        BY <1>0, <2>1 DEF Second, UnitsPerSec
    <2> QED
        BY <1>2, <1>4, <2>2 DEF InWindows
<1> QED
    BY <1>3, <1>4

\* A step that keeps counters, histories and the limit.
LEMMA AnsweredStays ==
    ASSUME RateInv, answered' = answered, Limit' = Limit,
           client_rate_limit' = client_rate_limit, uptime' \in Nat, uptime <= uptime'
    PROVE  Answered'
<1>0. CounterMax \in Nat
    BY MasterServerAssumption
<1>1. ASSUME NEW ip \in Ips PROVE InWindows(ip)'
    <2>1. ip \in Keys(client_rate_limit) => client_rate_limit.map[ip].value \in Nat
        BY <1>0, CounterType DEF RateInv
    <2>2. Keys(client_rate_limit') = Keys(client_rate_limit)
        BY DEF Keys
    <2>3. ip \in Keys(client_rate_limit) =>
              client_rate_limit'.map[ip].value >= client_rate_limit.map[ip].value
        BY <2>1
    <2> QED
        BY <2>1, <2>2, <2>3, WindowsStay DEF RateInv, Answered
<1> QED
    BY <1>1 DEF RateInv, Answered

\* What a request that passes adds to the history of its own host.
LEMMA OwnWindow ==
    ASSUME NoWrap, LimitsCount, RateInv, NEW ip \in Ips, Limit > 0,
           client_rate_limit' = Counted(ip), UNCHANGED <<cfg, uptime>>,
           answered'[ip] = IF GameRequestAllowed(ip)
                           THEN Extended(answered[ip], uptime) ELSE answered[ip]
    PROVE  /\ answered'[ip] \in Seq(Nat)
           /\ Len(answered'[ip]) <= 2 * Limit + 1
           /\ Apart(answered'[ip], Limit)
           /\ InWindows(ip)'
<1> DEFINE times == answered[ip]
           value == client_rate_limit.map[ip].value
           count == Counted(ip).map[ip].value
<1>1. /\ Limit \in Nat /\ Limit' = Limit
      /\ uptime \in Nat
      /\ CounterMax \in Nat /\ Limit < CounterMax
      /\ ip \in Keys(client_rate_limit) => value \in 0 .. CounterMax
    BY CounterType, MasterServerAssumption DEF RateInv, IInv, TypeOK, LimitsCount, Limit
<1>2. times \in Seq(Nat) /\ Len(times) <= 2 * Limit + 1 /\ Apart(times, Limit)
    BY DEF RateInv, Answered
<1>3. PICK start \in Nat, k \in Nat :
          /\ Split(times, start, k, Limit, uptime)
          /\ IF ip \in Keys(client_rate_limit)
             THEN /\ client_rate_limit.map[ip].time = FromMillis(start)
                  /\ Len(times) - k <= value
             ELSE times = <<>> \/ uptime - start > Second
    BY DEF RateInv, Answered, InWindows
<1>4. GameRequestAllowed(ip) <=> count <= Limit
    BY <1>1 DEF GameRequestAllowed, Limit
<1>5. answered'[ip] = IF count <= Limit THEN Longer(times, Limit, uptime) ELSE times
    BY <1>4 DEF Extended, Longer
<1>6. /\ ip \in Keys(client_rate_limit')
      /\ client_rate_limit'.map[ip].value = count
      /\ client_rate_limit'.map[ip].time = Counted(ip).map[ip].time
    BY CountedEntries DEF RateInv
<1>7. /\ ip \in ValidKeys(client_rate_limit, Now) =>
            /\ ip \in Keys(client_rate_limit)
            /\ Counted(ip).map[ip].time = client_rate_limit.map[ip].time
            /\ count = Saturated(value + 1)
      /\ ip \notin ValidKeys(client_rate_limit, Now) =>
            Counted(ip).map[ip] = [time |-> Now, value |-> Saturated(1)]
    BY CountedEntries DEF RateInv
<1> HIDE DEF times, value, count
<1>8. CASE ip \in ValidKeys(client_rate_limit, Now)
    <2>1. /\ value \in 0 .. CounterMax /\ Len(times) - k <= value
          /\ client_rate_limit.map[ip].time = FromMillis(start)
          /\ count = IF value + 1 < CounterMax THEN value + 1 ELSE CounterMax
        BY <1>1, <1>3, <1>7, <1>8 DEF Saturated
    <2>2. CASE count <= Limit
        <3>1. count = value + 1 /\ Len(times) - k < Limit
            BY <1>1, <1>2, <2>1, <2>2
        <3>2. Split(times, start, k, Limit, uptime)
            BY <1>3
        <3> DEFINE new == Longer(times, Limit, uptime)
        <3>3. /\ new \in Seq(Nat) /\ Len(new) <= 2 * Limit + 1 /\ Apart(new, Limit)
              /\ \E j \in Nat : /\ Split(new, start, j, Limit, uptime)
                               /\ Len(new) - j = Len(times) - k + 1
            <4>1. /\ times \in Seq(Nat) /\ Len(times) <= 2 * Limit + 1
                  /\ Limit \in Nat /\ uptime \in Nat
                BY <1>1, <1>2
            <4> QED
                BY <3>1, <3>2, <4>1, OneMore
        <3> HIDE DEF new
        <3>6. PICK j \in Nat : /\ Split(new, start, j, Limit, uptime)
                              /\ Len(new) - j = Len(times) - k + 1
            BY <3>3
        <3>4. answered'[ip] = new
            BY <1>5, <2>2 DEF new
        <3>5. Len(answered'[ip]) - j <= count
            BY <1>2, <2>1, <3>1, <3>6, <3>4
        <3> QED
            BY <1>1, <1>6, <1>7, <1>8, <2>1, <3>3, <3>4, <3>5, <3>6 DEF InWindows
    <2>3. CASE ~(count <= Limit)
        <3>1. answered'[ip] = times
            BY <1>5, <2>3
        <3>2. Len(times) - k <= count
            BY <1>1, <1>2, <2>1
        <3> QED
            BY <1>1, <1>2, <1>3, <1>6, <1>7, <1>8, <2>1, <3>1, <3>2 DEF InWindows
    <2> QED
        BY <2>2, <2>3
<1>9. CASE ip \notin ValidKeys(client_rate_limit, Now)
    <2>1. count = 1 /\ Counted(ip).map[ip].time = FromMillis(uptime)
        BY <1>1, <1>7, <1>9 DEF Saturated, Now, count
    <2>2. times = <<>> \/ uptime - start > Second
        BY <1>3, <1>9, OverWhenGone DEF RateInv, Split, times
    <2>3. Split(times, uptime, Len(times), Limit, uptime)
        BY <1>1, <1>2, <1>3, <2>2, NewWindow
    <2>4. Len(times) \in Nat /\ Len(times) - Len(times) = 0
        BY <1>2
    <2> DEFINE new == Longer(times, Limit, uptime)
    <2>5. /\ new \in Seq(Nat) /\ Len(new) <= 2 * Limit + 1 /\ Apart(new, Limit)
          /\ \E j \in Nat : /\ Split(new, uptime, j, Limit, uptime)
                           /\ Len(new) - j = Len(times) - Len(times) + 1
        <3>1. Len(times) - Len(times) < Limit
            BY <1>1, <2>4
        <3> QED
            <4>1. /\ times \in Seq(Nat) /\ Len(times) <= 2 * Limit + 1
                  /\ Limit \in Nat /\ uptime \in Nat /\ Len(times) \in Nat
                BY <1>1, <1>2
            <4> QED
                BY <2>3, <3>1, <4>1, OneMore
    <2> HIDE DEF new
    <2>6. PICK j \in Nat : /\ Split(new, uptime, j, Limit, uptime)
                          /\ Len(new) - j = 1
        BY <2>4, <2>5
    <2>7. answered'[ip] = new
        BY <1>1, <1>5, <2>1 DEF new
    <2>8. Len(answered'[ip]) - j <= count
        BY <2>1, <2>6, <2>7
    <2> QED
        BY <1>1, <1>6, <2>1, <2>5, <2>6, <2>7, <2>8 DEF InWindows
<1> QED
    BY <1>8, <1>9

\* A request that is counted: the history of its host grows, others keep theirs.
LEMMA RequestAnswered ==
    ASSUME NoWrap, LimitsCount, RateInv, NEW p \in Packets,
           p.type \in {"query", "info", "malformed_game"},
           client_rate_limit' = Counted(p.from.ip), UNCHANGED <<cfg, uptime>>,
           Remembered(p)
    PROVE  Answered'
<1>1. /\ Limit \in Nat /\ Limit' = Limit /\ uptime \in Nat /\ uptime <= uptime
      /\ p.from.ip \in Ips /\ CounterMax \in Nat
    BY CounterType, PacketType, MasterServerAssumption DEF RateInv, Limit
<1>2. CASE Limit = 0
    <2>1. answered' = answered
        BY <1>2 DEF Remembered
    <2>2. client_rate_limit' = client_rate_limit
        BY <1>2 DEF Counted, Limit
    <2> QED
        BY <1>1, <2>1, <2>2, AnsweredStays
<1>3. CASE Limit > 0
    <2> DEFINE ip == p.from.ip
    <2>1. answered' = IF GameRequestAllowed(ip)
                      THEN [answered EXCEPT ![ip] = Extended(@, uptime)] ELSE answered
        BY <1>3 DEF Remembered, Passes
    <2> HIDE DEF ip
    <2>2. ip \in Ips /\ answered \in [Ips -> Seq(Nat)] /\ client_rate_limit' = Counted(ip)
        BY <1>1 DEF RateInv, Answered, ip
    <2>3. answered'[ip] = IF GameRequestAllowed(ip)
                          THEN Extended(answered[ip], uptime) ELSE answered[ip]
        BY <2>1, <2>2
    <2>4. /\ answered'[ip] \in Seq(Nat)
          /\ Len(answered'[ip]) <= 2 * Limit + 1
          /\ Apart(answered'[ip], Limit)
          /\ InWindows(ip)'
        BY <1>3, <2>2, <2>3, OwnWindow
    <2>5. ASSUME NEW x \in Ips, x # ip
          PROVE  answered'[x] = answered[x] /\ InWindows(x)'
        <3>1. answered'[x] = answered[x] /\ answered[x] \in Seq(Nat)
            BY <2>1, <2>2, <2>5
        <3>2. /\ x \in Keys(client_rate_limit') =>
                     /\ x \in Keys(client_rate_limit)
                     /\ client_rate_limit'.map[x] = client_rate_limit.map[x]
              /\ x \notin Keys(client_rate_limit') => x \notin ValidKeys(client_rate_limit, Now)
            BY <1>3, <2>2, <2>5, CountedEntries DEF RateInv
        <3>3. x \in Keys(client_rate_limit) => client_rate_limit.map[x].value \in Nat
            BY <1>1, CounterType DEF RateInv
        <3>4. CASE x \in Keys(client_rate_limit')
            <4>1. /\ x \in Keys(client_rate_limit)
                  /\ client_rate_limit'.map[x].time = client_rate_limit.map[x].time
                  /\ client_rate_limit'.map[x].value >= client_rate_limit.map[x].value
                  /\ client_rate_limit'.map[x].value \in Nat
                BY <3>2, <3>3, <3>4
            <4>2. IInv /\ InWindows(x) /\ uptime' \in Nat /\ uptime <= uptime'
                BY <1>1 DEF RateInv, Answered
            <4>3. InWindows(x)'
                BY <1>1, <3>1, <3>4, <4>1, <4>2, WindowsStay
            <4> QED
                BY <3>1, <4>3
        <3>5. CASE x \notin Keys(client_rate_limit')
            <4>1. ASSUME NEW start \in Nat, start <= uptime,
                         x \in Keys(client_rate_limit) =>
                             client_rate_limit.map[x].time = FromMillis(start),
                         x \notin Keys(client_rate_limit) =>
                             answered[x] = <<>> \/ uptime - start > Second
                  PROVE  answered[x] = <<>> \/ uptime - start > Second
                BY <3>2, <3>5, <4>1, OverWhenGone DEF RateInv
            <4> QED
                BY <1>1, <3>1, <3>5, <4>1, WindowsStay DEF RateInv, Answered
        <3> QED
            BY <3>4, <3>5
    <2>6. answered' \in [Ips -> Seq(Nat)]
        BY <2>1, <2>2, <2>4
    <2>7. \A x \in Ips : /\ Len(answered'[x]) <= 2 * Limit + 1
                         /\ Apart(answered'[x], Limit)
                         /\ InWindows(x)'
        BY <2>4, <2>5 DEF RateInv, Answered
    <2> QED
        BY <1>1, <1>3, <2>6, <2>7 DEF Answered
<1> QED
    BY <1>1, <1>2, <1>3

\* A reload that moves the master or changes the limit starts the history anew; any
\* other keeps the counters.
LEMMA UncountedAnswered ==
    ASSUME NoWrap, RateInv, IInv', NEW c \in Configs, Reload(c), Uncounted
    PROVE  Answered'
<1>0. uptime' = uptime /\ uptime \in Nat /\ uptime <= uptime /\ CounterMax \in Nat
    BY CounterType, MasterServerAssumption
       DEF RateInv, Reload, Restart, UpdateConfig, FailToBind
<1>1. CASE answered' = NobodyAnswered
    <2> DEFINE V == 0 .. CounterMax
    <2>1. ASSUME NEW ip \in Ips PROVE InWindows(ip)'
        <3>1. ip \in Keys(client_rate_limit') => client_rate_limit'.map[ip].value \in Nat
            <4>1. ip \in Keys(client_rate_limit') =>
                      client_rate_limit'.map[ip].value \in V
                BY DEF IInv, TypeOK, IsTimedHashMap, Keys
            <4> QED
                BY <1>0, <4>1
        <3>2. \E start \in Nat :
                  /\ start <= uptime
                  /\ ip \in Keys(client_rate_limit') =>
                         client_rate_limit'.map[ip].time = FromMillis(start)
            <4>1. CASE Keys(client_rate_limit') = {}
                BY <1>0, <4>1
            <4>2. CASE client_rate_limit' = client_rate_limit
                BY <1>0, <4>2 DEF RateInv, Answered, InWindows, Split, Keys
            <4>3. Keys(client_rate_limit') = {} \/ client_rate_limit' = client_rate_limit
                <5>1. Restart(c) => Keys(client_rate_limit') = {}
                    BY DEF Restart, NewMap, Keys
                <5>2. Keys(Clear(client_rate_limit)) = {}
                    BY ClearType DEF RateInv, IInv, TypeOK
                <5> QED
                    BY <5>1, <5>2 DEF Reload, UpdateConfig, FailToBind, ClearIf, clientVars
            <4> QED
                BY <4>1, <4>2, <4>3
        <3>3. PICK start \in Nat :
                  /\ start <= uptime
                  /\ ip \in Keys(client_rate_limit') =>
                         client_rate_limit'.map[ip].time = FromMillis(start)
            BY <3>2
        <3>4. answered'[ip] = <<>>
            BY <1>1 DEF NobodyAnswered
        <3>5. Limit' \in Nat
            BY MasterServerAssumption DEF IInv, TypeOK, Limit, Config
        <3>6. Split(answered'[ip], start, 0, Limit', uptime')
            BY <1>0, <3>3, <3>4, <3>5, NoTimes
        <3> QED
            <4>1. Len(answered'[ip]) - 0 = 0
                BY <3>4
            <4>2. ip \in Keys(client_rate_limit') =>
                      Len(answered'[ip]) - 0 <= client_rate_limit'.map[ip].value
                BY <3>1, <4>1
            <4> HIDE DEF V
            <4> QED
                BY <3>3, <3>4, <3>6, <4>2 DEF InWindows
    <2>2. Limit' \in Nat
        BY MasterServerAssumption DEF IInv, TypeOK, Limit, Config
    <2> QED
        <3>1. answered' \in [Ips -> Seq(Nat)]
            BY <1>1 DEF NobodyAnswered
        <3>2. \A ip \in Ips : answered'[ip] = <<>>
            BY <1>1 DEF NobodyAnswered
        <3>3. Len(<<>>) <= 2 * Limit' + 1 /\ Apart(<<>>, Limit')
            BY <1>0, <2>2, NoTimes
        <3>4. ASSUME NEW ip \in Ips
              PROVE  Len(answered'[ip]) <= 2 * Limit' + 1 /\ Apart(answered'[ip], Limit')
            BY <3>2, <3>3
        <3> QED
            BY <2>1, <3>1, <3>2, <3>4 DEF Answered
<1>2. CASE answered' # NobodyAnswered
    <2>1. /\ answered' = answered /\ Limit' = Limit
          /\ cfg'.family = cfg.family /\ Event("clear") \notin out'.events
        BY <1>2 DEF Uncounted, Limit
    <2>2. client_rate_limit' = client_rate_limit
        <3>1. ~Restart(c)
            BY <2>1 DEF Restart
        <3>2. CASE UpdateConfig(c)
            BY <2>1, <3>2 DEF UpdateConfig, ClearIf, Quiet, Event
        <3>3. CASE FailToBind(c)
            BY <3>3 DEF FailToBind, clientVars
        <3> QED
            BY <3>1, <3>2, <3>3 DEF Reload
    <2> QED
        BY <1>0, <2>1, <2>2, AnsweredStays
<1> QED
    BY <1>1, <1>2

\* Every handler keeps the histories.
LEMMA ReceivedAnswered ==
    ASSUME NoWrap, LimitsCount, RateInv, NEW p \in Packets, Receive(p), Remembered(p)
    PROVE  Answered'
<1>1. cfg' = cfg
    BY DEF Receive, HandlePacket, HandleServerChallenge, HandleServerAdd,
        HandleServerRemove, HandleGameQueryServers, HandleGameGetServerInfo,
        RefuseGameRequest, HandleAdminChallenge, HandleAdminCommand,
        RefuseAdminRequest, RefuseMalformed, configVars
<1>2. CASE p.type \in {"query", "info", "malformed_game"}
    <2>1. client_rate_limit' = Counted(p.from.ip) /\ uptime' = uptime
        BY <1>2 DEF Receive, HandlePacket, HandleServerChallenge, HandleServerAdd,
            HandleServerRemove, HandleGameQueryServers, HandleGameGetServerInfo,
            RefuseGameRequest, HandleAdminChallenge, HandleAdminCommand,
            RefuseAdminRequest, RefuseMalformed
    <2> QED
        BY <1>1, <1>2, <2>1, RequestAnswered
<1>3. CASE p.type \notin {"query", "info", "malformed_game"}
    <2>1. client_rate_limit' = client_rate_limit
        BY <1>3 DEF Receive, HandlePacket, HandleServerChallenge, HandleServerAdd,
            HandleServerRemove, HandleGameQueryServers, HandleGameGetServerInfo,
            RefuseGameRequest, HandleAdminChallenge, HandleAdminCommand,
            RefuseAdminRequest, RefuseMalformed, clientVars
    <2>2. answered' = answered
        BY <1>3 DEF Remembered, Passes
    <2>3. uptime' \in Nat /\ uptime <= uptime'
        BY TimeMovesOn DEF RateInv
    <2> QED
        BY <1>1, <2>1, <2>2, <2>3, AnsweredStays DEF Limit
<1> QED
    BY <1>2, <1>3

\* Histories and counters are inductive.
LEMMA RateNextInv ==
    ASSUME NoWrap, LimitsCount, RateInv, [CliNext]_cliVars
    PROVE  RateInv'
<1>1. IInv'
    <2>1. [Next]_vars
        BY DEF CliNext, CliReceive, CliReload, CliTick, Next, cliVars
    <2> QED
        BY <2>1, NextInv DEF RateInv
<1>2. ASSUME NEW p \in Packets, Receive(p), Remembered(p) PROVE Answered'
    BY <1>2, ReceivedAnswered
<1>3. ASSUME NEW c \in Configs, Reload(c), Uncounted PROVE Answered'
    BY <1>1, <1>3, UncountedAnswered
<1>4. ASSUME NEW d \in TickSteps, Tick(d), UNCHANGED clientHistory PROVE Answered'
    <2>1. uptime' \in Nat /\ uptime <= uptime'
        BY <1>4, CounterType, MasterServerAssumption DEF RateInv, Tick
    <2>2. UNCHANGED <<client_rate_limit, cfg, answered>>
        BY <1>4 DEF Tick, clientVars, configVars, clientHistory
    <2> QED
        BY <2>1, <2>2, AnsweredStays DEF Limit
<1>5. ASSUME UNCHANGED cliVars PROVE Answered'
    <2>1. uptime' \in Nat /\ uptime <= uptime'
        BY <1>5, CounterType DEF RateInv, cliVars, vars
    <2>2. UNCHANGED <<client_rate_limit, cfg, answered>>
        BY <1>5 DEF cliVars, vars, clientVars, configVars, clientHistory
    <2> QED
        BY <2>1, <2>2, AnsweredStays DEF Limit
<1>6. Answered'
    BY <1>2, <1>3, <1>4, <1>5 DEF CliNext, CliReceive, CliReload, CliTick
<1> QED
    BY <1>1, <1>6 DEF RateInv

\* At the start nobody was answered.
LEMMA RateInitInv == CliInit => RateInv
<1> SUFFICES ASSUME CliInit PROVE RateInv
    OBVIOUS
<1>1. IInv
    BY InitInv DEF CliInit
<1>2. answered = NobodyAnswered /\ Keys(client_rate_limit) = {}
    BY DEF CliInit, ClientHistoryInit, Init, InitWith, NewMap, Keys
<1>3. answered \in [Ips -> Seq(Nat)] /\ \A ip \in Ips : answered[ip] = <<>>
    BY <1>2 DEF NobodyAnswered
<1>4. uptime = 0 /\ Limit \in Nat /\ 0 \in Nat /\ Len(<<>>) = 0
    BY <1>1, CounterType DEF CliInit, Init, InitWith
<1>5. Len(<<>>) <= 2 * Limit + 1 /\ Apart(<<>>, Limit) /\ Split(<<>>, 0, 0, Limit, 0)
    BY <1>4, NoTimes
<1> QED
    BY <1>1, <1>2, <1>3, <1>4, <1>5 DEF RateInv, Answered, InWindows

\* While the clock does not wrap, of one request more than two windows hold the first
\* and the last are a second apart, whatever other clients, cleanups and reloads did
\* in between and however busy the address is (allow_game_request).
THEOREM LimitHolds ==
    ASSUME NoWrap, LimitsCount
    PROVE  CliSpec => []AtMostTwoWindows
<1>1. RateInv /\ [CliNext]_cliVars => RateInv'
    BY RateNextInv
<1>2. RateInv => AtMostTwoWindows
    BY DEF RateInv, Answered, Apart, AtMostTwoWindows, Second
<1> QED
    BY <1>1, <1>2, RateInitInv, PTL DEF CliSpec

-----------------------------------------------------------------------------
(* The game directories of old clients, while the clock does not wrap      *)

\* What is kept for an address is what it asked for when it was last shown the
\* update address, with the time of that.
Kept ==
    /\ shown \in [Addr -> [gamedir : Gamedirs, at : Nat] \cup {None}]
    /\ \A a \in Keys(update_gamedir) :
          /\ shown[a] # None
          /\ shown[a].at <= uptime
          /\ update_gamedir.map[a].value = shown[a].gamedir
          /\ update_gamedir.map[a].time = FromMillis(shown[a].at)

DirInv == IInv /\ Kept

\* What IInv says of the game directories and of the clock.
LEMMA GamedirType ==
    ASSUME IInv
    PROVE  /\ IsTimedHashMap(update_gamedir, Addr, Gamedirs, {GamedirTimeout})
           /\ update_gamedir.timeout = GamedirTimeout
           /\ Keys(update_gamedir) \subseteq Addr
           /\ uptime \in Nat /\ uptime <= MaxUptime
           /\ Now \in RelativeTimes
BY NowType, MasterServerAssumption DEF IInv, TypeOK, IsTimedHashMap, Keys

\* A step that forgets game directories at most.
LEMMA KeptStays ==
    ASSUME DirInv, shown' = shown, uptime' \in Nat, uptime <= uptime',
           Keys(update_gamedir') \subseteq Keys(update_gamedir),
           \A a \in Keys(update_gamedir') : update_gamedir'.map[a] = update_gamedir.map[a]
    PROVE  Kept'
<1>1. ASSUME NEW a \in Keys(update_gamedir') PROVE shown[a].at <= uptime'
    <2>1. a \in Addr /\ shown[a] # None /\ shown[a].at <= uptime /\ uptime \in Nat
        BY <1>1, GamedirType DEF DirInv, Kept
    <2>2. shown[a].at \in Nat
        BY <2>1 DEF DirInv, Kept
    <2> QED
        BY <2>1, <2>2
<1> QED
    BY <1>1 DEF DirInv, Kept

\* An old client leaves its game directory when it is shown the update address.
LEMMA OldClientKept ==
    ASSUME DirInv, NEW p \in Packets, HandleGameQueryServers(p), Remembered(p)
    PROVE  Kept'
<1>1. /\ p.from \in Addr /\ p.query.gamedir \in Gamedirs \cup {None}
      /\ uptime' = uptime /\ uptime \in Nat /\ uptime <= uptime
      /\ p.type = "query" /\ Passes(p)
    BY PacketType, GamedirType DEF HandleGameQueryServers, Passes, DirInv
<1>2. CASE ~IsQueryServersValid(p.query) /\ p.query.gamedir # None
    <2> DEFINE dir == p.query.gamedir
               T == {GamedirTimeout}
               new == Insert(update_gamedir, p.from, dir, Now)
    <2>1. update_gamedir' = new
        BY <1>2 DEF HandleGameQueryServers, AnswerOldClient
    <2>2. shown' = [shown EXCEPT ![p.from] = [gamedir |-> dir, at |-> uptime]]
        BY <1>1, <1>2 DEF Remembered
    <2>3. /\ IsTimedHashMap(update_gamedir, Addr, Gamedirs, T)
          /\ dir \in Gamedirs /\ Now \in RelativeTimes
        BY <1>1, <1>2, GamedirType DEF DirInv
    <2> HIDE DEF T, dir
    <2>4. Keys(new) \subseteq Keys(update_gamedir) \cup {p.from}
        BY <1>1, <2>3, InsertType
    <2>5. \A x \in Keys(new) \ {p.from} : new.map[x] = update_gamedir.map[x]
        BY <1>1, <2>3, InsertEntries
    <2>6. p.from \in Keys(new) => new.map[p.from] = [time |-> Now, value |-> dir]
        <3> DEFINE put == Put(update_gamedir, p.from, dir, Now)
        <3>1. IsTimedHashMap(put, Addr, Gamedirs, T)
            BY <1>1, <2>3, PutType
        <3>2. put.map[p.from] = [time |-> Now, value |-> dir]
            BY <2>3, PutEntries
        <3>3. new = Cleanup(put, Now)
            BY DEF Insert
        <3> HIDE DEF put, new
        <3> QED
            BY <3>1, <3>2, <3>3, CleanupType
    <2> HIDE DEF new
    <2>7. /\ shown'[p.from] = [gamedir |-> dir, at |-> uptime]
          /\ \A x \in Addr \ {p.from} : shown'[x] = shown[x]
          /\ shown' \in [Addr -> [gamedir : Gamedirs, at : Nat] \cup {None}]
        BY <1>1, <2>2, <2>3 DEF DirInv, Kept
    <2>8. ASSUME NEW a \in Keys(update_gamedir')
          PROVE  /\ shown'[a] # None
                 /\ shown'[a].at <= uptime'
                 /\ update_gamedir'.map[a].value = shown'[a].gamedir
                 /\ update_gamedir'.map[a].time = FromMillis(shown'[a].at)
        <3>1. CASE a = p.from
            <4>1. [gamedir |-> dir, at |-> uptime] # None
                BY <1>1, <2>3, MasterClientsAssumption
            <4> QED
                BY <1>1, <2>1, <2>6, <2>7, <2>8, <3>1, <4>1 DEF Now
        <3>2. CASE a # p.from
            BY <1>1, <2>1, <2>4, <2>5, <2>7, <2>8, <3>2, GamedirType DEF DirInv, Kept
        <3> QED
            BY <3>1, <3>2
    <2> QED
        BY <2>7, <2>8 DEF Kept
<1>3. CASE IsQueryServersValid(p.query) \/ p.query.gamedir = None
    <2>1. update_gamedir' = update_gamedir
        BY <1>3 DEF HandleGameQueryServers, AnswerOldClient
    <2>2. shown' = shown
        BY <1>1, <1>3 DEF Remembered, DirInv, Kept
    <2> QED
        BY <1>1, <2>1, <2>2, KeptStays DEF Keys
<1> QED
    BY <1>2, <1>3

\* The answer to a question for server info uses it up.
LEMMA InfoKept ==
    ASSUME DirInv, NEW p \in Packets, HandleGameGetServerInfo(p), Remembered(p)
    PROVE  Kept'
<1>1. /\ p.from \in Addr /\ p.type = "info" /\ Passes(p)
      /\ uptime' = uptime /\ uptime \in Nat
    BY PacketType, GamedirType DEF HandleGameGetServerInfo, Passes, DirInv
<1>2. shown' = [shown EXCEPT ![p.from] = None]
    BY <1>1 DEF Remembered
<1>3. update_gamedir' = Remove(update_gamedir, p.from)
    BY DEF HandleGameGetServerInfo
<1>4. /\ Keys(update_gamedir') = Keys(update_gamedir) \ {p.from}
      /\ \A x \in Keys(update_gamedir') : update_gamedir'.map[x] = update_gamedir.map[x]
    BY <1>3, GamedirType, RemoveType DEF DirInv
<1>5. \A x \in Keys(update_gamedir') : shown'[x] = shown[x]
    BY <1>2, <1>4, GamedirType DEF DirInv, Kept
<1>6. shown' \in [Addr -> [gamedir : Gamedirs, at : Nat] \cup {None}]
    BY <1>2 DEF DirInv, Kept
<1> QED
    BY <1>1, <1>4, <1>5, <1>6 DEF DirInv, Kept

\* Every handler keeps what the game directories say.
LEMMA ReceivedKept ==
    ASSUME DirInv, NEW p \in Packets, Receive(p), Remembered(p)
    PROVE  Kept'
<1>1. CASE HandleGameQueryServers(p)
    BY <1>1, OldClientKept
<1>2. CASE HandleGameGetServerInfo(p)
    BY <1>2, InfoKept
<1>3. CASE ~HandleGameQueryServers(p) /\ ~HandleGameGetServerInfo(p)
    <2>1. update_gamedir' = update_gamedir
        BY <1>3 DEF Receive, HandlePacket, HandleServerChallenge, HandleServerAdd,
            HandleServerRemove, RefuseGameRequest, HandleAdminChallenge,
            HandleAdminCommand, RefuseAdminRequest, RefuseMalformed, clientVars
    <2>2. p.type \in {"query", "info"} => ~Passes(p)
        BY <1>3 DEF Receive, HandlePacket, HandleServerChallenge, HandleServerAdd,
            HandleServerRemove, RefuseGameRequest, HandleAdminChallenge,
            HandleAdminCommand, RefuseAdminRequest, RefuseMalformed, Passes
    <2>3. shown' = shown
        BY <2>2 DEF Remembered, DirInv, Kept
    <2>4. uptime' \in Nat /\ uptime <= uptime'
        BY TimeMovesOn DEF DirInv
    <2> QED
        BY <2>1, <2>3, <2>4, KeptStays DEF Keys
<1> QED
    BY <1>1, <1>2, <1>3

\* The game directories are inductive; a change of the IP version forgets them.
LEMMA DirNextInv ==
    ASSUME DirInv, [CliNext]_cliVars
    PROVE  DirInv'
<1>1. IInv'
    <2>1. [Next]_vars
        BY DEF CliNext, CliReceive, CliReload, CliTick, Next, cliVars
    <2> QED
        BY <2>1, NextInv DEF DirInv
<1>2. uptime \in Nat /\ uptime <= uptime
    BY GamedirType DEF DirInv
<1>3. ASSUME NEW p \in Packets, Receive(p), Remembered(p) PROVE Kept'
    BY <1>3, ReceivedKept
<1>4. ASSUME NEW c \in Configs, Reload(c), Uncounted PROVE Kept'
    <2>1. shown' = shown /\ uptime' = uptime
        BY <1>4 DEF Uncounted, Reload, Restart, UpdateConfig, FailToBind
    <2>2. CASE Restart(c)
        <3>1. Keys(update_gamedir') = {}
            BY <2>2 DEF Restart, NewMap, Keys
        <3> QED
            BY <2>1, <3>1 DEF DirInv, Kept
    <2>3. CASE UpdateConfig(c) \/ FailToBind(c)
        <3>1. update_gamedir' = update_gamedir
            BY <2>3 DEF UpdateConfig, FailToBind, clientVars
        <3> QED
            BY <1>2, <2>1, <3>1, KeptStays DEF Keys
    <2> QED
        BY <1>4, <2>2, <2>3 DEF Reload
<1>5. ASSUME NEW d \in TickSteps, Tick(d), UNCHANGED clientHistory PROVE Kept'
    <2>1. uptime' \in Nat /\ uptime <= uptime'
        BY <1>2, <1>5, MasterServerAssumption DEF Tick
    <2>2. UNCHANGED <<update_gamedir, shown>>
        BY <1>5 DEF Tick, clientVars, clientHistory
    <2> QED
        BY <2>1, <2>2, KeptStays DEF Keys
<1>6. ASSUME UNCHANGED cliVars PROVE Kept'
    BY <1>2, <1>6, KeptStays DEF cliVars, vars, clientVars, clientHistory, Keys
<1>7. Kept'
    BY <1>3, <1>4, <1>5, <1>6 DEF CliNext, CliReceive, CliReload, CliTick
<1> QED
    BY <1>1, <1>7 DEF DirInv

\* At the start no game directory is kept.
LEMMA DirInitInv == CliInit => DirInv
<1> SUFFICES ASSUME CliInit PROVE DirInv
    OBVIOUS
<1>1. Keys(update_gamedir) = {}
    BY DEF CliInit, Init, InitWith, NewMap, Keys
<1> QED
    BY <1>1, InitInv DEF CliInit, ClientHistoryInit, DirInv, Kept

\* The game directory in an answer is the one the map holds for the client.
LEMMA InfoIsKept ==
    ASSUME NoWrap, DirInv, NEW p \in Packets, Receive(p),
           NEW m \in out'.sent, m.kind = "info", m.body.gamedir # None
    PROVE  /\ shown[m.to] # None
           /\ shown[m.to].gamedir = m.body.gamedir
           /\ uptime - shown[m.to].at < 1000 * GamedirTimeout + UnitsPerSec
<1> DEFINE valid == ValidKeys(update_gamedir, Now)
           kept == IF p.from \in valid THEN update_gamedir.map[p.from].value ELSE None
           body == [gamedir |-> kept]
<1>1. HandleGameGetServerInfo(p)
    BY SentKinds
<1>2. Send(Message(p.from, "info", body), {}, {})
    BY <1>1 DEF HandleGameGetServerInfo
<1> HIDE DEF body
<1>3. m.to = p.from /\ m.body = body
    BY <1>2 DEF Send, Message
<1>4. m.body.gamedir = kept
    BY <1>3 DEF body
<1> HIDE DEF valid
<1>5. p.from \in valid /\ m.body.gamedir = update_gamedir.map[p.from].value
    BY <1>4
<1>6. p.from \in Keys(update_gamedir) /\ p.from \in Addr
    BY <1>5, PacketType DEF valid, ValidKeys
<1>7. /\ shown[p.from] # None
      /\ shown[p.from].at \in Nat /\ shown[p.from].at <= uptime
      /\ update_gamedir.map[p.from].value = shown[p.from].gamedir
      /\ update_gamedir.map[p.from].time = FromMillis(shown[p.from].at)
    BY <1>6 DEF DirInv, Kept
<1>8. /\ uptime \in Nat /\ uptime < ClockRange * UnitsPerSec
      /\ update_gamedir.timeout = GamedirTimeout /\ GamedirTimeout \in Nat
    BY GamedirType, MasterServerAssumption, ClockRangeAssumption
       DEF DirInv, NoWrap, UnitsPerSec, GamedirTimeout
<1>9. uptime - shown[p.from].at < 1000 * update_gamedir.timeout + UnitsPerSec
    BY <1>5, <1>6, <1>7, <1>8, AgeOfEntry DEF Now, valid
<1> QED
    BY <1>3, <1>5, <1>7, <1>8, <1>9

\* While the clock does not wrap, no order of queries, questions, duplicates, cleanups
\* and reloads answers a client with the game directory of another, or with one that
\* is outdated or used up (save_client_gamedir, handle_game_get_server_info).
THEOREM GamedirsAreTheClients ==
    ASSUME NoWrap
    PROVE  CliSpec => GamedirIsTheClients
<1>1. DirInv /\ [CliNext]_cliVars => DirInv'
    BY DirNextInv
<1>2. DirInv /\ [CliNext]_cliVars =>
          [\A m \in out'.sent :
              m.kind = "info" /\ m.body.gamedir # None =>
                  /\ shown[m.to] # None
                  /\ shown[m.to].gamedir = m.body.gamedir
                  /\ uptime - shown[m.to].at < 1000 * GamedirTimeout + UnitsPerSec]_cliVars
    <2> SUFFICES ASSUME DirInv, CliNext, NEW m \in out'.sent, m.kind = "info",
                        m.body.gamedir # None
                 PROVE  /\ shown[m.to] # None
                        /\ shown[m.to].gamedir = m.body.gamedir
                        /\ uptime - shown[m.to].at < 1000 * GamedirTimeout + UnitsPerSec
        OBVIOUS
    <2>1. CASE \E p \in Packets : CliReceive(p)
        BY <2>1, InfoIsKept DEF CliReceive
    <2>2. CASE \E c \in Configs : CliReload(c)
        BY <2>2 DEF CliReload, Reload, Restart, UpdateConfig, FailToBind, Quiet
    <2>3. CASE \E d \in TickSteps : CliTick(d)
        BY <2>3 DEF CliTick, Tick, Quiet
    <2> QED
        BY <2>1, <2>2, <2>3 DEF CliNext
<1> QED
    BY <1>1, <1>2, DirInitInv, PTL DEF CliSpec, GamedirIsTheClients

=============================================================================

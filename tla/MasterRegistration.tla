------------------------- MODULE MasterRegistration -------------------------
(***************************************************************************)
(* The registration of game servers: the master server with a history of   *)
(* the challenges it drew and of the servers it accepted.                  *)
(***************************************************************************)
EXTENDS MasterServer

VARIABLES
    unspent,   \* 1 when a challenge was drawn for an address, less one for each
               \* registration since
    addedAt,   \* when the last registration of an address was reported
    joined     \* addresses registered, not banned, not forgotten by a reload

historyVars == <<unspent, addedAt, joined>>
regVars == <<vars, historyVars>>

RegInit ==
    /\ Init
    /\ unspent = [a \in Addr |-> 0]
    /\ addedAt = [a \in Addr |-> 0]
    /\ joined = {}

Draws(p) == p.type = "challenge" /\ p.from \notin ValidKeys(challenges, Now)

Registers == Event("add") \in out'.events

Received(p) ==
    /\ unspent' = IF Draws(p) THEN [unspent EXCEPT ![p.from] = 1]
                  ELSE IF Registers THEN [unspent EXCEPT ![p.from] = @ - 1]
                  ELSE unspent
    /\ addedAt' = IF Registers THEN [addedAt EXCEPT ![p.from] = uptime'] ELSE addedAt
    /\ joined' = {a \in joined \cup (IF Registers THEN {p.from} ELSE {}) :
                     /\ a.ip \notin blocklist'
                     /\ a = p.from /\ Registers => a \in Keys(servers')}

\* A server the new timeouts could bring back counts only if it was valid.
Reloaded(c) ==
    LET forgets == Event("clear") \in out'.events \/ c.family # cfg.family IN
    IF cfg' = cfg THEN UNCHANGED historyVars
    ELSE /\ unspent' = IF forgets THEN [a \in Addr |-> 0] ELSE unspent
         /\ addedAt' = addedAt
         /\ joined' = IF forgets THEN {} ELSE joined \cap ValidKeys(servers, Now)

RegNext ==
    \/ \E p \in Packets : Receive(p) /\ Received(p)
    \/ \E c \in Configs : Reload(c) /\ Reloaded(c)
    \/ \E d \in TickSteps : Tick(d) /\ UNCHANGED historyVars

RegSpec == RegInit /\ [][RegNext]_regVars

-----------------------------------------------------------------------------
\* A challenge registers at most one server once: a duplicated or late ServerAdd,
\* or one that arrives after the master moved to another address, registers
\* nothing (handle_server_add removes the challenge; update_config clears them).
OneRegistrationPerChallenge == \A a \in Addr : unspent[a] >= 0

\* Whatever the lists contain was confirmed within the server timeout, to the
\* unit of the clock, under the timeout now in force (servers.iter()).
ListedServersAreFresh ==
    \A a \in ValidKeys(servers, Now) :
        uptime - addedAt[a] < 1000 * cfg.server_timeout + UnitsPerSec

\* A registered server is listed for the whole of its timeout unless it is banned:
\* no cleanup, no other server, no packet with its address takes it off earlier.
RegisteredServersStayListed ==
    \A a \in joined :
        \/ a \in ValidKeys(servers, Now)
        \/ uptime - addedAt[a] > 1000 * cfg.server_timeout - UnitsPerSec

\* config/default.toml: "How many servers with the same ip can be registred".
MaxServersPerIp ==
    \A ip \in Ips : CountServers(servers, ip, Now) <= cfg.max_servers_per_ip

=============================================================================

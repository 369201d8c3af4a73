----------------------------- MODULE MasterAdmin -----------------------------
(***************************************************************************)
(* The administration of the blocklist: the master server with a history   *)
(* of the admin challenges it drew and of the wrong passwords it saw.      *)
(***************************************************************************)
EXTENDS MasterServer

VARIABLES
    unspent,   \* 1 when an admin challenge was drawn for an IP, less one for each
               \* command executed since
    wrongAt    \* when the last wrong hash of an IP was seen, None if never

adminHistory == <<unspent, wrongAt>>
admVars == <<vars, adminHistory>>

AdminHistoryInit ==
    /\ unspent = [ip \in Ips |-> 0]
    /\ wrongAt = [ip \in Ips |-> None]

AdmInit == Init /\ AdminHistoryInit

Handled(p) == p.type = "admin_command" /\ AdminRequestAllowed(p.from.ip)
                                       /\ MasterChallengeMatches(p)

Executes(p) == Handled(p) /\ HashMatches(p)
Mistakes(p) == Handled(p) /\ ~HashMatches(p)
Draws(p)    == p.type = "admin_challenge" /\ AdminRequestAllowed(p.from.ip)

Received(p) ==
    LET ip == p.from.ip IN
    /\ unspent' = IF Draws(p) THEN [unspent EXCEPT ![ip] = 1]
                  ELSE IF Executes(p) THEN [unspent EXCEPT ![ip] = @ - 1]
                  ELSE unspent
    /\ wrongAt' = IF Mistakes(p) THEN [wrongAt EXCEPT ![ip] = uptime'] ELSE wrongAt

\* A move to another listen address forgets the challenges, a change of the IP
\* version the wrong passwords too.  A lock the new timeout could bring back counts
\* only if it was still in force.
Reloaded(c) ==
    /\ unspent' = IF Event("clear") \in out'.events \/ cfg'.family # cfg.family
                  THEN [ip \in Ips |-> 0] ELSE unspent
    /\ wrongAt' = [ip \in Ips |->
                      IF \/ cfg'.family # cfg.family
                         \/ cfg' # cfg /\ AdminRequestAllowed(ip)
                      THEN None ELSE wrongAt[ip]]

AdmReceive(p) == Receive(p) /\ Received(p)
AdmReload(c) == Reload(c) /\ Reloaded(c)
AdmTick(d) == Tick(d) /\ UNCHANGED adminHistory

AdmNext ==
    \/ \E p \in Packets : AdmReceive(p)
    \/ \E c \in Configs : AdmReload(c)
    \/ \E d \in TickSteps : AdmTick(d)

AdmSpec == AdmInit /\ [][AdmNext]_admVars

-----------------------------------------------------------------------------
\* A challenge executes at most one command: the same datagram delivered twice, or
\* after the master moved to another address, changes nothing the second time
\* (handle_admin_command, admin_challenge_remove, clear).
OneCommandPerChallenge == \A ip \in Ips : unspent[ip] >= 0

\* The step lets an admin request of ip through.
Served(ip) ==
    \/ unspent'[ip] # unspent[ip] /\ cfg' = cfg
    \/ wrongAt'[ip] # wrongAt[ip] /\ cfg' = cfg
    \/ \E m \in out'.sent : m.kind = "admin_challenge" /\ m.to.ip = ip

\* config/default.toml: "Time in seconds before next admin request is allowed after
\* wrong password": no request of any kind is let through earlier, up to the unit
\* of the clock, not even after the master moved to another listen address.
WrongPasswordLocks ==
    [][\A ip \in Ips :
          Served(ip) /\ wrongAt[ip] # None =>
              uptime - wrongAt[ip] > 1000 * cfg.admin_timeout - UnitsPerSec]_admVars

=============================================================================

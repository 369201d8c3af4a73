---------------------------- MODULE MCRegistration ----------------------------
(* Three game servers, two of them with one IP, whose challenges and             *)
(* announcements arrive in any order and any number of times.                    *)
EXTENDS MasterRegistration, TLC

CONSTANTS i1, i2, dir

MCServers == {[ip |-> i1, port |-> 1], [ip |-> i1, port |-> 2], [ip |-> i2, port |-> 1]}

MCInfo == [region |-> 0, protocol |-> 49, nat |-> FALSE, gamedir |-> dir]

MCConfig ==
    [family |-> "v4", listen |-> 1, challenge_timeout |-> 2, server_timeout |-> 2,
     admin_timeout |-> 1, max_servers_per_ip |-> 1, client_rate_limit |-> 0,
     server_min_version |-> 21, client_min_version |-> 21, min_engine_buildnum |-> 0,
     min_old_engine_buildnum |-> 0, update_addr |-> None, passwords |-> {}]

MCAdd(a, c, v) == [type |-> "add", from |-> a, challenge |-> c, version |-> v,
                   info |-> MCInfo]

MCPackets ==
    {[type |-> t, from |-> a] : t \in {"challenge"}, a \in MCServers}
    \cup {MCAdd(a, c, 21) : a \in MCServers, c \in Numbers}
    \cup {MCAdd([ip |-> i2, port |-> 1], c, 20) : c \in Numbers}

\* The same for the two servers that share an IP.
MCPacketsOneIp == {p \in MCPackets : p.from.ip = i1}

\* Reloads: a shorter server timeout, with the same listen address or another.
MCConfigs == {[MCConfig EXCEPT !.listen = l, !.server_timeout = 1] : l \in {1, 2}}

\* Only the time servers stay listed changes, the limit per IP does not.
MCSlower == {[MCConfig EXCEPT !.server_timeout = 4]}

MCSymmetry == Permutations(Numbers)

MCSecond == {1000}

\* Less than a challenge or a server lasts, and more than it lasts after a reload.
MCTickSteps == {1500}

=============================================================================

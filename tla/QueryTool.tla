------------------------------ MODULE QueryTool ------------------------------
(***************************************************************************)
(* The query tool (xash3d-query): one of its commands as the user of an     *)
(* Observer.  "all" asks the masters for servers and the servers for their  *)
(* info, "info" asks the servers of the command line, "list" only asks the  *)
(* masters, "monitor" shows what changes until it is stopped.  What is      *)
(* printed is what is kept here at the end, or shown by then.               *)
(***************************************************************************)
EXTENDS ObserverSystem, SequencesExt

CONSTANTS
    Commands,        \* the command lines explored: command, players, servers
    MasterTimeout, GameTimeout     \* the two timeouts of the command line

VARIABLES
    cli,             \* the command line
    stage,           \* "start", "run", then how it ended
    start,           \* start_time
    timeout,         \* the timeout in force
    results,         \* the ServerResult of each address, None for none
    custom,          \* servers_custom: those still waited for
    listed,          \* the servers of "list"
    shown            \* the info "monitor" showed last of each server

toolOnly == <<results, custom, listed, shown>>
toolVars == <<sysVars, cli, stage, start, timeout, toolOnly>>

Commandline ==
    [command : {"all", "info", "list", "monitor"}, players : BOOLEAN,
     servers : SUBSET Servers]

Addr == Masters \cup Servers

\* stored: players that came before the info, or after the first players.
ServerResult ==
    [kind : {"timeout", "ok", "ok_with_players", "invalid_packet", "invalid_protocol"},
     stored : BOOLEAN]

NewResult(kind) == [kind |-> kind, stored |-> FALSE]

\* What wait_event returns: Event, a timeout, or an error.
Events ==
    [kind : {"timeout", "error"}]
    \cup [kind : {"server_timeout", "server_remove", "server_players",
                 "server_invalid_protocol", "server_invalid_packet"}, addr : Servers]
    \cup [kind : {"master_invalid_packet"}, addr : Masters]
    \cup [kind : {"server_info"}, addr : Addr, changed : BOOLEAN, data : Infos]
    \cup [kind : {"server_list"}, addr : Masters, servers : SUBSET Servers]

ASSUME QueryToolAssumption ==
    /\ IsFiniteSet(Masters) /\ IsFiniteSet(Servers)
    /\ Commands \subseteq Commandline
    /\ {MasterTimeout, GameTimeout} \subseteq Nat
    /\ Lists \subseteq SUBSET Servers
    /\ \A d \in Stray : d.kind = "list" => d.servers \subseteq Servers
    /\ None \notin Nat /\ None \notin ServerResult /\ None \notin Events

Is(commands) == cli.command \in commands

-----------------------------------------------------------------------------
(* Setup: Observer::bind and the masters or the servers of the command line *)

PendingOf(kind, addrs) == [i \in 1 .. Cardinality(addrs) |->
                             Pending(kind, SetToSeq(addrs)[i])]

InsertMasters(ms) ==
    /\ masters' = masters \cup ms
    /\ pending' = pending \o PendingOf("master", ms \ masters)
    /\ UNCHANGED conns

InsertServers(ss, players) ==
    LET new == {s \in ss : conns[s] = None} IN
    /\ conns' = [s \in Servers |-> IF s \in new THEN NewConnection(players) ELSE conns[s]]
    /\ pending' = pending \o PendingOf("server", new)
    /\ UNCHANGED masters

\* Mutant: no result until the server answers.
Awaited_Later(ss) == results

\* insert_server of the query: a server is a timeout until it answers.
Awaited(ss) ==
    [a \in Addr |-> IF a \in ss /\ results[a] = None THEN NewResult("timeout")
                    ELSE results[a]]

OwnStep == Silent /\ UNCHANGED <<now, key, drawn, delayed, tasks, pc, deadline, cli>>

Start ==
    /\ stage = "start"
    /\ stage' = IF Is({"info"}) /\ cli.servers = {} THEN "nothing" ELSE "run"
    /\ start' = now
    /\ timeout' = IF Is({"info"}) THEN GameTimeout ELSE MasterTimeout
    /\ IF Is({"all", "list"}) \/ (Is({"monitor"}) /\ cli.servers = {})
       THEN InsertMasters(Masters)
       ELSE InsertServers(cli.servers, Is({"info"}) /\ cli.players)
    /\ custom' = IF Is({"info"}) THEN cli.servers ELSE {}
    /\ results' = IF Is({"info"}) THEN Awaited(cli.servers) ELSE results
    /\ OwnStep /\ UNCHANGED <<event, listed, shown>>

-----------------------------------------------------------------------------
(* What is done with an event                                              *)

\* A server of "info" is not waited for any longer.
Settle(a, complete) ==
    custom' = IF Is({"info"}) /\ complete THEN custom \ {a} ELSE custom

SetServerResult(a, kind) ==
    /\ Settle(a, TRUE)
    /\ results' = [results EXCEPT ![a] = NewResult(kind)]

\* set_server_result_ok: players stored before become part of the result.
SetServerResultOk(a) ==
    LET e == IF results[a] = None THEN NewResult("timeout") ELSE results[a] IN
    /\ Settle(a, ~cli.players \/ e.stored)
    /\ results' = [results EXCEPT ![a] =
          IF e.kind = "ok_with_players" THEN e
          ELSE NewResult(IF e.stored THEN "ok_with_players" ELSE "ok")]

\* Mutant: the players settle it, whatever the result is.
SetServerPlayers_Settles(a) ==
    LET e == results[a] IN
    /\ Settle(a, TRUE)
    /\ results' = [results EXCEPT ![a] =
          IF e.kind = "ok" THEN [e EXCEPT !.kind = "ok_with_players"]
          ELSE [e EXCEPT !.stored = TRUE]]

SetServerPlayers(a) ==
    LET e == results[a] IN
    /\ Settle(a, ~cli.players \/ e.kind = "ok")
    /\ results' = [results EXCEPT ![a] =
          IF e.kind = "ok" THEN [e EXCEPT !.kind = "ok_with_players"]
          ELSE [e EXCEPT !.stored = TRUE]]

\* Mutant: an invalid packet replaces any result.
SetInvalidPacket_Always(a) == SetServerResult(a, "invalid_packet")

SetInvalidPacket(a) ==
    IF results[a] = None \/ results[a].kind = "timeout"
    THEN SetServerResult(a, "invalid_packet")
    ELSE UNCHANGED <<results, custom>>

\* QueryServersInfo::run
QueryEvent ==
    /\ Is({"all", "info"})
    /\ \/ /\ event.kind = "server_list"
          /\ InsertServers(event.servers, cli.players)
          /\ timeout' = GameTimeout
          /\ results' = Awaited(event.servers)
          /\ UNCHANGED custom
       \/ /\ \/ event.kind = "server_info" /\ SetServerResultOk(event.addr)
             \/ event.kind = "server_players" /\ SetServerPlayers(event.addr)
             \/ event.kind = "server_invalid_protocol"
                   /\ SetServerResult(event.addr, "invalid_protocol")
             \/ event.kind = "server_invalid_packet" /\ SetInvalidPacket(event.addr)
             \/ event.kind \in {"server_timeout", "server_remove", "master_invalid_packet"}
                   /\ UNCHANGED <<results, custom>>
          /\ UNCHANGED <<masters, conns, pending, timeout>>
    /\ UNCHANGED <<listed, shown>>

ListEvent ==
    /\ Is({"list"})
    /\ listed' = IF event.kind = "server_list" THEN listed \cup event.servers ELSE listed
    /\ UNCHANGED <<masters, conns, pending, timeout, results, custom, shown>>

\* monitor_servers::run, without --json
MonitorEvent ==
    /\ Is({"monitor"})
    /\ IF event.kind = "server_list" THEN InsertServers(event.servers, FALSE)
       ELSE UNCHANGED <<masters, conns, pending>>
    /\ shown' =
         IF event.kind = "server_info" /\ event.changed
         THEN [shown EXCEPT ![event.addr] = event.data]
         ELSE IF event.kind = "server_remove" THEN [shown EXCEPT ![event.addr] = None]
         ELSE shown
    /\ UNCHANGED <<timeout, results, custom, listed>>

Returned == stage = "run" /\ pc = "user" /\ event # None

HandleEvent ==
    /\ Returned /\ event.kind \notin {"timeout", "error"}
    /\ QueryEvent \/ ListEvent \/ MonitorEvent
    /\ event' = None
    /\ OwnStep /\ UNCHANGED <<stage, start>>

End(how) ==
    /\ stage' = how /\ Silent
    /\ UNCHANGED <<now, asking, calling, cli, start, timeout, toolOnly>>

\* Mutant: the timeout starts again with each event.
Remaining_Full == timeout

Remaining == timeout - (now - start)

Finish ==
    \/ Returned /\ event.kind \in {"timeout", "error"} /\ End(event.kind)
    \/ /\ stage = "run" /\ pc = "user" /\ event = None /\ ~Is({"monitor"})
       /\ \/ Is({"info"}) /\ custom = {} /\ End("complete")
          \/ (Is({"info"}) => custom # {}) /\ Remaining < 0 /\ End("timeout")

Wait ==
    /\ stage = "run" /\ pc = "user" /\ event = None
    /\ Is({"info"}) => custom # {}
    /\ \/ Is({"monitor"}) /\ WaitEvent(None)
       \/ ~Is({"monitor"}) /\ Remaining >= 0 /\ WaitEvent(Remaining)
    /\ UNCHANGED <<cli, stage, start, timeout, toolOnly>>

-----------------------------------------------------------------------------
ToolInit ==
    /\ SysInit
    /\ cli \in Commands
    /\ stage = "start" /\ start = 0 /\ timeout = 0
    /\ results = [a \in Addr |-> None]
    /\ custom = {} /\ listed = {}
    /\ shown = [a \in Addr |-> None]

ToolNext ==
    /\ \/ Start \/ HandleEvent \/ Finish \/ Wait
       \/ (Loop \/ Tick) /\ stage = "run" /\ UNCHANGED <<cli, stage, start, timeout, toolOnly>>
    /\ Follow

ToolSpec == ToolInit /\ [][ToolNext]_toolVars

-----------------------------------------------------------------------------
\* The players of a server find its result (expect("server") in set_server_players).
NeverPanics ==
    Returned /\ Is({"all", "info"}) /\ event.kind = "server_players" =>
        results[event.addr] # None

\* "info" stops early only when every server has been heard of, with its players
\* unless it sent something invalid.
SentInvalid(s) == \E d \in Stray : d.from = s /\ d.kind \in {"list", "garbage"}

EarlyEndComplete ==
    stage = "complete" =>
        \A s \in cli.servers :
            /\ results[s].kind # "timeout"
            /\ cli.players /\ results[s].kind = "ok" => SentInvalid(s)

\* However many events come, the tool waits no longer than its timeout, which a list
\* may shorten.
WaitsInTime ==
    Waiting /\ stage = "run" /\ ~Is({"monitor"}) => now - start <= timeout

\* Whatever comes late, twice or out of order, a server that speaks the current
\* version and gave its info stays good in the results.
Good(r) == r # None /\ r.kind \in {"ok", "ok_with_players"}

GoodResultKept ==
    [][\A s \in Servers :
          Speaks[s] = PROTOCOL_VERSION /\ Good(results[s]) => Good(results'[s])]_toolVars

\* Between two events "monitor" shows what each watched server answered last.
ShownIsCurrent ==
    stage = "run" /\ Is({"monitor"}) /\ event = None =>
        \A s \in Watched : conns[s].data # None => shown[s] = conns[s].data

=============================================================================

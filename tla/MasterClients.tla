---------------------------- MODULE MasterClients ----------------------------
(***************************************************************************)
(* The requests of game clients: the master server with a history of the   *)
(* requests it answered and of the old clients it sent to the update       *)
(* address.                                                                *)
(***************************************************************************)
EXTENDS MasterServer, Sequences

ASSUME MasterClientsAssumption == None \notin [gamedir : Gamedirs, at : Nat]

VARIABLES
    answered,   \* for each IP the times of its last requests let through, oldest
                \* first: of one more than two windows hold, while there is a limit
    shown       \* for each address the game directory it asked for when it was
                \* last sent to the update address, and when; None once answered

clientHistory == <<answered, shown>>
cliVars == <<vars, clientHistory>>

NobodyAnswered == [ip \in Ips |-> <<>>]

ClientHistoryInit ==
    /\ answered = NobodyAnswered
    /\ shown = [a \in Addr |-> None]

CliInit == Init /\ ClientHistoryInit

Passes(p) ==
    /\ p.type \in {"query", "info", "malformed_game"}
    /\ GameRequestAllowed(p.from.ip)

Limit == cfg.client_rate_limit

\* Older times than those of two windows and one request more are forgotten.
Extended(times, t) ==
    IF Len(times) > 2 * Limit THEN Append(Tail(times), t) ELSE Append(times, t)

Remembered(p) ==
    /\ answered' = IF Limit > 0 /\ Passes(p)
                   THEN [answered EXCEPT ![p.from.ip] = Extended(@, uptime)]
                   ELSE answered
    /\ shown' = [shown EXCEPT ![p.from] =
                    IF p.type = "query" /\ Passes(p) /\ ~IsQueryServersValid(p.query)
                          /\ p.query.gamedir # None
                    THEN [gamedir |-> p.query.gamedir, at |-> uptime]
                    ELSE IF p.type = "info" /\ Passes(p) THEN None ELSE @]

\* A move to another listen address or IP version forgets the counters; with a new
\* limit the count of the property starts anew.
Uncounted ==
    /\ answered' = IF \/ Event("clear") \in out'.events
                      \/ cfg'.family # cfg.family
                      \/ cfg'.client_rate_limit # Limit
                   THEN NobodyAnswered ELSE answered
    /\ shown' = shown

CliReceive(p) == Receive(p) /\ Remembered(p)
CliReload(c) == Reload(c) /\ Uncounted
CliTick(d) == Tick(d) /\ UNCHANGED clientHistory

CliNext ==
    \/ \E p \in Packets : CliReceive(p)
    \/ \E c \in Configs : CliReload(c)
    \/ \E d \in TickSteps : CliTick(d)

CliSpec == CliInit /\ [][CliNext]_cliVars

-----------------------------------------------------------------------------
\* The limit counts in windows that start with a client's request
\* (client_rate_limit, allow_game_request), so a second can see the end of one and
\* the start of the next, but never more: of one request more than two windows hold,
\* the first and the last are a second apart, to the unit of the clock.
\* (config/default.toml speaks of "client requests from an IP address per second".)
AtMostTwoWindows ==
    \A ip \in Ips :
        LET times == answered[ip] IN
        Limit > 0 /\ Len(times) = 2 * Limit + 1 =>
            times[2 * Limit + 1] - times[1] > 1000 - UnitsPerSec

\* The game directory in an answer is the one this very client asked for when it
\* was sent to the update address, at most GamedirTimeout ago and not answered
\* since (save_client_gamedir, handle_game_get_server_info).
GamedirIsTheClients ==
    [][\A m \in out'.sent :
          m.kind = "info" /\ m.body.gamedir # None =>
              /\ shown[m.to] # None
              /\ shown[m.to].gamedir = m.body.gamedir
              /\ uptime - shown[m.to].at < 1000 * GamedirTimeout + UnitsPerSec]_cliVars

=============================================================================

------------------------------- MODULE Observer -------------------------------
(***************************************************************************)
(* The client library (xash3d-observer): an Observer asks masters for lists *)
(* of game servers, asks the servers for their info and players, and hands  *)
(* its user one event at a time from wait_event.                            *)
(*                                                                          *)
(* One action per method of the user, per stage of a turn of the loop in    *)
(* wait_event, and per datagram.  A turn takes no time; any send of it may  *)
(* fail, which ends it.  The masters are asked in any order, as are the     *)
(* connections of the HashMap.  A datagram is a record, a key the number of *)
(* the round it was drawn in, and the filter of a query is left out.        *)
(***************************************************************************)
EXTENDS Integers, Sequences, FiniteSets, FiniteSetsExt

CONSTANTS
    Masters, Servers,     \* addresses
    MasterInterval, ServerInterval, ServerTimeout, ServerCleanInterval,
    Challenges,           \* challenge numbers of servers
    MaxChallenge,         \* the one GetPlayers cannot be asked with
    Infos,                \* the answers a server may give to an info request
    None,
    MaxFailures,          \* bound: to how many addresses a send fails, once each
    MaxNow                \* bound: the last time explored

VARIABLES
    now,
    masters,      \* the masters inserted
    key,          \* of each master, 0 before the first request
    drawn,        \* keys drawn so far
    conns,        \* for each address its Connection, or None
    pending,      \* to be asked at the next turn; a stack
    delayed,      \* events to be returned by the next calls
    tasks,        \* when each periodic task is due
    pc,           \* where wait_event is; "user" outside
    deadline,     \* of this call of wait_event, None without a timeout
    event,        \* what the last call returned, None while one is running
    sent,         \* the requests the last step sent
    failed        \* the addresses to which a send failed so far

asking == <<masters, key, drawn, conns, pending, delayed, tasks>>
calling == <<pc, deadline, event>>
obsVars == <<now, asking, calling, sent, failed>>

Versions == {48, 49}
PROTOCOL_VERSION == 49

Connection ==
    [protocol : Versions, players : BOOLEAN,
     state : {"protocol_detection", "idle", "waiting_info"}, response_time : 0 .. MaxNow,
     challenge : Challenges \cup {None}, wait_players : BOOLEAN, data : Infos \cup {None}]

ASSUME ObserverAssumption ==
    /\ {MasterInterval, ServerInterval, ServerTimeout, ServerCleanInterval} \subseteq Nat \ {0}
    /\ MaxNow \in Nat
    /\ None \notin Connection
    /\ None \notin Infos
    /\ None \notin 0 .. MaxNow
    /\ None \notin [kind : {"server_invalid_protocol"}, addr : Servers]

\* Connection::new
NewConnection(players) ==
    [protocol |-> PROTOCOL_VERSION, players |-> players, state |-> "protocol_detection",
     response_time |-> now, challenge |-> None, wait_players |-> FALSE, data |-> None]

IsValid(con) == now - con.response_time < ServerTimeout

Watched == {s \in Servers : conns[s] # None}

Pending(kind, a) == [kind |-> kind, addr |-> a]
IsPending(kind, a) == \E i \in DOMAIN pending : pending[i] = Pending(kind, a)

\* Vec::swap_remove of the first occurrence.
SwapRemove(seq, x) ==
    IF \E i \in DOMAIN seq : seq[i] = x
    THEN LET first == CHOOSE i \in DOMAIN seq :
                        seq[i] = x /\ \A j \in 1 .. i - 1 : seq[j] # x
         IN SubSeq([seq EXCEPT ![first] = seq[Len(seq)]], 1, Len(seq) - 1)
    ELSE seq

Event(kind, a) == [kind |-> kind, addr |-> a]
Return(e) == pc' = "user" /\ event' = e
Goto(stage) == pc' = stage /\ event' = None

Sends(requests) == sent' = requests /\ UNCHANGED failed
Silent == Sends({})

\* A send to a fails after requests; the call returns the error.
FailsAfter(requests, a) ==
    /\ a \notin failed /\ Cardinality(failed) < MaxFailures
    /\ failed' = failed \cup {a}
    /\ sent' = requests
    /\ Return([kind |-> "error"])

-----------------------------------------------------------------------------
(* What is asked                                                           *)

QueryServers(m) == [to |-> m, kind |-> "query_servers", key |-> drawn + 1]

GetServerInfo(s, con) == [to |-> s, kind |-> "get_info", protocol |-> con.protocol]

\* Connection::query_players
QueryPlayers(s, con) ==
    IF con.challenge \in {None, MaxChallenge}
    THEN [to |-> s, kind |-> "get_challenge"]
    ELSE [to |-> s, kind |-> "get_players", challenge |-> con.challenge]

\* Connection::query: the info, and the players if they are wanted.
Query(s, con) ==
    {GetServerInfo(s, con)} \cup (IF con.players THEN {QueryPlayers(s, con)} ELSE {})

Asked(con) ==
    [con EXCEPT !.state = IF @ = "idle" THEN "waiting_info" ELSE @]
Queried(con) == [Asked(con) EXCEPT !.wait_players = @ \/ con.players]

\* What a query whose first or second send fails leaves behind.
HalfQueries(s, con) ==
    {[con |-> Asked(con), requests |-> {}]} \cup
    (IF con.players THEN {[con |-> Queried(con), requests |-> {GetServerInfo(s, con)}]}
                    ELSE {})

-----------------------------------------------------------------------------
(* The methods of the user                                                 *)

ByUser == pc = "user" /\ Silent /\ UNCHANGED <<now, calling>>

InsertMaster(m) ==
    /\ ByUser
    /\ IF m \in masters THEN UNCHANGED <<masters, key, pending>>
       ELSE /\ masters' = masters \cup {m}
            /\ key' = [key EXCEPT ![m] = 0]
            /\ pending' = Append(pending, Pending("master", m))
    /\ UNCHANGED <<drawn, conns, delayed, tasks>>

RemoveMaster(m) ==
    /\ ByUser
    /\ pending' = SwapRemove(pending, Pending("master", m))
    /\ masters' = masters \ {m}
    /\ UNCHANGED <<key, drawn, conns, delayed, tasks>>

InsertServer(s, players) ==
    /\ ByUser
    /\ IF conns[s] # None THEN UNCHANGED <<conns, pending>>
       ELSE /\ conns' = [conns EXCEPT ![s] = NewConnection(players)]
            /\ pending' = Append(pending, Pending("server", s))
    /\ UNCHANGED <<masters, key, drawn, delayed, tasks>>

RemoveServer(s) ==
    /\ ByUser
    /\ pending' = SwapRemove(pending, Pending("server", s))
    /\ conns' = [conns EXCEPT ![s] = None]
    /\ UNCHANGED <<masters, key, drawn, delayed, tasks>>

\* Only one turn pushes before they are all returned, and it pushes removals last.
Latest ==
    LET removals == {d \in delayed : d.kind = "server_remove"}
    IN IF removals # {} THEN removals ELSE delayed

PopDelayed ==
    \E d \in Latest : delayed' = delayed \ {d} /\ Return(d)

\* wait_event up to its loop.
WaitEvent(timeout) ==
    /\ pc = "user"
    /\ IF delayed # {} THEN PopDelayed /\ UNCHANGED deadline
       ELSE /\ deadline' = IF timeout = None THEN None ELSE now + timeout
            /\ Goto("turn")
            /\ UNCHANGED delayed
    /\ Silent
    /\ UNCHANGED <<now, masters, key, drawn, conns, pending, tasks>>

-----------------------------------------------------------------------------
(* A turn of the loop: the three tasks, then what is pending               *)

Due(task) == tasks[task] <= now

\* Task::update_time
UpdateTime(task, interval) ==
    tasks' = [tasks EXCEPT ![task] =
                IF @ + interval <= now THEN now + interval ELSE @ + interval]

Skip(task, stage) ==
    /\ ~Due(task)
    /\ Goto(stage) /\ Silent
    /\ UNCHANGED <<asking, deadline>>

Expired == deadline # None /\ deadline <= now

TimeoutElapsed ==
    /\ pc = "turn" /\ Expired
    /\ Return([kind |-> "timeout"]) /\ Silent
    /\ UNCHANGED <<now, asking, deadline>>

\* Every master gets a fresh key, also one that is not asked because it is pending.
Rekey(ms) ==
    /\ key' = [m \in Masters |-> IF m \in ms THEN drawn + 1 ELSE key[m]]
    /\ drawn' = drawn + 1

QueryServersFromMasters ==
    /\ Due("servers")
    /\ UpdateTime("servers", MasterInterval)
    /\ LET asked(ms) == {QueryServers(m) : m \in {n \in ms : ~IsPending("master", n)}} IN
       \/ Rekey(masters) /\ Sends(asked(masters)) /\ Goto("info")
       \/ \E before \in SUBSET masters : \E m \in masters \ before :
             /\ ~IsPending("master", m)
             /\ Rekey(before \cup {m}) /\ FailsAfter(asked(before), m)
    /\ UNCHANGED <<masters, conns, pending, delayed, deadline>>

ServersTask ==
    /\ pc = "turn" /\ ~Expired
    /\ Skip("servers", "info") \/ QueryServersFromMasters
    /\ UNCHANGED now

QueryInfoFromServers ==
    LET asked == {s \in Watched : IsValid(conns[s]) /\ ~IsPending("server", s)}
        queries(ss) == UNION {Query(s, conns[s]) : s \in ss}
        reports(ss) == delayed' = delayed \cup
            {Event("server_timeout", s) : s \in {t \in ss : conns[t].state # "idle"}}
        after(ss) == [s \in Servers |-> IF s \in ss THEN Queried(conns[s]) ELSE conns[s]]
    IN /\ Due("info")
       /\ UpdateTime("info", ServerInterval)
       /\ \/ /\ conns' = after(asked)
             /\ reports(asked) /\ Sends(queries(asked)) /\ Goto("cleanup")
          \/ \E before \in SUBSET asked : \E s \in asked \ before :
             \E half \in HalfQueries(s, conns[s]) :
                /\ conns' = [after(before) EXCEPT ![s] = half.con]
                /\ reports(before \cup {s})
                /\ FailsAfter(queries(before) \cup half.requests, s)
       /\ UNCHANGED <<masters, key, drawn, pending, deadline>>

InfoTask ==
    /\ pc = "info"
    /\ Skip("info", "cleanup") \/ QueryInfoFromServers
    /\ UNCHANGED now

\* Mutant: only connections that are not being asked are dropped.
CleanupServers_OnlyIdle ==
    LET expired == {s \in Watched : ~IsValid(conns[s]) /\ conns[s].state = "idle"} IN
    /\ Due("cleanup")
    /\ UpdateTime("cleanup", ServerCleanInterval)
    /\ conns' = [s \in Servers |-> IF s \in expired THEN None ELSE conns[s]]
    /\ delayed' = delayed \cup {Event("server_remove", s) : s \in expired}
    /\ Goto("pending") /\ Silent
    /\ UNCHANGED <<masters, key, drawn, pending, deadline>>

CleanupServers ==
    LET expired == {s \in Watched : ~IsValid(conns[s])} IN
    /\ Due("cleanup")
    /\ UpdateTime("cleanup", ServerCleanInterval)
    /\ conns' = [s \in Servers |-> IF s \in expired THEN None ELSE conns[s]]
    /\ delayed' = delayed \cup {Event("server_remove", s) : s \in expired}
    /\ Goto("pending") /\ Silent
    /\ UNCHANGED <<masters, key, drawn, pending, deadline>>

CleanupTask ==
    /\ pc = "cleanup"
    /\ Skip("cleanup", "pending") \/ CleanupServers
    /\ UNCHANGED now

\* Mutant: the key is drawn after the request was encoded.
AskMaster_OldKey(m) ==
    /\ IF m \in masters
       THEN /\ Rekey({m})
            /\ \/ Sends({[QueryServers(m) EXCEPT !.key = key[m]]}) /\ Goto("pending")
               \/ FailsAfter({}, m)
       ELSE Silent /\ Goto("pending") /\ UNCHANGED <<key, drawn>>
    /\ UNCHANGED conns

AskMaster(m) ==
    /\ IF m \in masters
       THEN /\ Rekey({m})
            /\ \/ Sends({QueryServers(m)}) /\ Goto("pending")
               \/ FailsAfter({}, m)
       ELSE Silent /\ Goto("pending") /\ UNCHANGED <<key, drawn>>
    /\ UNCHANGED conns

AskServer(s) ==
    /\ IF conns[s] # None
       THEN \/ /\ conns' = [conns EXCEPT ![s] = Queried(@)]
               /\ Sends(Query(s, conns[s])) /\ Goto("pending")
            \/ \E half \in HalfQueries(s, conns[s]) :
                  conns' = [conns EXCEPT ![s] = half.con] /\ FailsAfter(half.requests, s)
       ELSE Silent /\ Goto("pending") /\ UNCHANGED conns
    /\ UNCHANGED <<key, drawn>>

\* An entry is taken off the stack before its request is sent.
ProcessPending ==
    /\ pc = "pending" /\ pending # <<>>
    /\ LET top == pending[Len(pending)] IN
       \/ top.kind = "master" /\ AskMaster(top.addr)
       \/ top.kind = "server" /\ AskServer(top.addr)
    /\ pending' = SubSeq(pending, 1, Len(pending) - 1)
    /\ UNCHANGED <<now, masters, delayed, tasks, deadline>>

\* Mutant: the events of the turn are left for the next call.
EndTurn_NoEvents ==
    /\ pc = "pending" /\ pending = <<>>
    /\ Goto("receive") /\ Silent
    /\ UNCHANGED <<asking, now, deadline>>

EndTurn ==
    /\ pc = "pending" /\ pending = <<>>
    /\ IF delayed # {} THEN PopDelayed ELSE Goto("receive") /\ UNCHANGED delayed
    /\ Silent
    /\ UNCHANGED <<now, masters, key, drawn, conns, pending, tasks, deadline>>

-----------------------------------------------------------------------------
(* Datagrams                                                               *)

\* The cleanup does not end the wait.
ReceiveDeadline ==
    Min({tasks.servers, tasks.info} \cup ({deadline} \ {None}))

Ignore == Silent /\ UNCHANGED <<calling, conns>>
Deliver(e) == Return(e) /\ Silent /\ UNCHANGED deadline

HandleMasterPacket(m, d) ==
    /\ \/ d.kind = "list" /\ d.key # key[m] /\ Ignore
       \/ d.kind = "list" /\ d.key = key[m]
             /\ Deliver([kind |-> "server_list", addr |-> m, servers |-> d.servers])
       \/ d.kind = "info"
             /\ Deliver([kind |-> "server_info", addr |-> m, changed |-> TRUE, data |-> d.data])
       \/ d.kind \notin {"list", "info"} /\ Deliver(Event("master_invalid_packet", m))
    /\ UNCHANGED conns

\* The challenge repeats the request for players; a challenge that cannot be used is
\* asked for again.
HandleChallenge(s, c) ==
    LET con == [conns[s] EXCEPT !.challenge = c] IN
    /\ conns' = [conns EXCEPT ![s] = con]
    /\ \/ ~con.wait_players /\ Silent /\ UNCHANGED calling
       \/ con.wait_players /\ Sends({QueryPlayers(s, con)}) /\ UNCHANGED calling
       \/ con.wait_players /\ FailsAfter({}, s) /\ UNCHANGED deadline

HandlePlayers(s) ==
    IF conns[s].wait_players
    THEN /\ conns' = [conns EXCEPT ![s].wait_players = FALSE]
         /\ Deliver(Event("server_players", s))
    ELSE Ignore

\* Mutant: an info that did not change leaves the state as it is.
HandleInfo_StateKept(s, data) ==
    /\ conns' = [conns EXCEPT ![s].response_time = now,
                              ![s].state = IF conns[s].data = data THEN @ ELSE "idle",
                              ![s].data = data]
    /\ Deliver([kind |-> "server_info", addr |-> s, changed |-> conns[s].data # data,
                 data |-> data])

\* Mutant: the info is compared with itself.
HandleInfo_NeverChanged(s, data) ==
    /\ conns' = [conns EXCEPT ![s].response_time = now, ![s].state = "idle",
                              ![s].data = data]
    /\ Deliver([kind |-> "server_info", addr |-> s, changed |-> FALSE, data |-> data])

HandleInfo(s, data) ==
    /\ conns' = [conns EXCEPT ![s].response_time = now, ![s].state = "idle",
                              ![s].data = data]
    /\ Deliver([kind |-> "server_info", addr |-> s, changed |-> conns[s].data # data,
                 data |-> data])

\* Mutant: the legacy version is not tried.
HandleWrongVersion_NoRetry(s) ==
    /\ conns' = [conns EXCEPT ![s] = None]
    /\ Deliver(Event("server_invalid_protocol", s))

\* Mutant: the connection stays after the event.
HandleWrongVersion_Stays(s) ==
    /\ conns' = [conns EXCEPT ![s].protocol = PROTOCOL_VERSION - 1]
    /\ Deliver(Event("server_invalid_protocol", s))

\* The legacy version is tried once, the request is repeated at once.
HandleWrongVersion(s) ==
    LET con == [conns[s] EXCEPT !.protocol = PROTOCOL_VERSION - 1] IN
    IF conns[s].state = "protocol_detection" /\ conns[s].protocol = PROTOCOL_VERSION
    THEN \/ /\ conns' = [conns EXCEPT ![s] = Queried(con)]
            /\ Sends(Query(s, con)) /\ UNCHANGED calling
         \/ \E half \in HalfQueries(s, con) :
               /\ conns' = [conns EXCEPT ![s] = half.con]
               /\ FailsAfter(half.requests, s) /\ UNCHANGED deadline
    ELSE /\ conns' = [conns EXCEPT ![s] = None]
         /\ Deliver(Event("server_invalid_protocol", s))

HandleServerPacket(s, d) ==
    \/ d.kind = "challenge" /\ HandleChallenge(s, d.challenge)
    \/ d.kind = "info2" /\ Ignore
    \/ d.kind = "players" /\ HandlePlayers(s)
    \/ d.kind = "info" /\ HandleInfo(s, d.data)
    \/ d.kind = "wrong_version" /\ HandleWrongVersion(s)
    \/ d.kind \in {"list", "garbage"}
          /\ Deliver(Event("server_invalid_packet", s)) /\ UNCHANGED conns

\* A datagram of an address that is a master goes to the master, and nobody else's
\* is looked at.
Receive(d) ==
    /\ pc = "receive" /\ now < ReceiveDeadline
    /\ \/ d.from \in masters /\ HandleMasterPacket(d.from, d)
       \/ d.from \in Watched \ masters /\ HandleServerPacket(d.from, d)
       \/ d.from \notin masters \cup Watched /\ Ignore
    /\ UNCHANGED <<now, masters, key, drawn, pending, delayed, tasks>>

ReceiveNothing ==
    /\ pc = "receive" /\ now >= ReceiveDeadline
    /\ Goto("turn") /\ Silent
    /\ UNCHANGED <<now, asking, deadline>>

\* The socket reports an error, and the call returns it.
ReceiveFails ==
    /\ pc = "receive" /\ now < ReceiveDeadline
    /\ Return([kind |-> "error"]) /\ Silent
    /\ UNCHANGED <<now, asking, deadline>>

-----------------------------------------------------------------------------
Init ==
    /\ now = 0
    /\ masters = {} /\ key = [m \in Masters |-> 0] /\ drawn = 0
    /\ conns = [s \in Servers |-> None]
    /\ pending = <<>> /\ delayed = {}
    /\ tasks = [servers |-> 0, info |-> 0, cleanup |-> 0]
    /\ pc = "user" /\ deadline = None /\ event = None
    /\ sent = {} /\ failed = {}

\* Time passes while the user is busy and while the socket is read, which ends at
\* the deadline.
Tick ==
    /\ pc = "user" \/ (pc = "receive" /\ now < ReceiveDeadline)
    /\ now < MaxNow /\ now' = now + 1
    /\ Silent
    /\ UNCHANGED <<asking, calling>>

Turn ==
    \/ TimeoutElapsed \/ ServersTask \/ InfoTask \/ CleanupTask
    \/ ProcessPending \/ EndTurn \/ ReceiveNothing \/ ReceiveFails

=============================================================================

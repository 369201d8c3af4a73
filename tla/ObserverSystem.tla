---------------------------- MODULE ObserverSystem ----------------------------
(***************************************************************************)
(* An Observer, its user, and the servers it asks.  A server answers with   *)
(* the version it speaks; an answer may arrive late, twice, or never, and    *)
(* datagrams arrive that nobody asked for.                                   *)
(***************************************************************************)
EXTENDS Observer

CONSTANTS
    Speaks,       \* the protocol version of each server
    Lists,        \* the lists a master may answer with
    Stray,        \* the datagrams nobody asked for
    Timeouts,     \* what the user passes to wait_event
    MaxKeys       \* bound: the user inserts a master while fewer keys were drawn

VARIABLES
    wire,         \* the answers that can arrive
    asked         \* when each version was last asked for since the server was
                  \* inserted, None if it was not

ASSUME SystemAssumption ==
    /\ Lists # {}
    /\ Timeouts \subseteq Nat \cup {None}
    /\ \A d \in Stray :
          /\ d.kind = "info" => d.data \in Infos
          /\ d.kind = "challenge" => d.challenge \in Challenges

sysVars == <<obsVars, wire, asked>>

Answers(r) ==
    CASE r.kind = "query_servers" ->
            {[from |-> r.to, kind |-> "list", key |-> r.key, servers |-> l] : l \in Lists}
      [] r.kind = "get_info" ->
            IF r.protocol = Speaks[r.to]
            THEN {[from |-> r.to, kind |-> "info", data |-> i] : i \in Infos}
            ELSE {[from |-> r.to, kind |-> "wrong_version"]}
      [] r.kind = "get_challenge" ->
            {[from |-> r.to, kind |-> "challenge", challenge |-> c] : c \in Challenges}
      [] r.kind = "get_players" -> {[from |-> r.to, kind |-> "players"]}

NeverAsked == [v \in Versions |-> None]

\* The network and the history follow every step of the observer.
Follow ==
    /\ wire' = wire \cup UNION {Answers(r) : r \in sent'}
    /\ asked' = [s \in Servers |->
                    IF conns[s] = None THEN NeverAsked
                    ELSE [v \in Versions |->
                            IF [to |-> s, kind |-> "get_info", protocol |-> v] \in sent'
                            THEN now ELSE asked[s][v]]]

SysInit == Init /\ wire = {} /\ asked = [s \in Servers |-> NeverAsked]

LibraryUser ==
    \/ \E m \in Masters : drawn < MaxKeys /\ InsertMaster(m)
    \/ \E m \in Masters : RemoveMaster(m)
    \/ \E s \in Servers, players \in BOOLEAN : InsertServer(s, players)
    \/ \E s \in Servers : RemoveServer(s)
    \/ \E t \in Timeouts : WaitEvent(t)

Loop ==
    \/ Turn
    \/ \E d \in wire \cup Stray : Receive(d)

SysNext == (LibraryUser \/ Loop \/ Tick) /\ Follow

SysSpec == SysInit /\ [][SysNext]_sysVars

-----------------------------------------------------------------------------
TypeOK ==
    /\ now \in 0 .. MaxNow
    /\ masters \subseteq Masters /\ key \in [Masters -> 0 .. drawn]
    /\ conns \in [Servers -> Connection \cup {None}]
    /\ \A i \in DOMAIN pending :
          pending[i] \in [kind : {"master"}, addr : Masters]
                         \cup [kind : {"server"}, addr : Servers]
    /\ delayed \subseteq [kind : {"server_timeout", "server_remove"}, addr : Servers]
    /\ tasks.servers <= now + MasterInterval
    /\ tasks.info <= now + ServerInterval
    /\ tasks.cleanup <= now + ServerCleanInterval
    /\ pc \in {"user", "turn", "info", "cleanup", "pending", "receive"}
    /\ pc \notin {"user", "info", "cleanup", "pending"} => delayed = {}

\* While the observer waits, whoever is watched has been asked, and the answer that
\* is on its way is one it will take: the key of a master is the one that was sent,
\* also when the master was pending at its task or a new key was drawn in between.
\* (query_servers_from_masters, process_pending)
Waiting == pc = "receive"

EverybodyAsked ==
    Waiting =>
        /\ pending = <<>>
        /\ \A m \in masters \ failed : \E d \in wire :
              d.from = m /\ d.kind = "list" /\ d.key = key[m]
        /\ \A s \in Watched \ failed : \E v \in Versions : asked[s][v] # None

\* A server that stopped answering is forgotten in time, though three tasks with
\* periods of their own take part, a turn may fail, and the wait does not end for the
\* cleanup (cleanup_servers, receive).
SilentServersForgotten ==
    Waiting =>
        \A s \in Watched :
            now - conns[s].response_time < ServerTimeout + ServerCleanInterval + ServerInterval

\* Only a server that was asked, and has not answered since, is reported as timed out
\* ("This server did not send a response to the last request").
TimeoutsMeanSilence ==
    [][\A s \in Servers \ failed :
          Event("server_timeout", s) \in delayed' \ delayed =>
              \E v \in Versions : /\ asked[s][v] # None
                                  /\ conns[s].response_time <= asked[s][v]]_sysVars

\* A server is given up for its protocol only when it answered before, or was asked
\* with both versions ("try legacy protocol version").
RefusedAfterBoth ==
    [][\A s \in Servers \ failed :
          event' = Event("server_invalid_protocol", s) /\ event' # event =>
              \/ conns[s].data # None
              \/ \A v \in Versions : asked[s][v] # None]_sysVars

\* Nothing bad is said about a server without cause, whatever comes late or twice
\* (query_info_from_servers, Connection::handle_packet).
BlameIsDeserved == TimeoutsMeanSilence /\ RefusedAfterBoth

\* What the user is told about masters and servers is what ObserverApi promises.
Api == INSTANCE ObserverApi WITH watched <- Watched, notices <- delayed,
                                 calling <- pc # "user"

KeepsPromise == Api!Spec

=============================================================================

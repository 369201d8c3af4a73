---------------------------- MODULE ObserverProofs ----------------------------
(***************************************************************************)
(* Proofs about ObserverSystem: an observer implements ObserverApi; while  *)
(* it waits everybody has been asked with an answer to take, and a silent  *)
(* server has been forgotten in time; and a server is blamed only for what *)
(* it did.                                                                 *)
(*                                                                         *)
(* Then the query tool over the library: it never takes players of a       *)
(* server it has not heard of, it does not wait past its timeout, it shows *)
(* what it knows, a good result stays unless somebody speaks in the name   *)
(* of the server, and "info" ends early only with an answer or a verdict   *)
(* about everybody it was asked for.  What the steps of the observer do is *)
(* stated once for all of them (TurnOutcome, ReceiveOutcome); the types of *)
(* the tool are the invariant the rest adds to.  Last, what is shown for   *)
(* any user of the library is carried over to the tool, which inserts a    *)
(* whole list in one step.                                                 *)
(***************************************************************************)
EXTENDS QueryTool, SequenceTheorems, FiniteSetTheorems, WellFoundedInduction, TLAPS

-----------------------------------------------------------------------------
(* Requests and their answers                                              *)

Requests ==
    [to : Masters, kind : {"query_servers"}, key : Nat]
    \cup [to : Servers, kind : {"get_info"}, protocol : Versions]
    \cup [to : Servers, kind : {"get_challenge"}]
    \cup [to : Servers, kind : {"get_players"}, challenge : Challenges]

\* What a datagram carries is what its kind says.
WellFormed(d) ==
    /\ d.kind = "info" => d.data \in Infos
    /\ d.kind = "challenge" => d.challenge \in Challenges

LEMMA AnswersWellFormed == \A r \in Requests : \A d \in Answers(r) : WellFormed(d)
<1> SUFFICES ASSUME NEW r \in Requests, NEW d \in Answers(r) PROVE WellFormed(d)
    OBVIOUS
<1>1. CASE r.kind = "query_servers"
    BY <1>1 DEF Answers, WellFormed
<1>2. CASE r.kind = "get_info"
    BY <1>2 DEF Answers, WellFormed
<1>3. CASE r.kind = "get_challenge"
    BY <1>3 DEF Answers, WellFormed
<1>4. CASE r.kind = "get_players"
    BY <1>4 DEF Answers, WellFormed
<1> QED
    BY <1>1, <1>2, <1>3, <1>4 DEF Requests

\* A master that is asked with a key may answer with it.
LEMMA ListAnswered ==
    ASSUME NEW m, NEW k
    PROVE  \E d \in Answers([to |-> m, kind |-> "query_servers", key |-> k]) :
              d.from = m /\ d.kind = "list" /\ d.key = k
<1> DEFINE r == [to |-> m, kind |-> "query_servers", key |-> k]
<1>1. PICK l \in Lists : TRUE
    BY SystemAssumption
<1>2. [from |-> m, kind |-> "list", key |-> k, servers |-> l] \in Answers(r)
    BY <1>1 DEF Answers
<1> QED
    BY <1>2

-----------------------------------------------------------------------------
(* Connections                                                             *)

\* What asking leaves alone, and that it makes the observer wait.
SameButAsked(con, asking_) ==
    /\ asking_ \in Connection
    /\ asking_.protocol = con.protocol
    /\ asking_.response_time = con.response_time
    /\ asking_.data = con.data
    /\ asking_.state = IF con.state = "idle" THEN "waiting_info" ELSE con.state

LEMMA AskedFacts ==
    ASSUME NEW con \in Connection
    PROVE  SameButAsked(con, Asked(con)) /\ SameButAsked(con, Queried(con))
<1>1. SameButAsked(con, Asked(con))
    BY DEF SameButAsked, Asked, Connection
<1>2. SameButAsked(con, Queried(con))
    <2> DEFINE wait == Asked(con).wait_players \/ con.players
    <2>1. Queried(con) = [Asked(con) EXCEPT !.wait_players = wait] /\ wait \in BOOLEAN
        BY <1>1 DEF Queried, SameButAsked, Connection
    <2> HIDE DEF wait
    <2> QED
        BY <1>1, <2>1 DEF SameButAsked, Connection
<1> QED
    BY <1>1, <1>2

LEMMA QueryFacts ==
    ASSUME NEW s \in Servers, NEW con \in Connection
    PROVE  /\ Query(s, con) \subseteq Requests
           /\ [to |-> s, kind |-> "get_info", protocol |-> con.protocol] \in Query(s, con)
<1>1. GetServerInfo(s, con) \in Requests
    BY DEF GetServerInfo, Requests, Connection
<1>2. QueryPlayers(s, con) \in Requests
    BY DEF QueryPlayers, Requests, Connection
<1> QED
    BY <1>1, <1>2 DEF Query, GetServerInfo

LEMMA HalfFacts ==
    ASSUME NEW s \in Servers, NEW con \in Connection, NEW half \in HalfQueries(s, con)
    PROVE  SameButAsked(con, half.con) /\ half.requests \subseteq Requests
<1>1. GetServerInfo(s, con) \in Requests
    BY DEF GetServerInfo, Requests, Connection
<1> QED
    BY <1>1, AskedFacts DEF HalfQueries

LEMMA NewConnectionFacts ==
    ASSUME now \in 0 .. MaxNow, NEW players \in BOOLEAN
    PROVE  NewConnection(players) \in Connection
BY DEF NewConnection, Connection, Versions, PROTOCOL_VERSION

-----------------------------------------------------------------------------
(* The stack of what is to be asked                                        *)

LEMMA SmallestExists ==
    ASSUME NEW S \in SUBSET Nat, S # {}
    PROVE  \E x \in S : \A y \in S : x <= y
<1>1. PICK x \in S : \A y \in S : ~ (<<y, x>> \in OpToRel(<, Nat))
    BY WFMin, NatLessThanWellFounded
<1>2. \A y \in S : ~ (y < x)
    BY <1>1 DEF OpToRel
<1> QED
    BY <1>2

Has(seq, x) == \E i \in DOMAIN seq : seq[i] = x

LEMMA SwapRemoveFacts ==
    ASSUME NEW S, NEW seq \in Seq(S), NEW x \in S
    PROVE  /\ SwapRemove(seq, x) \in Seq(S)
           /\ \A y : y # x /\ Has(seq, y) => Has(SwapRemove(seq, x), y)
<1>1. CASE ~ \E i \in DOMAIN seq : seq[i] = x
    BY <1>1 DEF SwapRemove
<1>2. CASE \E i \in DOMAIN seq : seq[i] = x
    <2> DEFINE First(i) == seq[i] = x /\ \A j \in 1 .. i - 1 : seq[j] # x
               first == CHOOSE i \in DOMAIN seq : First(i)
               moved == [seq EXCEPT ![first] = seq[Len(seq)]]
               rest == SubSeq(moved, 1, Len(seq) - 1)
    <2>1. \E i \in DOMAIN seq : First(i)
        <3> DEFINE Left == {i \in DOMAIN seq : seq[i] = x}
        <3>1. Left \in SUBSET Nat /\ Left # {}
            BY <1>2
        <3>2. PICK i \in Left : \A j \in Left : i <= j
            BY <3>1, SmallestExists
        <3>3. \A j \in 1 .. i - 1 : seq[j] # x
            BY <3>2
        <3> QED
            BY <3>3
    <2>2. first \in DOMAIN seq /\ seq[first] = x
        BY <2>1
    <2>3. /\ moved \in Seq(S) /\ Len(moved) = Len(seq) /\ Len(seq) \in Nat \ {0}
          /\ DOMAIN seq = 1 .. Len(seq)
          /\ moved[first] = seq[Len(seq)]
          /\ \A i \in DOMAIN seq : i # first => moved[i] = seq[i]
        BY <2>2
    <2>4. /\ rest \in Seq(S) /\ Len(rest) = Len(seq) - 1
          /\ DOMAIN rest = 1 .. Len(seq) - 1
          /\ \A i \in 1 .. Len(seq) - 1 : rest[i] = moved[i]
        <3>1. Len(seq) - 1 \in (1 - 1) .. Len(moved)
            BY <2>3
        <3> HIDE DEF moved
        <3>2. \A i \in 1 .. 1 + (Len(seq) - 1) - 1 : rest[i] = moved[1 + i - 1]
            BY <2>3, <3>1, SubSeqProperties
        <3> QED
            BY <2>3, <3>1, <3>2, SubSeqProperties
    <2>5. SwapRemove(seq, x) = rest
        BY <1>2 DEF SwapRemove
    <2> HIDE DEF rest, moved, first
    <2>6. ASSUME NEW y, y # x, NEW i \in DOMAIN seq, seq[i] = y
          PROVE  \E j \in DOMAIN rest : rest[j] = y
        <3>1. i # first
            BY <2>2, <2>6
        <3>2. CASE i < Len(seq)
            <4>1. i \in DOMAIN rest /\ rest[i] = y
                BY <2>3, <2>4, <2>6, <3>1, <3>2
            <4> QED
                BY <4>1
        <3>3. CASE i = Len(seq)
            <4>1. first \in DOMAIN rest /\ rest[first] = y
                BY <2>2, <2>3, <2>4, <2>6, <3>1, <3>3
            <4> QED
                BY <4>1
        <3>4. i < Len(seq) \/ i = Len(seq)
            BY <2>3, <2>6
        <3> QED
            BY <3>2, <3>3, <3>4
    <2> QED
        BY <2>4, <2>5, <2>6 DEF Has
<1> QED
    BY <1>1, <1>2

LEMMA AppendFacts ==
    ASSUME NEW S, NEW seq \in Seq(S), NEW x \in S
    PROVE  /\ Append(seq, x) \in Seq(S)
           /\ \E i \in DOMAIN Append(seq, x) : Append(seq, x)[i] = x
           /\ \A y : (\E i \in DOMAIN seq : seq[i] = y)
                 => \E i \in DOMAIN Append(seq, x) : Append(seq, x)[i] = y
<1> DEFINE longer == Append(seq, x)
<1>1. /\ longer \in Seq(S) /\ Len(longer) = Len(seq) + 1 /\ longer[Len(seq) + 1] = x
      /\ \A i \in 1 .. Len(seq) : longer[i] = seq[i]
    OBVIOUS
<1>2. DOMAIN longer = 1 .. Len(seq) + 1 /\ DOMAIN seq = 1 .. Len(seq) /\ Len(seq) \in Nat
    BY <1>1
<1> HIDE DEF longer
<1>3. ASSUME NEW y, NEW i \in DOMAIN seq, seq[i] = y
      PROVE  \E j \in DOMAIN longer : longer[j] = y
    <2>1. i \in DOMAIN longer /\ longer[i] = y
        BY <1>1, <1>2, <1>3
    <2> QED
        BY <2>1
<1>4. Len(seq) + 1 \in DOMAIN longer
    BY <1>2
<1> QED
    BY <1>1, <1>3, <1>4 DEF longer

LEMMA PopFacts ==
    ASSUME NEW S, NEW seq \in Seq(S), seq # <<>>
    PROVE  /\ seq[Len(seq)] \in S
           /\ SubSeq(seq, 1, Len(seq) - 1) \in Seq(S)
           /\ \A y : y # seq[Len(seq)] /\ (\E i \in DOMAIN seq : seq[i] = y)
                 => \E i \in DOMAIN SubSeq(seq, 1, Len(seq) - 1) :
                        SubSeq(seq, 1, Len(seq) - 1)[i] = y
<1> DEFINE rest == SubSeq(seq, 1, Len(seq) - 1)
<1>1. Len(seq) \in Nat \ {0} /\ DOMAIN seq = 1 .. Len(seq) /\ seq[Len(seq)] \in S
    OBVIOUS
<1>2. \A i \in 1 .. Len(seq) - 1 : seq[i] \in S
    BY <1>1
<1>3. \A i \in 1 .. (Len(seq) - 1) - 1 + 1 : rest[i] = seq[1 + i - 1]
    BY <1>1, <1>2, SubSeqProperties
<1>4. rest \in Seq(S) /\ Len(rest) = Len(seq) - 1
    BY <1>1, <1>2, SubSeqProperties
<1>5. DOMAIN rest = 1 .. Len(seq) - 1
    BY <1>4
<1> HIDE DEF rest
<1>6. ASSUME NEW y, y # seq[Len(seq)], NEW i \in DOMAIN seq, seq[i] = y
      PROVE  \E j \in DOMAIN rest : rest[j] = y
    <2>1. i \in DOMAIN rest /\ rest[i] = y
        BY <1>1, <1>3, <1>5, <1>6
    <2> QED
        BY <2>1
<1> QED
    BY <1>1, <1>4, <1>6 DEF rest

\* The wait for datagrams ends with the task that asks servers for their info, or
\* before it.
LEMMA DeadlineFacts ==
    ASSUME tasks.servers \in Nat, tasks.info \in Nat, deadline = None \/ deadline \in Nat
    PROVE  ReceiveDeadline \in Nat /\ ReceiveDeadline <= tasks.info
<1> DEFINE S == {tasks.servers, tasks.info} \cup ({deadline} \ {None})
<1>1. S \in SUBSET Nat /\ tasks.info \in S
    OBVIOUS
<1>2. ReceiveDeadline = CHOOSE x \in S : \A y \in S : x <= y
    BY DEF ReceiveDeadline, Min
<1> HIDE DEF S
<1>3. \E x \in S : \A y \in S : x <= y
    BY <1>1, SmallestExists
<1> QED
    BY <1>1, <1>2, <1>3

-----------------------------------------------------------------------------
(* Types                                                                   *)

Entries == [kind : {"master"}, addr : Masters] \cup [kind : {"server"}, addr : Servers]

\* What TypeOK leaves open.
MoreTypes ==
    /\ drawn \in Nat
    /\ pending \in Seq(Entries)
    /\ tasks \in [servers : Nat, info : Nat, cleanup : Nat]
    /\ deadline = None \/ deadline \in Nat
    /\ \A s \in Servers : conns[s] # None => conns[s].response_time <= now
    /\ pc # "user" => event = None
    /\ pc = "receive" => pending = <<>>

Types == TypeOK /\ MoreTypes

HistoryTypes ==
    /\ \A d \in wire : WellFormed(d)
    /\ asked \in [Servers -> [Versions -> 0 .. MaxNow \cup {None}]]

LEMMA FollowTypes ==
    ASSUME Types, HistoryTypes, Follow, sent' \subseteq Requests
    PROVE  HistoryTypes'
<1>1. \A d \in wire' : WellFormed(d)
    BY AnswersWellFormed DEF HistoryTypes, Follow
<1>2. asked' \in [Servers -> [Versions -> 0 .. MaxNow \cup {None}]]
    BY DEF HistoryTypes, Follow, NeverAsked, Types, TypeOK
<1> QED
    BY <1>1, <1>2 DEF HistoryTypes

LEMMA InsertMasterTypes ==
    ASSUME Types, NEW m \in Masters, InsertMaster(m)
    PROVE  Types' /\ sent' \subseteq Requests
<1>1. pending' \in Seq(Entries)
    <2>1. pending \in Seq(Entries) /\ Pending("master", m) \in Entries
        BY DEF Types, MoreTypes, Entries, Pending
    <2>2. pending' = pending \/ pending' = Append(pending, Pending("master", m))
        BY DEF InsertMaster
    <2> QED
        BY <2>1, <2>2, AppendFacts
<1>2. MoreTypes'
    BY <1>1 DEF InsertMaster, ByUser, Silent, Sends, Types, MoreTypes, calling
<1>3. TypeOK'
    <2>1. masters' \subseteq Masters /\ key' \in [Masters -> 0 .. drawn']
        BY DEF InsertMaster, Types, MoreTypes, TypeOK
    <2>2. \A i \in DOMAIN pending' : pending'[i] \in Entries
        BY <1>1
    <2>3. UNCHANGED <<now, drawn, conns, delayed, tasks, pc>>
        BY DEF InsertMaster, ByUser, calling
    <2> QED
        BY <2>1, <2>2, <2>3 DEF Types, TypeOK, Entries
<1> QED
    BY <1>2, <1>3 DEF Types, InsertMaster, ByUser, Silent, Sends

LEMMA RemoveMasterTypes ==
    ASSUME Types, NEW m \in Masters, RemoveMaster(m)
    PROVE  Types' /\ sent' \subseteq Requests
<1>1. pending' \in Seq(Entries)
    BY SwapRemoveFacts DEF RemoveMaster, Types, MoreTypes, Entries, Pending
<1>2. MoreTypes'
    BY <1>1 DEF RemoveMaster, ByUser, Silent, Sends, Types, MoreTypes, calling
<1>3. TypeOK'
    <2>1. masters' \subseteq Masters
        BY DEF RemoveMaster, Types, TypeOK
    <2>2. \A i \in DOMAIN pending' : pending'[i] \in Entries
        BY <1>1
    <2>3. UNCHANGED <<now, key, drawn, conns, delayed, tasks, pc>>
        BY DEF RemoveMaster, ByUser, calling
    <2> QED
        BY <2>1, <2>2, <2>3 DEF Types, TypeOK, Entries
<1> QED
    BY <1>2, <1>3 DEF Types, RemoveMaster, ByUser, Silent, Sends

LEMMA InsertServerTypes ==
    ASSUME Types, NEW s \in Servers, NEW players \in BOOLEAN, InsertServer(s, players)
    PROVE  Types' /\ sent' \subseteq Requests
<1>1. pending' \in Seq(Entries)
    <2>1. pending \in Seq(Entries) /\ Pending("server", s) \in Entries
        BY DEF Types, MoreTypes, Entries, Pending
    <2>2. pending' = pending \/ pending' = Append(pending, Pending("server", s))
        BY DEF InsertServer
    <2> QED
        BY <2>1, <2>2, AppendFacts
<1>2. NewConnection(players) \in Connection /\ NewConnection(players).response_time = now
    BY NewConnectionFacts DEF NewConnection, Types, TypeOK
<1>3. /\ conns' \in [Servers -> Connection \cup {None}]
      /\ \A t \in Servers : conns'[t] = conns[t] \/ conns'[t] = NewConnection(players)
    BY <1>2 DEF InsertServer, Types, TypeOK
<1>4. MoreTypes'
    BY <1>1, <1>2, <1>3 DEF InsertServer, ByUser, Types, MoreTypes, TypeOK, calling
<1>5. TypeOK'
    <2>1. \A i \in DOMAIN pending' : pending'[i] \in Entries
        BY <1>1
    <2>2. UNCHANGED <<now, masters, key, drawn, delayed, tasks, pc>>
        BY DEF InsertServer, ByUser, calling
    <2> QED
        BY <1>3, <2>1, <2>2 DEF Types, TypeOK, Entries
<1> QED
    BY <1>4, <1>5 DEF Types, InsertServer, ByUser, Silent, Sends

LEMMA RemoveServerTypes ==
    ASSUME Types, NEW s \in Servers, RemoveServer(s)
    PROVE  Types' /\ sent' \subseteq Requests
<1>1. pending' \in Seq(Entries)
    BY SwapRemoveFacts DEF RemoveServer, Types, MoreTypes, Entries, Pending
<1>2. /\ conns' \in [Servers -> Connection \cup {None}]
      /\ \A t \in Servers : conns'[t] = conns[t] \/ conns'[t] = None
    BY DEF RemoveServer, Types, TypeOK
<1>3. MoreTypes'
    BY <1>1, <1>2 DEF RemoveServer, ByUser, Types, MoreTypes, TypeOK, calling
<1>4. TypeOK'
    <2>1. \A i \in DOMAIN pending' : pending'[i] \in Entries
        BY <1>1
    <2>2. UNCHANGED <<now, masters, key, drawn, delayed, tasks, pc>>
        BY DEF RemoveServer, ByUser, calling
    <2> QED
        BY <1>2, <2>1, <2>2 DEF Types, TypeOK, Entries
<1> QED
    BY <1>3, <1>4 DEF Types, RemoveServer, ByUser, Silent, Sends

LEMMA WaitEventTypes ==
    ASSUME Types, NEW t \in Timeouts, WaitEvent(t)
    PROVE  Types' /\ sent' \subseteq Requests
<1>1. deadline' = None \/ deadline' \in Nat
    BY SystemAssumption DEF WaitEvent, Types, MoreTypes, TypeOK
<1>2. MoreTypes'
    BY <1>1 DEF WaitEvent, PopDelayed, Return, Goto, Types, MoreTypes
<1>3. TypeOK'
    BY DEF WaitEvent, PopDelayed, Latest, Return, Goto, Types, MoreTypes, TypeOK
<1> QED
    BY <1>2, <1>3 DEF Types, WaitEvent, Silent, Sends

\* After a task has run it is due later, within its interval.
LEMMA UpdateTimeFacts ==
    ASSUME Types, NEW interval \in Nat \ {0}
    PROVE  /\ UpdateTime("servers", interval) /\ Due("servers") =>
                /\ tasks' \in [servers : Nat, info : Nat, cleanup : Nat]
                /\ tasks'.info = tasks.info /\ tasks'.cleanup = tasks.cleanup
                /\ now < tasks'.servers /\ tasks'.servers <= now + interval
           /\ UpdateTime("info", interval) /\ Due("info") =>
                /\ tasks' \in [servers : Nat, info : Nat, cleanup : Nat]
                /\ tasks'.servers = tasks.servers /\ tasks'.cleanup = tasks.cleanup
                /\ now < tasks'.info /\ tasks'.info <= now + interval
           /\ UpdateTime("cleanup", interval) /\ Due("cleanup") =>
                /\ tasks' \in [servers : Nat, info : Nat, cleanup : Nat]
                /\ tasks'.servers = tasks.servers /\ tasks'.info = tasks.info
                /\ now < tasks'.cleanup /\ tasks'.cleanup <= now + interval
<1>1. now \in Nat /\ tasks \in [servers : Nat, info : Nat, cleanup : Nat]
    BY ObserverAssumption DEF Types, TypeOK, MoreTypes
<1>2. ASSUME NEW t \in {"servers", "info", "cleanup"}, UpdateTime(t, interval), Due(t)
      PROVE  /\ tasks' \in [servers : Nat, info : Nat, cleanup : Nat]
             /\ \A u \in {"servers", "info", "cleanup"} : u # t => tasks'[u] = tasks[u]
             /\ now < tasks'[t] /\ tasks'[t] <= now + interval
    <2> DEFINE next == IF tasks[t] + interval <= now THEN now + interval ELSE tasks[t] + interval
    <2>1. tasks[t] \in Nat /\ tasks[t] <= now
        BY <1>1, <1>2 DEF Due
    <2>2. next \in Nat /\ now < next /\ next <= now + interval
        BY <1>1, <2>1
    <2>3. tasks' = [tasks EXCEPT ![t] = next]
        BY <1>2 DEF UpdateTime
    <2> HIDE DEF next
    <2> QED
        BY <1>1, <2>2, <2>3
<1> QED
    BY <1>2

LEMMA StutterTypes ==
    ASSUME Types, TimeoutElapsed \/ EndTurn \/ ReceiveNothing \/ ReceiveFails \/ Tick
    PROVE  Types' /\ sent' \subseteq Requests
<1> USE DEF Silent, Sends, Return, Goto, asking, calling, Types, MoreTypes, TypeOK
<1>1. CASE TimeoutElapsed
    BY <1>1 DEF TimeoutElapsed
<1>2. CASE EndTurn
    BY <1>2 DEF EndTurn, PopDelayed, Latest
<1>3. CASE ReceiveNothing \/ ReceiveFails
    BY <1>3 DEF ReceiveNothing, ReceiveFails
<1>4. CASE Tick
    <2>1. now \in Nat /\ now' = now + 1 /\ now' \in 0 .. MaxNow
        <3>1. now \in 0 .. MaxNow
            OBVIOUS
        <3>2. now < MaxNow /\ now' = now + 1
            BY <1>4 DEF Tick
        <3> HIDE DEF Silent, Sends, Return, Goto, asking, calling, Types, MoreTypes, TypeOK
        <3> QED
            BY <3>1, <3>2, ObserverAssumption
    <2>2. \A s \in Servers : conns[s] # None =>
              conns[s].response_time \in Nat /\ conns[s].response_time <= now + 1
        BY <2>1 DEF Connection
    <2>3. asking' = asking /\ calling' = calling /\ sent' = {} /\ pc \in {"user", "receive"}
        BY <1>4 DEF Tick
    <2>4. MoreTypes'
        BY <2>1, <2>2, <2>3
    <2>5. /\ tasks'.servers <= now' + MasterInterval
          /\ tasks'.info <= now' + ServerInterval
          /\ tasks'.cleanup <= now' + ServerCleanInterval
        <3>1. tasks' = tasks
            BY <1>4 DEF Tick
        <3>2. {MasterInterval, ServerInterval, ServerCleanInterval} \subseteq Nat
            BY ObserverAssumption
        <3>3. /\ tasks.servers \in Nat /\ tasks.servers <= now + MasterInterval
              /\ tasks.info \in Nat /\ tasks.info <= now + ServerInterval
              /\ tasks.cleanup \in Nat /\ tasks.cleanup <= now + ServerCleanInterval
            OBVIOUS
        <3> HIDE DEF Silent, Sends, Return, Goto, asking, calling, Types, MoreTypes, TypeOK
        <3>4. tasks.servers <= now + 1 + MasterInterval
            BY <2>1, <3>2, <3>3
        <3>5. tasks.info <= now + 1 + ServerInterval
            BY <2>1, <3>2, <3>3
        <3>6. tasks.cleanup <= now + 1 + ServerCleanInterval
            BY <2>1, <3>2, <3>3
        <3> QED
            BY <2>1, <3>1, <3>4, <3>5, <3>6, Zenon
    <2>6. TypeOK'
        BY <2>1, <2>3, <2>5
    <2> QED
        BY <2>3, <2>4, <2>6
<1> QED
    BY <1>1, <1>2, <1>3, <1>4

LEMMA RekeyFacts ==
    ASSUME Types, NEW ms, Rekey(ms)
    PROVE  key' \in [Masters -> 0 .. drawn'] /\ drawn' \in Nat
<1>1. \A m \in Masters : key[m] \in 0 .. drawn + 1
    BY DEF Types, MoreTypes, TypeOK
<1> QED
    BY <1>1 DEF Rekey, Types, MoreTypes

LEMMA ServersTaskTypes ==
    ASSUME Types, ServersTask
    PROVE  Types' /\ sent' \subseteq Requests
<1> USE DEF Types
<1>1. CASE Skip("servers", "info")
    BY <1>1 DEF ServersTask, Skip, Goto, Silent, Sends, asking, MoreTypes, TypeOK
<1>2. CASE QueryServersFromMasters
    <2>1. /\ tasks' \in [servers : Nat, info : Nat, cleanup : Nat]
          /\ tasks'.info = tasks.info /\ tasks'.cleanup = tasks.cleanup
          /\ tasks'.servers <= now + MasterInterval
        BY <1>2, UpdateTimeFacts, ObserverAssumption DEF QueryServersFromMasters
    <2>2. key' \in [Masters -> 0 .. drawn'] /\ drawn' \in Nat
        BY <1>2, RekeyFacts DEF QueryServersFromMasters
    <2>3. \A m \in masters : QueryServers(m) \in Requests
        BY DEF QueryServers, Requests, MoreTypes, TypeOK
    <2>4. sent' \subseteq Requests
        <3>1. \E ms \in SUBSET masters : sent' = {QueryServers(m) : m \in ms}
            <4> DEFINE idle(ms) == {n \in ms : ~IsPending("master", n)}
            <4>1. CASE sent' = {QueryServers(m) : m \in idle(masters)}
                <5>1. idle(masters) \in SUBSET masters
                    OBVIOUS
                <5> HIDE DEF idle
                <5> QED
                    BY <4>1, <5>1
            <4>2. ASSUME NEW before \in SUBSET masters,
                         sent' = {QueryServers(m) : m \in idle(before)}
                  PROVE  \E ms \in SUBSET masters : sent' = {QueryServers(m) : m \in ms}
                <5>1. idle(before) \in SUBSET masters
                    OBVIOUS
                <5> HIDE DEF idle
                <5> QED
                    BY <4>2, <5>1
            <4> QED
                BY <1>2, <4>1, <4>2 DEF QueryServersFromMasters, Sends, FailsAfter
        <3> QED
            BY <2>3, <3>1
    <2>5. UNCHANGED <<now, masters, conns, pending, delayed, deadline>> /\ delayed = {}
        BY <1>2 DEF ServersTask, QueryServersFromMasters, TypeOK
    <2>6. (pc' = "info" /\ event' = None) \/ pc' = "user"
        BY <1>2 DEF QueryServersFromMasters, FailsAfter, Return, Goto
    <2>7. MoreTypes'
        BY <2>1, <2>2, <2>5, <2>6 DEF MoreTypes
    <2>8. TypeOK'
        BY <2>1, <2>2, <2>5, <2>6 DEF TypeOK
    <2> QED
        BY <2>4, <2>7, <2>8
<1> QED
    BY <1>1, <1>2 DEF ServersTask

\* A step that asks servers, as far as their types are concerned.
AsksOnly == 
    /\ conns' \in [Servers -> Connection \cup {None}]
    /\ \A s \in Servers :
          conns'[s] = conns[s] \/ (conns[s] # None /\ SameButAsked(conns[s], conns'[s]))

LEMMA AsksOnlyFacts ==
    ASSUME Types, AsksOnly
    PROVE  /\ Watched' = Watched
           /\ \A s \in Servers : conns[s] = None <=> conns'[s] = None
           /\ \A s \in Watched : conns'[s].response_time = conns[s].response_time
BY ObserverAssumption DEF AsksOnly, SameButAsked, Watched, Types, TypeOK

LEMMA QueryInfoAsksOnly ==
    ASSUME Types, QueryInfoFromServers
    PROVE  AsksOnly /\ sent' \subseteq Requests
<1> DEFINE todo == {s \in Watched : IsValid(conns[s]) /\ ~IsPending("server", s)}
           queries(ss) == UNION {Query(s, conns[s]) : s \in ss}
           after(ss) == [s \in Servers |-> IF s \in ss THEN Queried(conns[s]) ELSE conns[s]]
<1>1. \A s \in Watched : conns[s] \in Connection
    BY DEF Watched, Types, TypeOK
<1>2. \A s \in Watched : /\ SameButAsked(conns[s], Queried(conns[s]))
                         /\ Query(s, conns[s]) \subseteq Requests
    BY <1>1, AskedFacts, QueryFacts DEF Watched
<1>3. ASSUME NEW ss \in SUBSET todo
      PROVE  /\ after(ss) \in [Servers -> Connection \cup {None}]
             /\ \A s \in ss : conns[s] # None /\ SameButAsked(conns[s], after(ss)[s])
             /\ queries(ss) \subseteq Requests
    BY <1>2 DEF SameButAsked, Watched, Types, TypeOK
<1>4. CASE conns' = after(todo) /\ sent' = queries(todo)
    BY <1>3, <1>4 DEF AsksOnly
<1>5. ASSUME NEW before \in SUBSET todo, NEW s \in todo \ before,
             NEW half \in HalfQueries(s, conns[s]),
             conns' = [after(before) EXCEPT ![s] = half.con],
             sent' = queries(before) \cup half.requests
      PROVE  AsksOnly /\ sent' \subseteq Requests
    <2>1. SameButAsked(conns[s], half.con) /\ half.requests \subseteq Requests
        BY <1>1, HalfFacts DEF Watched
    <2> QED
        BY <1>3, <1>5, <2>1 DEF AsksOnly, SameButAsked, Watched
<1> QED
    BY <1>4, <1>5 DEF QueryInfoFromServers, Sends, FailsAfter

\* Timeouts are reported of servers that were asked before, and did not answer.
LEMMA QueryInfoReports ==
    ASSUME QueryInfoFromServers
    PROVE  \E ss \in SUBSET Watched :
              /\ delayed' = delayed \cup {Event("server_timeout", s) : s \in ss}
              /\ \A s \in ss : conns[s].state # "idle" /\ ~IsPending("server", s)
<1> DEFINE todo == {s \in Watched : IsValid(conns[s]) /\ ~IsPending("server", s)}
           silent(ss) == {t \in ss : conns[t].state # "idle"}
<1>1. CASE delayed' = delayed \cup {Event("server_timeout", s) : s \in silent(todo)}
    <2>1. silent(todo) \in SUBSET Watched
        OBVIOUS
    <2>2. \A s \in silent(todo) : conns[s].state # "idle" /\ ~IsPending("server", s)
        OBVIOUS
    <2> HIDE DEF silent
    <2> QED
        BY <1>1, <2>1, <2>2
<1>2. ASSUME NEW before \in SUBSET todo, NEW s \in todo \ before,
             delayed' = delayed \cup {Event("server_timeout", t) : t \in silent(before \cup {s})}
      PROVE  \E ss \in SUBSET Watched :
                /\ delayed' = delayed \cup {Event("server_timeout", t) : t \in ss}
                /\ \A t \in ss : conns[t].state # "idle" /\ ~IsPending("server", t)
    <2>1. silent(before \cup {s}) \in SUBSET Watched
        OBVIOUS
    <2>2. \A t \in silent(before \cup {s}) : conns[t].state # "idle" /\ ~IsPending("server", t)
        OBVIOUS
    <2> HIDE DEF silent
    <2> QED
        BY <1>2, <2>1, <2>2
<1> QED
    BY <1>1, <1>2 DEF QueryInfoFromServers

LEMMA InfoTaskTypes ==
    ASSUME Types, InfoTask
    PROVE  Types' /\ sent' \subseteq Requests
<1> USE DEF Types
<1>1. CASE Skip("info", "cleanup")
    BY <1>1 DEF InfoTask, Skip, Goto, Silent, Sends, asking, MoreTypes, TypeOK
<1>2. CASE QueryInfoFromServers
    <2>1. /\ tasks' \in [servers : Nat, info : Nat, cleanup : Nat]
          /\ tasks'.servers = tasks.servers /\ tasks'.cleanup = tasks.cleanup
          /\ tasks'.info <= now + ServerInterval
        BY <1>2, UpdateTimeFacts, ObserverAssumption DEF QueryInfoFromServers
    <2>2. /\ AsksOnly /\ sent' \subseteq Requests
          /\ \A s \in Servers : conns'[s] # None => conns'[s].response_time <= now
        BY <1>2, QueryInfoAsksOnly, AsksOnlyFacts DEF MoreTypes, Watched
    <2>3. delayed' \subseteq [kind : {"server_timeout", "server_remove"}, addr : Servers]
        <3>1. \A ss \in SUBSET Servers : {Event("server_timeout", s) : s \in ss}
                  \subseteq [kind : {"server_timeout", "server_remove"}, addr : Servers]
            BY DEF Event
        <3>2. \E ss \in SUBSET Servers :
                  delayed' = delayed \cup {Event("server_timeout", s) : s \in ss}
            BY <1>2, QueryInfoReports DEF Watched
        <3> QED
            BY <3>1, <3>2 DEF TypeOK
    <2>4. MoreTypes' /\ TypeOK'
        BY <1>2, <2>1, <2>2, <2>3
        DEF InfoTask, QueryInfoFromServers, FailsAfter, Return, Goto, AsksOnly,
            MoreTypes, TypeOK
    <2> QED
        BY <2>2, <2>4
<1> QED
    BY <1>1, <1>2 DEF InfoTask

LEMMA CleanupTaskTypes ==
    ASSUME Types, CleanupTask
    PROVE  Types' /\ sent' \subseteq Requests
<1> USE DEF Types
<1>1. CASE Skip("cleanup", "pending")
    BY <1>1 DEF CleanupTask, Skip, Goto, Silent, Sends, asking, MoreTypes, TypeOK
<1>2. CASE CleanupServers
    <2>1. /\ tasks' \in [servers : Nat, info : Nat, cleanup : Nat]
          /\ tasks'.servers = tasks.servers /\ tasks'.info = tasks.info
          /\ tasks'.cleanup <= now + ServerCleanInterval
        BY <1>2, UpdateTimeFacts, ObserverAssumption DEF CleanupServers
    <2>2. /\ conns' \in [Servers -> Connection \cup {None}]
          /\ \A s \in Servers : conns'[s] = None \/ conns'[s] = conns[s]
        BY <1>2 DEF CleanupServers, TypeOK
    <2>3. delayed' \subseteq [kind : {"server_timeout", "server_remove"}, addr : Servers]
        BY <1>2 DEF CleanupServers, Event, Watched, TypeOK
    <2>4. MoreTypes' /\ TypeOK'
        BY <1>2, <2>1, <2>2, <2>3
        DEF CleanupTask, CleanupServers, Goto, MoreTypes, TypeOK
    <2> QED
        BY <1>2, <2>4 DEF CleanupServers, Silent, Sends
<1> QED
    BY <1>1, <1>2 DEF CleanupTask

LEMMA AskServerAsksOnly ==
    ASSUME Types, NEW s \in Servers, AskServer(s)
    PROVE  AsksOnly /\ sent' \subseteq Requests
<1>1. CASE conns[s] = None
    BY <1>1 DEF AskServer, AsksOnly, Silent, Sends, Types, TypeOK
<1>2. CASE conns[s] # None
    <2>1. conns[s] \in Connection
        BY <1>2 DEF Types, TypeOK
    <2>2. ASSUME NEW con, SameButAsked(conns[s], con), conns' = [conns EXCEPT ![s] = con]
          PROVE  AsksOnly
        BY <1>2, <2>2 DEF AsksOnly, SameButAsked, Types, TypeOK
    <2>3. CASE conns' = [conns EXCEPT ![s] = Queried(@)] /\ sent' = Query(s, conns[s])
        BY <2>1, <2>2, <2>3, AskedFacts, QueryFacts
    <2>4. ASSUME NEW half \in HalfQueries(s, conns[s]),
                 conns' = [conns EXCEPT ![s] = half.con], sent' = half.requests
          PROVE  AsksOnly /\ sent' \subseteq Requests
        BY <2>1, <2>2, <2>4, HalfFacts
    <2> QED
        BY <1>2, <2>3, <2>4 DEF AskServer, Sends, FailsAfter
<1> QED
    BY <1>1, <1>2

LEMMA ProcessPendingTypes ==
    ASSUME Types, ProcessPending
    PROVE  Types' /\ sent' \subseteq Requests
<1> USE DEF Types
<1> DEFINE top == pending[Len(pending)]
<1>1. pending' \in Seq(Entries) /\ top \in Entries
    BY PopFacts DEF ProcessPending, MoreTypes
<1>2. CASE top.kind = "master" /\ AskMaster(top.addr)
    <2>1. key' \in [Masters -> 0 .. drawn'] /\ drawn' \in Nat
        BY <1>2, RekeyFacts DEF AskMaster, MoreTypes, TypeOK
    <2>2. sent' \subseteq Requests
        BY <1>2 DEF AskMaster, Sends, Silent, FailsAfter, QueryServers, Requests, MoreTypes, TypeOK
    <2>3. UNCHANGED <<now, masters, conns, delayed, tasks, deadline>>
        BY <1>2 DEF ProcessPending, AskMaster
    <2>4. pc = "pending" /\ ((pc' = "pending" /\ event' = None) \/ pc' = "user")
        BY <1>2 DEF ProcessPending, AskMaster, FailsAfter, Return, Goto
    <2>5. MoreTypes'
        BY <1>1, <2>1, <2>3, <2>4 DEF MoreTypes
    <2>6. \A i \in DOMAIN pending' : pending'[i] \in Entries
        BY <1>1
    <2>7. TypeOK'
        BY <2>1, <2>3, <2>4, <2>6 DEF TypeOK, Entries
    <2> QED
        BY <2>2, <2>5, <2>7
<1>3. CASE top.kind = "server" /\ AskServer(top.addr)
    <2>1. top.addr \in Servers
        BY <1>1, <1>3 DEF Entries
    <2>2. /\ AsksOnly /\ sent' \subseteq Requests
          /\ \A s \in Servers : conns'[s] # None => conns'[s].response_time <= now
        BY <1>3, <2>1, AskServerAsksOnly, AsksOnlyFacts DEF MoreTypes, Watched
    <2>3. UNCHANGED <<now, masters, key, drawn, delayed, tasks, deadline>>
        BY <1>3 DEF ProcessPending, AskServer
    <2>4. pc = "pending" /\ ((pc' = "pending" /\ event' = None) \/ pc' = "user")
        BY <1>3 DEF ProcessPending, AskServer, FailsAfter, Return, Goto
    <2>5. MoreTypes'
        BY <1>1, <2>2, <2>3, <2>4 DEF MoreTypes
    <2>6. \A i \in DOMAIN pending' : pending'[i] \in Entries
        BY <1>1
    <2>7. TypeOK'
        BY <2>2, <2>3, <2>4, <2>6 DEF TypeOK, Entries, AsksOnly
    <2> QED
        BY <2>2, <2>5, <2>7
<1> QED
    BY <1>2, <1>3 DEF ProcessPending

-----------------------------------------------------------------------------
(* Datagrams                                                               *)

\* What a datagram may change, as far as types are concerned.
ConnsTyped ==
    /\ conns' \in [Servers -> Connection \cup {None}]
    /\ \A s \in Servers : conns'[s] # None => conns'[s].response_time <= now

StaysOrReturns == UNCHANGED calling \/ (pc' = "user" /\ deadline' = deadline)

LEMMA OneConnection ==
    ASSUME Types, NEW s \in Servers, NEW con \in Connection \cup {None},
           con # None => con.response_time <= now,
           conns' = [conns EXCEPT ![s] = con]
    PROVE  ConnsTyped
BY DEF ConnsTyped, Types, TypeOK, MoreTypes

LEMMA MasterPacketTypes ==
    ASSUME Types, NEW m, NEW d, HandleMasterPacket(m, d)
    PROVE  ConnsTyped /\ StaysOrReturns /\ sent' = {} /\ UNCHANGED conns
BY DEF HandleMasterPacket, Ignore, Deliver, Return, Silent, Sends, calling,
       ConnsTyped, StaysOrReturns, Types, TypeOK, MoreTypes

LEMMA ChallengeTypes ==
    ASSUME Types, NEW s \in Watched, NEW c \in Challenges, HandleChallenge(s, c)
    PROVE  ConnsTyped /\ StaysOrReturns /\ sent' \subseteq Requests
<1> DEFINE con == [conns[s] EXCEPT !.challenge = c]
<1>1. conns[s] \in Connection /\ conns[s].response_time <= now /\ s \in Servers
    BY DEF Watched, Types, TypeOK, MoreTypes
<1>2. con \in Connection /\ con.response_time = conns[s].response_time
    BY <1>1 DEF Connection
<1>3. QueryPlayers(s, con) \in Requests
    BY <1>1, <1>2 DEF QueryPlayers, Requests, Connection
<1>4. ConnsTyped
    BY <1>1, <1>2, OneConnection DEF HandleChallenge
<1>5. sent' \subseteq Requests
    BY <1>3 DEF HandleChallenge, Silent, Sends, FailsAfter
<1>6. StaysOrReturns
    BY DEF HandleChallenge, FailsAfter, Return, StaysOrReturns
<1> QED
    BY <1>4, <1>5, <1>6

LEMMA PlayersTypes ==
    ASSUME Types, NEW s \in Watched, HandlePlayers(s)
    PROVE  ConnsTyped /\ StaysOrReturns /\ sent' \subseteq Requests
<1> DEFINE con == [conns[s] EXCEPT !.wait_players = FALSE]
<1>1. conns[s] \in Connection /\ conns[s].response_time <= now /\ s \in Servers
    BY DEF Watched, Types, TypeOK, MoreTypes
<1>2. con \in Connection /\ con.response_time = conns[s].response_time
    BY <1>1 DEF Connection
<1>3. conns' = conns \/ conns' = [conns EXCEPT ![s] = con]
    BY DEF HandlePlayers, Ignore
<1>4. ConnsTyped
    BY <1>1, <1>2, <1>3, OneConnection DEF ConnsTyped, Types, TypeOK, MoreTypes
<1> QED
    BY <1>4 DEF HandlePlayers, Ignore, Deliver, Return, Silent, Sends, StaysOrReturns

LEMMA InfoTypes ==
    ASSUME Types, NEW s \in Watched, NEW data \in Infos, HandleInfo(s, data)
    PROVE  /\ ConnsTyped /\ StaysOrReturns /\ sent' \subseteq Requests
           /\ conns' = [conns EXCEPT ![s] =
                  [conns[s] EXCEPT !.response_time = now, !.state = "idle", !.data = data]]
<1> DEFINE con == [conns[s] EXCEPT !.response_time = now, !.state = "idle", !.data = data]
<1>1. conns[s] \in Connection /\ s \in Servers /\ now \in 0 .. MaxNow
    BY DEF Watched, Types, TypeOK
<1>2. con \in Connection /\ con.response_time = now
    BY <1>1 DEF Connection
<1>3. conns' = [conns EXCEPT ![s] = con]
    BY <1>1 DEF HandleInfo, Types, TypeOK
<1>4. ConnsTyped
    <2> HIDE DEF con
    <2>1. con \in Connection \cup {None} /\ con.response_time <= now
        BY <1>1, <1>2
    <2> QED
        BY <1>1, <1>3, <2>1, OneConnection
<1> QED
    BY <1>3, <1>4 DEF HandleInfo, Deliver, Return, Silent, Sends, StaysOrReturns

LEMMA WrongVersionTypes ==
    ASSUME Types, NEW s \in Watched, HandleWrongVersion(s)
    PROVE  ConnsTyped /\ StaysOrReturns /\ sent' \subseteq Requests
<1> DEFINE con == [conns[s] EXCEPT !.protocol = PROTOCOL_VERSION - 1]
<1>1. conns[s] \in Connection /\ conns[s].response_time <= now /\ s \in Servers
    BY DEF Watched, Types, TypeOK, MoreTypes
<1>2. con \in Connection /\ con.response_time = conns[s].response_time
    BY <1>1 DEF Connection, PROTOCOL_VERSION, Versions
<1> HIDE DEF con
<1>3. CASE conns[s].state = "protocol_detection" /\ conns[s].protocol = PROTOCOL_VERSION
    <2>1. CASE conns' = [conns EXCEPT ![s] = Queried(con)] /\ sent' = Query(s, con)
                  /\ UNCHANGED calling
        <3>1. Queried(con) \in Connection /\ Queried(con).response_time <= now
            BY <1>1, <1>2, AskedFacts DEF SameButAsked
        <3>2. ConnsTyped
            BY <1>1, <2>1, <3>1, OneConnection
        <3> QED
            BY <1>1, <1>2, <2>1, <3>2, QueryFacts DEF StaysOrReturns
    <2>2. ASSUME NEW half \in HalfQueries(s, con), conns' = [conns EXCEPT ![s] = half.con],
                 FailsAfter(half.requests, s) /\ UNCHANGED deadline
          PROVE  ConnsTyped /\ StaysOrReturns /\ sent' \subseteq Requests
        <3>1. /\ half.con \in Connection /\ half.con.response_time <= now
              /\ half.requests \subseteq Requests
            BY <1>1, <1>2, HalfFacts DEF SameButAsked
        <3>2. ConnsTyped
            BY <1>1, <2>2, <3>1, OneConnection
        <3> QED
            BY <2>2, <3>1, <3>2 DEF FailsAfter, Return, StaysOrReturns
    <2> QED
        BY <1>3, <2>1, <2>2 DEF HandleWrongVersion, Sends, con
<1>4. CASE ~(conns[s].state = "protocol_detection" /\ conns[s].protocol = PROTOCOL_VERSION)
    <2>1. conns' = [conns EXCEPT ![s] = None]
        BY <1>4 DEF HandleWrongVersion
    <2>2. ConnsTyped
        BY <1>1, <2>1, OneConnection
    <2> QED
        BY <1>4, <2>2 DEF HandleWrongVersion, Deliver, Return, Silent, Sends, StaysOrReturns
<1> QED
    BY <1>3, <1>4

LEMMA ReceiveStays ==
    ASSUME Types, NEW d, WellFormed(d), Receive(d)
    PROVE  ConnsTyped /\ StaysOrReturns /\ sent' \subseteq Requests
<1>1. CASE HandleMasterPacket(d.from, d)
    BY <1>1, MasterPacketTypes
<1>2. CASE Ignore
    BY <1>2 DEF Ignore, Silent, Sends, ConnsTyped, StaysOrReturns, Types, TypeOK, MoreTypes
<1>3. CASE d.from \in Watched /\ HandleServerPacket(d.from, d)
    <2>1. CASE d.kind = "challenge" /\ HandleChallenge(d.from, d.challenge)
        BY <1>3, <2>1, ChallengeTypes DEF WellFormed
    <2>2. CASE HandlePlayers(d.from)
        BY <1>3, <2>2, PlayersTypes
    <2>3. CASE d.kind = "info" /\ HandleInfo(d.from, d.data)
        BY <1>3, <2>3, InfoTypes DEF WellFormed
    <2>4. CASE HandleWrongVersion(d.from)
        BY <1>3, <2>4, WrongVersionTypes
    <2>5. CASE Deliver(Event("server_invalid_packet", d.from)) /\ UNCHANGED conns
        BY <2>5 DEF Deliver, Return, Silent, Sends, ConnsTyped, StaysOrReturns,
                    Types, TypeOK, MoreTypes
    <2> QED
        BY <1>2, <1>3, <2>1, <2>2, <2>3, <2>4, <2>5 DEF HandleServerPacket
<1> QED
    BY <1>1, <1>2, <1>3 DEF Receive

LEMMA ReceiveTypes ==
    ASSUME Types, NEW d, WellFormed(d), Receive(d)
    PROVE  Types' /\ sent' \subseteq Requests
<1>1. ConnsTyped /\ StaysOrReturns /\ sent' \subseteq Requests
    BY ReceiveStays
<1>2. MoreTypes' /\ TypeOK'
    BY <1>1 DEF Receive, ConnsTyped, StaysOrReturns, calling, Types, MoreTypes, TypeOK
<1> QED
    BY <1>1, <1>2 DEF Types

-----------------------------------------------------------------------------
(* Type correctness                                                        *)

TypesIInv == Types /\ HistoryTypes

LEMMA TypesInitially == SysInit => TypesIInv
<1> SUFFICES ASSUME SysInit PROVE TypesIInv
    OBVIOUS
<1>1. TypeOK
    BY ObserverAssumption DEF SysInit, Init, TypeOK
<1>2. MoreTypes
    BY DEF SysInit, Init, MoreTypes
<1>3. HistoryTypes
    BY DEF SysInit, HistoryTypes, NeverAsked
<1> QED
    BY <1>1, <1>2, <1>3 DEF TypesIInv, Types

LEMMA ArrivesWellFormed ==
    ASSUME HistoryTypes, NEW d \in wire \cup Stray
    PROVE  WellFormed(d)
BY SystemAssumption DEF HistoryTypes, WellFormed

LEMMA TypesKept ==
    ASSUME TypesIInv, [SysNext]_sysVars
    PROVE  TypesIInv'
<1> USE DEF TypesIInv
<1>1. CASE UNCHANGED sysVars
    BY <1>1 DEF sysVars, obsVars, asking, calling, Types, TypeOK, MoreTypes, HistoryTypes,
                WellFormed
<1>2. ASSUME SysNext
      PROVE  Types' /\ sent' \subseteq Requests
    <2>1. CASE LibraryUser
        BY <2>1, InsertMasterTypes, RemoveMasterTypes, InsertServerTypes,
           RemoveServerTypes, WaitEventTypes DEF LibraryUser
    <2>2. CASE Turn
        BY <2>2, StutterTypes, ServersTaskTypes, InfoTaskTypes, CleanupTaskTypes,
           ProcessPendingTypes DEF Turn
    <2>3. CASE \E d \in wire \cup Stray : Receive(d)
        BY <2>3, ReceiveTypes, ArrivesWellFormed
    <2>4. CASE Tick
        BY <2>4, StutterTypes
    <2> QED
        BY <1>2, <2>1, <2>2, <2>3, <2>4 DEF SysNext, Loop
<1>3. CASE SysNext
    BY <1>2, <1>3, FollowTypes DEF SysNext
<1> QED
    BY <1>1, <1>3

LEMMA AlwaysTyped == SysSpec => []TypesIInv
BY TypesInitially, TypesKept, PTL DEF SysSpec

\* The state of an observer has its types, whatever arrives and whatever send fails.
THEOREM TypeCorrectness == SysSpec => []TypeOK
<1>1. TypesIInv => TypeOK
    BY DEF TypesIInv, Types
<1> QED
    BY <1>1, AlwaysTyped, PTL

-----------------------------------------------------------------------------
(* Times                                                                   *)

\* The cleanup comes in time for everybody it should remove; and in a turn that gets as
\* far as the socket the info task is due later than now, and soon after the cleanup.
TimesIInv ==
    /\ \A s \in Watched :
          tasks.cleanup < conns[s].response_time + ServerTimeout + ServerCleanInterval
    /\ pc \in {"cleanup", "pending"} => now < tasks.info
    /\ pc = "receive" => now <= tasks.info
    /\ pc \in {"pending", "receive"} => tasks.info <= tasks.cleanup + ServerInterval

\* Nobody joins, and nobody's last answer becomes older.
NoneOlder ==
    \A s \in Watched' : s \in Watched /\ conns[s].response_time <= conns'[s].response_time

Numbers ==
    /\ {now, tasks.servers, tasks.info, tasks.cleanup, ServerInterval, ServerTimeout,
        ServerCleanInterval} \subseteq Nat
    /\ \A s \in Watched : conns[s].response_time \in Nat /\ conns[s].response_time <= now

LEMMA NumbersFacts == Types => Numbers
BY ObserverAssumption DEF Types, TypeOK, MoreTypes, Numbers, Watched, Connection

LEMMA CleanupInTime ==
    ASSUME Types, Types', TimesIInv, NoneOlder, tasks'.cleanup = tasks.cleanup
    PROVE  \A s \in Watched' :
              tasks'.cleanup < conns'[s].response_time + ServerTimeout + ServerCleanInterval
<1>1. Numbers /\ Numbers'
    BY NumbersFacts, PTL
<1> QED
    BY <1>1 DEF TimesIInv, NoneOlder, Numbers

LEMMA SameConnsNoneOlder ==
    ASSUME Types, UNCHANGED conns
    PROVE  NoneOlder
BY NumbersFacts DEF NoneOlder, Numbers, Watched

LEMMA AsksOnlyNoneOlder ==
    ASSUME Types, AsksOnly
    PROVE  NoneOlder
BY NumbersFacts, AsksOnlyFacts DEF NoneOlder, Numbers

LEMMA OneNoneOlder ==
    ASSUME Types, NEW s \in Watched, NEW con,
           con = None \/ conns[s].response_time <= con.response_time,
           conns' = [conns EXCEPT ![s] = con]
    PROVE  NoneOlder
<1>1. \A t \in Servers : t # s => conns'[t] = conns[t]
    BY DEF Types, TypeOK
<1>2. conns'[s] = con
    BY DEF Types, TypeOK, Watched
<1> QED
    BY <1>1, <1>2, NumbersFacts DEF NoneOlder, Numbers, Watched

LEMMA ReceiveNoneOlder ==
    ASSUME Types, NEW d, WellFormed(d), Receive(d)
    PROVE  NoneOlder
<1>1. CASE UNCHANGED conns
    BY <1>1, SameConnsNoneOlder
<1>2. CASE d.from \in Watched /\ HandleServerPacket(d.from, d)
    <2> DEFINE s == d.from
               old == conns[s]
    <2>1. /\ s \in Watched /\ old \in Connection /\ old.response_time <= now
          /\ old.response_time <= old.response_time
        BY <1>2, NumbersFacts DEF Watched, Numbers, Types, TypeOK, MoreTypes
    <2>2. CASE HandleChallenge(s, d.challenge)
        <3> DEFINE con == [old EXCEPT !.challenge = d.challenge]
        <3>1. conns' = [conns EXCEPT ![s] = con]
            BY <2>2 DEF HandleChallenge
        <3>2. con.response_time = old.response_time
            BY <2>1 DEF Connection
        <3> HIDE DEF con
        <3> QED
            BY <2>1, <3>1, <3>2, OneNoneOlder
    <2>3. CASE HandlePlayers(s)
        <3> DEFINE con == [old EXCEPT !.wait_players = FALSE]
        <3>1. UNCHANGED conns \/ conns' = [conns EXCEPT ![s] = con]
            BY <2>3 DEF HandlePlayers, Ignore
        <3>2. con.response_time = old.response_time
            BY <2>1 DEF Connection
        <3> HIDE DEF con
        <3> QED
            BY <1>1, <2>1, <3>1, <3>2, OneNoneOlder
    <2>4. CASE d.kind = "info" /\ HandleInfo(s, d.data)
        <3> DEFINE con == [old EXCEPT !.response_time = now, !.state = "idle", !.data = d.data]
        <3>1. conns' = [conns EXCEPT ![s] = con]
            BY <2>1, <2>4, InfoTypes DEF WellFormed
        <3>2. con.response_time = now
            BY <2>1 DEF Connection
        <3> HIDE DEF con
        <3> QED
            BY <2>1, <3>1, <3>2, OneNoneOlder
    <2>5. CASE HandleWrongVersion(s)
        <3> DEFINE legacy == [old EXCEPT !.protocol = PROTOCOL_VERSION - 1]
        <3>1. legacy \in Connection /\ legacy.response_time = old.response_time
            BY <2>1 DEF Connection, PROTOCOL_VERSION, Versions
        <3> HIDE DEF legacy
        <3>2. CASE conns' = [conns EXCEPT ![s] = None]
            BY <2>1, <3>2, OneNoneOlder
        <3>3. ASSUME NEW con, SameButAsked(legacy, con), conns' = [conns EXCEPT ![s] = con]
              PROVE  NoneOlder
            <4>1. old.response_time <= con.response_time
                BY <2>1, <3>1, <3>3 DEF SameButAsked
            <4> QED
                BY <2>1, <3>3, <4>1, OneNoneOlder
        <3>4. CASE conns' = [conns EXCEPT ![s] = Queried(legacy)]
            BY <3>1, <3>3, <3>4, AskedFacts
        <3>5. CASE \E half \in HalfQueries(s, legacy) : conns' = [conns EXCEPT ![s] = half.con]
            BY <2>1, <3>1, <3>3, <3>5, HalfFacts DEF Watched
        <3> QED
            BY <2>5, <3>2, <3>4, <3>5 DEF HandleWrongVersion, legacy
    <2>6. CASE UNCHANGED conns
        BY <2>6, SameConnsNoneOlder
    <2> QED
        BY <1>2, <2>2, <2>3, <2>4, <2>5, <2>6 DEF HandleServerPacket, Ignore
<1> QED
    BY <1>1, <1>2 DEF Receive, HandleMasterPacket, Ignore

LEMMA UserTimes ==
    ASSUME TypesIInv, Types', TimesIInv, LibraryUser
    PROVE  TimesIInv'
<1>1. tasks' = tasks /\ pc' \in {"user", "turn"}
    <2>1. pc = "user"
        BY DEF LibraryUser, InsertMaster, RemoveMaster, InsertServer, RemoveServer, ByUser,
               WaitEvent
    <2> QED
        BY <2>1 DEF LibraryUser, InsertMaster, RemoveMaster, InsertServer, RemoveServer, ByUser,
               WaitEvent, PopDelayed, Return, Goto, calling
<1>2. CASE UNCHANGED conns
    BY <1>1, <1>2 DEF TimesIInv, Watched
<1>3. ASSUME NEW s \in Servers, NEW players \in BOOLEAN,
             conns' = [conns EXCEPT ![s] = NewConnection(players)], now' = now
      PROVE  TimesIInv'
    <2>1. conns'[s].response_time = now
        BY <1>3 DEF NewConnection, TypesIInv, Types, TypeOK
    <2>2. \A t \in Servers : t # s => conns'[t] = conns[t]
        BY <1>3 DEF TypesIInv, Types, TypeOK
    <2>3. /\ now \in Nat /\ ServerTimeout \in Nat \ {0} /\ ServerCleanInterval \in Nat
          /\ tasks.cleanup \in Nat /\ tasks.cleanup <= now + ServerCleanInterval
        BY ObserverAssumption DEF TypesIInv, Types, TypeOK, MoreTypes
    <2>4. tasks.cleanup < now + ServerTimeout + ServerCleanInterval
        BY <2>3
    <2> QED
        BY <1>1, <2>1, <2>2, <2>4 DEF TimesIInv, Watched
<1>4. CASE \E s \in Servers : conns' = [conns EXCEPT ![s] = None]
    BY <1>1, <1>4 DEF TimesIInv, Watched, TypesIInv, Types, TypeOK
<1> QED
    BY <1>2, <1>3, <1>4 DEF LibraryUser, InsertMaster, RemoveMaster, InsertServer,
       RemoveServer, ByUser, WaitEvent

LEMMA LoopTimes ==
    ASSUME TypesIInv, Types', TimesIInv, Loop
    PROVE  TimesIInv'
<1> USE DEF TypesIInv
<1>1. Numbers /\ Numbers'
    BY NumbersFacts, PTL
<1>2. ServerInterval \in Nat \ {0} /\ ServerCleanInterval \in Nat \ {0} /\ ServerTimeout \in Nat
    BY ObserverAssumption
<1>3. CASE TimeoutElapsed \/ EndTurn \/ ReceiveNothing \/ ReceiveFails
    <2>1. UNCHANGED <<now, conns, tasks>>
        BY <1>3 DEF TimeoutElapsed, EndTurn, ReceiveNothing, ReceiveFails, asking
    <2>2. pc' \in {"user", "turn"} \/ (pc = "pending" /\ pc' = "receive")
        BY <1>3 DEF TimeoutElapsed, EndTurn, ReceiveNothing, ReceiveFails, PopDelayed, Return, Goto
    <2> QED
        BY <1>1, <2>1, <2>2 DEF TimesIInv, Watched, Numbers
<1>4. CASE ServersTask
    <2>1. /\ tasks'.cleanup = tasks.cleanup /\ UNCHANGED conns
          /\ pc' \in {"user", "info"}
        BY <1>4, UpdateTimeFacts, ObserverAssumption
        DEF ServersTask, Skip, QueryServersFromMasters, FailsAfter, Return, Goto, asking
    <2> QED
        BY <2>1, CleanupInTime, SameConnsNoneOlder DEF TimesIInv
<1>5. CASE InfoTask
    <2>1. /\ tasks'.cleanup = tasks.cleanup /\ now' = now
          /\ pc' = "user" \/ (pc' = "cleanup" /\ now < tasks'.info)
        <3>1. CASE Skip("info", "cleanup")
            BY <1>1, <1>5, <3>1 DEF InfoTask, Skip, Due, Goto, asking, Numbers
        <3>2. CASE QueryInfoFromServers
            BY <1>2, <1>5, <3>2, UpdateTimeFacts
            DEF InfoTask, QueryInfoFromServers, FailsAfter, Return, Goto
        <3> QED
            BY <1>5, <3>1, <3>2 DEF InfoTask
    <2>2. NoneOlder
        BY <1>5, QueryInfoAsksOnly, AsksOnlyNoneOlder, SameConnsNoneOlder
        DEF InfoTask, Skip, asking
    <2> QED
        BY <2>1, <2>2, CleanupInTime DEF TimesIInv
<1>6. CASE CleanupTask
    <2>1. CASE Skip("cleanup", "pending")
        <3>1. now < tasks.cleanup /\ tasks.info <= now + ServerInterval
            BY <1>1, <2>1 DEF Skip, Due, Numbers, Types, TypeOK
        <3>2. tasks.info <= tasks.cleanup + ServerInterval
            BY <1>1, <3>1 DEF Numbers
        <3> QED
            BY <1>6, <2>1, <3>2 DEF CleanupTask, Skip, Goto, asking, TimesIInv, Watched
    <2>2. CASE CleanupServers
        <3>1. /\ tasks'.info = tasks.info /\ now < tasks'.cleanup
              /\ tasks'.cleanup <= now + ServerCleanInterval
              /\ now' = now /\ pc' = "pending" /\ pc = "cleanup"
            BY <1>2, <1>6, <2>2, UpdateTimeFacts DEF CleanupTask, CleanupServers, Goto
        <3>2. \A s \in Watched' : s \in Watched /\ IsValid(conns[s]) /\ conns'[s] = conns[s]
            BY <2>2 DEF CleanupServers, Watched
        <3>3. \A s \in Watched' : now - conns[s].response_time < ServerTimeout
            BY <3>2 DEF IsValid
        <3>4. \A s \in Watched' :
                  tasks'.cleanup < conns'[s].response_time + ServerTimeout + ServerCleanInterval
            BY <1>1, <3>1, <3>2, <3>3 DEF Numbers
        <3>5. tasks.info <= now + ServerInterval /\ now < tasks.info
            BY <3>1 DEF Types, TypeOK, TimesIInv
        <3>6. tasks'.info <= tasks'.cleanup + ServerInterval /\ now' < tasks'.info
            BY <1>1, <3>1, <3>5 DEF Numbers
        <3> QED
            BY <3>1, <3>4, <3>6 DEF TimesIInv
    <2> QED
        BY <1>6, <2>1, <2>2 DEF CleanupTask
<1>7. CASE ProcessPending
    <2>1. UNCHANGED tasks /\ now' = now /\ pc' \in {"user", "pending"} /\ pc = "pending"
        BY <1>7 DEF ProcessPending, AskMaster, AskServer, FailsAfter, Return, Goto
    <2>2. NoneOlder
        <3>1. pending[Len(pending)] \in Entries
            BY <1>7, PopFacts DEF ProcessPending, MoreTypes, Types
        <3> QED
            BY <1>7, <3>1, AskServerAsksOnly, AsksOnlyNoneOlder, SameConnsNoneOlder
            DEF ProcessPending, AskMaster, Entries
    <2> QED
        BY <2>1, <2>2, CleanupInTime DEF TimesIInv
<1>8. ASSUME NEW d \in wire \cup Stray, Receive(d)
      PROVE  TimesIInv'
    <2>1. NoneOlder
        BY <1>8, ReceiveNoneOlder, ArrivesWellFormed
    <2>2. StaysOrReturns
        BY <1>8, ReceiveStays, ArrivesWellFormed
    <2>3. UNCHANGED tasks /\ now' = now /\ pc = "receive"
        BY <1>8 DEF Receive
    <2> QED
        BY <2>1, <2>2, <2>3, CleanupInTime DEF TimesIInv, StaysOrReturns, calling
<1> QED
    BY <1>3, <1>4, <1>5, <1>6, <1>7, <1>8 DEF Loop, Turn

LEMMA TickTimes ==
    ASSUME TypesIInv, TimesIInv, Tick
    PROVE  TimesIInv'
<1>1. Numbers /\ (deadline = None \/ deadline \in Nat)
    BY NumbersFacts DEF TypesIInv, Types, MoreTypes
<1>2. pc = "receive" => now + 1 <= tasks.info
    BY <1>1, DeadlineFacts DEF Numbers, Tick
<1> QED
    BY <1>2 DEF Tick, asking, calling, TimesIInv, Watched

LEMMA AlwaysTimely == SysSpec => []TimesIInv
<1>1. SysInit => TimesIInv
    BY DEF SysInit, Init, TimesIInv, Watched
<1>2. ASSUME TypesIInv, TypesIInv', TimesIInv, [SysNext]_sysVars
      PROVE  TimesIInv'
    <2>1. CASE UNCHANGED sysVars
        BY <1>2, <2>1 DEF sysVars, obsVars, asking, calling, TimesIInv, Watched
    <2> QED
        BY <1>2, <2>1, UserTimes, LoopTimes, TickTimes DEF SysNext, TypesIInv
<1> QED
    BY <1>1, <1>2, AlwaysTyped, PTL DEF SysSpec

LEMMA TimesSilence == TypesIInv /\ TimesIInv => SilentServersForgotten
<1> SUFFICES ASSUME TypesIInv, TimesIInv, pc = "receive", NEW s \in Watched
             PROVE  now - conns[s].response_time
                        < ServerTimeout + ServerCleanInterval + ServerInterval
    BY DEF SilentServersForgotten, Waiting
<1>1. Numbers
    BY NumbersFacts DEF TypesIInv
<1>2. /\ tasks.cleanup < conns[s].response_time + ServerTimeout + ServerCleanInterval
      /\ now <= tasks.info /\ tasks.info <= tasks.cleanup + ServerInterval
    BY DEF TimesIInv
<1> QED
    BY <1>1, <1>2 DEF Numbers

\* A server that stopped answering is forgotten in time, for every choice of the
\* intervals (cleanup_servers, receive).
THEOREM SilenceEnds == SysSpec => []SilentServersForgotten
BY TimesSilence, AlwaysTyped, AlwaysTimely, PTL

-----------------------------------------------------------------------------
(* What the user is told                                                   *)

\* A step of a running call that reports nothing, or only that a send failed.
Quiet ==
    /\ UNCHANGED masters /\ Watched' = Watched
    /\ pc # "user"
    /\ \/ pc' # "user" /\ event' = None
       \/ pc' = "user" /\ event' = [kind |-> "error"]

LEMMA QuietPromised ==
    ASSUME Types, Quiet,
           \/ delayed' = delayed
           \/ \E ss \in SUBSET Watched :
                 delayed' = delayed \cup {Event("server_timeout", s) : s \in ss}
    PROVE  [Api!Next]_(Api!apiVars)
<1>1. event = None
    BY DEF Quiet, Types, MoreTypes
<1>2. \E ss \in SUBSET Watched :
          delayed' = delayed \cup {Api!Notice("server_timeout", s) : s \in ss}
    <2>1. delayed' = delayed => delayed' = delayed \cup {Api!Notice("server_timeout", s) : s \in {}}
        OBVIOUS
    <2> QED
        BY <2>1 DEF Event, Api!Notice
<1>3. Api!Overdue
    BY <1>1, <1>2 DEF Quiet, Api!Overdue
<1> QED
    BY <1>3 DEF Api!Next

LEMMA OneWatched ==
    ASSUME Types, NEW s \in Watched, NEW con, conns' = [conns EXCEPT ![s] = con]
    PROVE  Watched' = IF con = None THEN Watched \ {s} ELSE Watched
BY DEF Watched, Types, TypeOK

LEMMA CallPromised ==
    ASSUME Types, NEW t, WaitEvent(t)
    PROVE  [Api!Next]_(Api!apiVars)
<1>1. UNCHANGED masters /\ Watched' = Watched /\ pc = "user"
    BY DEF WaitEvent, Watched
<1>2. CASE delayed # {}
    <2>1. Api!Deliver
        BY <1>1, <1>2 DEF WaitEvent, PopDelayed, Latest, Return, Api!Deliver
    <2> QED
        BY <2>1 DEF Api!Next
<1>3. CASE delayed = {}
    <2>1. Api!Call
        BY <1>1, <1>3 DEF WaitEvent, Goto, Api!Call
    <2> QED
        BY <2>1 DEF Api!Next
<1> QED
    BY <1>2, <1>3

LEMMA UserPromised ==
    ASSUME TypesIInv, TypesIInv', LibraryUser
    PROVE  [Api!Next]_(Api!apiVars)
<1>1. CASE ByUser /\ UNCHANGED delayed
    <2>1. masters' \in SUBSET Masters /\ Watched' \in SUBSET Servers
        BY DEF TypesIInv, Types, TypeOK, Watched
    <2>2. Api!User
        BY <1>1, <2>1 DEF ByUser, calling, Api!User
    <2> QED
        BY <2>2 DEF Api!Next
<1>2. ASSUME NEW t \in Timeouts, WaitEvent(t)
      PROVE  [Api!Next]_(Api!apiVars)
    BY <1>2, CallPromised DEF TypesIInv
<1> QED
    BY <1>1, <1>2 DEF LibraryUser, InsertMaster, RemoveMaster, InsertServer, RemoveServer

LEMMA TurnPromised ==
    ASSUME TypesIInv, Turn
    PROVE  [Api!Next]_(Api!apiVars)
<1> USE DEF TypesIInv
<1>1. CASE TimeoutElapsed
    <2>1. delayed = {}
        BY <1>1 DEF TimeoutElapsed, Types, TypeOK
    <2>2. Api!Report
        BY <1>1, <2>1 DEF TimeoutElapsed, Return, asking, Watched, Api!Report
    <2> QED
        BY <2>2 DEF Api!Next
<1>2. CASE ServersTask
    <2>1. Quiet /\ delayed' = delayed
        BY <1>2 DEF ServersTask, Skip, QueryServersFromMasters, FailsAfter, Return, Goto, asking,
                    Quiet, Watched
    <2> QED
        BY <2>1, QuietPromised
<1>3. CASE InfoTask
    <2>1. CASE Skip("info", "cleanup")
        <3>1. Quiet /\ delayed' = delayed
            BY <1>3, <2>1 DEF InfoTask, Skip, Goto, asking, Quiet, Watched
        <3> QED
            BY <3>1, QuietPromised
    <2>2. CASE QueryInfoFromServers
        <3>1. Watched' = Watched
            BY <2>2, QueryInfoAsksOnly, AsksOnlyFacts
        <3>2. Quiet
            BY <1>3, <2>2, <3>1 DEF InfoTask, QueryInfoFromServers, FailsAfter, Return, Goto, Quiet
        <3>3. \E ss \in SUBSET Watched :
                  delayed' = delayed \cup {Event("server_timeout", s) : s \in ss}
            BY <2>2, QueryInfoReports
        <3> QED
            BY <3>2, <3>3, QuietPromised
    <2> QED
        BY <1>3, <2>1, <2>2 DEF InfoTask
<1>4. CASE CleanupTask
    <2>1. CASE Skip("cleanup", "pending")
        <3>1. Quiet /\ delayed' = delayed
            BY <1>4, <2>1 DEF CleanupTask, Skip, Goto, asking, Quiet, Watched
        <3> QED
            BY <3>1, QuietPromised
    <2>2. CASE CleanupServers
        <3> DEFINE expired == {s \in Watched : ~IsValid(conns[s])}
        <3>1. Watched' = Watched \ expired
            BY <2>2 DEF CleanupServers, Watched
        <3>2. delayed' = delayed \cup {Api!Notice("server_remove", s) : s \in expired}
            BY <2>2 DEF CleanupServers, Event, Api!Notice
        <3>3. expired \in SUBSET Watched
            OBVIOUS
        <3>4. UNCHANGED masters /\ pc # "user" /\ pc' # "user" /\ UNCHANGED event
            BY <1>4, <2>2 DEF CleanupTask, CleanupServers, Goto, Types, MoreTypes
        <3> HIDE DEF expired
        <3>5. Api!Expire
            BY <3>1, <3>2, <3>3, <3>4 DEF Api!Expire
        <3> QED
            BY <3>5 DEF Api!Next
    <2> QED
        BY <1>4, <2>1, <2>2 DEF CleanupTask
<1>5. CASE ProcessPending
    <2>1. Watched' = Watched
        <3>1. pending[Len(pending)] \in Entries
            BY <1>5, PopFacts DEF ProcessPending, MoreTypes, Types
        <3> QED
            BY <1>5, <3>1, AskServerAsksOnly, AsksOnlyFacts
            DEF ProcessPending, AskMaster, Entries, Watched
    <2>2. Quiet /\ delayed' = delayed
        BY <1>5, <2>1 DEF ProcessPending, AskMaster, AskServer, FailsAfter, Return, Goto, Quiet
    <2> QED
        BY <2>2, QuietPromised
<1>6. CASE EndTurn
    <2>1. CASE delayed # {}
        <3>1. Api!Deliver
            BY <1>6, <2>1 DEF EndTurn, PopDelayed, Latest, Return, Watched, Api!Deliver
        <3> QED
            BY <3>1 DEF Api!Next
    <2>2. CASE delayed = {}
        <3>1. Quiet /\ delayed' = delayed
            BY <1>6, <2>2 DEF EndTurn, Goto, Quiet, Watched
        <3> QED
            BY <3>1, QuietPromised
    <2> QED
        BY <2>1, <2>2
<1>7. CASE ReceiveNothing \/ ReceiveFails
    <2>1. Quiet /\ delayed' = delayed
        BY <1>7 DEF ReceiveNothing, ReceiveFails, Goto, Return, asking, Quiet, Watched
    <2> QED
        BY <2>1, QuietPromised
<1> QED
    BY <1>1, <1>2, <1>3, <1>4, <1>5, <1>6, <1>7 DEF Turn

LEMMA ReportPromised ==
    ASSUME Types, pc = "receive", UNCHANGED <<masters, delayed>>, pc' = "user",
           \/ /\ Watched' = Watched
              /\ event'.kind \in {"server_list", "master_invalid_packet", "server_info"}
              /\ event'.addr \in masters
           \/ /\ Watched' = Watched
              /\ event'.kind \in {"server_info", "server_players", "server_invalid_packet"}
              /\ event'.addr \in Watched
           \/ /\ event'.kind = "server_invalid_protocol"
              /\ event'.addr \in Watched /\ Watched' = Watched \ {event'.addr}
    PROVE  [Api!Next]_(Api!apiVars)
<1>1. delayed = {}
    BY DEF Types, TypeOK
<1>2. Api!Report
    BY <1>1 DEF Api!Report
<1> QED
    BY <1>2 DEF Api!Next

LEMMA ReceivePromised ==
    ASSUME Types, NEW d, WellFormed(d), Receive(d)
    PROVE  [Api!Next]_(Api!apiVars)
<1>1. UNCHANGED <<masters, delayed>> /\ pc = "receive" /\ event = None
    BY DEF Receive, Types, MoreTypes
<1>2. CASE Ignore
    <2>1. Quiet
        BY <1>1, <1>2 DEF Ignore, calling, Quiet, Watched
    <2> QED
        BY <1>1, <2>1, QuietPromised
<1>3. CASE d.from \in masters /\ HandleMasterPacket(d.from, d) /\ ~Ignore
    <2>1. /\ Watched' = Watched /\ pc' = "user" /\ event'.addr \in masters
          /\ event'.kind \in {"server_list", "master_invalid_packet", "server_info"}
        BY <1>3 DEF HandleMasterPacket, Deliver, Return, Event, Watched
    <2> QED
        BY <1>1, <2>1, ReportPromised
<1>4. CASE d.from \in Watched /\ HandleServerPacket(d.from, d) /\ ~Ignore
    <2> DEFINE s == d.from
               old == conns[s]
    <2>1. s \in Watched /\ s \in Servers /\ old \in Connection
        BY <1>4 DEF Watched, Types, TypeOK
    <2>2. CASE d.kind = "challenge" /\ HandleChallenge(s, d.challenge)
        <3> DEFINE con == [old EXCEPT !.challenge = d.challenge]
        <3>1. con # None
            <4>1. con \in Connection
                BY <2>1, <2>2 DEF Connection, WellFormed
            <4> HIDE DEF con
            <4> QED
                BY <4>1, ObserverAssumption
        <3>2. conns' = [conns EXCEPT ![s] = con]
            BY <2>2 DEF HandleChallenge
        <3>3. Watched' = Watched
            <4> HIDE DEF con
            <4> QED
                BY <2>1, <3>1, <3>2, OneWatched
        <3>4. Quiet
            BY <1>1, <2>2, <3>3 DEF HandleChallenge, FailsAfter, Return, calling, Quiet
        <3> QED
            BY <1>1, <3>4, QuietPromised
    <2>3. CASE HandlePlayers(s)
        <3> DEFINE con == [old EXCEPT !.wait_players = FALSE]
        <3>1. con # None
            <4>1. con \in Connection
                BY <2>1 DEF Connection
            <4> HIDE DEF con
            <4> QED
                BY <4>1, ObserverAssumption
        <3>2. conns' = [conns EXCEPT ![s] = con]
            BY <1>4, <2>3 DEF HandlePlayers
        <3>3. Watched' = Watched
            <4> HIDE DEF con
            <4> QED
                BY <2>1, <3>1, <3>2, OneWatched
        <3>4. pc' = "user" /\ event'.kind = "server_players" /\ event'.addr = s
            BY <1>4, <2>3 DEF HandlePlayers, Deliver, Return, Event
        <3> QED
            BY <1>1, <2>1, <3>3, <3>4, ReportPromised
    <2>4. CASE d.kind = "info" /\ HandleInfo(s, d.data)
        <3> DEFINE con == [old EXCEPT !.response_time = now, !.state = "idle", !.data = d.data]
        <3>1. conns' = [conns EXCEPT ![s] = con]
            BY <2>1, <2>4, InfoTypes DEF WellFormed
        <3>2. con # None
            <4>1. d.data \in Infos
                BY <2>4 DEF WellFormed
            <4>2. now \in 0 .. MaxNow
                BY DEF Types, TypeOK
            <4>3. con \in Connection
                BY <2>1, <4>1, <4>2 DEF Connection
            <4> HIDE DEF con
            <4> QED
                BY <4>3, ObserverAssumption
        <3>3. Watched' = Watched
            <4> HIDE DEF con
            <4> QED
                BY <2>1, <3>1, <3>2, OneWatched
        <3>4. pc' = "user" /\ event'.kind = "server_info" /\ event'.addr = s
            BY <2>4 DEF HandleInfo, Deliver, Return
        <3> QED
            BY <1>1, <2>1, <3>3, <3>4, ReportPromised
    <2>5. CASE HandleWrongVersion(s)
        <3> DEFINE legacy == [old EXCEPT !.protocol = PROTOCOL_VERSION - 1]
        <3>1. legacy \in Connection
            BY <2>1 DEF Connection, PROTOCOL_VERSION, Versions
        <3> HIDE DEF legacy
        <3>2. CASE conns' = [conns EXCEPT ![s] = None]
                   /\ Deliver(Event("server_invalid_protocol", s))
            <4>1. Watched' = Watched \ {s}
                BY <2>1, <3>2, OneWatched
            <4>2. pc' = "user" /\ event'.kind = "server_invalid_protocol" /\ event'.addr = s
                BY <3>2 DEF Deliver, Return, Event
            <4> QED
                BY <1>1, <2>1, <4>1, <4>2, ReportPromised
        <3>3. ASSUME NEW con, SameButAsked(legacy, con), conns' = [conns EXCEPT ![s] = con],
                     NEW requests, UNCHANGED calling \/ FailsAfter(requests, s)
              PROVE  [Api!Next]_(Api!apiVars)
            <4>1. Watched' = Watched
                BY <2>1, <3>3, OneWatched, ObserverAssumption DEF SameButAsked
            <4>2. Quiet
                BY <1>1, <3>3, <4>1 DEF FailsAfter, Return, calling, Quiet
            <4> QED
                BY <1>1, <4>2, QuietPromised
        <3>4. CASE conns' = [conns EXCEPT ![s] = Queried(legacy)] /\ UNCHANGED calling
            BY <3>1, <3>3, <3>4, AskedFacts
        <3>5. ASSUME NEW half \in HalfQueries(s, legacy),
                     conns' = [conns EXCEPT ![s] = half.con], FailsAfter(half.requests, s)
              PROVE  [Api!Next]_(Api!apiVars)
            BY <2>1, <3>1, <3>3, <3>5, HalfFacts
        <3> QED
            BY <2>5, <3>2, <3>4, <3>5 DEF HandleWrongVersion, legacy
    <2>6. CASE Deliver(Event("server_invalid_packet", s)) /\ UNCHANGED conns
        <3>1. /\ Watched' = Watched /\ pc' = "user"
              /\ event'.kind = "server_invalid_packet" /\ event'.addr = s
            BY <2>6 DEF Deliver, Return, Event, Watched
        <3> QED
            BY <1>1, <2>1, <3>1, ReportPromised
    <2> QED
        BY <1>4, <2>2, <2>3, <2>4, <2>5, <2>6 DEF HandleServerPacket
<1> QED
    BY <1>2, <1>3, <1>4 DEF Receive

\* Every step of an observer is one its user may rely on: events are about who is
\* watched, a server leaves with an event, a notice is delivered once and before the
\* next wait.  Whatever arrives, and whatever send fails.
THEOREM PromiseKept == SysSpec => KeepsPromise
<1>1. SysInit => Api!Init
    BY DEF SysInit, Init, Api!Init, Watched
<1>2. ASSUME TypesIInv, TypesIInv', [SysNext]_sysVars
      PROVE  [Api!Next]_(Api!apiVars)
    <2>1. CASE UNCHANGED sysVars
        BY <2>1 DEF sysVars, obsVars, asking, calling, Api!apiVars, Watched
    <2>2. CASE LibraryUser
        BY <1>2, <2>2, UserPromised
    <2>3. CASE Turn
        BY <1>2, <2>3, TurnPromised
    <2>4. CASE \E d \in wire \cup Stray : Receive(d)
        BY <1>2, <2>4, ReceivePromised, ArrivesWellFormed DEF TypesIInv
    <2>5. CASE Tick
        BY <2>5 DEF Tick, asking, calling, Api!apiVars, Watched
    <2> QED
        BY <1>2, <2>1, <2>2, <2>3, <2>4, <2>5 DEF SysNext, Loop
<1> QED
    BY <1>1, <1>2, AlwaysTyped, PTL DEF SysSpec, KeepsPromise, Api!Spec

-----------------------------------------------------------------------------
(* Who has been asked                                                      *)

ServerAsked(s) ==
    /\ ~IsPending("server", s) => asked[s][conns[s].protocol] # None
    /\ conns[s].protocol = 48 => \A v \in Versions : asked[s][v] # None
    /\ conns[s].state # "protocol_detection" => conns[s].data # None
    /\ conns[s].state # "idle" /\ ~IsPending("server", s) =>
          \E v \in Versions : asked[s][v] # None /\ conns[s].response_time <= asked[s][v]

ListComing(m) == \E d \in wire : d.from = m /\ d.kind = "list" /\ d.key = key[m]

\* Whoever is not waiting in the stack has been asked: a server with its version, with
\* both if the legacy one is tried, and after its last answer if it is waited for; a
\* master with the key its answer will be compared with.
AskedIInv ==
    /\ \A s \in Servers : \A v \in Versions : asked[s][v] # None => asked[s][v] <= now
    /\ \A s \in Watched \ failed : ServerAsked(s)
    /\ \A m \in masters \ failed : ~IsPending("master", m) => ListComing(m)

\* What a step may do to a server, so that this stays true.
LeftAlone(s) ==
    /\ s \in Watched
    /\ conns'[s].protocol = conns[s].protocol /\ conns'[s].state = conns[s].state
    /\ conns'[s].data = conns[s].data /\ conns'[s].response_time = conns[s].response_time
    /\ IsPending("server", s) => IsPending("server", s)'

JustAsked(s) ==
    /\ s \in Watched /\ SameButAsked(conns[s], conns'[s])
    /\ GetServerInfo(s, conns[s]) \in sent'

JustAnswered(s) ==
    /\ s \in Watched
    /\ conns'[s].protocol = conns[s].protocol /\ conns'[s].state = "idle"
    /\ conns'[s].data # None
    /\ IsPending("server", s) => IsPending("server", s)'

TriesLegacy(s) ==
    /\ s \in Watched /\ ~IsPending("server", s)
    /\ conns[s].protocol = 49 /\ conns'[s].protocol = 48
    /\ conns'[s].state = "protocol_detection"
    /\ conns'[s].response_time = conns[s].response_time
    /\ [to |-> s, kind |-> "get_info", protocol |-> 48] \in sent'

JustInserted(s) ==
    /\ IsPending("server", s)'
    /\ conns'[s].protocol = 49 /\ conns'[s].state = "protocol_detection"

ServerFine(s) ==
    LeftAlone(s) \/ JustAsked(s) \/ JustAnswered(s) \/ TriesLegacy(s) \/ JustInserted(s)

MasterFine(m) ==
    \/ IsPending("master", m)'
    \/ m \in masters /\ key'[m] = key[m] /\ ~IsPending("master", m)
    \/ [to |-> m, kind |-> "query_servers", key |-> key'[m]] \in sent'

Fine ==
    /\ now <= now' /\ failed \subseteq failed'
    /\ \A s \in Watched' \ failed' : ServerFine(s)
    /\ \A m \in masters' \ failed' : MasterFine(m)

\* The history follows the requests, and forgets nothing of who is watched.
LEMMA HistoryFacts ==
    ASSUME TypesIInv, TypesIInv', AskedIInv, Follow, now <= now'
    PROVE  /\ wire \subseteq wire'
           /\ \A r \in sent' : Answers(r) \subseteq wire'
           /\ \A s \in Servers, v \in Versions : asked'[s][v] # None => asked'[s][v] <= now'
           /\ \A s \in Watched, v \in Versions :
                 /\ asked[s][v] # None => /\ asked'[s][v] # None
                                          /\ asked[s][v] <= asked'[s][v]
                 /\ [to |-> s, kind |-> "get_info", protocol |-> v] \in sent' =>
                       asked'[s][v] = now /\ now # None
<1>1. now \in 0 .. MaxNow /\ now' \in 0 .. MaxNow /\ MaxNow \in Nat
    BY ObserverAssumption DEF TypesIInv, Types, TypeOK
<1>2. \A s \in Servers, v \in Versions :
          /\ asked[s][v] # None => asked[s][v] \in Nat /\ asked[s][v] <= now
          /\ asked'[s][v] = IF conns[s] = None THEN None
                            ELSE IF [to |-> s, kind |-> "get_info", protocol |-> v] \in sent'
                                 THEN now ELSE asked[s][v]
    BY <1>1 DEF AskedIInv, TypesIInv, HistoryTypes, Follow, NeverAsked
<1>3. now # None
    BY <1>1, ObserverAssumption
<1>4. wire \subseteq wire' /\ \A r \in sent' : Answers(r) \subseteq wire'
    BY DEF Follow
<1>5. \A s \in Servers, v \in Versions : asked'[s][v] # None => asked'[s][v] <= now'
    <2> SUFFICES ASSUME NEW s \in Servers, NEW v \in Versions, asked'[s][v] # None
                 PROVE  asked'[s][v] <= now'
        OBVIOUS
    <2>1. CASE asked'[s][v] = now
        BY <1>1, <2>1
    <2>2. CASE asked'[s][v] = asked[s][v]
        <3>1. asked[s][v] \in Nat /\ asked[s][v] <= now
            BY <1>2, <2>2
        <3> QED
            BY <1>1, <2>2, <3>1
    <2> QED
        BY <1>2, <2>1, <2>2
<1>6. ASSUME NEW s \in Watched, NEW v \in Versions
      PROVE  /\ asked[s][v] # None => /\ asked'[s][v] # None
                                      /\ asked[s][v] <= asked'[s][v]
             /\ [to |-> s, kind |-> "get_info", protocol |-> v] \in sent' =>
                   asked'[s][v] = now /\ now # None
    <2>1. s \in Servers /\ conns[s] # None
        BY DEF Watched
    <2> QED
        BY <1>1, <1>2, <1>3, <2>1
<1> QED
    BY <1>4, <1>5, <1>6

LEMMA ServerStaysAsked ==
    ASSUME TypesIInv, TypesIInv', AskedIInv, Follow, now <= now',
           NEW s \in Watched', s \notin failed, ServerFine(s)
    PROVE  ServerAsked(s)'
<1> USE DEF TypesIInv
<1>1. /\ now \in Nat
      /\ s \in Watched => /\ ServerAsked(s) /\ conns[s] \in Connection
                          /\ conns[s].response_time \in Nat /\ conns[s].response_time <= now
                          /\ conns[s].protocol \in Versions
    BY NumbersFacts DEF AskedIInv, Numbers, Watched, Types, TypeOK, Connection
<1>2. /\ s \in Servers /\ conns'[s] \in Connection /\ conns'[s].protocol \in Versions
    BY DEF Watched, Types, TypeOK, Connection
<1>3. CASE LeftAlone(s)
    <2>1. s \in Watched /\ ServerAsked(s)
        BY <1>1, <1>3 DEF LeftAlone
    <2>2. ~IsPending("server", s)' => asked'[s][conns'[s].protocol] # None
        BY <1>1, <1>3, <2>1, HistoryFacts DEF LeftAlone, ServerAsked
    <2>3. conns'[s].protocol = 48 => \A v \in Versions : asked'[s][v] # None
        BY <1>3, <2>1, HistoryFacts DEF LeftAlone, ServerAsked
    <2>4. conns'[s].state # "protocol_detection" => conns'[s].data # None
        BY <1>3, <2>1 DEF LeftAlone, ServerAsked
    <2>5. ASSUME conns'[s].state # "idle", ~IsPending("server", s)'
          PROVE  \E v \in Versions : asked'[s][v] # None /\ conns'[s].response_time <= asked'[s][v]
        <3>1. PICK v \in Versions : asked[s][v] # None /\ conns[s].response_time <= asked[s][v]
            BY <1>3, <2>1, <2>5 DEF LeftAlone, ServerAsked
        <3>2. asked'[s][v] # None /\ asked[s][v] <= asked'[s][v]
            BY <2>1, <3>1, HistoryFacts
        <3>3. asked[s][v] \in Nat /\ asked'[s][v] \in Nat
            BY <1>2, <3>1, <3>2, ObserverAssumption DEF HistoryTypes
        <3>4. conns[s].response_time <= asked'[s][v]
            BY <1>1, <2>1, <3>1, <3>2, <3>3
        <3> QED
            BY <1>3, <3>2, <3>4 DEF LeftAlone
    <2> QED
        BY <2>2, <2>3, <2>4, <2>5 DEF ServerAsked
<1>4. CASE JustAsked(s)
    <2>1. /\ s \in Watched /\ ServerAsked(s)
          /\ conns'[s].protocol = conns[s].protocol
          /\ conns'[s].response_time = conns[s].response_time
          /\ conns'[s].data = conns[s].data
          /\ conns'[s].state = IF conns[s].state = "idle" THEN "waiting_info" ELSE conns[s].state
        BY <1>1, <1>4 DEF JustAsked, SameButAsked
    <2>2. asked'[s][conns'[s].protocol] = now /\ now # None
        BY <1>1, <1>4, <2>1, HistoryFacts DEF JustAsked, GetServerInfo
    <2>3. conns'[s].protocol = 48 => \A v \in Versions : asked'[s][v] # None
        BY <2>1, HistoryFacts DEF ServerAsked
    <2>4. conns'[s].state # "protocol_detection" => conns'[s].data # None
        BY <2>1 DEF ServerAsked
    <2> QED
        BY <1>1, <1>2, <2>1, <2>2, <2>3, <2>4 DEF ServerAsked
<1>5. CASE JustAnswered(s)
    <2>1. s \in Watched /\ ServerAsked(s)
        BY <1>1, <1>5 DEF JustAnswered
    <2>2. ~IsPending("server", s)' => asked'[s][conns'[s].protocol] # None
        BY <1>1, <1>5, <2>1, HistoryFacts DEF JustAnswered, ServerAsked
    <2>3. conns'[s].protocol = 48 => \A v \in Versions : asked'[s][v] # None
        BY <1>5, <2>1, HistoryFacts DEF JustAnswered, ServerAsked
    <2> QED
        BY <1>5, <2>2, <2>3 DEF JustAnswered, ServerAsked
<1>6. CASE TriesLegacy(s)
    <2>1. s \in Watched /\ asked[s][49] # None
        BY <1>1, <1>6 DEF TriesLegacy, ServerAsked
    <2>2. asked'[s][48] = now /\ now # None /\ asked'[s][49] # None
        BY <1>6, <2>1, HistoryFacts DEF TriesLegacy, Versions
    <2>3. conns[s].response_time <= now
        BY <1>1, <2>1
    <2> QED
        BY <1>6, <2>2, <2>3 DEF TriesLegacy, ServerAsked, Versions
<1>7. CASE JustInserted(s)
    BY <1>7 DEF JustInserted, ServerAsked
<1> QED
    BY <1>3, <1>4, <1>5, <1>6, <1>7 DEF ServerFine

LEMMA FineKeepsAsked ==
    ASSUME TypesIInv, TypesIInv', AskedIInv, Follow, Fine
    PROVE  AskedIInv'
<1>1. now <= now' /\ failed \subseteq failed'
    BY DEF Fine
<1>2. \A s \in Servers : \A v \in Versions : asked'[s][v] # None => asked'[s][v] <= now'
    BY <1>1, HistoryFacts
<1>3. ASSUME NEW s \in Watched', s \notin failed'
      PROVE  ServerAsked(s)'
    BY <1>1, <1>3, ServerStaysAsked DEF Fine
<1>4. ASSUME NEW m \in masters', m \notin failed', ~IsPending("master", m)'
      PROVE  ListComing(m)'
    <2>1. CASE m \in masters /\ key'[m] = key[m] /\ ~IsPending("master", m)
        <3>1. ListComing(m)
            BY <1>1, <1>4, <2>1 DEF AskedIInv
        <3> QED
            BY <1>1, <2>1, <3>1, HistoryFacts DEF ListComing
    <2>2. CASE [to |-> m, kind |-> "query_servers", key |-> key'[m]] \in sent'
        BY <1>1, <2>2, ListAnswered, HistoryFacts DEF ListComing
    <2> QED
        BY <1>4, <2>1, <2>2 DEF Fine, MasterFine
<1> QED
    BY <1>2, <1>3, <1>4 DEF AskedIInv

LEMMA PendingFacts ==
    /\ \A s, m : Pending("server", s) # Pending("master", m)
    /\ \A s, t : s # t => Pending("server", s) # Pending("server", t)
    /\ \A m, n : m # n => Pending("master", m) # Pending("master", n)
BY DEF Pending

LEMMA StillPending ==
    ASSUME NEW x,
           \A y : y # x /\ (\E i \in DOMAIN pending : pending[i] = y)
              => \E i \in DOMAIN pending' : pending'[i] = y
    PROVE  \A kind, a : Pending(kind, a) # x /\ IsPending(kind, a) => IsPending(kind, a)'
BY DEF IsPending

LEMMA AloneFacts ==
    ASSUME NEW s \in Watched', conns'[s] = conns[s],
           IsPending("server", s) => IsPending("server", s)'
    PROVE  ServerFine(s)
<1>1. s \in Watched
    BY DEF Watched
<1> QED
    BY <1>1 DEF ServerFine, LeftAlone

LEMMA MasterAloneFacts ==
    ASSUME NEW m \in masters, key'[m] = key[m],
           IsPending("master", m) => IsPending("master", m)'
    PROVE  MasterFine(m)
BY DEF MasterFine

LEMMA UndisturbedFine ==
    ASSUME UNCHANGED <<conns, masters, key, pending, failed>>, now <= now'
    PROVE  Fine
<1>1. \A kind, a : IsPending(kind, a) => IsPending(kind, a)'
    BY DEF IsPending
<1> QED
    BY <1>1, AloneFacts, MasterAloneFacts DEF Fine

LEMMA NowFacts == Types => now <= now
BY NumbersFacts DEF Numbers

LEMMA UserFine ==
    ASSUME TypesIInv, TypesIInv', LibraryUser
    PROVE  Fine
<1> USE DEF TypesIInv
<1>1. now <= now' /\ UNCHANGED failed
    BY NowFacts DEF LibraryUser, InsertMaster, RemoveMaster, InsertServer, RemoveServer, ByUser,
                    WaitEvent, Silent, Sends
<1>2. CASE UNCHANGED <<conns, masters, key, pending>>
    BY <1>1, <1>2, UndisturbedFine
<1>3. ASSUME NEW e \in Entries, pending' = Append(pending, e)
      PROVE  /\ \E i \in DOMAIN pending' : pending'[i] = e
             /\ \A kind, a : IsPending(kind, a) => IsPending(kind, a)'
    <2>1. pending \in Seq(Entries)
        BY DEF Types, MoreTypes
    <2>2. /\ \E i \in DOMAIN pending' : pending'[i] = e
          /\ \A y : (\E i \in DOMAIN pending : pending[i] = y)
                => \E i \in DOMAIN pending' : pending'[i] = y
        BY <1>3, <2>1, AppendFacts
    <2> QED
        BY <2>2 DEF IsPending
<1>4. ASSUME NEW e \in Entries, pending' = SwapRemove(pending, e)
      PROVE  \A kind, a : Pending(kind, a) # e /\ IsPending(kind, a) => IsPending(kind, a)'
    <2>1. pending \in Seq(Entries)
        BY DEF Types, MoreTypes
    <2>2. \A y : y # e /\ (\E i \in DOMAIN pending : pending[i] = y)
              => \E i \in DOMAIN pending' : pending'[i] = y
        <3> DEFINE rest == SwapRemove(pending, e)
        <3>1. \A y : y # e /\ Has(pending, y) => Has(rest, y)
            BY <1>4, <2>1, SwapRemoveFacts
        <3>2. pending' = rest
            BY <1>4
        <3> HIDE DEF rest
        <3> QED
            BY <3>1, <3>2 DEF Has
    <2> QED
        BY <2>2, StillPending
<1>5. ASSUME NEW m \in Masters, InsertMaster(m), m \notin masters
      PROVE  Fine
    <2>1. Pending("master", m) \in Entries /\ pending' = Append(pending, Pending("master", m))
        BY <1>5 DEF InsertMaster, Pending, Entries
    <2>2. \A s \in Watched' : ServerFine(s)
        BY <1>3, <1>5, <2>1, AloneFacts DEF InsertMaster
    <2>3. \A n \in masters' : MasterFine(n)
        <3>1. MasterFine(m)
            BY <1>3, <2>1 DEF MasterFine, IsPending
        <3>2. \A n \in masters : key'[n] = key[n]
            BY <1>5 DEF InsertMaster, Types, TypeOK
        <3> QED
            BY <1>3, <1>5, <2>1, <3>1, <3>2, MasterAloneFacts DEF InsertMaster
    <2> QED
        BY <1>1, <2>2, <2>3 DEF Fine
<1>6. ASSUME NEW m \in Masters, RemoveMaster(m)
      PROVE  Fine
    <2>1. Pending("master", m) \in Entries /\ pending' = SwapRemove(pending, Pending("master", m))
        BY <1>6 DEF RemoveMaster, Pending, Entries
    <2>2. \A s \in Watched' : ServerFine(s)
        BY <1>4, <1>6, <2>1, AloneFacts, PendingFacts DEF RemoveMaster
    <2>3. \A n \in masters' : MasterFine(n)
        BY <1>4, <1>6, <2>1, MasterAloneFacts, PendingFacts DEF RemoveMaster
    <2> QED
        BY <1>1, <2>2, <2>3 DEF Fine
<1>7. ASSUME NEW s \in Servers, NEW players \in BOOLEAN, InsertServer(s, players),
             conns[s] = None
      PROVE  Fine
    <2>1. Pending("server", s) \in Entries /\ pending' = Append(pending, Pending("server", s))
        BY <1>7 DEF InsertServer, Pending, Entries
    <2>2. conns' = [conns EXCEPT ![s] = NewConnection(players)]
        BY <1>7 DEF InsertServer
    <2>3. ServerFine(s)
        <3>1. conns'[s].protocol = 49 /\ conns'[s].state = "protocol_detection"
            BY <2>2 DEF NewConnection, PROTOCOL_VERSION, Types, TypeOK
        <3> QED
            BY <1>3, <2>1, <3>1 DEF ServerFine, JustInserted, IsPending
    <2>4. ASSUME NEW t \in Watched', t # s
          PROVE  ServerFine(t)
        <3>1. conns'[t] = conns[t]
            BY <2>2, <2>4 DEF Watched, Types, TypeOK
        <3> QED
            BY <1>3, <2>1, <3>1, AloneFacts
    <2>5. \A n \in masters' : MasterFine(n)
        BY <1>3, <1>7, <2>1, MasterAloneFacts DEF InsertServer
    <2> QED
        BY <1>1, <2>3, <2>4, <2>5 DEF Fine
<1>8. ASSUME NEW s \in Servers, RemoveServer(s)
      PROVE  Fine
    <2>1. Pending("server", s) \in Entries /\ pending' = SwapRemove(pending, Pending("server", s))
        BY <1>8 DEF RemoveServer, Pending, Entries
    <2>2. ASSUME NEW t \in Watched'
          PROVE  ServerFine(t)
        <3>1. t # s /\ conns'[t] = conns[t]
            BY <1>8, <2>2 DEF RemoveServer, Watched, Types, TypeOK
        <3> QED
            BY <1>4, <2>1, <3>1, AloneFacts, PendingFacts
    <2>3. \A n \in masters' : MasterFine(n)
        BY <1>4, <1>8, <2>1, MasterAloneFacts, PendingFacts DEF RemoveServer
    <2> QED
        BY <1>1, <2>2, <2>3 DEF Fine
<1> QED
    BY <1>2, <1>5, <1>6, <1>7, <1>8 DEF LibraryUser, InsertMaster, InsertServer, WaitEvent

LEMMA ServersTaskFine ==
    ASSUME Types, ServersTask
    PROVE  Fine
<1>1. now <= now' /\ UNCHANGED <<conns, masters, pending>>
    BY NowFacts DEF ServersTask, Skip, QueryServersFromMasters, asking
<1>2. CASE Skip("servers", "info")
    BY <1>1, <1>2, UndisturbedFine DEF Skip, Silent, Sends, asking
<1>3. CASE QueryServersFromMasters
    <2> DEFINE requests(ms) == {QueryServers(m) : m \in {n \in ms : ~IsPending("master", n)}}
    <2>1. \A s \in Watched' : ServerFine(s)
        BY <1>1, AloneFacts DEF IsPending
    <2>2. ASSUME NEW ms \in SUBSET masters, Rekey(ms), requests(ms) \subseteq sent', NEW m \in ms
          PROVE  MasterFine(m)
        <3>1. key'[m] = drawn + 1
            BY <2>2 DEF Rekey, Types, TypeOK
        <3>2. CASE IsPending("master", m)
            BY <1>1, <3>2 DEF MasterFine, IsPending
        <3>3. CASE ~IsPending("master", m)
            <4>1. QueryServers(m) \in sent'
                BY <2>2, <3>3
            <4> QED
                BY <3>1, <4>1 DEF MasterFine, QueryServers
        <3> QED
            BY <3>2, <3>3
    <2>3. CASE Rekey(masters) /\ Sends(requests(masters))
        BY <1>1, <2>1, <2>2, <2>3 DEF Sends, Fine
    <2>4. ASSUME NEW before \in SUBSET masters, NEW m \in masters \ before,
                 Rekey(before \cup {m}), FailsAfter(requests(before), m)
          PROVE  Fine
        <3>1. failed' = failed \cup {m} /\ sent' = requests(before)
            BY <2>4 DEF FailsAfter
        <3>2. ASSUME NEW n \in before
              PROVE  MasterFine(n)
            <4>1. key'[n] = drawn + 1
                BY <2>4, <3>2 DEF Rekey, Types, TypeOK
            <4>2. CASE IsPending("master", n)
                BY <1>1, <4>2 DEF MasterFine, IsPending
            <4>3. CASE ~IsPending("master", n)
                <5>1. QueryServers(n) \in sent'
                    BY <3>1, <3>2, <4>3
                <5> QED
                    BY <4>1, <5>1 DEF MasterFine, QueryServers
            <4> QED
                BY <4>2, <4>3
        <3>3. ASSUME NEW n \in masters \ before, n # m
              PROVE  MasterFine(n)
            <4>1. key'[n] = key[n]
                BY <2>4, <3>3 DEF Rekey, Types, TypeOK
            <4> QED
                BY <1>1, <4>1, MasterAloneFacts DEF IsPending
        <3> QED
            BY <1>1, <2>1, <3>1, <3>2, <3>3 DEF Fine
    <2> QED
        BY <1>3, <2>3, <2>4 DEF QueryServersFromMasters
<1> QED
    BY <1>2, <1>3 DEF ServersTask

LEMMA InfoTaskFine ==
    ASSUME Types, InfoTask
    PROVE  Fine
<1>1. now <= now' /\ UNCHANGED <<masters, key, pending>>
    BY NowFacts DEF InfoTask, Skip, QueryInfoFromServers, asking
<1>2. \A m \in masters' : MasterFine(m)
    BY <1>1, MasterAloneFacts DEF IsPending
<1>3. CASE Skip("info", "cleanup")
    BY <1>1, <1>3, UndisturbedFine DEF Skip, Silent, Sends, asking
<1>4. CASE QueryInfoFromServers
    <2> DEFINE todo == {s \in Watched : IsValid(conns[s]) /\ ~IsPending("server", s)}
               queries(ss) == UNION {Query(s, conns[s]) : s \in ss}
               after(ss) == [s \in Servers |-> IF s \in ss THEN Queried(conns[s]) ELSE conns[s]]
    <2>1. Watched' = Watched
        BY <1>4, QueryInfoAsksOnly, AsksOnlyFacts
    <2>2. ASSUME NEW s \in Watched, conns'[s] = Queried(conns[s]), Query(s, conns[s]) \subseteq sent'
          PROVE  ServerFine(s)
        <3>1. conns[s] \in Connection /\ s \in Servers
            BY DEF Watched, Types, TypeOK
        <3>2. JustAsked(s)
            BY <2>2, <3>1, AskedFacts, QueryFacts DEF JustAsked, GetServerInfo
        <3> QED
            BY <3>2 DEF ServerFine
    <2>3. ASSUME NEW s \in Watched, conns'[s] = conns[s]
          PROVE  ServerFine(s)
        BY <1>1, <2>1, <2>3, AloneFacts DEF IsPending
    <2>4. CASE conns' = after(todo) /\ Sends(queries(todo))
        <3>1. \A s \in todo : conns'[s] = Queried(conns[s]) /\ Query(s, conns[s]) \subseteq sent'
            BY <2>4 DEF Sends, Watched
        <3>2. \A s \in Watched \ todo : conns'[s] = conns[s]
            BY <2>4 DEF Watched
        <3> HIDE DEF todo
        <3>3. \A s \in Watched' : ServerFine(s)
            BY <2>1, <2>2, <2>3, <3>1, <3>2
        <3> QED
            BY <1>1, <1>2, <2>4, <3>3 DEF Fine, Sends
    <2>5. ASSUME NEW before \in SUBSET todo, NEW s \in todo \ before,
                 NEW half \in HalfQueries(s, conns[s]),
                 conns' = [after(before) EXCEPT ![s] = half.con],
                 FailsAfter(queries(before) \cup half.requests, s)
          PROVE  Fine
        <3>1. failed' = failed \cup {s} /\ sent' = queries(before) \cup half.requests
            BY <2>5 DEF FailsAfter
        <3>2. \A t \in before : conns'[t] = Queried(conns[t]) /\ Query(t, conns[t]) \subseteq sent'
            BY <2>5, <3>1 DEF Watched
        <3>3. \A t \in Watched : t \notin before /\ t # s => conns'[t] = conns[t]
            BY <2>5 DEF Watched
        <3>4. before \subseteq Watched
            OBVIOUS
        <3> HIDE DEF todo
        <3>5. \A t \in Watched' : t # s => ServerFine(t)
            BY <2>1, <2>2, <2>3, <3>2, <3>3, <3>4
        <3> QED
            BY <1>1, <1>2, <3>1, <3>5 DEF Fine
    <2> QED
        BY <1>4, <2>4, <2>5 DEF QueryInfoFromServers
<1> QED
    BY <1>3, <1>4 DEF InfoTask

LEMMA CleanupTaskFine ==
    ASSUME Types, CleanupTask
    PROVE  Fine
<1>1. now <= now' /\ UNCHANGED <<masters, key, pending, failed>>
    BY NowFacts DEF CleanupTask, Skip, CleanupServers, Silent, Sends, asking
<1>2. \A s \in Watched' : conns'[s] = conns[s]
    BY DEF CleanupTask, Skip, CleanupServers, asking, Watched
<1> QED
    BY <1>1, <1>2, AloneFacts, MasterAloneFacts DEF Fine, IsPending

LEMMA ProcessPendingFine ==
    ASSUME Types, ProcessPending
    PROVE  Fine
<1> DEFINE top == pending[Len(pending)]
<1>1. now <= now' /\ UNCHANGED masters
    BY NowFacts DEF ProcessPending
<1>2. /\ top \in Entries
      /\ \A kind, a : Pending(kind, a) # top /\ IsPending(kind, a) => IsPending(kind, a)'
    <2>1. pending \in Seq(Entries) /\ pending # <<>>
        BY DEF ProcessPending, Types, MoreTypes
    <2> DEFINE rest == SubSeq(pending, 1, Len(pending) - 1)
    <2>2. pending' = rest
        BY DEF ProcessPending
    <2>3. /\ top \in Entries
          /\ \A y : y # top /\ (\E i \in DOMAIN pending : pending[i] = y)
                => \E i \in DOMAIN rest : rest[i] = y
        BY <2>1, PopFacts
    <2> HIDE DEF rest, top
    <2> QED
        BY <2>2, <2>3, StillPending
<1>3. CASE top.kind = "master" /\ AskMaster(top.addr)
    <2> DEFINE m == top.addr
    <2>1. top = Pending("master", m)
        BY <1>2, <1>3 DEF Entries, Pending
    <2>2. \A s \in Watched' : ServerFine(s)
        BY <1>2, <1>3, <2>1, AloneFacts, PendingFacts DEF AskMaster
    <2>3. ASSUME NEW n \in masters, n # m
          PROVE  MasterFine(n)
        <3>1. key'[n] = key[n]
            BY <1>3, <2>3 DEF AskMaster, Rekey, Types, TypeOK
        <3> QED
            BY <1>2, <2>1, <2>3, <3>1, MasterAloneFacts, PendingFacts
    <2>4. ASSUME m \in masters, m \notin failed'
          PROVE  MasterFine(m)
        <3>1. key'[m] = drawn + 1 /\ sent' = {QueryServers(m)}
            BY <1>3, <2>4 DEF AskMaster, Rekey, Sends, FailsAfter, Types, TypeOK
        <3> QED
            BY <3>1 DEF MasterFine, QueryServers
    <2>5. failed \subseteq failed'
        BY <1>3 DEF AskMaster, Sends, Silent, FailsAfter
    <2> QED
        BY <1>1, <2>2, <2>3, <2>4, <2>5 DEF Fine
<1>4. CASE top.kind = "server" /\ AskServer(top.addr)
    <2> DEFINE s == top.addr
    <2>1. top = Pending("server", s) /\ s \in Servers
        BY <1>2, <1>4 DEF Entries, Pending
    <2>2. \A m \in masters' : MasterFine(m)
        BY <1>1, <1>2, <1>4, <2>1, MasterAloneFacts, PendingFacts DEF AskServer
    <2>3. ASSUME NEW t \in Watched', t # s
          PROVE  ServerFine(t)
        <3>1. conns'[t] = conns[t]
            BY <1>4, <2>3 DEF AskServer, Watched, Types, TypeOK
        <3> QED
            BY <1>2, <2>1, <2>3, <3>1, AloneFacts, PendingFacts
    <2>4. ASSUME s \in Watched', s \notin failed'
          PROVE  ServerFine(s)
        <3>1. conns[s] # None
            BY <1>4, <2>4 DEF AskServer, Watched
        <3>2. conns[s] \in Connection /\ s \in Watched
            BY <2>1, <3>1 DEF Types, TypeOK, Watched
        <3>3. conns'[s] = Queried(conns[s]) /\ sent' = Query(s, conns[s])
            BY <1>4, <2>1, <2>4, <3>1 DEF AskServer, Sends, FailsAfter, Types, TypeOK
        <3>4. JustAsked(s)
            BY <2>1, <3>2, <3>3, AskedFacts, QueryFacts DEF JustAsked, GetServerInfo
        <3> QED
            BY <3>4 DEF ServerFine
    <2>5. failed \subseteq failed'
        BY <1>4 DEF AskServer, Sends, Silent, FailsAfter
    <2> QED
        BY <1>1, <2>2, <2>3, <2>4, <2>5 DEF Fine
<1> QED
    BY <1>3, <1>4 DEF ProcessPending

\* What a datagram does to the server it is from.
LEMMA PacketFine ==
    ASSUME Types, NEW s \in Watched, NEW d, WellFormed(d), HandleServerPacket(s, d),
           pc = "receive", UNCHANGED pending
    PROVE  /\ failed \subseteq failed'
           /\ \A t \in Servers : t # s => conns'[t] = conns[t]
           /\ s \in Watched' \ failed' => ServerFine(s)
<1> DEFINE old == conns[s]
<1>1. s \in Servers /\ old \in Connection
    BY DEF Watched, Types, TypeOK
<1>2. ~IsPending("server", s) /\ (IsPending("server", s) => IsPending("server", s)')
    BY DEF IsPending, Types, MoreTypes
<1>3. ASSUME NEW con, conns' = [conns EXCEPT ![s] = con]
      PROVE  conns'[s] = con /\ \A t \in Servers : t # s => conns'[t] = conns[t]
    BY <1>1, <1>3 DEF Types, TypeOK
<1>4. ASSUME UNCHANGED conns, UNCHANGED failed
      PROVE  /\ failed \subseteq failed'
             /\ \A t \in Servers : t # s => conns'[t] = conns[t]
             /\ s \in Watched' \ failed' => ServerFine(s)
    BY <1>2, <1>4, AloneFacts
<1>5. CASE HandleChallenge(s, d.challenge)
    <2> DEFINE con == [old EXCEPT !.challenge = d.challenge]
    <2>1. /\ con.protocol = old.protocol /\ con.state = old.state
          /\ con.data = old.data /\ con.response_time = old.response_time
        BY <1>1 DEF Connection
    <2>2. conns' = [conns EXCEPT ![s] = con] /\ failed \subseteq failed'
        BY <1>5 DEF HandleChallenge, Silent, Sends, FailsAfter
    <2> HIDE DEF con
    <2> QED
        BY <1>2, <1>3, <2>1, <2>2 DEF ServerFine, LeftAlone
<1>6. CASE HandlePlayers(s)
    <2> DEFINE con == [old EXCEPT !.wait_players = FALSE]
    <2>1. /\ con.protocol = old.protocol /\ con.state = old.state
          /\ con.data = old.data /\ con.response_time = old.response_time
        BY <1>1 DEF Connection
    <2>2. (conns' = [conns EXCEPT ![s] = con] \/ UNCHANGED conns) /\ UNCHANGED failed
        BY <1>6 DEF HandlePlayers, Ignore, Deliver, Silent, Sends
    <2> HIDE DEF con
    <2> QED
        BY <1>2, <1>3, <1>4, <2>1, <2>2 DEF ServerFine, LeftAlone
<1>7. CASE d.kind = "info" /\ HandleInfo(s, d.data)
    <2> DEFINE con == [old EXCEPT !.response_time = now, !.state = "idle", !.data = d.data]
    <2>1. con.protocol = old.protocol /\ con.state = "idle" /\ con.data # None
        BY <1>1, <1>7, ObserverAssumption DEF Connection, WellFormed
    <2>2. conns' = [conns EXCEPT ![s] = con] /\ UNCHANGED failed
        BY <1>7, InfoTypes DEF HandleInfo, Deliver, Silent, Sends, WellFormed
    <2> HIDE DEF con
    <2> QED
        BY <1>2, <1>3, <2>1, <2>2 DEF ServerFine, JustAnswered
<1>8. CASE HandleWrongVersion(s)
    <2> DEFINE con == [old EXCEPT !.protocol = PROTOCOL_VERSION - 1]
    <2>1. CASE old.state = "protocol_detection" /\ old.protocol = PROTOCOL_VERSION
        <3>1. /\ con \in Connection /\ con.protocol = 48 /\ con.state = old.state
              /\ con.response_time = old.response_time
            BY <1>1 DEF Connection, PROTOCOL_VERSION, Versions
        <3> HIDE DEF con
        <3>2. CASE conns' = [conns EXCEPT ![s] = Queried(con)] /\ Sends(Query(s, con))
            <4>1. /\ Queried(con).protocol = 48 /\ Queried(con).state = "protocol_detection"
                  /\ Queried(con).response_time = old.response_time
                  /\ [to |-> s, kind |-> "get_info", protocol |-> 48] \in sent'
                BY <1>1, <2>1, <3>1, <3>2, AskedFacts, QueryFacts DEF SameButAsked, Sends
            <4>2. conns'[s] = Queried(con) /\ UNCHANGED failed
                BY <1>3, <3>2 DEF Sends
            <4>3. TriesLegacy(s)
                BY <1>2, <2>1, <4>1, <4>2 DEF TriesLegacy, PROTOCOL_VERSION
            <4> QED
                BY <1>3, <3>2, <4>2, <4>3 DEF ServerFine
        <3>3. CASE \E half \in HalfQueries(s, con) :
                      conns' = [conns EXCEPT ![s] = half.con] /\ FailsAfter(half.requests, s)
            BY <1>3, <3>3 DEF FailsAfter
        <3> QED
            BY <1>8, <2>1, <3>2, <3>3 DEF HandleWrongVersion, con
    <2>2. CASE ~(old.state = "protocol_detection" /\ old.protocol = PROTOCOL_VERSION)
        <3>1. conns' = [conns EXCEPT ![s] = None] /\ UNCHANGED failed
            BY <1>8, <2>2 DEF HandleWrongVersion, Deliver, Silent, Sends
        <3> QED
            BY <1>3, <3>1 DEF Watched
    <2> QED
        BY <2>1, <2>2
<1>9. CASE Ignore \/ (Deliver(Event("server_invalid_packet", s)) /\ UNCHANGED conns)
    BY <1>4, <1>9 DEF Ignore, Deliver, Silent, Sends
<1> QED
    BY <1>5, <1>6, <1>7, <1>8, <1>9 DEF HandleServerPacket

LEMMA ReceiveFine ==
    ASSUME Types, NEW d, WellFormed(d), Receive(d)
    PROVE  Fine
<1>1. now <= now' /\ UNCHANGED <<masters, key, pending>> /\ pc = "receive"
    BY NowFacts DEF Receive
<1>2. CASE d.from \in Watched /\ HandleServerPacket(d.from, d)
    <2>1. /\ failed \subseteq failed'
          /\ \A t \in Servers : t # d.from => conns'[t] = conns[t]
          /\ d.from \in Watched' \ failed' => ServerFine(d.from)
        BY <1>1, <1>2, PacketFine
    <2>2. \A t \in Watched' : t # d.from => ServerFine(t)
        BY <1>1, <2>1, AloneFacts DEF IsPending, Watched
    <2>3. \A m \in masters' : MasterFine(m)
        BY <1>1, MasterAloneFacts DEF IsPending
    <2> QED
        BY <1>1, <2>1, <2>2, <2>3 DEF Fine
<1>3. CASE UNCHANGED <<conns, failed>>
    BY <1>1, <1>3, UndisturbedFine
<1> QED
    BY <1>2, <1>3 DEF Receive, HandleMasterPacket, Ignore, Deliver, Silent, Sends

LEMMA StutterFine ==
    ASSUME Types, TimeoutElapsed \/ EndTurn \/ ReceiveNothing \/ ReceiveFails \/ Tick
    PROVE  Fine
<1>1. UNCHANGED <<conns, masters, key, pending, failed>>
    BY DEF TimeoutElapsed, EndTurn, ReceiveNothing, ReceiveFails, Tick, Silent, Sends, asking
<1>2. now <= now'
    <2>1. now' = now \/ now' = now + 1
        BY DEF TimeoutElapsed, EndTurn, ReceiveNothing, ReceiveFails, Tick
    <2> QED
        BY <2>1, NumbersFacts DEF Numbers
<1> QED
    BY <1>1, <1>2, UndisturbedFine

LEMMA AskedKept ==
    ASSUME TypesIInv, TypesIInv', AskedIInv, [SysNext]_sysVars
    PROVE  AskedIInv'
<1>1. CASE UNCHANGED sysVars
    BY <1>1 DEF sysVars, obsVars, asking, calling, AskedIInv, ServerAsked, ListComing,
                IsPending, Watched
<1>2. ASSUME SysNext
      PROVE  Fine
    <2>1. CASE LibraryUser
        BY <2>1, UserFine
    <2>2. CASE Turn
        BY <2>2, StutterFine, ServersTaskFine, InfoTaskFine, CleanupTaskFine,
           ProcessPendingFine DEF Turn, TypesIInv
    <2>3. CASE \E d \in wire \cup Stray : Receive(d)
        BY <2>3, ReceiveFine, ArrivesWellFormed DEF TypesIInv
    <2>4. CASE Tick
        BY <2>4, StutterFine DEF TypesIInv
    <2> QED
        BY <1>2, <2>1, <2>2, <2>3, <2>4 DEF SysNext, Loop
<1>3. CASE SysNext
    BY <1>2, <1>3, FineKeepsAsked DEF SysNext
<1> QED
    BY <1>1, <1>3

LEMMA AlwaysAsked == SysSpec => []AskedIInv
<1>1. SysInit => AskedIInv
    BY DEF SysInit, Init, AskedIInv, NeverAsked, Watched
<1> QED
    BY <1>1, AskedKept, AlwaysTyped, PTL DEF SysSpec

LEMMA AskedEverybody == TypesIInv /\ AskedIInv => EverybodyAsked
<1> SUFFICES ASSUME TypesIInv, AskedIInv, pc = "receive"
             PROVE  /\ pending = <<>>
                    /\ \A m \in masters \ failed : ListComing(m)
                    /\ \A s \in Watched \ failed : \E v \in Versions : asked[s][v] # None
    BY DEF EverybodyAsked, Waiting, ListComing
<1>1. pending = <<>> /\ \A kind, a : ~IsPending(kind, a)
    BY DEF TypesIInv, Types, MoreTypes, IsPending
<1>2. \A s \in Watched : conns[s].protocol \in Versions
    BY DEF TypesIInv, Types, TypeOK, Watched, Connection
<1> QED
    BY <1>1, <1>2 DEF AskedIInv, ServerAsked

\* While an observer waits, every master and server it watches has been asked, unless a
\* send to it failed, and the list that is coming has the key it will be compared with
\* (query_servers_from_masters, process_pending).
THEOREM NobodyForgotten == SysSpec => []EverybodyAsked
BY AskedEverybody, AlwaysTyped, AlwaysAsked, PTL

\* A step that refuses a server for its protocol is an answer to a request.
LEMMA RefusalIsReceived ==
    ASSUME TypesIInv, LibraryUser \/ Loop \/ Tick, NEW s \in Servers,
           event' = Event("server_invalid_protocol", s), event' # event
    PROVE  /\ pc = "receive" /\ s \in Watched
           /\ ~(conns[s].state = "protocol_detection" /\ conns[s].protocol = PROTOCOL_VERSION)
<1> USE DEF TypesIInv
<1>1. event' # None /\ event'.kind = "server_invalid_protocol" /\ event'.addr = s
    <2>1. event'.kind = "server_invalid_protocol" /\ event'.addr = s
        BY DEF Event
    <2> QED
        BY <2>1, ObserverAssumption DEF Event
<1>2. \A e \in delayed : e.kind # "server_invalid_protocol"
    BY DEF Types, TypeOK
<1>3. ~LibraryUser
    BY <1>1, <1>2 DEF LibraryUser, InsertMaster, RemoveMaster, InsertServer, RemoveServer,
       ByUser, WaitEvent, PopDelayed, Latest, Return, Goto, calling
<1>4. ~Turn
    <2>1. event' = None \/ event' \in delayed \/ event'.kind \in {"timeout", "error"}
          \/ ~Turn
        <3>1. TimeoutElapsed \/ EndTurn \/ ReceiveNothing \/ ReceiveFails =>
                  event' = None \/ event' \in delayed \/ event'.kind \in {"timeout", "error"}
            BY DEF TimeoutElapsed, EndTurn, ReceiveNothing, ReceiveFails, PopDelayed, Latest, Return, Goto
        <3>2. ServersTask => event' = None \/ event'.kind = "error"
            <4>1. QueryServersFromMasters => event' = None \/ event'.kind = "error"
                <5>1. \A requests, m : FailsAfter(requests, m) => event'.kind = "error"
                    BY DEF FailsAfter, Return
                <5>2. Goto("info") => event' = None
                    BY DEF Goto
                <5> QED
                    BY <5>1, <5>2 DEF QueryServersFromMasters
            <4> QED
                BY <4>1 DEF ServersTask, Skip, Goto
        <3>3. InfoTask => event' = None \/ event'.kind = "error"
            <4>1. QueryInfoFromServers => event' = None \/ event'.kind = "error"
                BY DEF QueryInfoFromServers, FailsAfter, Return, Goto
            <4> QED
                BY <4>1 DEF InfoTask, Skip, Goto
        <3>4. CleanupTask => event' = None
            BY DEF CleanupTask, Skip, CleanupServers, Goto
        <3>5. ProcessPending => event' = None \/ event'.kind = "error"
            BY DEF ProcessPending, AskMaster, AskServer, FailsAfter, Return, Goto
        <3> QED
            BY <3>1, <3>2, <3>3, <3>4, <3>5 DEF Turn
    <2> QED
        BY <1>1, <1>2, <2>1
<1>5. ~Tick
    BY DEF Tick, calling
<1>6. PICK d \in wire \cup Stray : Receive(d)
    BY <1>3, <1>4, <1>5 DEF Loop
<1>7. ~Ignore
    BY DEF Ignore, calling
<1>8. ~HandleMasterPacket(d.from, d)
    BY <1>1, <1>7 DEF HandleMasterPacket, Deliver, Return, Event
<1>9. d.from \in Watched /\ HandleServerPacket(d.from, d)
    BY <1>6, <1>7, <1>8 DEF Receive
<1>10. HandleWrongVersion(d.from)
    BY <1>1, <1>7, <1>9 DEF HandleServerPacket, HandleChallenge, HandlePlayers, HandleInfo,
       FailsAfter, Deliver, Return, Event, calling
<1>11. s = d.from
    BY <1>1, <1>10 DEF HandleWrongVersion, FailsAfter, Deliver, Return, Event, calling
<1>12. ~(conns[s].state = "protocol_detection" /\ conns[s].protocol = PROTOCOL_VERSION)
    BY <1>1, <1>10, <1>11 DEF HandleWrongVersion, FailsAfter, Return, calling
<1> QED
    BY <1>6, <1>9, <1>11, <1>12 DEF Receive

\* The two blames a step can put on a server, and what they rest on.
LEMMA BlameHasCause ==
    ASSUME TypesIInv, AskedIInv, LibraryUser \/ Loop \/ Tick, NEW s \in Servers \ failed
    PROVE  /\ Event("server_timeout", s) \in delayed' \ delayed =>
                  \E v \in Versions : /\ asked[s][v] # None
                                      /\ conns[s].response_time <= asked[s][v]
           /\ event' = Event("server_invalid_protocol", s) /\ event' # event =>
                  \/ conns[s].data # None
                  \/ \A v \in Versions : asked[s][v] # None
<1>1. ASSUME Event("server_timeout", s) \in delayed' \ delayed
      PROVE  \E v \in Versions : /\ asked[s][v] # None
                                 /\ conns[s].response_time <= asked[s][v]
    <2>1. InfoTask /\ QueryInfoFromServers
        BY <1>1 DEF LibraryUser, Loop, Turn, InsertMaster, RemoveMaster, InsertServer,
           RemoveServer, WaitEvent, PopDelayed, TimeoutElapsed, ServersTask, InfoTask,
           CleanupTask, Skip, QueryServersFromMasters, CleanupServers, ProcessPending,
           EndTurn, ReceiveNothing, ReceiveFails, Receive, Tick, asking, Event
    <2>2. PICK ss \in SUBSET Watched :
              /\ delayed' = delayed \cup {Event("server_timeout", t) : t \in ss}
              /\ \A t \in ss : conns[t].state # "idle" /\ ~IsPending("server", t)
        BY <2>1, QueryInfoReports
    <2>3. s \in ss
        BY <1>1, <2>2 DEF Event
    <2>4. ServerAsked(s)
        BY <1>1, <2>2, <2>3 DEF AskedIInv
    <2> QED
        BY <2>2, <2>3, <2>4 DEF ServerAsked
<1>2. ASSUME event' = Event("server_invalid_protocol", s), event' # event
      PROVE  conns[s].data # None \/ \A v \in Versions : asked[s][v] # None
    <2>1. /\ s \in Watched
          /\ ~(conns[s].state = "protocol_detection" /\ conns[s].protocol = PROTOCOL_VERSION)
        BY <1>2, RefusalIsReceived
    <2>2. ServerAsked(s) /\ conns[s].protocol \in Versions
        BY <1>2, <2>1 DEF AskedIInv, TypesIInv, Types, TypeOK, Watched, Connection
    <2> QED
        BY <2>1, <2>2 DEF ServerAsked, Versions, PROTOCOL_VERSION
<1> QED
    BY <1>1, <1>2

\* A server is reported as timed out only when it was asked and has not answered since,
\* and refused for its protocol only when it answered before or was asked with both
\* versions, whatever comes late or twice (query_info_from_servers, handle_packet).
THEOREM BlamedForCause == SysSpec => BlameIsDeserved
<1>1. TypesIInv /\ AskedIInv /\ [SysNext]_sysVars =>
          [\A s \in Servers \ failed :
              Event("server_timeout", s) \in delayed' \ delayed =>
                  \E v \in Versions : /\ asked[s][v] # None
                                      /\ conns[s].response_time <= asked[s][v]]_sysVars
    BY BlameHasCause DEF SysNext
<1>2. TypesIInv /\ AskedIInv /\ [SysNext]_sysVars =>
          [\A s \in Servers \ failed :
              event' = Event("server_invalid_protocol", s) /\ event' # event =>
                  \/ conns[s].data # None
                  \/ \A v \in Versions : asked[s][v] # None]_sysVars
    BY BlameHasCause DEF SysNext
<1> QED
    BY <1>1, <1>2, AlwaysTyped, AlwaysAsked, PTL
    DEF SysSpec, BlameIsDeserved, TimeoutsMeanSilence, RefusedAfterBoth


-----------------------------------------------------------------------------
(* What a turn and a datagram do to connections, events and requests       *)

\* The same peer: what is asked of it may change, and what is kept of it not.
Similar(old, new) ==
    /\ new \in Connection
    /\ new.protocol = old.protocol /\ new.players = old.players /\ new.data = old.data
    /\ new.wait_players => old.wait_players \/ old.players

\* A request of a server that is watched, with the version kept of it.
AsksWithOwnVersion(r) ==
    /\ r.kind = "query_servers" => r.to \in masters
    /\ r.kind = "get_info" => r.to \in Watched /\ r.protocol = conns[r.to].protocol

LEMMA SimilarFacts ==
    ASSUME NEW con \in Connection
    PROVE  /\ Similar(con, con) /\ Similar(con, Asked(con)) /\ Similar(con, Queried(con))
           /\ \A c \in Challenges : Similar(con, [con EXCEPT !.challenge = c])
           /\ Similar(con, [con EXCEPT !.wait_players = FALSE])
<1>1. Similar(con, con) /\ Similar(con, Asked(con))
    BY DEF Similar, Asked, Connection
<1>2. Similar(con, Queried(con))
    <2> DEFINE wait == Asked(con).wait_players \/ con.players
    <2>1. /\ Queried(con) = [Asked(con) EXCEPT !.wait_players = wait] /\ wait \in BOOLEAN
          /\ Asked(con) \in Connection /\ Asked(con).wait_players = con.wait_players
        BY <1>1 DEF Queried, Asked, Similar, Connection
    <2>2. wait => con.wait_players \/ con.players
        BY <2>1
    <2> HIDE DEF wait
    <2> QED
        BY <1>1, <2>1, <2>2 DEF Similar, Connection
<1>3. ASSUME NEW c \in Challenges PROVE Similar(con, [con EXCEPT !.challenge = c])
    BY DEF Similar, Connection
<1>4. Similar(con, [con EXCEPT !.wait_players = FALSE])
    BY DEF Similar, Connection
<1> QED
    BY <1>1, <1>2, <1>3, <1>4

LEMMA QueryKinds ==
    ASSUME NEW s, NEW con, NEW r \in Query(s, con)
    PROVE  /\ r.to = s /\ r.kind \in {"get_info", "get_challenge", "get_players"}
           /\ r.kind = "get_info" => r.protocol = con.protocol
BY DEF Query, GetServerInfo, QueryPlayers

LEMMA HalfKinds ==
    ASSUME NEW s, NEW con \in Connection, NEW half \in HalfQueries(s, con)
    PROVE  /\ Similar(con, half.con)
           /\ \A r \in half.requests : /\ r.to = s /\ r.kind = "get_info"
                                       /\ r.protocol = con.protocol
<1> DEFINE request == GetServerInfo(s, con)
           first == [con |-> Asked(con), requests |-> {}]
           second == [con |-> Queried(con), requests |-> {request}]
<1>1. request.to = s /\ request.kind = "get_info" /\ request.protocol = con.protocol
    BY DEF GetServerInfo
<1>2. half = first \/ half = second
    BY DEF HalfQueries
<1> HIDE DEF request
<1>3. CASE half = first
    BY <1>3, SimilarFacts
<1>4. CASE half = second
    BY <1>1, <1>4, SimilarFacts
<1> QED
    BY <1>2, <1>3, <1>4

\* What a turn does: nobody joins, and what is returned was delayed before or says that
\* the call failed.
TurnOutcome ==
    /\ UNCHANGED <<now, masters, deadline>>
    /\ pc # "user" /\ event = None
    /\ \A s \in Servers : \/ conns'[s] \in {conns[s], None}
                          \/ conns[s] # None /\ Similar(conns[s], conns'[s])
    /\ event' \in delayed \cup {None, [kind |-> "error"], [kind |-> "timeout"]}
    /\ \A e \in delayed' : \/ e \in delayed \/ e.kind = "server_timeout"
                           \/ e.kind = "server_remove" /\ conns'[e.addr] = None
    /\ \A r \in sent' : AsksWithOwnVersion(r)

LEMMA ServersTaskOutcome ==
    ASSUME Types, ServersTask
    PROVE  TurnOutcome
<1>1. UNCHANGED <<now, masters, deadline, conns, delayed>> /\ pc # "user" /\ event = None
    BY DEF ServersTask, Skip, QueryServersFromMasters, asking, Types, MoreTypes
<1>2. event' \in {None, [kind |-> "error"]}
    BY DEF ServersTask, Skip, QueryServersFromMasters, FailsAfter, Goto, Return
<1>3. \A m \in masters : AsksWithOwnVersion(QueryServers(m))
    BY DEF AsksWithOwnVersion, QueryServers
<1>4. \A r \in sent' : AsksWithOwnVersion(r)
    <2>1. CASE Skip("servers", "info")
        BY <2>1 DEF Skip, Silent, Sends
    <2>2. CASE QueryServersFromMasters
        <3>1. \A ms \in SUBSET masters :
                  \A r \in {QueryServers(m) : m \in {n \in ms : ~IsPending("master", n)}} :
                      AsksWithOwnVersion(r)
            BY <1>3
        <3>2. \E ms \in SUBSET masters :
                  sent' = {QueryServers(m) : m \in {n \in ms : ~IsPending("master", n)}}
            BY <2>2 DEF QueryServersFromMasters, Sends, FailsAfter
        <3> QED
            BY <3>1, <3>2
    <2> QED
        BY <2>1, <2>2 DEF ServersTask
<1> QED
    BY <1>1, <1>2, <1>4 DEF TurnOutcome

LEMMA InfoTaskOutcome ==
    ASSUME Types, InfoTask
    PROVE  TurnOutcome
<1>1. UNCHANGED <<now, masters, deadline>> /\ pc # "user" /\ event = None
    BY DEF InfoTask, Skip, QueryInfoFromServers, asking, Types, MoreTypes
<1>2. event' \in {None, [kind |-> "error"]}
    BY DEF InfoTask, Skip, QueryInfoFromServers, FailsAfter, Goto, Return
<1>3. CASE Skip("info", "cleanup")
    BY <1>1, <1>2, <1>3 DEF Skip, Silent, Sends, asking, TurnOutcome
<1>4. CASE QueryInfoFromServers
    <2> DEFINE todo == {s \in Watched : IsValid(conns[s]) /\ ~IsPending("server", s)}
               queries(ss) == UNION {Query(s, conns[s]) : s \in ss}
               after(ss) == [s \in Servers |-> IF s \in ss THEN Queried(conns[s]) ELSE conns[s]]
               Fits(new, requests) ==
                   /\ \A s \in Servers : \/ new[s] \in {conns[s], None}
                                         \/ conns[s] # None /\ Similar(conns[s], new[s])
                   /\ \A r \in requests : AsksWithOwnVersion(r)
    <2>1. \A s \in Watched : s \in Servers /\ conns[s] # None /\ conns[s] \in Connection
        BY DEF Watched, Types, TypeOK
    <2>2. ASSUME NEW s \in Watched, NEW r \in Query(s, conns[s])
          PROVE  AsksWithOwnVersion(r)
        BY <2>1, QueryKinds DEF AsksWithOwnVersion
    <2>3. ASSUME NEW ss \in SUBSET todo
          PROVE  Fits(after(ss), queries(ss))
        <3>1. \A s \in ss : Similar(conns[s], Queried(conns[s]))
            BY <2>1, SimilarFacts
        <3>2. \A r \in queries(ss) : AsksWithOwnVersion(r)
            BY <2>2
        <3> QED
            BY <2>1, <3>1, <3>2
    <2>4. ASSUME NEW before \in SUBSET todo, NEW s \in todo \ before,
                 NEW half \in HalfQueries(s, conns[s]),
                 conns' = [after(before) EXCEPT ![s] = half.con],
                 sent' = queries(before) \cup half.requests
          PROVE  Fits(conns', sent')
        <3>1. /\ Similar(conns[s], half.con) /\ conns[s] # None /\ s \in Servers
              /\ \A r \in half.requests : AsksWithOwnVersion(r)
            BY <2>1, HalfKinds DEF AsksWithOwnVersion
        <3>2. \A t \in Servers : t # s => conns'[t] = after(before)[t]
            BY <2>4
        <3>3. conns'[s] = half.con
            BY <2>4, <3>1
        <3>4. Fits(after(before), queries(before))
            BY <2>3
        <3> HIDE DEF after, queries
        <3> QED
            BY <2>4, <3>1, <3>2, <3>3, <3>4
    <2>5. Fits(conns', sent')
        <3> HIDE DEF Fits
        <3>1. CASE conns' = after(todo) /\ sent' = queries(todo)
            BY <2>3, <3>1
        <3>2. CASE \E before \in SUBSET todo : \E s \in todo \ before :
                   \E half \in HalfQueries(s, conns[s]) :
                      /\ conns' = [after(before) EXCEPT ![s] = half.con]
                      /\ sent' = queries(before) \cup half.requests
            BY <2>4, <3>2
        <3> QED
            BY <1>4, <3>1, <3>2 DEF QueryInfoFromServers, Sends, FailsAfter
    <2>6. \A e \in delayed' : e \in delayed \/ e.kind = "server_timeout"
        <3>1. \E ss \in SUBSET Watched :
                  delayed' = delayed \cup {Event("server_timeout", s) : s \in ss}
            BY <1>4, QueryInfoReports
        <3> QED
            BY <3>1 DEF Event
    <2> QED
        BY <1>1, <1>2, <2>5, <2>6 DEF TurnOutcome
<1> QED
    BY <1>3, <1>4 DEF InfoTask

LEMMA CleanupTaskOutcome ==
    ASSUME Types, CleanupTask
    PROVE  TurnOutcome
<1>1. UNCHANGED <<now, masters, deadline>> /\ pc # "user" /\ event = None /\ event' = None
    BY DEF CleanupTask, Skip, CleanupServers, Goto, asking, Types, MoreTypes
<1>2. sent' = {}
    BY DEF CleanupTask, Skip, CleanupServers, Silent, Sends
<1>3. CASE Skip("cleanup", "pending")
    BY <1>1, <1>2, <1>3 DEF Skip, asking, TurnOutcome
<1>4. CASE CleanupServers
    <2> DEFINE expired == {s \in Watched : ~IsValid(conns[s])}
    <2>1. /\ conns' = [s \in Servers |-> IF s \in expired THEN None ELSE conns[s]]
          /\ delayed' = delayed \cup {Event("server_remove", s) : s \in expired}
          /\ expired \subseteq Servers
        BY <1>4 DEF CleanupServers, Watched
    <2> HIDE DEF expired
    <2>2. \A e \in delayed' : \/ e \in delayed
                              \/ e.kind = "server_remove" /\ conns'[e.addr] = None
        <3>1. ASSUME NEW e \in delayed', e \notin delayed
              PROVE  e.kind = "server_remove" /\ conns'[e.addr] = None
            <4>1. PICK s \in expired : e = Event("server_remove", s)
                BY <2>1, <3>1
            <4>2. e.kind = "server_remove" /\ e.addr = s
                BY <4>1 DEF Event
            <4> QED
                BY <2>1, <4>2
        <3> QED
            BY <3>1
    <2>3. \A s \in Servers : conns'[s] \in {conns[s], None}
        BY <2>1
    <2> QED
        BY <1>1, <1>2, <2>2, <2>3 DEF TurnOutcome
<1> QED
    BY <1>3, <1>4 DEF CleanupTask

LEMMA ProcessPendingOutcome ==
    ASSUME Types, ProcessPending
    PROVE  TurnOutcome
<1> DEFINE top == pending[Len(pending)]
<1>1. UNCHANGED <<now, masters, deadline, delayed>> /\ pc # "user" /\ event = None
    BY DEF ProcessPending, Types, MoreTypes
<1>2. top \in Entries
    BY PopFacts DEF ProcessPending, Types, MoreTypes
<1>3. event' \in {None, [kind |-> "error"]}
    BY DEF ProcessPending, AskMaster, AskServer, FailsAfter, Goto, Return
<1>4. CASE top.kind = "master" /\ AskMaster(top.addr)
    <2>1. UNCHANGED conns /\ \A r \in sent' : top.addr \in masters /\ r = QueryServers(top.addr)
        BY <1>4 DEF AskMaster, Sends, Silent, FailsAfter
    <2>2. \A r \in sent' : AsksWithOwnVersion(r)
        BY <2>1 DEF AsksWithOwnVersion, QueryServers
    <2> QED
        BY <1>1, <1>3, <2>1, <2>2 DEF TurnOutcome
<1>5. CASE top.kind = "server" /\ AskServer(top.addr)
    <2> DEFINE s == top.addr
    <2>1. s \in Servers /\ (conns[s] # None => conns[s] \in Connection /\ s \in Watched)
        BY <1>2, <1>5 DEF Entries, Types, TypeOK, Watched
    <2> HIDE DEF s
    <2>2. ASSUME NEW con, conns[s] # None, Similar(conns[s], con),
                 conns' = [conns EXCEPT ![s] = con],
                 \A r \in sent' : AsksWithOwnVersion(r)
          PROVE  TurnOutcome
        <3>1. \A t \in Servers : conns'[t] = IF t = s THEN con ELSE conns[t]
            BY <2>2 DEF Types, TypeOK
        <3> QED
            BY <1>1, <1>3, <2>2, <3>1 DEF TurnOutcome
    <2>3. CASE conns[s] = None
        BY <1>1, <1>3, <1>5, <2>3 DEF AskServer, Silent, Sends, TurnOutcome, s
    <2>4. CASE conns[s] # None /\ conns' = [conns EXCEPT ![s] = Queried(@)]
                  /\ sent' = Query(s, conns[s])
        <3>1. \A r \in sent' : AsksWithOwnVersion(r)
            BY <2>1, <2>4, QueryKinds DEF AsksWithOwnVersion
        <3>2. Similar(conns[s], Queried(conns[s])) /\ conns' = [conns EXCEPT ![s] = Queried(conns[s])]
            BY <2>1, <2>4, SimilarFacts
        <3> QED
            BY <2>2, <2>4, <3>1, <3>2
    <2>5. ASSUME conns[s] # None, NEW half \in HalfQueries(s, conns[s]),
                 conns' = [conns EXCEPT ![s] = half.con], sent' = half.requests
          PROVE  TurnOutcome
        <3>1. \A r \in sent' : AsksWithOwnVersion(r)
            BY <2>1, <2>5, HalfKinds DEF AsksWithOwnVersion
        <3>2. Similar(conns[s], half.con)
            BY <2>1, <2>5, HalfKinds
        <3> QED
            BY <2>2, <2>5, <3>1, <3>2
    <2> QED
        BY <1>5, <2>3, <2>4, <2>5 DEF AskServer, Sends, FailsAfter, s
<1> QED
    BY <1>4, <1>5 DEF ProcessPending

LEMMA TurnOutcomes ==
    ASSUME Types, Turn
    PROVE  TurnOutcome
<1>1. CASE TimeoutElapsed \/ ReceiveNothing \/ ReceiveFails
    <2>1. /\ UNCHANGED <<now, masters, deadline, conns, delayed>> /\ sent' = {}
          /\ pc # "user" /\ event = None
          /\ event' \in {None, [kind |-> "timeout"], [kind |-> "error"]}
        BY <1>1 DEF TimeoutElapsed, ReceiveNothing, ReceiveFails, Return, Goto, Silent, Sends, asking,
                    Types, MoreTypes
    <2> QED
        BY <2>1 DEF TurnOutcome
<1>2. CASE EndTurn
    <2>1. /\ UNCHANGED <<now, masters, deadline, conns>> /\ sent' = {}
          /\ pc # "user" /\ event = None
          /\ delayed' \subseteq delayed /\ event' \in delayed \cup {None}
        BY <1>2 DEF EndTurn, PopDelayed, Latest, Return, Goto, Silent, Sends, Types, MoreTypes
    <2> QED
        BY <2>1 DEF TurnOutcome
<1> QED
    BY <1>1, <1>2, ServersTaskOutcome, InfoTaskOutcome, CleanupTaskOutcome,
       ProcessPendingOutcome DEF Turn

\* What a datagram does: nothing is noticed of it.
Unnoticed == UNCHANGED conns /\ event' = None /\ sent' = {}

\* The user hears of the master m.
MasterHeard(m, d) ==
    /\ m \in masters /\ UNCHANGED conns /\ sent' = {}
    /\ \/ /\ d.kind = "list"
          /\ event' = [kind |-> "server_list", addr |-> m, servers |-> d.servers]
       \/ /\ d.kind = "info"
          /\ event' = [kind |-> "server_info", addr |-> m, changed |-> TRUE, data |-> d.data]
       \/ event' = Event("master_invalid_packet", m)

NoNews == event' \in {None, [kind |-> "error"]}

\* Server s gave a challenge, or players that are not waited for.
Answered(s) ==
    /\ Similar(conns[s], conns'[s]) /\ NoNews
    /\ \A r \in sent' : r.kind \in {"get_challenge", "get_players"}

PlayersHeard(s) ==
    /\ conns[s].wait_players /\ Similar(conns[s], conns'[s])
    /\ event' = Event("server_players", s) /\ sent' = {}

InfoHeard(s, d) ==
    /\ d.kind = "info" /\ sent' = {}
    /\ Similar([conns[s] EXCEPT !.data = d.data], conns'[s])
    /\ event' = [kind |-> "server_info", addr |-> s, changed |-> conns[s].data # d.data,
                 data |-> d.data]

\* The legacy version is tried.
Retried(s, d) ==
    /\ d.kind = "wrong_version" /\ NoNews
    /\ Similar([conns[s] EXCEPT !.protocol = PROTOCOL_VERSION - 1], conns'[s])
    /\ \A r \in sent' : r.to = s /\ r.kind # "query_servers"

Refused(s, d) ==
    /\ d.kind = "wrong_version" /\ conns'[s] = None
    /\ event' = Event("server_invalid_protocol", s) /\ sent' = {}

InvalidHeard(s, d) ==
    /\ d.kind \in {"list", "garbage"} /\ UNCHANGED conns
    /\ event' = Event("server_invalid_packet", s) /\ sent' = {}

ServerHeard(s, d) ==
    /\ s \in Watched \ masters
    /\ \A t \in Servers : t # s => conns'[t] = conns[t]
    /\ \/ Answered(s) \/ PlayersHeard(s) \/ InfoHeard(s, d)
       \/ Retried(s, d) \/ Refused(s, d) \/ InvalidHeard(s, d)

ReceiveOutcome(d) ==
    /\ pc = "receive" /\ event = None /\ delayed = {}
    /\ UNCHANGED <<now, masters, delayed, deadline>>
    /\ Unnoticed \/ MasterHeard(d.from, d) \/ ServerHeard(d.from, d)

LEMMA OneChanged ==
    ASSUME Types, NEW s \in Watched, NEW con, conns' = [conns EXCEPT ![s] = con]
    PROVE  conns'[s] = con /\ \A t \in Servers : t # s => conns'[t] = conns[t]
BY DEF Types, TypeOK, Watched

LEMMA ChallengeOutcome ==
    ASSUME Types, NEW s \in Watched \ masters, NEW d, NEW c \in Challenges, HandleChallenge(s, c),
           pc = "receive"
    PROVE  ServerHeard(s, d)
<1> DEFINE con == [conns[s] EXCEPT !.challenge = c]
<1>1. Similar(conns[s], con)
    BY SimilarFacts DEF Types, TypeOK, Watched
<1>2. conns'[s] = con /\ \A t \in Servers : t # s => conns'[t] = conns[t]
    BY OneChanged DEF HandleChallenge
<1>3. \A r \in sent' : r.kind \in {"get_challenge", "get_players"}
    <2>1. QueryPlayers(s, con).kind \in {"get_challenge", "get_players"}
        BY DEF QueryPlayers
    <2> HIDE DEF con
    <2> QED
        BY <2>1 DEF HandleChallenge, Silent, Sends, FailsAfter, con
<1>4. NoNews
    BY DEF HandleChallenge, FailsAfter, Return, calling, Types, MoreTypes, NoNews
<1> HIDE DEF con
<1> QED
    BY <1>1, <1>2, <1>3, <1>4 DEF ServerHeard, Answered

LEMMA PlayersOutcome ==
    ASSUME Types, NEW s \in Watched \ masters, NEW d, HandlePlayers(s), conns[s].wait_players
    PROVE  ServerHeard(s, d)
<1> DEFINE con == [conns[s] EXCEPT !.wait_players = FALSE]
<1>1. Similar(conns[s], con)
    BY SimilarFacts DEF Types, TypeOK, Watched
<1>2. conns' = [conns EXCEPT ![s] = con]
    BY DEF HandlePlayers
<1>3. conns'[s] = con /\ \A t \in Servers : t # s => conns'[t] = conns[t]
    BY <1>2, OneChanged
<1>4. event' = Event("server_players", s) /\ sent' = {}
    BY DEF HandlePlayers, Deliver, Return, Silent, Sends
<1> HIDE DEF con
<1> QED
    BY <1>1, <1>3, <1>4 DEF ServerHeard, PlayersHeard

LEMMA InfoOutcome ==
    ASSUME Types, NEW s \in Watched \ masters, NEW d, d.kind = "info", d.data \in Infos,
           HandleInfo(s, d.data)
    PROVE  ServerHeard(s, d)
<1> DEFINE old == [conns[s] EXCEPT !.data = d.data]
           con == [conns[s] EXCEPT !.response_time = now, !.state = "idle", !.data = d.data]
<1>1. conns[s] \in Connection /\ now \in 0 .. MaxNow
    BY DEF Types, TypeOK, Watched
<1>2. Similar(old, con)
    BY <1>1 DEF Similar, Connection
<1>3. conns' = [conns EXCEPT ![s] = con]
    BY InfoTypes
<1>4. conns'[s] = con /\ \A t \in Servers : t # s => conns'[t] = conns[t]
    BY <1>3, OneChanged
<1>5. /\ event' = [kind |-> "server_info", addr |-> s, changed |-> conns[s].data # d.data,
                   data |-> d.data]
      /\ sent' = {}
    BY DEF HandleInfo, Deliver, Return, Silent, Sends
<1> HIDE DEF con
<1> QED
    BY <1>2, <1>4, <1>5 DEF ServerHeard, InfoHeard

LEMMA WrongVersionOutcome ==
    ASSUME Types, NEW s \in Watched \ masters, NEW d, d.kind = "wrong_version",
           HandleWrongVersion(s), pc = "receive"
    PROVE  ServerHeard(s, d)
<1> DEFINE con == [conns[s] EXCEPT !.protocol = PROTOCOL_VERSION - 1]
<1>1. con \in Connection
    BY DEF Types, TypeOK, Watched, Connection, PROTOCOL_VERSION, Versions
<1>2. Similar(con, Queried(con))
    BY <1>1, SimilarFacts
<1>3. CASE conns[s].state = "protocol_detection" /\ conns[s].protocol = PROTOCOL_VERSION
    <2> HIDE DEF con
    <2>1. CASE conns' = [conns EXCEPT ![s] = Queried(con)] /\ sent' = Query(s, con)
                  /\ UNCHANGED calling
        <3>1. conns'[s] = Queried(con) /\ \A t \in Servers : t # s => conns'[t] = conns[t]
            BY <2>1, OneChanged
        <3>2. \A r \in sent' : r.to = s /\ r.kind # "query_servers"
            BY <2>1, QueryKinds
        <3>3. NoNews
            BY <2>1 DEF calling, Types, MoreTypes, NoNews
        <3>4. Retried(s, d)
            BY <1>2, <3>1, <3>2, <3>3 DEF Retried, con
        <3> QED
            BY <3>1, <3>4 DEF ServerHeard
    <2>2. ASSUME NEW half \in HalfQueries(s, con), conns' = [conns EXCEPT ![s] = half.con],
                 FailsAfter(half.requests, s)
          PROVE  ServerHeard(s, d)
        <3>1. conns'[s] = half.con /\ \A t \in Servers : t # s => conns'[t] = conns[t]
            BY <2>2, OneChanged
        <3>2. Similar(con, half.con) /\ \A r \in half.requests : r.to = s /\ r.kind = "get_info"
            BY <1>1, HalfKinds
        <3>3. NoNews /\ sent' = half.requests
            BY <2>2 DEF FailsAfter, Return, NoNews
        <3>4. Retried(s, d)
            BY <3>1, <3>2, <3>3 DEF Retried, con
        <3> QED
            BY <3>1, <3>4 DEF ServerHeard
    <2> QED
        BY <1>3, <2>1, <2>2 DEF HandleWrongVersion, Sends, con
<1>4. CASE ~(conns[s].state = "protocol_detection" /\ conns[s].protocol = PROTOCOL_VERSION)
    <2>1. conns' = [conns EXCEPT ![s] = None]
        BY <1>4 DEF HandleWrongVersion
    <2>2. conns'[s] = None /\ \A t \in Servers : t # s => conns'[t] = conns[t]
        BY <2>1, OneChanged
    <2>3. event' = Event("server_invalid_protocol", s) /\ sent' = {}
        BY <1>4 DEF HandleWrongVersion, Deliver, Return, Silent, Sends
    <2> QED
        BY <2>2, <2>3 DEF ServerHeard, Refused
<1> QED
    BY <1>3, <1>4

LEMMA ReceiveOutcomes ==
    ASSUME Types, NEW d, WellFormed(d), Receive(d)
    PROVE  ReceiveOutcome(d)
<1>1. /\ pc = "receive" /\ event = None /\ delayed = {}
      /\ UNCHANGED <<now, masters, delayed, deadline>>
    <2>1. pc = "receive" /\ UNCHANGED <<now, masters, delayed>>
        BY DEF Receive
    <2>2. event = None /\ delayed = {}
        BY <2>1 DEF Types, TypeOK, MoreTypes
    <2>3. UNCHANGED deadline
        BY ReceiveStays DEF StaysOrReturns, calling
    <2> QED
        BY <2>1, <2>2, <2>3
<1>2. CASE Ignore
    BY <1>1, <1>2 DEF Ignore, Silent, Sends, calling, ReceiveOutcome, Unnoticed
<1>3. CASE d.from \in masters /\ HandleMasterPacket(d.from, d)
    <2>1. MasterHeard(d.from, d) \/ Ignore
        BY <1>3 DEF HandleMasterPacket, Deliver, Return, Silent, Sends, MasterHeard, Ignore
    <2> QED
        BY <1>1, <1>2, <2>1 DEF ReceiveOutcome
<1>4. CASE d.from \in Watched \ masters /\ HandleServerPacket(d.from, d)
    <2>1. CASE d.kind = "challenge" /\ HandleChallenge(d.from, d.challenge)
        BY <1>1, <1>4, <2>1, ChallengeOutcome DEF WellFormed, ReceiveOutcome
    <2>2. CASE HandlePlayers(d.from)
        <3>1. CASE conns[d.from].wait_players
            BY <1>1, <1>4, <2>2, <3>1, PlayersOutcome DEF ReceiveOutcome
        <3>2. CASE ~conns[d.from].wait_players
            BY <1>2, <2>2, <3>2 DEF HandlePlayers
        <3> QED
            BY <3>1, <3>2
    <2>3. CASE d.kind = "info" /\ HandleInfo(d.from, d.data)
        BY <1>1, <1>4, <2>3, InfoOutcome DEF WellFormed, ReceiveOutcome
    <2>4. CASE d.kind = "wrong_version" /\ HandleWrongVersion(d.from)
        BY <1>1, <1>4, <2>4, WrongVersionOutcome DEF ReceiveOutcome
    <2>5. CASE /\ d.kind \in {"list", "garbage"} /\ UNCHANGED conns
               /\ Deliver(Event("server_invalid_packet", d.from))
        <3>1. InvalidHeard(d.from, d)
            BY <2>5 DEF Deliver, Return, Silent, Sends, InvalidHeard
        <3> QED
            BY <1>1, <1>4, <2>5, <3>1 DEF ReceiveOutcome, ServerHeard
    <2> QED
        BY <1>2, <1>4, <2>1, <2>2, <2>3, <2>4, <2>5 DEF HandleServerPacket
<1> QED
    BY <1>2, <1>3, <1>4 DEF Receive

-----------------------------------------------------------------------------
(* The types of the query tool                                             *)

\* What the tool has in hand is what the types of the code say.
ToolTypes ==
    /\ cli \in Commandline
    /\ stage \in {"start", "run", "nothing", "complete", "timeout", "error"}
    /\ start \in Nat /\ timeout \in Nat
    /\ results \in [Addr -> ServerResult \cup {None}]
    /\ custom \subseteq Servers
    /\ shown \in [Addr -> Infos \cup {None}]
    /\ event \in Events \cup {None}
    /\ stage # "run" => pc = "user"
    /\ stage = "start" => Watched = {} /\ masters = {} /\ delayed = {} /\ event = None

Told(kind) == event # None /\ event.kind = kind

\* Whoever is watched has a result, and so has who sent its players.
ResultsThere ==
    stage = "run" /\ Is({"all", "info"}) =>
        /\ \A s \in Watched : results[s] # None
        /\ Told("server_players") => results[event.addr] # None

ListsTyped == \A d \in wire : d.kind = "list" => d.servers \subseteq Servers

ToolTypesIInv == TypesIInv /\ ToolTypes /\ ListsTyped /\ ResultsThere

LEMMA SetToSeqFacts ==
    ASSUME NEW S, IsFiniteSet(S)
    PROVE  /\ Cardinality(S) \in Nat
           /\ SetToSeq(S) \in [1 .. Cardinality(S) -> S]
           /\ \A x \in S : \E i \in 1 .. Cardinality(S) : SetToSeq(S)[i] = x
<1> DEFINE n == Cardinality(S)
<1>1. n \in Nat /\ Bijection(1 .. n, S) # {}
    BY FS_CardinalityType DEF ExistsBijection
<1>2. PICK f \in Bijection(1 .. n, S) : TRUE
    BY <1>1
<1>3. f \in [1 .. n -> S] /\ IsInjective(f)
    BY <1>2 DEF Bijection, Injection
<1>4. SetToSeq(S) \in [1 .. n -> S] /\ IsInjective(SetToSeq(S))
    BY <1>3 DEF SetToSeq
<1>5. SetToSeq(S) \in Injection(1 .. n, S)
    BY <1>4 DEF Injection
<1>6. IsFiniteSet(1 .. n) /\ Cardinality(1 .. n) = n
    BY <1>1, FS_Interval
<1>7. SetToSeq(S) \in Surjection(1 .. n, S)
    BY <1>5, <1>6, FS_Injection
<1> QED
    BY <1>1, <1>4, <1>7 DEF Surjection

\* Those that are inserted at once become pending, and no one else.
LEMMA PendingOfFacts ==
    ASSUME NEW kind, NEW addrs, IsFiniteSet(addrs),
           \A a \in addrs : Pending(kind, a) \in Entries
    PROVE  /\ PendingOf(kind, addrs) \in Seq(Entries)
           /\ \A a \in addrs : Has(PendingOf(kind, addrs), Pending(kind, a))
<1> DEFINE n == Cardinality(addrs)
           seq == SetToSeq(addrs)
           pends == [i \in 1 .. n |-> Pending(kind, seq[i])]
<1>1. n \in Nat /\ seq \in [1 .. n -> addrs] /\ \A a \in addrs : \E i \in 1 .. n : seq[i] = a
    BY SetToSeqFacts
<1>2. PendingOf(kind, addrs) = pends
    BY DEF PendingOf
<1> HIDE DEF n, seq
<1>3. pends \in [1 .. n -> Entries]
    BY <1>1
<1>4. \A a \in addrs : \E i \in 1 .. n : pends[i] = Pending(kind, a)
    BY <1>1
<1>5. DOMAIN pends = 1 .. n
    OBVIOUS
<1> HIDE DEF pends
<1>6. pends \in Seq(Entries)
    BY <1>1, <1>3
<1> QED
    BY <1>2, <1>4, <1>5, <1>6 DEF Has

LEMMA ConcatFacts ==
    ASSUME NEW S, NEW s \in Seq(S), NEW t \in Seq(S)
    PROVE  /\ s \o t \in Seq(S)
           /\ \A x : Has(s, x) \/ Has(t, x) => Has(s \o t, x)
<1> DEFINE both == s \o t
<1>1. /\ both \in Seq(S) /\ Len(both) = Len(s) + Len(t)
      /\ Len(s) \in Nat /\ Len(t) \in Nat
      /\ DOMAIN s = 1 .. Len(s) /\ DOMAIN t = 1 .. Len(t) /\ DOMAIN both = 1 .. Len(both)
    OBVIOUS
<1>2. /\ \A i \in 1 .. Len(s) : both[i] = s[i]
      /\ \A i \in 1 .. Len(t) : both[Len(s) + i] = t[i]
    OBVIOUS
<1> HIDE DEF both
<1>3. ASSUME NEW i \in DOMAIN s PROVE Has(both, s[i])
    <2>1. i \in DOMAIN both /\ both[i] = s[i]
        BY <1>1, <1>2, <1>3
    <2> QED
        BY <2>1 DEF Has
<1>4. ASSUME NEW i \in DOMAIN t PROVE Has(both, t[i])
    <2>1. Len(s) + i \in DOMAIN both /\ both[Len(s) + i] = t[i]
        BY <1>1, <1>2, <1>4
    <2> QED
        BY <2>1 DEF Has
<1>5. ASSUME NEW x, Has(s, x) \/ Has(t, x) PROVE Has(both, x)
    BY <1>3, <1>4, <1>5 DEF Has
<1> QED
    BY <1>1, <1>5 DEF both

\* What was to be asked stays so, and whoever is inserted joins it.
LEMMA InsertMastersFacts ==
    ASSUME Types, NEW ms \in SUBSET Masters, InsertMasters(ms)
    PROVE  /\ masters' \subseteq Masters /\ pending' \in Seq(Entries) /\ ConnsTyped
           /\ \A x : Has(pending, x) => Has(pending', x)
           /\ \A m \in masters' \ masters : Has(pending', Pending("master", m))
<1> DEFINE fresh == PendingOf("master", ms \ masters)
<1>1. IsFiniteSet(ms \ masters)
    BY QueryToolAssumption, FS_Subset
<1>2. \A m \in ms \ masters : Pending("master", m) \in Entries
    BY DEF Pending, Entries
<1>3. /\ fresh \in Seq(Entries)
      /\ \A m \in ms \ masters : Has(fresh, Pending("master", m))
    BY <1>1, <1>2, PendingOfFacts
<1>4. /\ pending' = pending \o fresh /\ pending \in Seq(Entries)
      /\ masters' \ masters = ms \ masters
    BY DEF InsertMasters, Types, MoreTypes
<1> HIDE DEF fresh
<1>5. /\ pending' \in Seq(Entries)
      /\ \A x : Has(pending, x) \/ Has(fresh, x) => Has(pending', x)
    BY <1>3, <1>4, ConcatFacts
<1>6. masters' \subseteq Masters /\ ConnsTyped
    BY DEF InsertMasters, ConnsTyped, Types, TypeOK, MoreTypes
<1> QED
    BY <1>3, <1>4, <1>5, <1>6

LEMMA InsertServersFacts ==
    ASSUME Types, NEW ss \in SUBSET Servers, NEW players \in BOOLEAN,
           InsertServers(ss, players)
    PROVE  /\ masters' = masters /\ pending' \in Seq(Entries) /\ ConnsTyped
           /\ \A x : Has(pending, x) => Has(pending', x)
           /\ \A s \in Watched' \ Watched : Has(pending', Pending("server", s))
<1> DEFINE new == {s \in ss : conns[s] = None}
           fresh == PendingOf("server", new)
<1>1. IsFiniteSet(new)
    BY QueryToolAssumption, FS_Subset
<1>2. \A s \in new : Pending("server", s) \in Entries
    BY DEF Pending, Entries
<1>3. fresh \in Seq(Entries) /\ \A s \in new : Has(fresh, Pending("server", s))
    BY <1>1, <1>2, PendingOfFacts
<1>4. pending' = pending \o fresh /\ pending \in Seq(Entries) /\ masters' = masters
    BY DEF InsertServers, Types, MoreTypes
<1>5. NewConnection(players) \in Connection /\ NewConnection(players).response_time = now
    BY NewConnectionFacts DEF NewConnection, Types, TypeOK
<1>6. conns' = [s \in Servers |-> IF s \in new THEN NewConnection(players) ELSE conns[s]]
    BY DEF InsertServers
<1> HIDE DEF fresh
<1>7. /\ pending' \in Seq(Entries)
      /\ \A x : Has(pending, x) \/ Has(fresh, x) => Has(pending', x)
    BY <1>3, <1>4, ConcatFacts
<1>8. ConnsTyped
    BY <1>5, <1>6 DEF ConnsTyped, Types, TypeOK, MoreTypes
<1>9. \A s \in Watched' \ Watched : s \in new
    BY <1>6 DEF Watched
<1> QED
    BY <1>3, <1>4, <1>7, <1>8, <1>9

\* A step of the tool itself, as far as the observer is concerned.
LEMMA OwnStepTypes ==
    ASSUME Types, OwnStep, pc = "user", masters' \subseteq Masters,
           pending' \in Seq(Entries), ConnsTyped
    PROVE  Types' /\ sent' \subseteq Requests
<1>1. UNCHANGED <<now, key, drawn, delayed, tasks, pc, deadline>> /\ sent' = {}
    BY DEF OwnStep, Silent, Sends
<1>2. MoreTypes'
    BY <1>1 DEF Types, MoreTypes, ConnsTyped
<1>3. \A i \in DOMAIN pending' : pending'[i] \in Entries
    OBVIOUS
<1>4. TypeOK'
    BY <1>1, <1>3 DEF Types, TypeOK, ConnsTyped, Entries
<1> QED
    BY <1>1, <1>2, <1>4 DEF Types

LEMMA AwaitedFacts ==
    ASSUME results \in [Addr -> ServerResult \cup {None}], NEW ss
    PROVE  /\ Awaited(ss) \in [Addr -> ServerResult \cup {None}]
           /\ \A a \in Addr : results[a] # None => Awaited(ss)[a] = results[a]
           /\ \A a \in Addr : a \in ss => Awaited(ss)[a] # None
           /\ \A a \in Addr : results[a] = None /\ a \in ss => Awaited(ss)[a] = NewResult("timeout")
<1>1. NewResult("timeout") \in ServerResult
    BY DEF NewResult, ServerResult
<1> QED
    BY <1>1, QueryToolAssumption DEF Awaited

LEMMA StartTypes ==
    ASSUME ToolTypesIInv, Start
    PROVE  Types' /\ sent' \subseteq Requests /\ ToolTypes' /\ ResultsThere'
<1>1. /\ stage = "start" /\ stage' \in {"nothing", "run"} /\ pc = "user" /\ OwnStep
      /\ Watched = {} /\ masters = {} /\ delayed = {} /\ event = None
    BY DEF Start, ToolTypesIInv, ToolTypes
<1>2. cli \in Commandline /\ cli' = cli /\ event' = event /\ shown' = shown /\ pc' = pc
    BY <1>1 DEF Start, OwnStep, ToolTypesIInv, ToolTypes
<1>3. \/ InsertMasters(Masters) /\ ~Is({"info"})
      \/ InsertServers(cli.servers, Is({"info"}) /\ cli.players)
    BY DEF Start, Is
<1>4. masters' \subseteq Masters /\ pending' \in Seq(Entries) /\ ConnsTyped
    <2>1. cli.servers \in SUBSET Servers /\ (Is({"info"}) /\ cli.players) \in BOOLEAN
        BY <1>2 DEF Commandline
    <2>2. CASE InsertMasters(Masters)
        BY <2>2, InsertMastersFacts DEF ToolTypesIInv, TypesIInv
    <2>3. CASE InsertServers(cli.servers, Is({"info"}) /\ cli.players)
        BY <1>1, <2>1, <2>3, InsertServersFacts DEF ToolTypesIInv, TypesIInv
    <2> QED
        BY <1>3, <2>2, <2>3
<1>5. Types' /\ sent' \subseteq Requests
    BY <1>1, <1>4, OwnStepTypes DEF ToolTypesIInv, TypesIInv
<1>6. results' = IF Is({"info"}) THEN Awaited(cli.servers) ELSE results
    BY DEF Start
<1>7. results' \in [Addr -> ServerResult \cup {None}]
    BY <1>6, AwaitedFacts DEF ToolTypesIInv, ToolTypes
<1>8. ToolTypes'
    <2>1. start' \in Nat /\ timeout' \in Nat
        BY QueryToolAssumption, ObserverAssumption
        DEF Start, ToolTypesIInv, TypesIInv, Types, TypeOK
    <2>2. custom' \subseteq Servers
        BY <1>2 DEF Start, Commandline
    <2> QED
        BY <1>1, <1>2, <1>7, <2>1, <2>2 DEF ToolTypesIInv, ToolTypes
<1>9. ResultsThere'
    <2>1. ~Told("server_players")'
        BY <1>1, <1>2 DEF Told
    <2>2. ASSUME Is({"all", "info"}), NEW s \in Watched'
          PROVE  results'[s] # None
        <3>1. s \in Servers /\ conns'[s] # None /\ conns[s] = None
            BY <1>1 DEF Watched
        <3>2. InsertServers(cli.servers, Is({"info"}) /\ cli.players) /\ Is({"info"})
            BY <2>2, <3>1 DEF InsertMasters, Start, Is
        <3>3. s \in cli.servers
            BY <3>1, <3>2 DEF InsertServers
        <3> QED
            BY <1>6, <3>1, <3>2, <3>3, AwaitedFacts DEF Addr, ToolTypesIInv, ToolTypes
    <2> QED
        BY <1>2, <2>1, <2>2 DEF ResultsThere, Is
<1> QED
    BY <1>5, <1>8, <1>9

\* Whatever the query tool makes of an event, results stay.
LEMMA QueryEventTypes ==
    ASSUME ToolTypesIInv, Returned, QueryEvent
    PROVE  /\ results' \in [Addr -> ServerResult \cup {None}]
           /\ \A a \in Addr : results[a] # None => results'[a] # None
           /\ custom' \subseteq Servers /\ timeout' \in Nat
           /\ \/ event.kind = "server_list" /\ results' = Awaited(event.servers)
              \/ UNCHANGED <<masters, conns, pending>>
<1> DEFINE Fits(r) == r \in ServerResult
<1>1. /\ results \in [Addr -> ServerResult \cup {None}]
      /\ custom \subseteq Servers /\ timeout \in Nat
      /\ event \in Events /\ Is({"all", "info"})
    BY DEF ToolTypesIInv, ToolTypes, Returned, QueryEvent
<1>2. CASE event.kind = "server_list" /\ results' = Awaited(event.servers)
             /\ timeout' = GameTimeout /\ UNCHANGED custom
    BY <1>1, <1>2, AwaitedFacts, QueryToolAssumption
<1>3. ASSUME NEW a \in Addr, NEW r, Fits(r), results' = [results EXCEPT ![a] = r],
             NEW complete, Settle(a, complete), UNCHANGED <<masters, conns, pending, timeout>>
      PROVE  /\ results' \in [Addr -> ServerResult \cup {None}]
             /\ \A b \in Addr : results[b] # None => results'[b] # None
             /\ custom' \subseteq Servers /\ timeout' \in Nat
             /\ UNCHANGED <<masters, conns, pending>>
    BY <1>1, <1>3, QueryToolAssumption DEF Settle
<1>4. ASSUME NEW a \in Addr, NEW kind, NewResult(kind) \in ServerResult,
             SetServerResult(a, kind), UNCHANGED <<masters, conns, pending, timeout>>
      PROVE  /\ results' \in [Addr -> ServerResult \cup {None}]
             /\ \A b \in Addr : results[b] # None => results'[b] # None
             /\ custom' \subseteq Servers /\ timeout' \in Nat
             /\ UNCHANGED <<masters, conns, pending>>
    BY <1>3, <1>4 DEF SetServerResult
<1>5. CASE event.kind # "server_list" /\ UNCHANGED <<masters, conns, pending, timeout>>
    <2>1. CASE event.kind = "server_info" /\ SetServerResultOk(event.addr)
        <3> DEFINE e == IF results[event.addr] = None THEN NewResult("timeout")
                        ELSE results[event.addr]
                   r == IF e.kind = "ok_with_players" THEN e
                        ELSE NewResult(IF e.stored THEN "ok_with_players" ELSE "ok")
        <3>1. event.addr \in Addr
            BY <1>1, <2>1 DEF Events
        <3>2. e \in ServerResult
            BY <1>1, <3>1 DEF NewResult, ServerResult
        <3>3. r \in ServerResult
            BY <3>2 DEF NewResult, ServerResult
        <3>4. results' = [results EXCEPT ![event.addr] = r]
              /\ \E complete \in {TRUE, FALSE} : Settle(event.addr, complete)
            <4>1. (~cli.players \/ e.stored) \in {TRUE, FALSE}
                OBVIOUS
            <4> QED
                BY <2>1, <4>1 DEF SetServerResultOk
        <3> HIDE DEF r
        <3> QED
            BY <1>3, <1>5, <3>1, <3>3, <3>4
    <2>2. CASE event.kind = "server_players" /\ SetServerPlayers(event.addr)
        <3> DEFINE e == results[event.addr]
                   r == IF e.kind = "ok" THEN [e EXCEPT !.kind = "ok_with_players"]
                        ELSE [e EXCEPT !.stored = TRUE]
        <3>1. event.addr \in Addr
            BY <1>1, <2>2 DEF Events, Addr
        <3>2. e \in ServerResult
            <4>1. stage = "run" /\ Told("server_players")
                BY <2>2 DEF Returned, Told
            <4>2. e # None
                BY <1>1, <4>1 DEF ResultsThere, ToolTypesIInv
            <4> QED
                BY <1>1, <3>1, <4>2
        <3>3. r \in ServerResult
            BY <3>2 DEF ServerResult
        <3>4. results' = [results EXCEPT ![event.addr] = r]
              /\ \E complete \in {TRUE, FALSE} : Settle(event.addr, complete)
            <4>1. (~cli.players \/ e.kind = "ok") \in {TRUE, FALSE}
                OBVIOUS
            <4> QED
                BY <2>2, <4>1 DEF SetServerPlayers
        <3> HIDE DEF r
        <3> QED
            BY <1>3, <1>5, <3>1, <3>3, <3>4
    <2>3. CASE event.kind = "server_invalid_protocol"
                   /\ SetServerResult(event.addr, "invalid_protocol")
        <3>1. event.addr \in Addr /\ NewResult("invalid_protocol") \in ServerResult
            BY <1>1, <2>3 DEF Events, Addr, NewResult, ServerResult
        <3> QED
            BY <1>4, <1>5, <2>3, <3>1
    <2>4. CASE event.kind = "server_invalid_packet" /\ SetInvalidPacket(event.addr)
        <3>1. event.addr \in Addr /\ NewResult("invalid_packet") \in ServerResult
            BY <1>1, <2>4 DEF Events, Addr, NewResult, ServerResult
        <3>2. CASE SetServerResult(event.addr, "invalid_packet")
            BY <1>4, <1>5, <3>1, <3>2
        <3>3. CASE UNCHANGED <<results, custom>>
            BY <1>1, <1>5, <3>3
        <3> QED
            BY <2>4, <3>2, <3>3 DEF SetInvalidPacket
    <2>5. CASE UNCHANGED <<results, custom>>
        BY <1>1, <1>5, <2>5
    <2> QED
        BY <1>5, <2>1, <2>2, <2>3, <2>4, <2>5 DEF QueryEvent
<1> QED
    BY <1>2, <1>5 DEF QueryEvent

LEMMA HandleEventTypes ==
    ASSUME ToolTypesIInv, HandleEvent
    PROVE  Types' /\ sent' \subseteq Requests /\ ToolTypes' /\ ResultsThere'
<1>1. /\ Returned /\ OwnStep /\ event' = None /\ stage' = stage /\ start' = start
      /\ cli' = cli /\ stage = "run" /\ pc = "user"
      /\ event \in Events /\ cli \in Commandline
    BY DEF HandleEvent, Returned, OwnStep, ToolTypesIInv, ToolTypes
<1>2. event.kind = "server_list" => event.servers \in SUBSET Servers
    BY <1>1 DEF Events
<1>3. \/ event.kind = "server_list" /\ InsertServers(event.servers, cli.players)
      \/ event.kind = "server_list" /\ InsertServers(event.servers, FALSE)
      \/ UNCHANGED <<masters, conns, pending>>
    BY DEF HandleEvent, QueryEvent, ListEvent, MonitorEvent
<1>4. masters' \subseteq Masters /\ pending' \in Seq(Entries) /\ ConnsTyped
    <2>1. cli.players \in BOOLEAN
        BY <1>1 DEF Commandline
    <2>2. masters \subseteq Masters
        BY DEF ToolTypesIInv, TypesIInv, Types, TypeOK
    <2>3. CASE UNCHANGED <<masters, conns, pending>>
        BY <2>3 DEF ToolTypesIInv, TypesIInv, Types, TypeOK, MoreTypes, ConnsTyped
    <2>4. ASSUME NEW players \in BOOLEAN, event.kind = "server_list",
                 InsertServers(event.servers, players)
          PROVE  masters' \subseteq Masters /\ pending' \in Seq(Entries) /\ ConnsTyped
        BY <1>2, <2>2, <2>4, InsertServersFacts DEF ToolTypesIInv, TypesIInv
    <2> QED
        BY <1>3, <2>1, <2>3, <2>4
<1>5. Types' /\ sent' \subseteq Requests
    BY <1>1, <1>4, OwnStepTypes DEF ToolTypesIInv, TypesIInv
<1>6. /\ results' \in [Addr -> ServerResult \cup {None}]
      /\ custom' \subseteq Servers /\ timeout' \in Nat
    BY <1>1, QueryEventTypes
    DEF HandleEvent, ListEvent, MonitorEvent, ToolTypesIInv, ToolTypes
<1>7. shown' \in [Addr -> Infos \cup {None}]
    <2>1. shown \in [Addr -> Infos \cup {None}]
        BY DEF ToolTypesIInv, ToolTypes
    <2>2. event.kind = "server_info" => event.data \in Infos
        BY <1>1 DEF Events
    <2>3. \/ shown' = shown
          \/ event.kind = "server_info" /\ shown' = [shown EXCEPT ![event.addr] = event.data]
          \/ shown' = [shown EXCEPT ![event.addr] = None]
        BY DEF HandleEvent, QueryEvent, ListEvent, MonitorEvent
    <2> QED
        BY <2>1, <2>2, <2>3
<1>8. ToolTypes'
    BY <1>1, <1>6, <1>7 DEF ToolTypesIInv, ToolTypes, OwnStep
<1>9. ResultsThere'
    <2>1. ASSUME Is({"all", "info"}), NEW s \in Watched'
          PROVE  results'[s] # None
        <3>1. s \in Servers /\ s \in Addr /\ conns'[s] # None
            BY DEF Watched, Addr
        <3>2. QueryEvent
            BY <2>1 DEF HandleEvent, ListEvent, MonitorEvent, Is
        <3>3. /\ \A a \in Addr : results[a] # None => results'[a] # None
              /\ \/ event.kind = "server_list" /\ results' = Awaited(event.servers)
                 \/ UNCHANGED <<masters, conns, pending>>
            BY <1>1, <3>2, QueryEventTypes
        <3>4. CASE conns[s] # None
            BY <1>1, <2>1, <3>1, <3>3, <3>4 DEF Watched, ResultsThere, ToolTypesIInv
        <3>5. CASE conns[s] = None
            <4>1. s \in event.servers /\ results' = Awaited(event.servers)
                BY <1>3, <3>1, <3>3, <3>5 DEF InsertServers
            <4> QED
                BY <3>1, <4>1, AwaitedFacts DEF ToolTypesIInv, ToolTypes
        <3> QED
            BY <3>4, <3>5
    <2> QED
        BY <1>1, <2>1 DEF ResultsThere, Is, Told
<1> QED
    BY <1>5, <1>8, <1>9

LEMMA FinishTypes ==
    ASSUME ToolTypesIInv, Finish
    PROVE  Types' /\ sent' \subseteq Requests /\ ToolTypes' /\ ResultsThere'
<1>1. /\ pc = "user" /\ stage' \in {"timeout", "error", "complete"}
      /\ UNCHANGED <<now, asking, calling, cli, start, timeout, toolOnly>> /\ sent' = {}
    BY DEF Finish, End, Returned, Silent, Sends
<1>2. Types'
    BY <1>1 DEF ToolTypesIInv, TypesIInv, Types, TypeOK, MoreTypes, asking, calling
<1>3. ToolTypes' /\ ResultsThere'
    BY <1>1 DEF ToolTypesIInv, ToolTypes, ResultsThere, Watched, toolOnly, asking, calling
<1> QED
    BY <1>1, <1>2, <1>3

\* The tool waits when it has time left.
LEMMA WaitForFacts ==
    ASSUME ToolTypesIInv, Wait
    PROVE  /\ stage = "run" /\ pc = "user" /\ event = None
           /\ UNCHANGED <<cli, stage, start, timeout, toolOnly>>
           /\ \/ Is({"monitor"}) /\ WaitEvent(None)
              \/ ~Is({"monitor"}) /\ Remaining \in Nat /\ WaitEvent(Remaining)
<1>1. Remaining \in Int
    BY ObserverAssumption DEF Remaining, ToolTypesIInv, TypesIInv, Types, TypeOK, ToolTypes
<1> QED
    BY <1>1 DEF Wait

LEMMA WaitTypes ==
    ASSUME ToolTypesIInv, Wait
    PROVE  Types' /\ sent' \subseteq Requests /\ ToolTypes' /\ ResultsThere'
<1>1. /\ stage = "run" /\ pc = "user" /\ event = None
      /\ UNCHANGED <<cli, stage, start, timeout, toolOnly>>
    BY WaitForFacts
<1>2. PICK t \in Nat \cup {None} : WaitEvent(t)
    BY WaitForFacts
<1>3. sent' = {} /\ UNCHANGED <<now, masters, key, drawn, conns, pending, tasks>>
    BY <1>2 DEF WaitEvent, Silent, Sends
<1>4. \/ /\ pc' = "user" /\ event' \in delayed /\ delayed' \subseteq delayed
         /\ deadline' = deadline
      \/ /\ pc' = "turn" /\ event' = None /\ delayed' = {} /\ delayed = {}
         /\ deadline' = IF t = None THEN None ELSE now + t
    BY <1>2 DEF WaitEvent, PopDelayed, Latest, Return, Goto
<1>5. deadline' = None \/ deadline' \in Nat
    BY <1>4, ObserverAssumption
    DEF ToolTypesIInv, TypesIInv, Types, MoreTypes, TypeOK
<1>6. MoreTypes'
    BY <1>3, <1>4, <1>5 DEF ToolTypesIInv, TypesIInv, Types, MoreTypes
<1>7. TypeOK'
    BY <1>3, <1>4 DEF ToolTypesIInv, TypesIInv, Types, TypeOK
<1>8. event' \in Events \cup {None} /\ ~Told("server_players")'
    <2>1. delayed \subseteq [kind : {"server_timeout", "server_remove"}, addr : Servers]
        BY DEF ToolTypesIInv, TypesIInv, Types, TypeOK
    <2>2. CASE event' = None
        BY <2>2 DEF Told
    <2>3. CASE event' \in delayed
        BY <2>1, <2>3 DEF Told, Events
    <2> QED
        BY <1>4, <2>2, <2>3
<1>9. ToolTypes' /\ ResultsThere'
    BY <1>1, <1>3, <1>8
    DEF ToolTypesIInv, ToolTypes, ResultsThere, Watched, Is, toolOnly
<1> QED
    BY <1>3, <1>6, <1>7, <1>9 DEF Types

LEMMA AnswerFacts ==
    ASSUME NEW r \in Requests, NEW d \in Answers(r)
    PROVE  /\ d.from = r.to
           /\ d.kind \in {"list", "info", "wrong_version", "challenge", "players"}
           /\ d.kind = "list" => r.kind = "query_servers" /\ d.servers \in Lists
           /\ d.kind = "wrong_version" => r.kind = "get_info" /\ r.protocol # Speaks[r.to]
<1>1. CASE r.kind = "query_servers"
    BY <1>1 DEF Answers
<1>2. CASE r.kind = "get_info"
    BY <1>2 DEF Answers
<1>3. CASE r.kind = "get_challenge"
    BY <1>3 DEF Answers
<1>4. CASE r.kind = "get_players"
    BY <1>4 DEF Answers
<1> QED
    BY <1>1, <1>2, <1>3, <1>4 DEF Requests

\* The lists that can arrive are lists of servers.
LEMMA FollowLists ==
    ASSUME ListsTyped, Follow, sent' \subseteq Requests
    PROVE  ListsTyped'
BY AnswerFacts, QueryToolAssumption DEF ListsTyped, Follow

\* What a step of the loop may do, as far as results are concerned.
LoopOutcome ==
    /\ Watched' \subseteq Watched
    /\ event' \in Events \cup {None}
    /\ Told("server_players")' => event'.addr \in Watched

LEMMA TurnLoops ==
    ASSUME Types, TurnOutcome
    PROVE  LoopOutcome
<1>1. Watched' \subseteq Watched
    BY DEF TurnOutcome, Watched
<1>2. delayed \subseteq [kind : {"server_timeout", "server_remove"}, addr : Servers]
    BY DEF Types, TypeOK
<1>3. CASE event' \in delayed
    BY <1>1, <1>2, <1>3 DEF LoopOutcome, Told, Events
<1>4. CASE event' \in {None, [kind |-> "error"], [kind |-> "timeout"]}
    BY <1>1, <1>4 DEF LoopOutcome, Told, Events
<1> QED
    BY <1>3, <1>4 DEF TurnOutcome

LEMMA ReceiveLoops ==
    ASSUME Types, ListsTyped, NEW d \in wire \cup Stray, WellFormed(d), ReceiveOutcome(d)
    PROVE  LoopOutcome
<1>1. masters \subseteq Masters /\ Watched \subseteq Servers
    BY DEF Types, TypeOK, Watched
<1>2. d.kind = "list" => d.servers \subseteq Servers
    BY QueryToolAssumption DEF ListsTyped
<1>3. CASE Unnoticed
    BY <1>3 DEF Unnoticed, LoopOutcome, Watched, Told
<1>4. CASE MasterHeard(d.from, d)
    <2>1. Watched' = Watched
        BY <1>4 DEF MasterHeard, Watched
    <2>2. event' \in Events /\ ~Told("server_players")'
        <3>1. d.from \in Masters
            BY <1>1, <1>4 DEF MasterHeard
        <3>2. CASE /\ d.kind = "list"
                   /\ event' = [kind |-> "server_list", addr |-> d.from, servers |-> d.servers]
            <4>1. event' \in [kind : {"server_list"}, addr : Masters, servers : SUBSET Servers]
                BY <1>2, <3>1, <3>2
            <4> QED
                BY <4>1 DEF Events, Told
        <3>3. CASE /\ d.kind = "info"
                   /\ event' = [kind |-> "server_info", addr |-> d.from, changed |-> TRUE,
                                data |-> d.data]
            <4>1. event' \in [kind : {"server_info"}, addr : Addr, changed : BOOLEAN,
                              data : Infos]
                BY <3>1, <3>3 DEF WellFormed, Addr
            <4> QED
                BY <4>1 DEF Events, Told
        <3>4. CASE event' = Event("master_invalid_packet", d.from)
            BY <3>1, <3>4 DEF Event, Events, Told
        <3> QED
            BY <1>4, <3>2, <3>3, <3>4 DEF MasterHeard
    <2> QED
        BY <2>1, <2>2 DEF LoopOutcome
<1>5. CASE ServerHeard(d.from, d)
    <2>1. d.from \in Watched /\ d.from \in Servers
        BY <1>1, <1>5 DEF ServerHeard
    <2>2. Watched' \subseteq Watched
        BY <1>5, <2>1 DEF ServerHeard, Watched
    <2>3. CASE Answered(d.from) \/ Retried(d.from, d)
        BY <2>2, <2>3 DEF Answered, Retried, NoNews, LoopOutcome, Told, Events
    <2>4. CASE PlayersHeard(d.from)
        <3>1. event' = [kind |-> "server_players", addr |-> d.from]
            BY <2>4 DEF PlayersHeard, Event
        <3>2. event' \in Events
            BY <2>1, <3>1 DEF Events
        <3> QED
            BY <2>1, <2>2, <3>1, <3>2 DEF LoopOutcome
    <2>5. CASE InfoHeard(d.from, d)
        <3>1. event' \in [kind : {"server_info"}, addr : Addr, changed : BOOLEAN, data : Infos]
            BY <2>1, <2>5 DEF InfoHeard, WellFormed, Addr
        <3> QED
            BY <2>2, <3>1 DEF LoopOutcome, Told, Events
    <2>6. CASE Refused(d.from, d) \/ InvalidHeard(d.from, d)
        BY <2>1, <2>2, <2>6 DEF Refused, InvalidHeard, LoopOutcome, Told, Event, Events
    <2> QED
        BY <1>5, <2>3, <2>4, <2>5, <2>6 DEF ServerHeard
<1> QED
    BY <1>3, <1>4, <1>5 DEF ReceiveOutcome

LEMMA LoopTypes ==
    ASSUME ToolTypesIInv, Loop \/ Tick, stage = "run",
           UNCHANGED <<cli, stage, start, timeout, toolOnly>>
    PROVE  Types' /\ sent' \subseteq Requests /\ ToolTypes' /\ ResultsThere'
<1> USE DEF ToolTypesIInv, TypesIInv
<1>1. CASE Tick
    <2>1. UNCHANGED <<asking, calling>>
        BY <1>1 DEF Tick
    <2>2. Types' /\ sent' \subseteq Requests
        BY <1>1, StutterTypes
    <2>3. ToolTypes' /\ ResultsThere'
        BY <2>1 DEF ToolTypes, ResultsThere, Told, Watched, Is, asking, calling, toolOnly
    <2> QED
        BY <2>2, <2>3
<1>2. CASE Loop
    <2>1. Types' /\ sent' \subseteq Requests /\ LoopOutcome
        <3>1. CASE Turn
            BY <3>1, TurnOutcomes, TurnLoops, StutterTypes, ServersTaskTypes, InfoTaskTypes,
               CleanupTaskTypes, ProcessPendingTypes DEF Turn
        <3>2. ASSUME NEW d \in wire \cup Stray, Receive(d)
              PROVE  Types' /\ sent' \subseteq Requests /\ LoopOutcome
            BY <3>2, ReceiveOutcomes, ReceiveLoops, ReceiveTypes, ArrivesWellFormed
        <3> QED
            BY <1>2, <3>1, <3>2 DEF Loop
    <2>2. ToolTypes'
        BY <2>1 DEF ToolTypes, LoopOutcome, toolOnly
    <2>3. ResultsThere'
        <3>1. ASSUME Is({"all", "info"}), NEW s \in Watched' PROVE results'[s] # None
            BY <2>1, <3>1 DEF LoopOutcome, ResultsThere, toolOnly
        <3>2. ASSUME Is({"all", "info"}), Told("server_players")'
              PROVE  results'[event'.addr] # None
            BY <2>1, <3>2 DEF LoopOutcome, ResultsThere, toolOnly
        <3> QED
            BY <3>1, <3>2 DEF ResultsThere, Is
    <2> QED
        BY <2>1, <2>2, <2>3
<1> QED
    BY <1>1, <1>2

LEMMA ToolTypesInitially == ToolInit => ToolTypesIInv
<1> SUFFICES ASSUME ToolInit PROVE ToolTypesIInv
    OBVIOUS
<1>1. TypesIInv /\ ListsTyped
    BY TypesInitially DEF ToolInit, SysInit, ListsTyped
<1>2. ToolTypes /\ ResultsThere
    BY QueryToolAssumption DEF ToolInit, SysInit, Init, ToolTypes, ResultsThere, Watched
<1> QED
    BY <1>1, <1>2 DEF ToolTypesIInv

LEMMA ToolTypesKept ==
    ASSUME ToolTypesIInv, [ToolNext]_toolVars
    PROVE  ToolTypesIInv'
<1>1. CASE UNCHANGED toolVars
    <2>1. UNCHANGED sysVars
        BY <1>1 DEF toolVars
    <2>2. TypesIInv'
        BY <2>1, TypesKept DEF ToolTypesIInv
    <2>3. ToolTypes' /\ ListsTyped' /\ ResultsThere'
        BY <1>1 DEF toolVars, toolOnly, sysVars, obsVars, asking, calling, ToolTypesIInv,
                    ToolTypes, ListsTyped, ResultsThere, Told, Watched, Is
    <2> QED
        BY <2>2, <2>3 DEF ToolTypesIInv
<1>2. CASE ToolNext
    <2>1. Types' /\ sent' \subseteq Requests /\ ToolTypes' /\ ResultsThere'
        BY <1>2, StartTypes, HandleEventTypes, FinishTypes, WaitTypes, LoopTypes DEF ToolNext
    <2>2. Follow
        BY <1>2 DEF ToolNext
    <2>3. HistoryTypes' /\ ListsTyped'
        BY <2>1, <2>2, FollowTypes, FollowLists DEF ToolTypesIInv, TypesIInv
    <2> QED
        BY <2>1, <2>3 DEF ToolTypesIInv, TypesIInv
<1> QED
    BY <1>1, <1>2

LEMMA AlwaysToolTyped == ToolSpec => []ToolTypesIInv
BY ToolTypesInitially, ToolTypesKept, PTL DEF ToolSpec

\* Players are only reported of a server that has a result (QueryServersInfo::run,
\* set_server_players).
THEOREM NoPlayersWithoutServer == ToolSpec => []NeverPanics
<1>1. ToolTypesIInv => NeverPanics
    BY DEF ToolTypesIInv, ResultsThere, NeverPanics, Returned, Told
<1> QED
    BY <1>1, AlwaysToolTyped, PTL

-----------------------------------------------------------------------------
(* The timeout of the query tool                                           *)

LEMMA WaitEndsWithCall ==
    ASSUME tasks.servers \in Nat, tasks.info \in Nat, deadline \in Nat
    PROVE  ReceiveDeadline \in Nat /\ ReceiveDeadline <= deadline
<1> DEFINE S == {tasks.servers, tasks.info} \cup ({deadline} \ {None})
<1>1. S \in SUBSET Nat /\ deadline \in S
    BY QueryToolAssumption
<1>2. ReceiveDeadline = CHOOSE x \in S : \A y \in S : x <= y
    BY DEF ReceiveDeadline, Min
<1> HIDE DEF S
<1>3. \E x \in S : \A y \in S : x <= y
    BY <1>1, SmallestExists
<1> QED
    BY <1>1, <1>2, <1>3

\* A call of wait_event ends when the timeout of the tool does.
CallsEnd ==
    pc # "user" /\ ~Is({"monitor"}) => deadline = start + timeout /\ now <= deadline

LEMMA CallsEndKept ==
    ASSUME ToolTypesIInv, CallsEnd, [ToolNext]_toolVars
    PROVE  CallsEnd'
<1> USE DEF ToolTypesIInv, TypesIInv
<1>1. now \in Nat /\ start \in Nat /\ timeout \in Nat
    BY ObserverAssumption DEF Types, TypeOK, ToolTypes
<1>2. CASE Start \/ HandleEvent \/ Finish
    BY <1>2 DEF Start, HandleEvent, Returned, OwnStep, Finish, End, calling, CallsEnd,
                ToolTypes
<1>3. CASE Wait
    <2>1. UNCHANGED <<cli, start, timeout>> /\ pc = "user"
        BY <1>3, WaitForFacts
    <2>2. CASE Is({"monitor"})
        BY <2>1, <2>2 DEF CallsEnd, Is
    <2>3. CASE ~Is({"monitor"}) /\ Remaining \in Nat /\ WaitEvent(Remaining)
        <3>1. now' = now
            BY <2>3 DEF WaitEvent
        <3>2. Remaining # None
            BY <2>3, QueryToolAssumption
        <3>3. pc' = "user" \/ deadline' = now + Remaining
            BY <2>3, <3>2 DEF WaitEvent, PopDelayed, Return
        <3>4. now + Remaining = start + timeout /\ now <= now + Remaining
            BY <1>1, <2>3 DEF Remaining
        <3> QED
            BY <2>1, <3>1, <3>3, <3>4 DEF CallsEnd, Is
    <2> QED
        BY <1>3, <2>2, <2>3, WaitForFacts
<1>4. CASE UNCHANGED <<cli, start, timeout>> /\ (Loop \/ Tick)
    <2>1. CASE Turn
        <3>1. UNCHANGED <<now, deadline>> /\ pc # "user"
            BY <2>1, TurnOutcomes DEF TurnOutcome
        <3> QED
            BY <1>4, <3>1 DEF CallsEnd, Is
    <2>2. ASSUME NEW d \in wire \cup Stray, Receive(d)
          PROVE  CallsEnd'
        <3>1. UNCHANGED <<now, deadline>> /\ pc # "user"
            BY <2>2, ReceiveOutcomes, ArrivesWellFormed DEF ReceiveOutcome
        <3> QED
            BY <1>4, <3>1 DEF CallsEnd, Is
    <2>3. CASE Tick
        <3>1. UNCHANGED <<pc, deadline>> /\ now' = now + 1
              /\ (pc = "user" \/ now < ReceiveDeadline)
            BY <2>3 DEF Tick, calling
        <3>2. CASE pc # "user" /\ ~Is({"monitor"})
            <4>1. deadline = start + timeout /\ deadline \in Nat
                BY <1>1, <3>2 DEF CallsEnd
            <4>2. ReceiveDeadline \in Nat /\ ReceiveDeadline <= deadline
                BY <4>1, WaitEndsWithCall DEF Types, MoreTypes
            <4> QED
                BY <1>1, <1>4, <3>1, <3>2, <4>1, <4>2 DEF CallsEnd
        <3>3. CASE pc = "user" \/ Is({"monitor"})
            BY <1>4, <3>1, <3>3 DEF CallsEnd, Is
        <3> QED
            BY <3>2, <3>3
    <2> QED
        BY <1>4, <2>1, <2>2, <2>3 DEF Loop
<1>5. CASE UNCHANGED toolVars
    BY <1>5 DEF toolVars, sysVars, obsVars, calling, CallsEnd, Is
<1> QED
    BY <1>2, <1>3, <1>4, <1>5 DEF ToolNext

\* However many events come, the tool waits no longer than its timeout
\* (QueryServersInfo::run, list_servers::run).
THEOREM TimeoutIsKept == ToolSpec => []WaitsInTime
<1>1. ToolInit => CallsEnd
    BY DEF ToolInit, SysInit, Init, CallsEnd
<1>2. ToolTypesIInv /\ CallsEnd /\ [ToolNext]_toolVars => CallsEnd'
    BY CallsEndKept
<1>3. ToolTypesIInv /\ CallsEnd => WaitsInTime
    <2> SUFFICES ASSUME ToolTypesIInv, CallsEnd PROVE WaitsInTime
        OBVIOUS
    <2>1. now \in Nat /\ start \in Nat /\ timeout \in Nat
        BY ObserverAssumption DEF ToolTypesIInv, TypesIInv, Types, TypeOK, ToolTypes
    <2> QED
        BY <2>1 DEF CallsEnd, WaitsInTime, Waiting
<1> QED
    BY <1>1, <1>2, <1>3, AlwaysToolTyped, PTL DEF ToolSpec

-----------------------------------------------------------------------------
(* What "monitor" shows                                                    *)

\* What is shown of s once the event that was returned is handled.
Shows(s) ==
    IF Told("server_info") /\ event.addr = s /\ event.changed THEN event.data ELSE shown[s]

\* Who leaves is not watched again before the user has heard of it, and what a master
\* says of itself is not taken for the answer of a server.
ShownLags ==
    stage = "run" /\ Is({"monitor"}) =>
        /\ \A s \in Watched : conns[s].data # None => Shows(s) = conns[s].data
        /\ \A e \in delayed : e.kind = "server_remove" => e.addr \notin Watched
        /\ Told("server_remove") => event.addr \notin Watched
        /\ Told("server_list") => delayed = {}
        /\ \A m \in masters \cap Watched : conns[m].data = None

\* Those that are inserted at once have not answered, and the others are left alone.
LEMMA InsertedAreNew ==
    ASSUME Types, NEW ss \in SUBSET Servers, NEW players \in BOOLEAN,
           InsertServers(ss, players)
    PROVE  /\ \A s \in Watched : conns'[s] = conns[s] /\ s \in Watched'
           /\ \A s \in Watched' \ Watched : s \in ss /\ conns'[s] = NewConnection(players)
BY DEF InsertServers, Watched

LEMMA StartShown ==
    ASSUME ToolTypesIInv, Start
    PROVE  ShownLags'
<1>1. /\ Watched = {} /\ delayed' = {} /\ event' = None /\ cli \in Commandline
    BY DEF Start, OwnStep, ToolTypesIInv, ToolTypes
<1>2. \A s \in Watched' : conns'[s].data = None
    <2>1. CASE InsertMasters(Masters)
        BY <1>1, <2>1 DEF InsertMasters, Watched
    <2>2. CASE InsertServers(cli.servers, Is({"info"}) /\ cli.players)
        <3>1. cli.servers \in SUBSET Servers /\ (Is({"info"}) /\ cli.players) \in BOOLEAN
            BY <1>1 DEF Commandline
        <3>2. \A s \in Watched' : conns'[s] = NewConnection(Is({"info"}) /\ cli.players)
            BY <1>1, <2>2, <3>1, InsertedAreNew DEF ToolTypesIInv, TypesIInv
        <3> QED
            BY <3>2 DEF NewConnection
    <2> QED
        BY <2>1, <2>2 DEF Start
<1> QED
    BY <1>1, <1>2 DEF ShownLags, Told

LEMMA HandleEventShown ==
    ASSUME ToolTypesIInv, ShownLags, HandleEvent, Is({"monitor"})
    PROVE  ShownLags'
<1>1. /\ event \in Events /\ event # None /\ stage = "run" /\ event' = None
      /\ UNCHANGED <<cli, delayed>> /\ MonitorEvent
    BY DEF HandleEvent, OwnStep, Returned, QueryEvent, ListEvent, Is, ToolTypesIInv, ToolTypes
<1>2. \A s \in Watched : conns[s].data # None => Shows(s) = conns[s].data
    BY <1>1 DEF ShownLags
<1>3. shown \in [Addr -> Infos \cup {None}] /\ \A s \in Watched : s \in Addr
    BY DEF ToolTypesIInv, ToolTypes, Watched, Addr
<1>4. ~Told("server_remove")' /\ ~Told("server_list")' /\ ~Told("server_info")'
    BY <1>1 DEF Told
<1>5. CASE event.kind = "server_list" /\ InsertServers(event.servers, FALSE) /\ UNCHANGED shown
    <2>1. event.servers \in SUBSET Servers /\ delayed = {} /\ masters' = masters
        BY <1>1, <1>5 DEF Events, ShownLags, Told, InsertServers
    <2>2. /\ \A s \in Watched : conns'[s] = conns[s] /\ s \in Watched'
          /\ \A s \in Watched' \ Watched : conns'[s] = NewConnection(FALSE)
        BY <1>5, <2>1, InsertedAreNew DEF ToolTypesIInv, TypesIInv
    <2>3. \A s \in Watched' \ Watched : conns'[s].data = None
        BY <2>2 DEF NewConnection
    <2>4. \A s \in Watched : conns[s].data # None => shown[s] = conns[s].data
        BY <1>2, <1>5 DEF Shows, Told
    <2>5. \A s \in Watched' : conns'[s].data # None => Shows(s)' = conns'[s].data
        BY <1>4, <1>5, <2>2, <2>3, <2>4 DEF Shows
    <2>6. \A m \in masters' \cap Watched' : conns'[m].data = None
        BY <1>1, <2>1, <2>2, <2>3 DEF ShownLags
    <2> QED
        BY <1>1, <1>4, <2>1, <2>5, <2>6 DEF ShownLags
<1>6. CASE event.kind # "server_list" /\ UNCHANGED <<masters, conns>>
    <2>1. Watched' = Watched
        BY <1>6 DEF Watched
    <2>2. ASSUME NEW s \in Watched, conns[s].data # None
          PROVE  shown'[s] = conns[s].data
        <3>1. CASE event.kind = "server_info" /\ event.changed
            BY <1>1, <1>2, <1>3, <2>2, <3>1 DEF MonitorEvent, Shows, Told
        <3>2. CASE event.kind = "server_remove"
            <4>1. event.addr # s
                BY <1>1, <2>2, <3>2 DEF ShownLags, Told
            <4> QED
                BY <1>1, <1>2, <1>3, <2>2, <3>2, <4>1 DEF MonitorEvent, Shows, Told
        <3>3. CASE ~(event.kind = "server_info" /\ event.changed) /\ event.kind # "server_remove"
            BY <1>1, <1>2, <2>2, <3>3 DEF MonitorEvent, Shows, Told
        <3> QED
            BY <3>1, <3>2, <3>3
    <2>3. \A s \in Watched' : conns'[s].data # None => Shows(s)' = conns'[s].data
        BY <1>4, <1>6, <2>1, <2>2 DEF Shows
    <2> QED
        BY <1>1, <1>4, <1>6, <2>1, <2>3 DEF ShownLags
<1> QED
    BY <1>1, <1>5, <1>6 DEF MonitorEvent

LEMMA TurnShown ==
    ASSUME Types, ShownLags, stage = "run", TurnOutcome, UNCHANGED <<cli, stage, shown>>
    PROVE  ShownLags'
<1> SUFFICES ASSUME Is({"monitor"}) PROVE ShownLags'
    BY DEF ShownLags, Is
<1>1. Watched' \subseteq Watched /\ event = None /\ masters' = masters
    BY DEF TurnOutcome, Watched
<1>2. \A s \in Watched' : conns'[s] = conns[s] \/ conns'[s].data = conns[s].data
    BY DEF TurnOutcome, Watched, Similar
<1>3. \A e \in delayed' : e.kind = "server_remove" => e.addr \notin Watched'
    BY <1>1 DEF TurnOutcome, ShownLags, Watched
<1>4. delayed \subseteq [kind : {"server_timeout", "server_remove"}, addr : Servers]
    BY DEF Types, TypeOK
<1>5. ~Told("server_info")' /\ ~Told("server_list")'
    BY <1>4 DEF TurnOutcome, Told
<1>6. Told("server_remove")' => event'.addr \notin Watched'
    BY <1>1 DEF TurnOutcome, Told, ShownLags
<1>7. \A s \in Watched : conns[s].data # None => shown[s] = conns[s].data
    BY <1>1 DEF ShownLags, Shows, Told
<1>8. \A s \in Watched' : conns'[s].data # None => Shows(s)' = conns'[s].data
    BY <1>1, <1>2, <1>5, <1>7 DEF Shows
<1>9. \A m \in masters' \cap Watched' : conns'[m].data = None
    BY <1>1, <1>2 DEF ShownLags
<1> QED
    BY <1>3, <1>5, <1>6, <1>8, <1>9 DEF ShownLags

LEMMA ReceiveShown ==
    ASSUME ToolTypesIInv, ShownLags, stage = "run", NEW d \in wire \cup Stray,
           ReceiveOutcome(d), UNCHANGED <<cli, stage, shown>>
    PROVE  ShownLags'
<1> SUFFICES ASSUME Is({"monitor"}) PROVE ShownLags'
    BY DEF ShownLags, Is
<1>1. event = None /\ delayed' = {} /\ delayed = {} /\ masters' = masters
    BY DEF ReceiveOutcome
<1>2. /\ \A s \in Watched : conns[s].data # None => shown[s] = conns[s].data
      /\ \A m \in masters \cap Watched : conns[m].data = None
    BY <1>1 DEF ShownLags, Shows, Told
<1>3. d \in wire \cup Stray /\ WellFormed(d)
    BY ArrivesWellFormed DEF ToolTypesIInv, TypesIInv
<1>4. ASSUME \A s \in Watched' : conns'[s].data # None => Shows(s)' = conns'[s].data,
             Told("server_remove")' => event'.addr \notin Watched',
             \A m \in masters' \cap Watched' : conns'[m].data = None
      PROVE  ShownLags'
    BY <1>1, <1>4 DEF ShownLags
<1>5. CASE Unnoticed
    BY <1>1, <1>2, <1>4, <1>5 DEF Unnoticed, Watched, Shows, Told
<1>6. CASE MasterHeard(d.from, d)
    <2>1. Watched' = Watched /\ conns' = conns /\ d.from \in masters
        BY <1>6 DEF MasterHeard, Watched
    <2>2. Told("server_info")' => event'.addr = d.from
        BY <1>6 DEF MasterHeard, Told, Event
    <2>3. \A s \in Watched' : conns'[s].data # None => Shows(s)' = conns'[s].data
        BY <1>2, <2>1, <2>2 DEF Shows
    <2>4. ~Told("server_remove")'
        BY <1>6 DEF MasterHeard, Told, Event
    <2> QED
        BY <1>1, <1>2, <1>4, <2>1, <2>3, <2>4
<1>7. CASE ServerHeard(d.from, d)
    <2> DEFINE s == d.from
    <2>1. /\ s \in Watched /\ s \notin masters /\ s \in Servers
          /\ \A t \in Servers : t # s => conns'[t] = conns[t]
        BY <1>7 DEF ServerHeard, Watched
    <2> HIDE DEF s
    <2>2. Watched' \subseteq Watched /\ \A t \in Watched' : t # s => conns'[t] = conns[t]
        BY <2>1 DEF Watched
    <2>3. \A m \in masters' \cap Watched' : conns'[m].data = None
        BY <1>1, <1>2, <2>1, <2>2
    <2>4. CASE \/ Answered(s) \/ PlayersHeard(s) \/ Retried(s, d) \/ Refused(s, d)
              \/ InvalidHeard(s, d)
        <3>1. conns'[s] = None \/ conns'[s].data = conns[s].data
            <4>1. Retried(s, d) => conns'[s].data = conns[s].data
                BY <2>1 DEF Retried, Similar, Watched, ToolTypesIInv, TypesIInv, Types,
                            TypeOK, Connection
            <4> QED
                BY <2>4, <4>1
                DEF Answered, PlayersHeard, Refused, InvalidHeard, Similar
        <3>2. ~Told("server_info")' /\ ~Told("server_remove")'
            BY <2>4 DEF Answered, PlayersHeard, Retried, Refused, InvalidHeard, NoNews, Told,
                        Event
        <3>3. \A t \in Watched' : conns'[t].data # None => Shows(t)' = conns'[t].data
            BY <1>2, <2>2, <3>1, <3>2 DEF Shows, Watched
        <3> QED
            BY <1>4, <2>3, <3>2, <3>3
    <2>5. CASE InfoHeard(s, d)
        <3>1. /\ event'.kind = "server_info" /\ event'.addr = s /\ event'.data = d.data
              /\ event'.changed = (conns[s].data # d.data) /\ d.data \in Infos
            BY <1>3, <2>5 DEF InfoHeard, WellFormed
        <3>2. event' # None
            <4>1. event' \in [kind : {"server_info"}, addr : Addr, changed : BOOLEAN,
                              data : Infos]
                BY <2>1, <2>5, <3>1 DEF InfoHeard, Addr
            <4> QED
                BY <4>1, QueryToolAssumption DEF Events
        <3>3. conns'[s].data = d.data
            BY <2>1, <2>5, <3>1 DEF InfoHeard, Similar, Watched, ToolTypesIInv, TypesIInv,
                                    Types, TypeOK, Connection
        <3>4. Shows(s)' = d.data
            <4>1. CASE conns[s].data # d.data
                BY <3>1, <3>2, <4>1 DEF Shows, Told
            <4>2. CASE conns[s].data = d.data
                <5>1. shown[s] = d.data
                    BY <1>2, <2>1, <3>1, <4>2, ObserverAssumption
                <5> QED
                    BY <3>1, <4>2, <5>1 DEF Shows
            <4> QED
                BY <4>1, <4>2
        <3>5. \A t \in Watched' : conns'[t].data # None => Shows(t)' = conns'[t].data
            <4>1. \A t \in Watched' : t # s => Shows(t)' = shown[t]
                BY <3>1 DEF Shows
            <4> QED
                BY <1>2, <2>2, <3>3, <3>4, <4>1
        <3>6. ~Told("server_remove")'
            BY <3>1 DEF Told
        <3> QED
            BY <1>4, <2>3, <3>5, <3>6
    <2> QED
        BY <1>7, <2>4, <2>5 DEF ServerHeard, s
<1> QED
    BY <1>5, <1>6, <1>7 DEF ReceiveOutcome

LEMMA ShownLagsKept ==
    ASSUME ToolTypesIInv, ShownLags, [ToolNext]_toolVars
    PROVE  ShownLags'
<1>1. CASE Start
    BY <1>1, StartShown
<1>2. CASE HandleEvent
    <2>1. CASE Is({"monitor"})
        BY <1>2, <2>1, HandleEventShown
    <2>2. CASE ~Is({"monitor"})
        BY <1>2, <2>2 DEF HandleEvent, OwnStep, ShownLags, Is
    <2> QED
        BY <2>1, <2>2
<1>3. CASE Finish
    BY <1>3 DEF Finish, End, ShownLags
<1>4. CASE Wait
    <2>1. /\ event = None /\ UNCHANGED <<cli, stage, start, timeout, toolOnly>>
          /\ \E t \in Nat \cup {None} : WaitEvent(t)
        BY <1>4, WaitForFacts
    <2>2. UNCHANGED <<masters, conns, shown>> /\ Watched' = Watched
        BY <2>1 DEF WaitEvent, toolOnly, Watched
    <2>3. event' \in delayed \cup {None} /\ delayed' \subseteq delayed
        BY <2>1 DEF WaitEvent, PopDelayed, Latest, Return, Goto
    <2>4. delayed \subseteq [kind : {"server_timeout", "server_remove"}, addr : Servers]
        BY DEF ToolTypesIInv, TypesIInv, Types, TypeOK
    <2>5. ~Told("server_info")' /\ ~Told("server_list")'
        BY <2>3, <2>4 DEF Told
    <2>6. Is({"monitor"}) /\ stage = "run" =>
              \A s \in Watched : conns[s].data # None => Shows(s)' = conns[s].data
        BY <2>1, <2>2, <2>5 DEF ShownLags, Shows, Told
    <2> QED
        BY <2>1, <2>2, <2>3, <2>5, <2>6 DEF ShownLags, Told, Is
<1>5. CASE Loop /\ stage = "run" /\ UNCHANGED <<cli, stage, start, timeout, toolOnly>>
    <2>1. CASE Turn
        BY <1>5, <2>1, TurnOutcomes, TurnShown DEF ToolTypesIInv, TypesIInv, toolOnly
    <2>2. ASSUME NEW d \in wire \cup Stray, Receive(d)
          PROVE  ShownLags'
        <3>1. ReceiveOutcome(d)
            BY <2>2, ReceiveOutcomes, ArrivesWellFormed DEF ToolTypesIInv, TypesIInv
        <3> QED
            BY <1>5, <3>1, ReceiveShown DEF toolOnly
    <2> QED
        BY <1>5, <2>1, <2>2 DEF Loop
<1>6. CASE Tick /\ UNCHANGED <<cli, stage, start, timeout, toolOnly>>
    BY <1>6 DEF Tick, asking, calling, toolOnly, ShownLags, Shows, Told, Watched, Is
<1>7. CASE UNCHANGED toolVars
    BY <1>7 DEF toolVars, toolOnly, sysVars, obsVars, asking, calling, ShownLags, Shows, Told,
                Watched, Is
<1> QED
    BY <1>1, <1>2, <1>3, <1>4, <1>5, <1>6, <1>7 DEF ToolNext

\* Between two events "monitor" shows what each watched server answered last
\* (monitor_servers::run, Connection::handle_packet).
THEOREM MonitorIsCurrent == ToolSpec => []ShownIsCurrent
<1>1. ToolInit => ShownLags
    BY DEF ToolInit, ShownLags
<1>2. ToolTypesIInv /\ ShownLags /\ [ToolNext]_toolVars => ShownLags'
    BY ShownLagsKept
<1>3. ShownLags => ShownIsCurrent
    BY DEF ShownLags, ShownIsCurrent, Shows, Told
<1> QED
    BY <1>1, <1>2, <1>3, AlwaysToolTyped, PTL DEF ToolSpec

-----------------------------------------------------------------------------
(* Good results stay                                                       *)

Current(s) == Speaks[s] = PROTOCOL_VERSION

\* Nobody says in the name of a server that it does not speak the version it speaks.
NoForgedRefusal == \A d \in Stray : d.kind = "wrong_version" => ~Current(d.from)

\* Who speaks the current version is asked with it, and never refuses.
CurrentNotRefused ==
    /\ \A s \in Watched : Current(s) => conns[s].protocol = PROTOCOL_VERSION
    /\ \A d \in wire : d.kind = "wrong_version" => ~Current(d.from)
    /\ Told("server_invalid_protocol") => ~Current(event.addr)

\* A step that asks those who speak the current version with it, and nobody wrongly.
AsksRight ==
    /\ \A s \in Watched' : Current(s) => conns'[s].protocol = PROTOCOL_VERSION
    /\ \A r \in sent' : r.kind = "get_info" /\ Current(r.to) => r.protocol = PROTOCOL_VERSION
    /\ Told("server_invalid_protocol")' => ~Current(event'.addr)

LEMMA FollowRefusals ==
    ASSUME CurrentNotRefused, AsksRight, Follow, sent' \subseteq Requests
    PROVE  CurrentNotRefused'
<1>1. ASSUME NEW r \in sent', NEW d \in Answers(r), d.kind = "wrong_version"
      PROVE  ~Current(d.from)
    BY <1>1, AnswerFacts DEF AsksRight, Current
<1>2. \A d \in wire' : d.kind = "wrong_version" => ~Current(d.from)
    BY <1>1 DEF CurrentNotRefused, Follow
<1> QED
    BY <1>2 DEF CurrentNotRefused, AsksRight

LEMMA OwnStepRight ==
    ASSUME ToolTypesIInv, CurrentNotRefused, Start \/ HandleEvent
    PROVE  AsksRight
<1>1. sent' = {} /\ event' = None /\ cli \in Commandline
    BY DEF Start, HandleEvent, OwnStep, Silent, Sends, ToolTypesIInv, ToolTypes
<1>2. event # None /\ event.kind = "server_list" => event.servers \in SUBSET Servers
    BY DEF ToolTypesIInv, ToolTypes, Events
<1>3. ASSUME NEW ss \in SUBSET Servers, NEW players \in BOOLEAN, InsertServers(ss, players)
      PROVE  AsksRight
    <2>1. /\ \A s \in Watched : conns'[s] = conns[s]
          /\ \A s \in Watched' \ Watched : conns'[s] = NewConnection(players)
        BY <1>3, InsertedAreNew DEF ToolTypesIInv, TypesIInv
    <2>2. \A s \in Watched' \ Watched : conns'[s].protocol = PROTOCOL_VERSION
        BY <2>1 DEF NewConnection
    <2> QED
        BY <1>1, <2>1, <2>2 DEF AsksRight, CurrentNotRefused, Told
<1>4. CASE UNCHANGED conns
    BY <1>1, <1>4 DEF AsksRight, CurrentNotRefused, Told, Watched
<1>5. CASE Start
    <2>1. cli.servers \in SUBSET Servers /\ (Is({"info"}) /\ cli.players) \in BOOLEAN
        BY <1>1 DEF Commandline
    <2>2. UNCHANGED conns \/ InsertServers(cli.servers, Is({"info"}) /\ cli.players)
        BY <1>5 DEF Start, InsertMasters
    <2> QED
        BY <1>3, <1>4, <2>1, <2>2
<1>6. CASE HandleEvent
    <2>1. cli.players \in BOOLEAN
        BY <1>1 DEF Commandline
    <2>2. \/ UNCHANGED conns
          \/ /\ event # None /\ event.kind = "server_list"
             /\ InsertServers(event.servers, cli.players) \/ InsertServers(event.servers, FALSE)
        BY <1>6 DEF HandleEvent, Returned, QueryEvent, ListEvent, MonitorEvent
    <2> QED
        BY <1>2, <1>3, <1>4, <2>1, <2>2
<1> QED
    BY <1>5, <1>6

LEMMA TurnRight ==
    ASSUME Types, CurrentNotRefused, TurnOutcome
    PROVE  AsksRight
<1>1. \A s \in Watched' : s \in Watched /\ conns'[s].protocol = conns[s].protocol
    BY DEF TurnOutcome, Watched, Similar
<1>2. \A r \in sent' : r.kind = "get_info" => r.to \in Watched
                                              /\ r.protocol = conns[r.to].protocol
    BY DEF TurnOutcome, AsksWithOwnVersion
<1>3. delayed \subseteq [kind : {"server_timeout", "server_remove"}, addr : Servers]
    BY DEF Types, TypeOK
<1>4. ~Told("server_invalid_protocol")'
    BY <1>3 DEF TurnOutcome, Told
<1> QED
    BY <1>1, <1>2, <1>4 DEF AsksRight, CurrentNotRefused

LEMMA ReceiveRight ==
    ASSUME NoForgedRefusal, Types, CurrentNotRefused, NEW d \in wire \cup Stray,
           ReceiveOutcome(d)
    PROVE  AsksRight
<1>1. d.kind = "wrong_version" => ~Current(d.from)
    BY DEF NoForgedRefusal, CurrentNotRefused
<1>2. event = None
    BY DEF ReceiveOutcome
<1>3. CASE Unnoticed
    BY <1>3 DEF Unnoticed, AsksRight, CurrentNotRefused, Watched, Told
<1>4. CASE MasterHeard(d.from, d)
    <2>1. conns' = conns /\ sent' = {} /\ ~Told("server_invalid_protocol")'
        BY <1>4 DEF MasterHeard, Told, Event
    <2> QED
        BY <2>1 DEF AsksRight, CurrentNotRefused, Watched
<1>5. CASE ServerHeard(d.from, d)
    <2> DEFINE s == d.from
    <2>1. /\ s \in Watched /\ s \in Servers
          /\ \A t \in Servers : t # s => conns'[t] = conns[t]
        BY <1>5 DEF ServerHeard, Watched
    <2> HIDE DEF s
    <2>2. \A t \in Watched' : t \in Watched /\ (t # s => conns'[t] = conns[t])
        BY <2>1 DEF Watched
    <2>3. ASSUME s \in Watched' /\ Current(s) => conns'[s].protocol = PROTOCOL_VERSION,
                 \A r \in sent' : r.kind = "get_info" => ~Current(r.to),
                 Told("server_invalid_protocol")' => ~Current(event'.addr)
          PROVE  AsksRight
        <3>1. \A t \in Watched' : Current(t) => conns'[t].protocol = PROTOCOL_VERSION
            BY <2>2, <2>3 DEF CurrentNotRefused
        <3> QED
            BY <2>3, <3>1 DEF AsksRight
    <2>4. CASE Answered(s) \/ PlayersHeard(s) \/ InfoHeard(s, d) \/ InvalidHeard(s, d)
        <3>1. conns'[s].protocol = conns[s].protocol
            <4>1. InfoHeard(s, d) => conns'[s].protocol = conns[s].protocol
                BY <2>1 DEF InfoHeard, Similar, Watched, Types, TypeOK, Connection
            <4> QED
                BY <2>4, <4>1 DEF Answered, PlayersHeard, InvalidHeard, Similar
        <3>2. \A r \in sent' : r.kind # "get_info"
            BY <2>4 DEF Answered, PlayersHeard, InfoHeard, InvalidHeard
        <3>3. ~Told("server_invalid_protocol")'
            BY <2>4 DEF Answered, PlayersHeard, InfoHeard, InvalidHeard, NoNews, Told, Event
        <3> QED
            BY <2>1, <2>3, <3>1, <3>2, <3>3 DEF CurrentNotRefused
    <2>5. CASE Retried(s, d) \/ Refused(s, d)
        <3>1. ~Current(s) /\ \A r \in sent' : r.to = s
            BY <1>1, <2>5 DEF Retried, Refused, s
        <3>2. Told("server_invalid_protocol")' => event'.addr = s
            BY <2>5 DEF Retried, Refused, NoNews, Told, Event
        <3> QED
            BY <2>3, <3>1, <3>2
    <2> QED
        BY <1>5, <2>4, <2>5 DEF ServerHeard, s
<1> QED
    BY <1>3, <1>4, <1>5 DEF ReceiveOutcome

LEMMA NobodyAskedRight ==
    ASSUME Types, CurrentNotRefused, sent' = {}, UNCHANGED conns,
           event' \in delayed \cup {event, None}
    PROVE  AsksRight
<1>1. delayed \subseteq [kind : {"server_timeout", "server_remove"}, addr : Servers]
    BY DEF Types, TypeOK
<1>2. Told("server_invalid_protocol")' => ~Current(event'.addr)
    BY <1>1 DEF CurrentNotRefused, Told
<1> QED
    BY <1>2 DEF AsksRight, CurrentNotRefused, Watched

LEMMA CurrentNotRefusedKept ==
    ASSUME NoForgedRefusal, ToolTypesIInv, CurrentNotRefused, [ToolNext]_toolVars
    PROVE  CurrentNotRefused'
<1> USE DEF ToolTypesIInv, TypesIInv
<1>1. CASE UNCHANGED toolVars
    BY <1>1 DEF toolVars, sysVars, obsVars, asking, calling, CurrentNotRefused, Told, Watched
<1>2. CASE ToolNext
    <2>1. sent' \subseteq Requests
        BY <1>2, StartTypes, HandleEventTypes, FinishTypes, WaitTypes, LoopTypes DEF ToolNext
    <2>2. AsksRight
        <3>1. CASE Start \/ HandleEvent
            BY <3>1, OwnStepRight
        <3>2. CASE Finish
            BY <3>2, NobodyAskedRight DEF Finish, End, Silent, Sends, asking, calling
        <3>3. CASE Wait
            <4>1. PICK t \in Nat \cup {None} : WaitEvent(t)
                BY <3>3, WaitForFacts
            <4>2. sent' = {} /\ UNCHANGED conns /\ event' \in delayed \cup {event, None}
                BY <4>1 DEF WaitEvent, PopDelayed, Latest, Return, Goto, Silent, Sends
            <4> QED
                BY <4>2, NobodyAskedRight
        <3>4. CASE Turn
            BY <3>4, TurnOutcomes, TurnRight
        <3>5. CASE \E d \in wire \cup Stray : Receive(d)
            BY <3>5, ReceiveOutcomes, ArrivesWellFormed, ReceiveRight
        <3>6. CASE Tick
            BY <3>6, NobodyAskedRight DEF Tick, Silent, Sends, asking, calling
        <3> QED
            BY <1>2, <3>1, <3>2, <3>3, <3>4, <3>5, <3>6 DEF ToolNext, Loop
    <2>3. Follow
        BY <1>2 DEF ToolNext
    <2> QED
        BY <2>1, <2>2, <2>3, FollowRefusals
<1> QED
    BY <1>1, <1>2

\* An event takes a good result from nobody who speaks the current version.
LEMMA EventKeepsGood ==
    ASSUME ToolTypesIInv, CurrentNotRefused, Returned, QueryEvent,
           NEW s \in Servers, Current(s), Good(results[s])
    PROVE  Good(results'[s])
<1>1. /\ results \in [Addr -> ServerResult \cup {None}] /\ s \in Addr /\ event \in Events
      /\ results[s] # None /\ results[s] \in ServerResult
      /\ results[s].kind \in {"ok", "ok_with_players"}
    BY DEF ToolTypesIInv, ToolTypes, Addr, Returned, Good
<1>2. CASE results'[s] = results[s]
    BY <1>2
<1>3. ASSUME NEW kind \in {"ok", "ok_with_players"},
             results'[s] = NewResult(kind)
      PROVE  Good(results'[s])
    <2>1. NewResult(kind) \in ServerResult /\ NewResult(kind).kind = kind
        BY <1>3 DEF NewResult, ServerResult
    <2> QED
        BY <1>3, <2>1, QueryToolAssumption DEF Good
<1>4. CASE event.kind = "server_list" /\ results' = Awaited(event.servers)
    BY <1>1, <1>2, <1>4, AwaitedFacts
<1>5. CASE event.kind = "server_info" /\ SetServerResultOk(event.addr)
    <2>1. CASE event.addr # s
        BY <1>1, <1>2, <1>5, <2>1 DEF SetServerResultOk
    <2>2. CASE event.addr = s
        <3>1. results'[s] = IF results[s].kind = "ok_with_players" THEN results[s]
                  ELSE NewResult(IF results[s].stored THEN "ok_with_players" ELSE "ok")
            BY <1>1, <1>5, <2>2 DEF SetServerResultOk
        <3> QED
            BY <1>2, <1>3, <3>1
    <2> QED
        BY <2>1, <2>2
<1>6. CASE event.kind = "server_players" /\ SetServerPlayers(event.addr)
    <2>1. CASE event.addr # s
        BY <1>1, <1>2, <1>6, <2>1 DEF SetServerPlayers
    <2>2. CASE event.addr = s
        <3>1. results'[s] = IF results[s].kind = "ok"
                            THEN [results[s] EXCEPT !.kind = "ok_with_players"]
                            ELSE [results[s] EXCEPT !.stored = TRUE]
            BY <1>1, <1>6, <2>2 DEF SetServerPlayers
        <3>2. results'[s].kind = "ok_with_players"
            <4>1. DOMAIN results[s] = {"kind", "stored"}
                BY <1>1 DEF ServerResult
            <4>2. CASE results[s].kind = "ok"
                BY <3>1, <4>1, <4>2
            <4>3. CASE results[s].kind = "ok_with_players"
                BY <3>1, <4>1, <4>3
            <4> QED
                BY <1>1, <4>2, <4>3
        <3>3. results'[s] # None
            BY <1>1, QueryEventTypes
        <3> QED
            BY <3>2, <3>3 DEF Good
    <2> QED
        BY <2>1, <2>2
<1>7. CASE event.kind = "server_invalid_protocol" /\ SetServerResult(event.addr, "invalid_protocol")
    <2>1. event.addr # s
        BY <1>7 DEF CurrentNotRefused, Told, Returned
    <2> QED
        BY <1>1, <1>2, <1>7, <2>1 DEF SetServerResult
<1>8. CASE event.kind = "server_invalid_packet" /\ SetInvalidPacket(event.addr)
    <2>1. CASE event.addr # s
        BY <1>1, <1>2, <1>8, <2>1 DEF SetInvalidPacket, SetServerResult
    <2>2. CASE event.addr = s
        BY <1>1, <1>2, <1>8, <2>2 DEF SetInvalidPacket
    <2> QED
        BY <2>1, <2>2
<1>9. CASE UNCHANGED results
    BY <1>2, <1>9
<1> QED
    BY <1>4, <1>5, <1>6, <1>7, <1>8, <1>9 DEF QueryEvent

\* Whatever comes late, twice or out of order, a server that speaks the current version
\* and gave its info stays good, if nobody refuses in its name (set_server_result_ok,
\* set_server_players, SetInvalidPacket in QueryServersInfo::run).
THEOREM GoodResultsStay ==
    ASSUME NoForgedRefusal
    PROVE  ToolSpec => GoodResultKept
<1> DEFINE Keeps == \A s \in Servers :
                        Speaks[s] = PROTOCOL_VERSION /\ Good(results[s]) => Good(results'[s])
<1>1. ToolInit => CurrentNotRefused
    BY DEF ToolInit, SysInit, Init, CurrentNotRefused, Told, Watched
<1>2. ToolTypesIInv /\ CurrentNotRefused /\ [ToolNext]_toolVars => CurrentNotRefused'
    BY CurrentNotRefusedKept
<1>3. ToolTypesIInv /\ CurrentNotRefused /\ [ToolNext]_toolVars => [Keeps]_toolVars
    <2> SUFFICES ASSUME ToolTypesIInv, CurrentNotRefused, ToolNext PROVE Keeps
        OBVIOUS
    <2>1. CASE UNCHANGED results
        BY <2>1
    <2>2. CASE Start
        <3>1. \A a \in Addr : results[a] # None => results'[a] = results[a]
            BY <2>2, AwaitedFacts DEF Start, ToolTypesIInv, ToolTypes
        <3> QED
            BY <3>1 DEF Good, Addr
    <2>3. CASE HandleEvent
        <3>1. Returned /\ (QueryEvent \/ UNCHANGED results)
            BY <2>3 DEF HandleEvent, ListEvent, MonitorEvent
        <3> QED
            BY <2>1, <3>1, EventKeepsGood DEF Current
    <2> QED
        BY <2>1, <2>2, <2>3 DEF ToolNext, Finish, End, Wait, toolOnly
<1>4. ToolSpec => [][Keeps]_toolVars
    <2> HIDE DEF Keeps
    <2> QED
        BY <1>1, <1>2, <1>3, AlwaysToolTyped, PTL DEF ToolSpec
<1> QED
    BY <1>4 DEF GoodResultKept

-----------------------------------------------------------------------------
(* "info" forgets nobody                                                   *)

\* The servers of the command line are all that "info" watches: no list comes, what is
\* invalid comes from nowhere, and players come only when they were asked for.
InfoOnly ==
    Is({"info"}) =>
        /\ masters = {} /\ ~Told("server_list")
        /\ \A d \in wire : d.kind \notin {"list", "garbage"}
        /\ Told("server_invalid_packet") => SentInvalid(event.addr)
        /\ Told("server_invalid_protocol") => event.addr \notin Watched
        /\ ~cli.players =>
              /\ \A s \in Watched : ~conns[s].players /\ ~conns[s].wait_players
              /\ ~Told("server_players")

\* The same of a step, but for what is on its way.
StepInfoOnly ==
    Is({"info"}) =>
        /\ masters' = {} /\ ~Told("server_list")'
        /\ \A r \in sent' : r.kind # "query_servers"
        /\ Told("server_invalid_packet")' => SentInvalid(event'.addr)
        /\ Told("server_invalid_protocol")' => event'.addr \notin Watched'
        /\ ~cli.players =>
              /\ \A s \in Watched' : ~conns'[s].players /\ ~conns'[s].wait_players
              /\ ~Told("server_players")'

LEMMA FollowInfoOnly ==
    ASSUME InfoOnly, StepInfoOnly, cli' = cli, Follow, sent' \subseteq Requests
    PROVE  InfoOnly'
<1> SUFFICES ASSUME Is({"info"}) PROVE InfoOnly'
    BY DEF InfoOnly, Is
<1>1. ASSUME NEW r \in sent', NEW d \in Answers(r)
      PROVE  d.kind \notin {"list", "garbage"}
    BY <1>1, AnswerFacts DEF StepInfoOnly
<1>2. \A d \in wire' : d.kind \notin {"list", "garbage"}
    BY <1>1 DEF InfoOnly, Follow
<1> QED
    BY <1>2 DEF InfoOnly, StepInfoOnly

LEMMA StartInfoOnly ==
    ASSUME ToolTypesIInv, Start
    PROVE  StepInfoOnly
<1> SUFFICES ASSUME Is({"info"}) PROVE StepInfoOnly
    BY DEF StepInfoOnly
<1>1. /\ sent' = {} /\ event' = None /\ cli \in Commandline /\ masters = {} /\ Watched = {}
    BY DEF Start, OwnStep, Silent, Sends, ToolTypesIInv, ToolTypes
<1>2. InsertServers(cli.servers, cli.players) /\ cli.players \in BOOLEAN
      /\ cli.servers \in SUBSET Servers
    <2>1. InsertServers(cli.servers, Is({"info"}) /\ cli.players)
        BY DEF Start, Is
    <2>2. cli.players \in BOOLEAN /\ cli.servers \in SUBSET Servers
        BY <1>1 DEF Commandline
    <2>3. (Is({"info"}) /\ cli.players) = cli.players
        BY <2>2
    <2> QED
        BY <2>1, <2>2, <2>3
<1>3. masters' = masters /\ \A s \in Watched' : conns'[s] = NewConnection(cli.players)
    BY <1>1, <1>2, InsertedAreNew DEF InsertServers, ToolTypesIInv, TypesIInv
<1>4. \A s \in Watched' : conns'[s].players = cli.players /\ ~conns'[s].wait_players
    BY <1>3 DEF NewConnection
<1> QED
    BY <1>1, <1>3, <1>4 DEF StepInfoOnly, Told

LEMMA SilentInfoOnly ==
    ASSUME Types, InfoOnly, sent' = {}, UNCHANGED <<conns, masters>>,
           event' \in delayed \cup {event, None}
    PROVE  StepInfoOnly
<1> SUFFICES ASSUME Is({"info"}) PROVE StepInfoOnly
    BY DEF StepInfoOnly
<1>1. delayed \subseteq [kind : {"server_timeout", "server_remove"}, addr : Servers]
    BY DEF Types, TypeOK
<1>2. event' \in delayed => event'.kind \in {"server_timeout", "server_remove"}
    BY <1>1
<1>3. Watched' = Watched
    BY DEF Watched
<1>4. CASE event' \in delayed \cup {None}
    BY <1>2, <1>3, <1>4 DEF InfoOnly, StepInfoOnly, Told
<1>5. CASE event' = event
    BY <1>3, <1>5 DEF InfoOnly, StepInfoOnly, Told
<1> QED
    BY <1>4, <1>5

LEMMA TurnInfoOnly ==
    ASSUME Types, InfoOnly, TurnOutcome
    PROVE  StepInfoOnly
<1> SUFFICES ASSUME Is({"info"}) PROVE StepInfoOnly
    BY DEF StepInfoOnly
<1>1. masters' = {} /\ \A r \in sent' : r.kind # "query_servers"
    BY DEF InfoOnly, TurnOutcome, AsksWithOwnVersion
<1>2. delayed \subseteq [kind : {"server_timeout", "server_remove"}, addr : Servers]
    BY DEF Types, TypeOK
<1>3. event' # None => event'.kind \in {"server_timeout", "server_remove", "error", "timeout"}
    BY <1>2 DEF TurnOutcome
<1>4. ASSUME ~cli.players, NEW s \in Watched'
      PROVE  ~conns'[s].players /\ ~conns'[s].wait_players
    <2>1. s \in Watched /\ (conns'[s] = conns[s] \/ Similar(conns[s], conns'[s]))
        BY DEF TurnOutcome, Watched
    <2> QED
        BY <1>4, <2>1 DEF InfoOnly, Similar
<1> QED
    BY <1>1, <1>3, <1>4 DEF StepInfoOnly, Told

LEMMA ReceiveInfoOnly ==
    ASSUME Types, InfoOnly, NEW d \in wire \cup Stray, ReceiveOutcome(d)
    PROVE  StepInfoOnly
<1> SUFFICES ASSUME Is({"info"}) PROVE StepInfoOnly
    BY DEF StepInfoOnly
<1>1. masters' = {} /\ masters = {} /\ event = None
    BY DEF InfoOnly, ReceiveOutcome
<1>2. CASE Unnoticed
    BY <1>1, <1>2 DEF Unnoticed, InfoOnly, StepInfoOnly, Told, Watched
<1>3. CASE ServerHeard(d.from, d)
    <2> DEFINE s == d.from
               Calm == conns'[s] # None =>
                          (~conns[s].players /\ ~conns[s].wait_players =>
                              ~conns'[s].players /\ ~conns'[s].wait_players)
    <2>1. /\ s \in Watched /\ s \in Servers
          /\ \A t \in Servers : t # s => conns'[t] = conns[t]
        BY <1>3 DEF ServerHeard, Watched
    <2>2. d.kind \in {"list", "garbage"} => SentInvalid(s)
        BY DEF InfoOnly, SentInvalid
    <2> HIDE DEF s, Calm
    <2>3. ASSUME Calm, \A r \in sent' : r.kind # "query_servers",
                 ~Told("server_list")',
                 Told("server_invalid_packet")' => SentInvalid(event'.addr),
                 Told("server_invalid_protocol")' => event'.addr \notin Watched',
                 Told("server_players")' => conns[s].wait_players
          PROVE  StepInfoOnly
        <3>1. ASSUME ~cli.players, NEW t \in Watched'
              PROVE  ~conns'[t].players /\ ~conns'[t].wait_players
            <4>1. t \in Watched /\ conns'[t] # None /\ (t # s => conns'[t] = conns[t])
                BY <2>1 DEF Watched
            <4>2. ~conns[t].players /\ ~conns[t].wait_players
                BY <3>1, <4>1 DEF InfoOnly
            <4> QED
                BY <2>3, <4>1, <4>2 DEF Calm
        <3>2. ~cli.players => ~Told("server_players")'
            BY <2>1, <2>3 DEF InfoOnly
        <3> QED
            BY <1>1, <2>3, <3>1, <3>2 DEF StepInfoOnly
    <2>4. /\ conns[s] \in Connection
          /\ \A c \in Connection : Similar(c, conns'[s]) /\ c.players = conns[s].players
                  /\ c.wait_players = conns[s].wait_players => Calm
        BY <2>1 DEF Types, TypeOK, Watched, Similar, Calm
    <2>5. CASE Answered(s)
        BY <2>3, <2>4, <2>5 DEF Answered, NoNews, Told
    <2>6. CASE PlayersHeard(s)
        BY <2>3, <2>4, <2>6 DEF PlayersHeard, Told, Event
    <2>7. CASE InfoHeard(s, d)
        <3>1. Calm
            BY <2>4, <2>7 DEF InfoHeard, Similar, Connection, Calm
        <3> QED
            BY <2>3, <2>7, <3>1 DEF InfoHeard, Told
    <2>8. CASE Retried(s, d)
        <3>1. Calm
            BY <2>4, <2>8 DEF Retried, Similar, Connection, Calm
        <3> QED
            BY <2>3, <2>8, <3>1 DEF Retried, NoNews, Told
    <2>9. CASE Refused(s, d)
        BY <2>3, <2>9 DEF Refused, Told, Event, Watched, Calm
    <2>10. CASE InvalidHeard(s, d)
        BY <2>2, <2>3, <2>10 DEF InvalidHeard, Told, Event, Calm
    <2> QED
        BY <1>3, <2>5, <2>6, <2>7, <2>8, <2>9, <2>10 DEF ServerHeard, s
<1> QED
    BY <1>1, <1>2, <1>3 DEF ReceiveOutcome, MasterHeard

LEMMA InfoOnlyKept ==
    ASSUME ToolTypesIInv, InfoOnly, [ToolNext]_toolVars
    PROVE  InfoOnly'
<1> USE DEF ToolTypesIInv, TypesIInv
<1>1. CASE UNCHANGED toolVars
    BY <1>1 DEF toolVars, sysVars, obsVars, asking, calling, InfoOnly, Told, Watched, Is
<1>2. CASE ToolNext
    <2>1. sent' \subseteq Requests
        BY <1>2, StartTypes, HandleEventTypes, FinishTypes, WaitTypes, LoopTypes DEF ToolNext
    <2>2. cli' = cli
        BY <1>2 DEF ToolNext, Start, HandleEvent, OwnStep, Finish, End, Wait
    <2>3. StepInfoOnly
        <3>1. CASE Start
            BY <3>1, StartInfoOnly
        <3>2. CASE HandleEvent
            <4>1. sent' = {} /\ event' = None /\ event # None
                BY <3>2 DEF HandleEvent, OwnStep, Silent, Sends, Returned
            <4>2. Is({"info"}) => UNCHANGED <<conns, masters>>
                BY <3>2, <4>1
                DEF HandleEvent, QueryEvent, ListEvent, MonitorEvent, InfoOnly, Told, Is
            <4>3. CASE Is({"info"})
                BY <4>1, <4>2, <4>3, SilentInfoOnly
            <4>4. CASE ~Is({"info"})
                BY <4>4 DEF StepInfoOnly
            <4> QED
                BY <4>3, <4>4
        <3>3. CASE Finish
            BY <3>3, SilentInfoOnly DEF Finish, End, Silent, Sends, asking, calling
        <3>4. CASE Wait
            <4>1. PICK t \in Nat \cup {None} : WaitEvent(t)
                BY <3>4, WaitForFacts
            <4>2. /\ sent' = {} /\ UNCHANGED <<conns, masters>>
                  /\ event' \in delayed \cup {event, None}
                BY <4>1 DEF WaitEvent, PopDelayed, Latest, Return, Goto, Silent, Sends
            <4> QED
                BY <4>2, SilentInfoOnly
        <3>5. CASE Turn
            BY <3>5, TurnOutcomes, TurnInfoOnly
        <3>6. CASE \E d \in wire \cup Stray : Receive(d)
            BY <3>6, ReceiveOutcomes, ArrivesWellFormed, ReceiveInfoOnly
        <3>7. CASE Tick
            BY <3>7, SilentInfoOnly DEF Tick, Silent, Sends, asking, calling
        <3> QED
            BY <1>2, <3>1, <3>2, <3>3, <3>4, <3>5, <3>6, <3>7 DEF ToolNext, Loop
    <2>4. Follow
        BY <1>2 DEF ToolNext
    <2> QED
        BY <2>1, <2>2, <2>3, <2>4, FollowInfoOnly
<1> QED
    BY <1>1, <1>2

\* An answer of s was returned and is not handled yet.
Answering(s) ==
    /\ Told("server_info") \/ Told("server_players") \/ Told("server_invalid_packet")
    /\ event.addr = s

\* A result that no event of a server that is watched can undo.
Lasting(s, kind) ==
    \/ kind = "invalid_packet" /\ SentInvalid(s)
    \/ kind = "ok_with_players"
    \/ kind = "ok" /\ (cli.players => SentInvalid(s))

Settled(s) ==
    /\ results[s] # None
    /\ \/ results[s].kind = "invalid_protocol" /\ s \notin Watched /\ ~Answering(s)
       \/ Lasting(s, results[s].kind)

\* Who is not waited for is settled.
NoneForgotten ==
    /\ stage \in {"run", "complete"} /\ Is({"info"}) =>
           \A s \in cli.servers : s \in custom \/ Settled(s)
    /\ stage = "complete" => Is({"info"}) /\ custom = {}

LEMMA NewResultFacts ==
    ASSUME NEW kind \in {"timeout", "ok", "ok_with_players", "invalid_packet", "invalid_protocol"}
    PROVE  /\ NewResult(kind) \in ServerResult /\ NewResult(kind) # None
           /\ NewResult(kind).kind = kind
<1>1. NewResult(kind) \in ServerResult
    BY DEF NewResult, ServerResult
<1> QED
    BY <1>1, QueryToolAssumption DEF NewResult

LEMMA EventSettles ==
    ASSUME ToolTypesIInv, InfoOnly, Is({"info"}), Returned, QueryEvent, event' = None,
           UNCHANGED <<cli, conns>>, NEW s \in Servers, s \in custom \/ Settled(s)
    PROVE  s \in custom' \/ Settled(s)'
<1>1. /\ results \in [Addr -> ServerResult \cup {None}] /\ s \in Addr /\ event \in Events
      /\ event # None /\ Watched' = Watched /\ cli.players \in BOOLEAN
    BY DEF ToolTypesIInv, ToolTypes, Commandline, Addr, Returned, Watched
<1>2. results' \in [Addr -> ServerResult \cup {None}]
    BY QueryEventTypes
<1>3. ~Answering(s)' /\ \A kind : Lasting(s, kind)' = Lasting(s, kind)
    BY DEF Answering, Told, Lasting, SentInvalid
<1>4. ASSUME results'[s] # None, Lasting(s, results'[s].kind)
      PROVE  Settled(s)'
    BY <1>3, <1>4 DEF Settled
<1>5. CASE results'[s] = results[s] /\ (s \in custom => s \in custom')
    BY <1>1, <1>3, <1>5 DEF Settled
<1>6. CASE event.kind \notin {"server_timeout", "server_remove", "master_invalid_packet"}
               /\ event.addr # s
    <2>1. event.kind # "server_list"
        BY <1>1 DEF InfoOnly, Told
    <2>2. results'[s] = results[s]
        BY <1>1, <1>6, <2>1
        DEF QueryEvent, SetServerResultOk, SetServerPlayers, SetInvalidPacket, SetServerResult
    <2>3. s \in custom => s \in custom'
        BY <1>1, <1>6, <2>1
        DEF QueryEvent, SetServerResultOk, SetServerPlayers, SetInvalidPacket, SetServerResult,
            Settle
    <2> QED
        BY <1>5, <2>2, <2>3
<1>7. CASE event.kind = "server_info" /\ event.addr = s /\ SetServerResultOk(s)
    <2> DEFINE e == IF results[s] = None THEN NewResult("timeout") ELSE results[s]
    <2>1. e \in ServerResult /\ e # None
        BY <1>1, NewResultFacts
    <2>2. /\ results'[s] = IF e.kind = "ok_with_players" THEN e
                           ELSE NewResult(IF e.stored THEN "ok_with_players" ELSE "ok")
          /\ Settle(s, ~cli.players \/ e.stored)
        BY <1>1, <1>7 DEF SetServerResultOk
    <2>3. results'[s] # None
        <3> HIDE DEF e
        <3>1. CASE e.kind = "ok_with_players"
            BY <2>1, <2>2, <3>1
        <3>2. CASE e.kind # "ok_with_players"
            BY <2>2, <3>2, NewResultFacts
        <3> QED
            BY <3>1, <3>2
    <2> HIDE DEF e
    <2>4. CASE results'[s].kind = "ok_with_players"
        BY <1>4, <2>3, <2>4 DEF Lasting
    <2>5. CASE results'[s].kind # "ok_with_players"
        <3>1. e.kind # "ok_with_players" /\ ~e.stored /\ results'[s].kind = "ok"
            BY <2>2, <2>5 DEF NewResult
        <3>2. CASE ~cli.players
            BY <1>4, <2>3, <3>1, <3>2 DEF Lasting
        <3>3. CASE cli.players
            <4>1. custom' = custom
                BY <2>2, <3>1, <3>3 DEF Settle
            <4>2. CASE Settled(s)
                <5>1. e = results[s] /\ Answering(s)
                    BY <1>1, <1>7, <4>2 DEF Settled, e, Answering, Told
                <5>2. SentInvalid(s)
                    BY <3>1, <3>3, <4>2, <5>1 DEF Settled, Lasting
                <5> QED
                    BY <1>4, <2>3, <3>1, <5>2 DEF Lasting
            <4> QED
                BY <4>1, <4>2
        <3> QED
            BY <3>2, <3>3
    <2> QED
        BY <2>4, <2>5
<1>8. CASE event.kind = "server_players" /\ event.addr = s /\ SetServerPlayers(s)
    <2>1. Answering(s) /\ cli.players
        BY <1>1, <1>8 DEF InfoOnly, Told, Answering
    <2>2. results[s] # None /\ results[s] \in ServerResult /\ results'[s] # None
        <3>1. stage = "run" /\ Told("server_players")
            BY <1>8 DEF Returned, Told
        <3>2. results[s] # None
            BY <1>8, <3>1 DEF ResultsThere, ToolTypesIInv, Is
        <3> QED
            BY <1>1, <3>2, QueryEventTypes
    <2>3. DOMAIN results[s] = {"kind", "stored"}
        BY <2>2 DEF ServerResult
    <2>4. /\ results'[s] = IF results[s].kind = "ok"
                           THEN [results[s] EXCEPT !.kind = "ok_with_players"]
                           ELSE [results[s] EXCEPT !.stored = TRUE]
          /\ Settle(s, ~cli.players \/ results[s].kind = "ok")
        BY <1>1, <1>8 DEF SetServerPlayers
    <2>5. CASE results[s].kind = "ok"
        <3>1. results'[s].kind = "ok_with_players"
            BY <2>3, <2>4, <2>5
        <3> QED
            BY <1>4, <2>2, <3>1 DEF Lasting
    <2>6. CASE results[s].kind # "ok"
        <3>1. results'[s].kind = results[s].kind /\ custom' = custom
            BY <2>1, <2>3, <2>4, <2>6 DEF Settle
        <3>2. Settled(s) => Settled(s)'
            BY <1>4, <2>1, <2>2, <3>1 DEF Settled
        <3> QED
            BY <3>1, <3>2
    <2> QED
        BY <2>5, <2>6
<1>9. CASE event.kind = "server_invalid_protocol" /\ event.addr = s
               /\ SetServerResult(s, "invalid_protocol")
    <2>1. results'[s] = NewResult("invalid_protocol") /\ s \notin Watched'
        BY <1>1, <1>9 DEF SetServerResult, InfoOnly, Told
    <2>2. results'[s] # None /\ results'[s].kind = "invalid_protocol"
        BY <2>1, NewResultFacts
    <2> QED
        BY <1>3, <2>1, <2>2 DEF Settled
<1>10. CASE event.kind = "server_invalid_packet" /\ event.addr = s /\ SetInvalidPacket(s)
    <2>1. SentInvalid(s)
        BY <1>1, <1>10 DEF InfoOnly, Told
    <2>2. CASE SetServerResult(s, "invalid_packet")
        <3>1. results'[s] = NewResult("invalid_packet")
            BY <1>1, <2>2 DEF SetServerResult
        <3>2. results'[s] # None /\ results'[s].kind = "invalid_packet"
            BY <3>1, NewResultFacts
        <3> QED
            BY <1>4, <2>1, <3>2 DEF Lasting
    <2>3. CASE UNCHANGED <<results, custom>>
        BY <1>5, <2>3
    <2> QED
        BY <1>10, <2>2, <2>3 DEF SetInvalidPacket
<1>11. CASE UNCHANGED <<results, custom>>
    BY <1>5, <1>11
<1> QED
    <2>1. event.kind # "server_list"
        BY <1>1 DEF InfoOnly, Told
    <2> QED
        BY <1>6, <1>7, <1>8, <1>9, <1>10, <1>11, <2>1 DEF QueryEvent

\* A step that handles no event unsettles nobody, if who answers is watched.
LEMMA StaysSettled ==
    ASSUME UNCHANGED <<cli, results>>, Watched' \subseteq Watched,
           NEW s, Answering(s)' => Answering(s) \/ s \in Watched, Settled(s)
    PROVE  Settled(s)'
BY DEF Settled, Lasting, SentInvalid

LEMMA AllStaySettled ==
    ASSUME NoneForgotten, UNCHANGED <<cli, stage, results, custom>>, Watched' \subseteq Watched,
           Is({"info"}) => \A s \in cli.servers : Answering(s)' => Answering(s) \/ s \in Watched
    PROVE  NoneForgotten'
<1>1. ASSUME stage \in {"run", "complete"}, Is({"info"}), NEW s \in cli.servers
      PROVE  s \in custom' \/ Settled(s)'
    BY <1>1, StaysSettled DEF NoneForgotten
<1> QED
    BY <1>1 DEF NoneForgotten, Is

LEMMA NoneForgottenKept ==
    ASSUME ToolTypesIInv, InfoOnly, NoneForgotten, [ToolNext]_toolVars
    PROVE  NoneForgotten'
<1> USE DEF ToolTypesIInv, TypesIInv
<1>1. delayed \subseteq [kind : {"server_timeout", "server_remove"}, addr : Servers]
    BY DEF Types, TypeOK
<1>2. ASSUME event' \in delayed \cup {None, [kind |-> "error"], [kind |-> "timeout"]}, NEW s
      PROVE  ~Answering(s)'
    BY <1>1, <1>2 DEF Answering, Told
<1>3. CASE Start
    <2>1. stage' \in {"nothing", "run"} /\ cli' = cli
        BY <1>3 DEF Start, OwnStep
    <2>2. Is({"info"}) => custom' = cli.servers
        BY <1>3 DEF Start
    <2> QED
        BY <2>1, <2>2 DEF NoneForgotten, Is
<1>4. CASE HandleEvent
    <2>1. /\ stage = "run" /\ stage' = "run" /\ cli' = cli /\ event' = None /\ event # None
          /\ Returned
        BY <1>4 DEF HandleEvent, Returned, OwnStep
    <2>2. ASSUME Is({"info"}), NEW s \in cli.servers
          PROVE  s \in custom' \/ Settled(s)'
        <3>1. QueryEvent
            BY <1>4, <2>2 DEF HandleEvent, ListEvent, MonitorEvent, Is
        <3>2. UNCHANGED conns
            BY <2>1, <2>2, <3>1 DEF QueryEvent, InfoOnly, Told
        <3>3. s \in Servers
            BY <2>2 DEF ToolTypes, Commandline
        <3>4. s \in custom \/ Settled(s)
            BY <2>1, <2>2 DEF NoneForgotten
        <3> QED
            BY <2>1, <2>2, <3>1, <3>2, <3>3, <3>4, EventSettles
    <2> QED
        BY <2>1, <2>2 DEF NoneForgotten, Is
<1>5. CASE Finish
    <2>1. /\ stage = "run" /\ UNCHANGED <<cli, results, custom, conns, event>>
          /\ \/ stage' \in {"timeout", "error"}
             \/ stage' = "complete" /\ Is({"info"}) /\ custom = {}
        BY <1>5 DEF Finish, End, Returned, asking, calling, toolOnly
    <2>2. Watched' = Watched /\ \A s : Answering(s)' = Answering(s)
        BY <2>1 DEF Watched, Answering, Told
    <2>3. ASSUME Is({"info"}), NEW s \in cli.servers
          PROVE  s \in custom' \/ Settled(s)'
        BY <2>1, <2>2, <2>3, StaysSettled DEF NoneForgotten
    <2> QED
        BY <2>1, <2>3 DEF NoneForgotten, Is
<1>6. CASE Wait
    <2>1. /\ UNCHANGED <<cli, stage, start, timeout, toolOnly>>
          /\ \E t \in Nat \cup {None} : WaitEvent(t)
        BY <1>6, WaitForFacts
    <2>2. UNCHANGED conns /\ event' \in delayed \cup {None}
        BY <2>1 DEF WaitEvent, PopDelayed, Latest, Return, Goto
    <2> QED
        BY <1>2, <2>1, <2>2, AllStaySettled DEF Watched, toolOnly
<1>7. CASE Loop /\ UNCHANGED <<cli, stage, start, timeout, toolOnly>>
    <2>1. CASE Turn
        <3>1. TurnOutcome
            BY <2>1, TurnOutcomes
        <3>2. Watched' \subseteq Watched
            BY <3>1 DEF TurnOutcome, Watched
        <3>3. \A s : ~Answering(s)'
            BY <1>2, <3>1 DEF TurnOutcome
        <3> QED
            BY <1>7, <3>2, <3>3, AllStaySettled DEF toolOnly
    <2>2. ASSUME NEW d \in wire \cup Stray, Receive(d)
          PROVE  NoneForgotten'
        <3>1. ReceiveOutcome(d) /\ WellFormed(d)
            BY <2>2, ReceiveOutcomes, ArrivesWellFormed
        <3>2. LoopOutcome
            BY <3>1, ReceiveLoops
        <3>3. ASSUME Is({"info"}), NEW s, Answering(s)'
              PROVE  s \in Watched
            <4>1. CASE Unnoticed
                BY <3>3, <4>1 DEF Unnoticed, Answering, Told
            <4>2. CASE ServerHeard(d.from, d)
                <5>1. d.from \in Watched
                    BY <4>2 DEF ServerHeard
                <5>2. event' # None => event' = [kind |-> "error"] \/ event'.addr = d.from
                    BY <4>2 DEF ServerHeard, Answered, PlayersHeard, InfoHeard, Retried,
                                Refused, InvalidHeard, NoNews, Event
                <5>3. event'.addr = d.from
                    BY <3>3, <5>2 DEF Answering, Told
                <5> QED
                    BY <3>3, <5>1, <5>3 DEF Answering
            <4> QED
                BY <3>1, <3>3, <4>1, <4>2 DEF ReceiveOutcome, MasterHeard, InfoOnly
        <3> QED
            BY <1>7, <3>2, <3>3, AllStaySettled DEF LoopOutcome, toolOnly
    <2> QED
        BY <1>7, <2>1, <2>2 DEF Loop
<1>8. CASE UNCHANGED <<cli, stage, results, custom, conns, event>>
    BY <1>8, AllStaySettled DEF Watched, Answering, Told
<1> QED
    <2>1. CASE Tick /\ UNCHANGED <<cli, stage, start, timeout, toolOnly>>
        BY <1>8, <2>1 DEF Tick, asking, calling, toolOnly
    <2>2. CASE UNCHANGED toolVars
        BY <1>8, <2>2 DEF toolVars, toolOnly, sysVars, obsVars, asking, calling
    <2> QED
        BY <1>3, <1>4, <1>5, <1>6, <1>7, <2>1, <2>2 DEF ToolNext

\* "info" stops early only when every server has been heard of, with its players unless
\* it sent something invalid (QueryServersInfo::run, set_server_result).
THEOREM NobodyLeftOut == ToolSpec => []EarlyEndComplete
<1>1. ToolInit => InfoOnly /\ NoneForgotten
    BY DEF ToolInit, SysInit, Init, InfoOnly, NoneForgotten, Told, Watched
<1>2. ToolTypesIInv /\ InfoOnly /\ [ToolNext]_toolVars => InfoOnly'
    BY InfoOnlyKept
<1>3. ToolTypesIInv /\ InfoOnly /\ NoneForgotten /\ [ToolNext]_toolVars => NoneForgotten'
    BY NoneForgottenKept
<1>4. NoneForgotten => EarlyEndComplete
    BY DEF NoneForgotten, Settled, Lasting, EarlyEndComplete
<1> QED
    BY <1>1, <1>2, <1>3, <1>4, AlwaysToolTyped, PTL DEF ToolSpec

-----------------------------------------------------------------------------
(* What the library promises holds for the tool as well                    *)

\* What the tool does between two calls: it may insert whom it does not watch yet.
ToolInserts ==
    /\ pc = "user" /\ event' \in {event, None} /\ sent' = {}
    /\ UNCHANGED <<now, key, drawn, delayed, tasks, pc, deadline, failed>>
    /\ masters \subseteq masters'
    /\ \A m \in masters' \ masters : IsPending("master", m)'
    /\ \A s \in Watched : s \in Watched' /\ conns'[s] = conns[s]
    /\ \A s \in Watched' \ Watched :
          /\ conns'[s].response_time = now /\ conns'[s].protocol = 49
          /\ conns'[s].state = "protocol_detection"
          /\ IsPending("server", s)'
    /\ \A kind, a : IsPending(kind, a) => IsPending(kind, a)'

LEMMA MastersInserted ==
    ASSUME Types, NEW ms \in SUBSET Masters, InsertMasters(ms), OwnStep, pc = "user",
           event' \in {event, None}
    PROVE  ToolInserts
<1>1. /\ \A x : Has(pending, x) => Has(pending', x)
      /\ \A m \in masters' \ masters : Has(pending', Pending("master", m))
    BY InsertMastersFacts
<1>2. /\ \A kind, a : IsPending(kind, a) => IsPending(kind, a)'
      /\ \A m \in masters' \ masters : IsPending("master", m)'
    BY <1>1 DEF IsPending, Has
<1>3. masters \subseteq masters' /\ conns' = conns
    BY DEF InsertMasters
<1> QED
    BY <1>2, <1>3 DEF ToolInserts, OwnStep, Silent, Sends, Watched

LEMMA ServersInserted ==
    ASSUME Types, NEW ss \in SUBSET Servers, NEW players \in BOOLEAN,
           InsertServers(ss, players), OwnStep, pc = "user", event' \in {event, None}
    PROVE  ToolInserts
<1>1. /\ masters' = masters
      /\ \A x : Has(pending, x) => Has(pending', x)
      /\ \A s \in Watched' \ Watched : Has(pending', Pending("server", s))
    BY InsertServersFacts
<1>2. /\ \A kind, a : IsPending(kind, a) => IsPending(kind, a)'
      /\ \A s \in Watched' \ Watched : IsPending("server", s)'
    BY <1>1 DEF IsPending, Has
<1>3. /\ \A s \in Watched : conns'[s] = conns[s] /\ s \in Watched'
      /\ \A s \in Watched' \ Watched : conns'[s] = NewConnection(players)
    BY InsertedAreNew
<1>4. /\ NewConnection(players).response_time = now
      /\ NewConnection(players).protocol = 49
      /\ NewConnection(players).state = "protocol_detection"
    BY DEF NewConnection, PROTOCOL_VERSION
<1> QED
    BY <1>1, <1>2, <1>3, <1>4 DEF ToolInserts, OwnStep, Silent, Sends

LEMMA NobodyInserted ==
    ASSUME UNCHANGED <<masters, conns, pending>>, pc = "user", event' \in {event, None},
           sent' = {}, UNCHANGED <<now, key, drawn, delayed, tasks, pc, deadline, failed>>
    PROVE  ToolInserts
BY DEF ToolInserts, Watched, IsPending

\* The tool is a user of the library: a step is one of its own, a call, or one of the
\* loop inside the call.
LEMMA ToolSteps ==
    ASSUME ToolTypesIInv, ToolNext
    PROVE  ToolInserts \/ (\E t \in Nat \cup {None} : WaitEvent(t)) \/ Loop \/ Tick
<1> USE DEF ToolTypesIInv, TypesIInv
<1>1. CASE Start
    <2>1. /\ pc = "user" /\ event' = event /\ OwnStep /\ cli \in Commandline
        BY <1>1 DEF Start, ToolTypes
    <2>2. CASE InsertMasters(Masters)
        BY <2>1, <2>2, MastersInserted
    <2>3. CASE InsertServers(cli.servers, Is({"info"}) /\ cli.players)
        <3>1. cli.servers \in SUBSET Servers /\ (Is({"info"}) /\ cli.players) \in BOOLEAN
            BY <2>1 DEF Commandline
        <3> QED
            BY <2>1, <2>3, <3>1, ServersInserted
    <2> QED
        BY <1>1, <2>2, <2>3 DEF Start
<1>2. CASE HandleEvent
    <2>1. /\ OwnStep /\ event' = None /\ pc = "user" /\ event \in Events /\ cli \in Commandline
        BY <1>2 DEF HandleEvent, Returned, ToolTypes
    <2>2. ASSUME NEW players \in BOOLEAN, event.kind = "server_list",
                 InsertServers(event.servers, players)
          PROVE  ToolInserts
        <3>1. event.servers \in SUBSET Servers
            BY <2>1, <2>2 DEF Events
        <3> QED
            BY <2>1, <2>2, <3>1, ServersInserted
    <2>3. CASE UNCHANGED <<masters, conns, pending>>
        BY <2>1, <2>3, NobodyInserted DEF OwnStep, Silent, Sends
    <2>4. cli.players \in BOOLEAN
        BY <2>1 DEF Commandline
    <2> QED
        BY <1>2, <2>2, <2>3, <2>4 DEF HandleEvent, QueryEvent, ListEvent, MonitorEvent
<1>3. CASE Finish
    <2>1. /\ pc = "user" /\ UNCHANGED <<now, asking, calling, failed>> /\ sent' = {}
        BY <1>3 DEF Finish, End, Returned, Silent, Sends
    <2> QED
        BY <2>1, NobodyInserted DEF asking, calling
<1>4. CASE Wait
    BY <1>4, WaitForFacts
<1> QED
    BY <1>1, <1>2, <1>3, <1>4 DEF ToolNext

LEMMA ToolTimes ==
    ASSUME TypesIInv, TypesIInv', TimesIInv,
           ToolInserts \/ (\E t \in Nat \cup {None} : WaitEvent(t)) \/ Loop \/ Tick
    PROVE  TimesIInv'
<1>1. CASE ToolInserts
    <2>1. /\ now \in Nat /\ ServerTimeout \in Nat \ {0} /\ ServerCleanInterval \in Nat
          /\ tasks.cleanup \in Nat /\ tasks.cleanup <= now + ServerCleanInterval
        BY ObserverAssumption DEF TypesIInv, Types, TypeOK, MoreTypes
    <2>2. tasks.cleanup < now + ServerTimeout + ServerCleanInterval
        BY <2>1
    <2>3. UNCHANGED <<now, tasks, pc>> /\ pc = "user"
        BY <1>1 DEF ToolInserts
    <2>4. ASSUME NEW s \in Watched'
          PROVE  tasks.cleanup < conns'[s].response_time + ServerTimeout + ServerCleanInterval
        <3>1. CASE s \in Watched
            BY <1>1, <3>1 DEF ToolInserts, TimesIInv
        <3>2. CASE s \notin Watched
            BY <1>1, <2>2, <2>4, <3>2 DEF ToolInserts
        <3> QED
            BY <3>1, <3>2
    <2> QED
        BY <2>3, <2>4 DEF TimesIInv
<1>2. ASSUME NEW t, WaitEvent(t)
      PROVE  TimesIInv'
    <2>1. UNCHANGED <<now, tasks, conns>> /\ pc' \in {"user", "turn"}
        BY <1>2 DEF WaitEvent, PopDelayed, Return, Goto
    <2> QED
        BY <2>1 DEF TimesIInv, Watched
<1> QED
    BY <1>1, <1>2, LoopTimes, TickTimes DEF TypesIInv

LEMMA ToolFine ==
    ASSUME TypesIInv, TypesIInv',
           ToolInserts \/ (\E t \in Nat \cup {None} : WaitEvent(t)) \/ Loop \/ Tick
    PROVE  Fine
<1> USE DEF TypesIInv
<1>1. CASE ToolInserts
    <2>1. now <= now' /\ failed \subseteq failed'
        BY <1>1, NowFacts DEF ToolInserts
    <2>2. ASSUME NEW s \in Watched' PROVE ServerFine(s)
        <3>1. CASE s \in Watched
            BY <1>1, <2>2, <3>1, AloneFacts DEF ToolInserts
        <3>2. CASE s \notin Watched
            BY <1>1, <2>2, <3>2 DEF ToolInserts, ServerFine, JustInserted
        <3> QED
            BY <3>1, <3>2
    <2>3. ASSUME NEW m \in masters' PROVE MasterFine(m)
        <3>1. CASE m \in masters
            BY <1>1, <3>1, MasterAloneFacts DEF ToolInserts
        <3>2. CASE m \notin masters
            BY <1>1, <2>3, <3>2 DEF ToolInserts, MasterFine
        <3> QED
            BY <3>1, <3>2
    <2> QED
        BY <2>1, <2>2, <2>3 DEF Fine
<1>2. ASSUME NEW t, WaitEvent(t)
      PROVE  Fine
    <2>1. UNCHANGED <<now, conns, masters, key, pending, failed>>
        BY <1>2 DEF WaitEvent, Silent, Sends
    <2> QED
        BY <2>1, NowFacts, UndisturbedFine
<1>3. CASE Turn
    BY <1>3, StutterFine, ServersTaskFine, InfoTaskFine, CleanupTaskFine, ProcessPendingFine
    DEF Turn
<1>4. CASE \E d \in wire \cup Stray : Receive(d)
    BY <1>4, ReceiveFine, ArrivesWellFormed
<1>5. CASE Tick
    BY <1>5, StutterFine
<1> QED
    BY <1>1, <1>2, <1>3, <1>4, <1>5 DEF Loop

LEMMA ToolPromised ==
    ASSUME TypesIInv, TypesIInv',
           ToolInserts \/ (\E t \in Nat \cup {None} : WaitEvent(t)) \/ Loop \/ Tick
    PROVE  [Api!Next]_(Api!apiVars)
<1>1. CASE ToolInserts
    <2>1. masters' \in SUBSET Masters /\ Watched' \in SUBSET Servers
        BY DEF TypesIInv, Types, TypeOK, Watched
    <2>2. Api!User
        BY <1>1, <2>1 DEF ToolInserts, Api!User
    <2> QED
        BY <2>2 DEF Api!Next
<1>2. ASSUME NEW t, WaitEvent(t)
      PROVE  [Api!Next]_(Api!apiVars)
    BY <1>2, CallPromised DEF TypesIInv
<1>3. CASE Turn
    BY <1>3, TurnPromised
<1>4. CASE \E d \in wire \cup Stray : Receive(d)
    BY <1>4, ReceivePromised, ArrivesWellFormed DEF TypesIInv
<1>5. CASE Tick
    BY <1>5 DEF Tick, asking, calling, Api!apiVars, Watched
<1> QED
    BY <1>1, <1>2, <1>3, <1>4, <1>5 DEF Loop

\* Between its calls the tool puts no blame on anybody.
LEMMA ToolBlames ==
    ASSUME TypesIInv, AskedIInv, NEW s \in Servers \ failed,
           ToolInserts \/ (\E t \in Nat \cup {None} : WaitEvent(t)) \/ Loop \/ Tick
    PROVE  /\ Event("server_timeout", s) \in delayed' \ delayed =>
                  \E v \in Versions : /\ asked[s][v] # None
                                      /\ conns[s].response_time <= asked[s][v]
           /\ event' = Event("server_invalid_protocol", s) /\ event' # event =>
                  \/ conns[s].data # None
                  \/ \A v \in Versions : asked[s][v] # None
<1>1. None # Event("server_invalid_protocol", s)
    BY ObserverAssumption DEF Event
<1>2. CASE ToolInserts
    BY <1>1, <1>2 DEF ToolInserts
<1>3. ASSUME NEW t, WaitEvent(t)
      PROVE  delayed' \subseteq delayed /\ event' # Event("server_invalid_protocol", s)
    <2>1. \A e \in delayed : e.kind # "server_invalid_protocol"
        BY DEF TypesIInv, Types, TypeOK
    <2>2. delayed' \subseteq delayed /\ event' \in delayed \cup {None}
        BY <1>3 DEF WaitEvent, PopDelayed, Latest, Return, Goto
    <2> QED
        BY <1>1, <2>1, <2>2 DEF Event
<1> QED
    BY <1>2, <1>3, BlameHasCause

LEMMA ToolKeepsAsked ==
    ASSUME ToolTypesIInv, ToolTypesIInv', AskedIInv, [ToolNext]_toolVars
    PROVE  AskedIInv'
<1>1. CASE UNCHANGED toolVars
    BY <1>1 DEF toolVars, sysVars, obsVars, asking, calling, AskedIInv, ServerAsked,
                ListComing, IsPending, Watched
<1>2. CASE ToolNext
    BY <1>2, ToolSteps, ToolFine, FineKeepsAsked DEF ToolNext, ToolTypesIInv
<1> QED
    BY <1>1, <1>2

LEMMA AlwaysAskedByTool == ToolSpec => []AskedIInv
<1>1. ToolInit => AskedIInv
    BY DEF ToolInit, SysInit, Init, AskedIInv, NeverAsked, Watched
<1> QED
    BY <1>1, ToolKeepsAsked, AlwaysToolTyped, PTL DEF ToolSpec

\* While the tool waits, a server that stopped answering is forgotten in time, whatever
\* the tool inserted between its calls (cleanup_servers, receive).
THEOREM SilenceEndsForTool == ToolSpec => []SilentServersForgotten
<1>1. ToolInit => TimesIInv
    BY DEF ToolInit, SysInit, Init, TimesIInv, Watched
<1>2. ASSUME ToolTypesIInv, ToolTypesIInv', TimesIInv, [ToolNext]_toolVars
      PROVE  TimesIInv'
    <2>1. CASE UNCHANGED toolVars
        BY <1>2, <2>1 DEF toolVars, sysVars, obsVars, asking, calling, TimesIInv, Watched
    <2> QED
        BY <1>2, <2>1, ToolSteps, ToolTimes DEF ToolTypesIInv
<1>3. ToolTypesIInv /\ TimesIInv => SilentServersForgotten
    BY TimesSilence DEF ToolTypesIInv
<1> QED
    BY <1>1, <1>2, <1>3, AlwaysToolTyped, PTL DEF ToolSpec

\* While the tool waits, everybody its observer watches has been asked, though the tool
\* inserts whole lists at once (query_servers_from_masters, process_pending).
THEOREM ToolForgetsNobody == ToolSpec => []EverybodyAsked
<1>1. ToolTypesIInv /\ AskedIInv => EverybodyAsked
    BY AskedEverybody DEF ToolTypesIInv
<1> QED
    BY <1>1, AlwaysToolTyped, AlwaysAskedByTool, PTL

\* The tool is one of the users the interface of the library is for: its observer takes
\* only steps the interface promises (Observer, ObserverApi).
THEOREM ToolIsPromised == ToolSpec => KeepsPromise
<1>1. ToolInit => Api!Init
    BY DEF ToolInit, SysInit, Init, Api!Init, Watched
<1>2. ASSUME ToolTypesIInv, ToolTypesIInv', [ToolNext]_toolVars
      PROVE  [Api!Next]_(Api!apiVars)
    <2>1. CASE UNCHANGED toolVars
        BY <2>1 DEF toolVars, sysVars, obsVars, asking, calling, Api!apiVars, Watched
    <2> QED
        BY <1>2, <2>1, ToolSteps, ToolPromised DEF ToolTypesIInv
<1> QED
    BY <1>1, <1>2, AlwaysToolTyped, PTL DEF ToolSpec, KeepsPromise, Api!Spec

\* The observer of the tool reports a server as timed out, or refuses it, only with
\* cause, whatever the tool inserts between its calls (query_info_from_servers,
\* handle_packet).
THEOREM ToolBlamesForCause == ToolSpec => BlameIsDeserved
<1>1. ToolTypesIInv /\ AskedIInv /\ [ToolNext]_toolVars =>
          [\A s \in Servers \ failed :
              Event("server_timeout", s) \in delayed' \ delayed =>
                  \E v \in Versions : /\ asked[s][v] # None
                                      /\ conns[s].response_time <= asked[s][v]]_sysVars
    BY ToolSteps, ToolBlames DEF ToolTypesIInv, toolVars
<1>2. ToolTypesIInv /\ AskedIInv /\ [ToolNext]_toolVars =>
          [\A s \in Servers \ failed :
              event' = Event("server_invalid_protocol", s) /\ event' # event =>
                  \/ conns[s].data # None
                  \/ \A v \in Versions : asked[s][v] # None]_sysVars
    BY ToolSteps, ToolBlames DEF ToolTypesIInv, toolVars
<1> QED
    BY <1>1, <1>2, AlwaysToolTyped, AlwaysAskedByTool, PTL
    DEF ToolSpec, BlameIsDeserved, TimeoutsMeanSilence, RefusedAfterBoth

==============================================================================

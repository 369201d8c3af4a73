------------------------------- MODULE Listing -------------------------------
(***************************************************************************)
(* One list of servers, from the options of a user to what is shown: the   *)
(* filter is built as text, read by the master server and compared with    *)
(* what the servers said when they registered; the list is split over      *)
(* datagrams, which get lost, come twice and in any order.                 *)
(***************************************************************************)
EXTENDS Datagrams, CommandLine

CONSTANTS
    Asks,            \* what is asked: by, given and the pairs of the text, raw
    GameServers,     \* what the servers register, a function of their addresses
    MinVersion, MinBuildnum, MinOldBuildnum,    \* the limits of the master server
    UpdateAddr,      \* the address shown to old clients
    Mtu,             \* mtu_buffer()
    QueryKey,        \* the key of the request
    StrayLists       \* lists that were sent to somebody else, or before

\* IPv4 or IPv6, and a buffer with room for an address.  A list without a key must not
\* begin with an address that looks like one, or the address is lost.
ASSUME ListingAssumption ==
    /\ AddressWidth \in {6, 18} /\ Mtu \in Nat /\ Mtu >= 12 + 2 * AddressWidth
    /\ IsFiniteSet(DOMAIN GameServers)
    /\ \A a \in DOMAIN GameServers \cup {UpdateAddr} :
          a \in Seq(Octets) /\ Len(a) = AddressWidth /\ ~LooksLikeKey(a)

\* The key of a request is drawn at random: what was sent to others has another one.
ASSUME StrayAssumption ==
    \A d \in StrayLists : DecodeList(d).val.key # LittleEndian(4, QueryKey)

VARIABLES
    ask,             \* what is asked, [by |-> "nobody"] before
    question,        \* the datagram of the tool
    stage,           \* "ask", "query", "sending", then how it ended
    list,            \* the servers to send
    offset,          \* how many of them were sent
    sent,            \* the datagrams of the list, in the order they were sent
    heard,           \* datagrams the tool received
    shown            \* the servers it shows

listingVars == <<ask, question, stage, list, offset, sent, heard, shown>>

Pair(k, v) == <<k, v>>
ShowPairs(raw) == FlattenSeq([i \in DOMAIN raw |-> PutKey(raw[i][1], raw[i][2])])

-----------------------------------------------------------------------------
ListingInit ==
    /\ ask = [by |-> "nobody", given |-> [o \in {} |-> <<>>], raw |-> <<>>]
    /\ question = <<>> /\ stage = "ask"
    /\ list = <<>> /\ offset = 0 /\ sent = <<>>
    /\ heard = {} /\ shown = {}

\* The text of --filter is an option like the others; the library sets it apart.
FilterOf(a) ==
    IF a.by = "library" THEN Read(ToRawString(a.given, ShowPairs(a.raw)), <<>>)
    ELSE Then(ParseCli(IF a.raw = <<>> THEN a.given
                       ELSE a.given @@ [filter |-> ShowPairs(a.raw)], <<>>),
              LAMBDA cli : Read(cli.val.filter, <<>>))

FIRST_ADDRESS == <<"0.0.0.0:0">>

\* encode_query_servers_packet: the key comes after everything else.
EncodeQuery(filter) ==
    ClientHeaders["QueryServers"]
        \o ShowQuery(255, FIRST_ADDRESS, filter \o PutKey("key", Digits[16, QueryKey]))

Ask(a) ==
    LET filter == FilterOf(a) IN
    /\ stage = "ask"
    /\ ask' = a
    /\ IF IsOk(filter) THEN stage' = "query" /\ question' = EncodeQuery(filter.val)
       ELSE stage' = "exit" /\ UNCHANGED question
    /\ UNCHANGED <<list, offset, sent, heard, shown>>

-----------------------------------------------------------------------------
(* The master server                                                       *)

\* What it knows of a server is what it has read of its ServerAdd.
Registered ==
    [a \in DOMAIN GameServers |->
        LET add == EncodeServer([kind |-> "ServerAdd", body |-> GameServers[a]], 512)
        IN ServerInfo(DecodeAtMaster(HashLen, add.val).val.body)]

VersionBelow(v, w) ==
    \E i \in 1..3 : v[i] < w[i] /\ \A j \in 1 .. i - 1 : v[j] = w[j]

Old(version) == VersionBelow(version, Version(0, 20, 0))

IsBuildnumValid(filter, min) ==
    min > 0 => Has(filter, "buildnum") /\ filter.fields.buildnum >= min

IsQueryServersValid(filter) ==
    /\ Has(filter, "clver")
    /\ ~VersionBelow(filter.fields.clver, MinVersion)
    /\ IsBuildnumValid(filter, IF Old(filter.fields.clver) THEN MinOldBuildnum ELSE MinBuildnum)

\* Mutant: servers of any region.
IsListed_AnyRegion(query, info) ==
    /\ FilterMatches(query.filter, info)
    /\ Old(query.filter.fields.clver) => info.protocol = 48

IsListed(query, info) ==
    /\ info.region = query.region
    /\ FilterMatches(query.filter, info)
    /\ Old(query.filter.fields.clver) => info.protocol = 48

Filtered(query) == {a \in DOMAIN GameServers : IsListed(query, Registered[a])}

Orders(s) == {o \in [1 .. Cardinality(s) -> s] : ToSet(o) = s}

Selected(query) == IF IsQueryServersValid(query.filter) THEN Filtered(query) ELSE {UpdateAddr}

\* A query that cannot be read has no answer.  The servers come in any order.
Answer ==
    LET read == DecodeAtMaster(HashLen, question) IN
    /\ stage = "query"
    /\ IF IsOk(read) THEN stage' = "sending" /\ list' \in Orders(Selected(read.val.body))
       ELSE stage' = "ignored" /\ UNCHANGED list
    /\ UNCHANGED <<ask, question, offset, sent, heard, shown>>

\* The key as the master server has read it, four bytes again.
KeyOf(filter) == IF Has(filter, "key") THEN LittleEndian(4, filter.fields.key) ELSE <<>>
KeyRead == KeyOf(DecodeAtMaster(HashLen, question).val.body.filter)

\* One round of the loop of send_server_list.  A failing send ends it.
SendFirstOf(key, rest) ==
    LET packet == EncodeList(key, rest, Mtu, AddressWidth)
    IN IF IsOk(packet)
         THEN /\ sent' = Append(sent, packet.val)
              /\ offset' = offset + CountThatFits(key, rest, Mtu, AddressWidth)
              /\ stage' = IF offset' >= Len(list) THEN "sent" ELSE "sending"
         ELSE stage' = "failed" /\ UNCHANGED <<offset, sent>>

SendPart ==
    /\ stage = "sending" /\ SendFirstOf(KeyRead, After(offset, list))
    /\ UNCHANGED <<ask, question, list, heard, shown>>

SendFails ==
    /\ stage = "sending" /\ stage' = "send_error"
    /\ UNCHANGED <<ask, question, list, offset, sent, heard, shown>>

-----------------------------------------------------------------------------
(* The tool                                                                *)

\* Mutant: a list without a key is taken as well.
OwnList_NoKey(body) == body.key \in {<<>>, LittleEndian(4, QueryKey)}

\* handle_master_packet: a list with another key, or without one, is ignored.
OwnList(body) == body.key = LittleEndian(4, QueryKey)

ToolReceive(datagram) ==
    LET packet == DecodeMaster(datagram) IN
    /\ stage \notin {"ask", "exit"}
    /\ heard' = heard \cup {datagram}
    /\ shown' = IF IsOk(packet) /\ packet.val.kind = "QueryServersResponse" /\ OwnList(packet.val.body)
                THEN shown \cup ToSet(ListAddresses(packet.val.body.inner, AddressWidth))
                ELSE shown
    /\ UNCHANGED <<ask, question, stage, list, offset, sent>>

\* A datagram that is never received is lost; one that stays may come again.
ListingNext ==
    \/ \E a \in Asks : Ask(a)
    \/ Answer \/ SendPart \/ SendFails
    \/ \E d \in ToSet(sent) \cup StrayLists : ToolReceive(d)

ListingSpec == ListingInit /\ [][ListingNext]_listingVars

-----------------------------------------------------------------------------
(* What the user means, without the texts: an option of the tool goes      *)
(* before the text, the text before what is set by a user of the library,  *)
(* anything given before a default.                                        *)

LastOf(raw, k) ==
    LET is == {i \in DOMAIN raw : raw[i][1] = k}
    IN IF is = {} THEN Nothing ELSE Some(raw[Max(is)][2])

Given(a, k) ==
    IF k \notin DOMAIN a.given \/ a.given[k] \in { <<"none">>, <<"all">> } THEN Nothing
    ELSE Some(a.given[k])

Means(a, k) ==
    LET choices ==
            IF a.by = "library" THEN <<LastOf(a.raw, k), Given(a, k)>>
            ELSE <<Given(a, k), LastOf(a.raw, k),
                   IF k \in DOMAIN a.given \/ k \notin DOMAIN FilterDefaults
                      \/ FilterDefaults[k] = Nothing THEN Nothing
                   ELSE Some(ShowValue(FilterKinds[k], FilterDefaults[k][1]))>>
        some == SelectSeq(choices, LAMBDA c : c # Nothing)
    IN IF some = <<>> THEN Nothing ELSE Head(some)

MeansVersion(a) == ParseVersion(Means(a, "clver")[1]).val

Refused(a) ==
    \/ Means(a, "clver") = Nothing
    \/ VersionBelow(MeansVersion(a), MinVersion)
    \/ LET min == IF Old(MeansVersion(a)) THEN MinOldBuildnum ELSE MinBuildnum
       IN min > 0 /\ (Means(a, "buildnum") = Nothing
                        \/ ParseNumber(U32Bound, Means(a, "buildnum")[1]).val < min)

\* "full" and "empty" select the servers that are full and empty, as Filter::matches and
\* its tests match_full and match_not_empty have it. The comments on the flags and the
\* text of a filter (filter.rs:14-15, 22-25, 63) say the opposite: not full, not empty.
IsWanted(a, add) ==
    /\ add.region = 255
    /\ \A k \in {"gamedir", "map"} : Means(a, k) \in {Nothing, Some(add[k])}
    /\ Means(a, "nat") # Nothing => (Means(a, "nat")[1] = <<"1">>) = ("NAT" \in add.flags)
    /\ Means(a, "full") # Nothing =>
           (Means(a, "full")[1] = <<"1">>) = (add.players >= add.max)
    /\ Old(MeansVersion(a)) => add.protocol = 48

Meant(a) ==
    IF Refused(a) THEN {UpdateAddr}
    ELSE {addr \in DOMAIN GameServers : IsWanted(a, GameServers[addr])}

\* The text of the request, put together from options, text and defaults, selects at the
\* master server what the user means, and the key comes back.
ReadAsMeant ==
    LET read == DecodeAtMaster(HashLen, question) IN
    stage = "query" /\ IsOk(read) =>
        Selected(read.val.body) = Meant(ask) /\ KeyRead = LittleEndian(4, QueryKey)

\* Whatever datagrams come, the tool shows no server that the user did not ask for,
\* and the update address instead of all servers when the master server refuses.
ShownWasAsked == shown # {} => shown \subseteq Meant(ask)

\* When every datagram of the list has come, the tool shows all servers that the user
\* asked for: no server is lost where the list is split, or by a default the user
\* has overridden.
ShownWhenDelivered ==
    stage = "sent" /\ ToSet(sent) \subseteq heard => Meant(ask) \subseteq shown

\* The datagrams hold the servers in their order, each once, every datagram but the
\* only one of an empty list holds one at least, and there is always room for its end.
Held(datagram) == ListAddresses(DecodeList(datagram).val.inner, AddressWidth)

SplitKeepsTheList ==
    /\ stage # "failed"
    /\ FlattenSeq([i \in DOMAIN sent |-> Held(sent[i])]) = SubSeq(list, 1, offset)
    /\ list # <<>> => \A i \in DOMAIN sent : Held(sent[i]) # <<>>
    /\ stage = "sent" => offset = Len(list)

=============================================================================

----------------------------- MODULE ClientPackets -----------------------------
(***************************************************************************)
(* The datagrams of clients and administrators, and those of the master    *)
(* server. An address is the sequence of its bytes, the port in the last   *)
(* two of them, as it is sent.                                             *)
(***************************************************************************)
EXTENDS ServerPackets

CONSTANT Addresses   \* those that are written as text somewhere

(***************************************************************************)
(* Clients.                                                                *)
(***************************************************************************)
ClientHeaders ==
    [QueryServers |-> <<"1">>,
     GetChallenge |-> OutOfBand \o <<"U">> \o OutOfBand,
     GetServerInfo |-> OutOfBand \o <<"info", " ">>,
     GetServerInfo2 |-> OutOfBand \o <<"T", "Source Engine Query", Nul>>,
     GetPlayers |-> OutOfBand \o <<"U">>]

\* Mutant: GetPlayers is tried before the packet whose header extends its own.
ClientOrder_PlayersFirst ==
    <<"QueryServers", "GetPlayers", "GetChallenge", "GetServerInfo", "GetServerInfo2">>

ClientOrder ==
    <<"QueryServers", "GetChallenge", "GetServerInfo", "GetServerInfo2", "GetPlayers">>

\* The filter is whatever follows the last address; the engine does not end it.
DecodeQuery(src) ==
    Then(GetField("number", src), LAMBDA region :
        IF region.val \notin Regions THEN Fail(<<"InvalidRegion">>)
        ELSE Then(GetCstr(region.rest), LAMBDA last :
             Then(CstrOrEnd(last.rest), LAMBDA raw :
             Then(ParseFilter(raw.val), LAMBDA filter :
                 Read([region |-> region.val, last |-> last.val, filter |-> filter.val], <<>>)))))

\* The filter is put as text: what the tools send is a string already.
ShowQuery(region, last, filter) == <<Byte(region)>> \o ShowStr(last) \o <<Nul>> \o filter \o <<Nul>>

DecodeInfo2Request(src) ==
    IF src = <<>> THEN Read(<<>>, <<>>) ELSE ExpectEmpty(GetField("u32", src))

\* u32::MAX is the challenge of no GetPlayers: those bytes are a GetChallenge.
DecodeGetPlayers(src) ==
    Then(GetField("u32", src), LAMBDA challenge :
        IF challenge.val = OutOfBand THEN Fail(<<"InvalidPacket">>) ELSE ExpectEmpty(challenge))

DecodeClientBody(kind, src) ==
    CASE kind = "QueryServers" -> DecodeQuery(src)
      [] kind = "GetChallenge" -> ExpectEmpty(Read(<<>>, src))
      [] kind = "GetServerInfo" -> ParseNumber(255, src)
      [] kind = "GetServerInfo2" -> DecodeInfo2Request(src)
      [] kind = "GetPlayers" -> DecodeGetPlayers(src)

ShowClientBody(kind, body) ==
    CASE kind = "QueryServers" -> ShowQuery(body.region, body.last, ShowFilter(body.filter))
      [] kind = "GetServerInfo" -> Digits[10, body]
      [] OTHER -> body

DecodeClient(src) ==
    LET kind == Dispatch(ClientOrder, ClientHeaders, src)
    IN IF kind = "none" THEN Fail(<<"UndefinedPacket">>)
       ELSE Packet(kind, DecodeClientBody(kind, After(Len(ClientHeaders[kind]), src)))

(***************************************************************************)
(* Administrators.                                                         *)
(***************************************************************************)
AdminHeaders == [AdminChallenge |-> <<"admin", "challenge">>, AdminCommand |-> <<"admin">>]
AdminOrder == <<"AdminChallenge", "AdminCommand">>

DecodeAdminCommand(hashLen, src) ==
    Then(GetField("u32", src), LAMBDA challenge :
    Then(GetBytes(hashLen, challenge.rest), LAMBDA hash :
        Read([master_challenge |-> challenge.val, hash |-> hash.val, command |-> hash.rest], <<>>)))

DecodeAdminBody(hashLen, kind, src) ==
    IF kind = "AdminCommand" THEN DecodeAdminCommand(hashLen, src)
    ELSE IF src = <<>> THEN Read(<<>>, <<>>) ELSE Fail(ExpectFailed)

ShowAdminBody(kind, body) ==
    IF kind = "AdminCommand" THEN body.master_challenge \o body.hash \o body.command ELSE <<>>

(***************************************************************************)
(* What the master server tries, in this order.                            *)
(***************************************************************************)
AtMasterOrder ==
    <<"Challenge", "ServerAdd", "ServerRemove", "QueryServers", "GetServerInfo",
      "AdminChallenge", "AdminCommand">>
AtMasterHeaders == ServerHeaders @@ ClientHeaders @@ AdminHeaders

DecodeAtMaster(hashLen, src) ==
    LET kind == Dispatch(AtMasterOrder, AtMasterHeaders, src)
        body == After(Len(AtMasterHeaders[kind]), src)
    IN CASE kind = "none" -> Fail(<<"UndefinedPacket">>)
         [] kind \in DOMAIN ServerHeaders -> Packet(kind, DecodeServerBody(kind, body))
         [] kind \in DOMAIN ClientHeaders -> Packet(kind, DecodeClientBody(kind, body))
         [] kind \in DOMAIN AdminHeaders -> Packet(kind, DecodeAdminBody(hashLen, kind, body))

(***************************************************************************)
(* The master server's lists. A list is sent in as many datagrams as it    *)
(* takes; each ends with an address of zeros, and with a key in front if   *)
(* the query had one.                                                      *)
(***************************************************************************)
ListHeader == OutOfBand \o <<"f", "\n">>
ListHead(key) == ListHeader \o (IF key = <<>> THEN <<>> ELSE <<Byte(127)>> \o key \o <<Byte(8)>>)

\* Mutant: the room for the end marker is forgotten.
TakesAnother_NoMarker(key, n, size, width) == Len(ListHead(key)) + n * width <= size

\* After n - 1 addresses there is room for one more and for the end marker.
TakesAnother(key, n, size, width) == Len(ListHead(key)) + (n + 1) * width <= size

CountThatFits(key, list, size, width) ==
    Max({0} \cup {n \in DOMAIN list : TakesAnother(key, n, size, width)})

EncodeList(key, list, size, width) ==
    LET count == CountThatFits(key, list, size, width)
    IN Encoded(ListHead(key) \o FlattenSeq(SubSeq(list, 1, count)) \o Zeros(width), size)

\* Six bytes in front that look like a key are taken for one.
LooksLikeKey(bytes) == Len(bytes) >= 6 /\ bytes[1] = Byte(127) /\ bytes[6] = Byte(8)

DecodeList(src) ==
    Then(Expect(ListHeader, src), LAMBDA s :
        IF LooksLikeKey(s.rest)
          THEN Read([key |-> SubSeq(s.rest, 2, 5), inner |-> After(6, s.rest)], <<>>)
          ELSE Read([key |-> <<>>, inner |-> s.rest], <<>>))

\* The iterator leaves out a last address with port zero, and stops at half an address.
ListAddresses(inner, width) ==
    LET whole == Len(inner) \div width
        isMarker == Len(inner) = whole * width /\ whole > 0
                        /\ SubSeq(inner, Len(inner) - 1, Len(inner)) = Zeros(2)
    IN [i \in 1..(IF isMarker THEN whole - 1 ELSE whole) |->
            SubSeq(inner, (i - 1) * width + 1, i * width)]

(***************************************************************************)
(* The master server's other datagrams.                                    *)
(***************************************************************************)
MasterHeaders ==
    [ChallengeResponse |-> OutOfBand \o <<"s", "\n">>,
     QueryServersResponse |-> ListHeader,
     ClientAnnounce |-> OutOfBand \o <<"c", " ">>,
     AdminChallengeResponse |-> OutOfBand \o <<"admin", "challenge">>]
MasterOrder ==
    <<"ChallengeResponse", "QueryServersResponse", "ClientAnnounce", "AdminChallengeResponse">>

ShowAddress(addr) == <<ToString(addr)>>
ParseAddress(s) ==
    IF \E a \in Addresses : ShowAddress(a) = s
      THEN Read(CHOOSE a \in Addresses : ShowAddress(a) = s, <<>>)
      ELSE Fail(<<"InvalidClientAnnounceIp">>)

DecodeChallengeResponse(src) ==
    Then(GetField("u32", src), LAMBDA master :
    Then(OptionalU32(master.rest), LAMBDA server :
        Read([master_challenge |-> master.val, server_challenge |-> server.val], <<>>)))

AdminChallengeLayout == << <<"master_challenge", "u32">>, <<"hash_challenge", "u32">> >>

DecodeMaster(src) ==
    LET kind == Dispatch(MasterOrder, MasterHeaders, src)
        body == After(Len(MasterHeaders[kind]), src)
    IN CASE kind = "none" -> Fail(<<"UndefinedPacket">>)
         [] kind = "ChallengeResponse" -> Packet(kind, DecodeChallengeResponse(body))
         [] kind = "QueryServersResponse" -> Packet(kind, DecodeList(src))
         [] kind = "ClientAnnounce" -> Packet(kind, ParseAddress(body))
         [] kind = "AdminChallengeResponse" ->
                Packet(kind, ExpectEmpty(GetLayout(AdminChallengeLayout, body)))

ShowMasterBody(kind, body) ==
    CASE kind = "ChallengeResponse" -> body.master_challenge \o body.server_challenge
      [] kind = "ClientAnnounce" -> ShowAddress(body)
      [] kind = "AdminChallengeResponse" -> PutLayout(AdminChallengeLayout, body)
==============================================================================

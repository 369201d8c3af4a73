----------------------------- MODULE ServerPackets -----------------------------
(***************************************************************************)
(* The datagrams of game servers: what they tell a master server, and what *)
(* they answer a client. A packet is a record of its kind and its body.    *)
(***************************************************************************)
EXTENDS ServerFilter

FF == Byte(255)
OutOfBand == <<FF, FF, FF, FF>>

\* Packet::decode: the first kind, in this order, whose header the datagram has.
Dispatch(order, headers, src) ==
    LET i == SelectInSeq(order, LAMBDA kind : StartsWith(src, headers[kind]))
    IN IF i = 0 THEN "none" ELSE order[i]

Packet(kind, body) == Then(body, LAMBDA b : Read([kind |-> kind, body |-> b.val], <<>>))

\* Four more bytes, if there are exactly four.
OptionalU32(src) ==
    IF Len(src) = 4 THEN Read(src, <<>>) ELSE ExpectEmpty(Read(<<>>, src))

ServerHeaders ==
    [Challenge |-> <<"q", FF>>,
     ServerAdd |-> <<"0", "\n">>,
     ServerRemove |-> <<"b", "\n">>,
     GetServerInfoResponse |-> OutOfBand \o <<"info", "\n">>,
     GetChallengeResponse |-> OutOfBand \o <<"A">>,
     GetServerInfo2Response |-> OutOfBand \o <<"I">>,
     GetServerInfo2ResponseOld |-> OutOfBand \o <<"m">>,
     GetPlayersResponse |-> OutOfBand \o <<"D">>]

ServerOrder ==
    <<"Challenge", "ServerAdd", "ServerRemove", "GetServerInfoResponse",
      "GetChallengeResponse", "GetServerInfo2Response", "GetServerInfo2ResponseOld",
      "GetPlayersResponse">>

(***************************************************************************)
(* ServerAdd.                                                              *)
(***************************************************************************)
AddKinds ==
    [protocol |-> "u8", challenge |-> "u32", players |-> "u8", max |-> "u8",
     gamedir |-> "text", map |-> "text", type |-> "type", os |-> "os",
     version |-> "version", region |-> "region", bots |-> "u8",
     password |-> "bool", secure |-> "bool", lan |-> "bool", nat |-> "bool"]

AddFlagOfKey == [password |-> "PASSWORD", secure |-> "SECURE", lan |-> "LAN", nat |-> "NAT"]

DefaultAdd ==
    [gamedir |-> <<>>, map |-> <<>>, version |-> Version(0, 0, 0), challenge |-> 0,
     type |-> "Unknown", os |-> "Unknown", region |-> 255, protocol |-> 0,
     players |-> 0, max |-> 0, bots |-> 0, flags |-> {}]

SetAddFlag(add, flag, value) ==
    [add EXCEPT !.flags = IF value THEN @ \cup {flag} ELSE @ \ {flag}]

\* A version that cannot be read is version 0.0; other values that cannot are errors.
SetAddKey(add, key, text) ==
    IF key \notin DOMAIN AddKinds THEN Read(add, <<>>)
    ELSE IF key = "version"
      THEN LET v == ParseVersion(text)
           IN Read([add EXCEPT !.version = IF IsOk(v) THEN v.val ELSE Version(0, 0, 0)], <<>>)
    ELSE Then(ParseValue(AddKinds[key], text), LAMBDA v :
             Read(IF key \in DOMAIN AddFlagOfKey
                    THEN SetAddFlag(add, AddFlagOfKey[key], v.val)
                  ELSE IF key = "bots"
                    THEN SetAddFlag([add EXCEPT !.bots = v.val], "BOTS", v.val # 0)
                  ELSE [add EXCEPT ![key] = v.val], <<>>))

\* The string of pairs without its first separator.
StripInfo(info) ==
    IF info = <<>> THEN Read(info, <<>>)
    ELSE IF info[1] = "\\" THEN Read(Tail(info), <<>>)
    ELSE Fail(<<"InvalidMap">>)

\* The string ends with a newline or with the datagram; a NUL is not allowed.
AddInfo(src) ==
    LET s == TakeUntil({"\n", Nul}, src)
    IN IF ~IsOk(s) THEN StripInfo(src)
       ELSE IF Head(s.rest) # "\n" THEN Fail(<<"InvalidPacket">>)
       ELSE IF Tail(s.rest) # <<>> THEN Fail(ExpectEmptyFailed)
       ELSE StripInfo(s.val)

\* has_challenge: which keys there were.
KeysGiven(bytes) == FoldPairs(LAMBDA keys, key, text : Read(keys \cup {key}, <<>>), {}, bytes).val

\* Mutant: a datagram without a challenge is taken, with challenge zero.
DecodeServerAdd_NoChallenge(src) ==
    Then(AddInfo(src), LAMBDA info : FoldPairs(SetAddKey, DefaultAdd, info.val))

DecodeServerAdd(src) ==
    Then(AddInfo(src), LAMBDA info :
    Then(FoldPairs(SetAddKey, DefaultAdd, info.val), LAMBDA add :
        IF "challenge" \in KeysGiven(info.val) THEN add ELSE Fail(<<"InvalidServerValue">>)))

AddOrder ==
    <<"protocol", "challenge", "players", "max", "gamedir", "map", "type", "os",
      "version", "region", "bots", "password", "secure", "lan", "nat">>

ShowAdd(add) ==
    FlattenSeq([i \in DOMAIN AddOrder |->
        LET key == AddOrder[i]
            value == IF key \in DOMAIN AddFlagOfKey THEN AddFlagOfKey[key] \in add.flags
                                                    ELSE add[key]
        IN PutKey(key, ShowValue(AddKinds[key], value))]) \o <<"\n">>

(***************************************************************************)
(* GetServerInfoResponse: pairs, or a text whose last part may say that    *)
(* the protocol version is the wrong one.                                  *)
(***************************************************************************)
InfoKinds ==
    [p |-> "u8", map |-> "text", dm |-> "bool", team |-> "bool", coop |-> "bool",
     numcl |-> "u8", maxcl |-> "u8", gamedir |-> "text", password |-> "bool",
     dedicated |-> "bool", host |-> "text"]

InfoOrder ==
    <<"p", "map", "dm", "team", "coop", "numcl", "maxcl", "gamedir", "password",
      "dedicated", "host">>

DefaultInfo ==
    [k \in DOMAIN InfoKinds |->
        CASE InfoKinds[k] = "text" -> <<>> [] InfoKinds[k] = "u8" -> 0 [] OTHER -> FALSE]

SetInfoKey(info, key, text) ==
    IF key \notin DOMAIN InfoKinds THEN Read(info, <<>>)
    ELSE Then(ParseValue(InfoKinds[key], text), LAMBDA v :
             Read([info EXCEPT ![key] = v.val], <<>>))

WrongVersion == <<" wrong version", "\n">>

DecodeInfoResponse(src) ==
    LET colon == SelectLastInSeq(src, LAMBDA b : b = ":")
    IN IF ~StartsWith(src, <<"\\">>)
         THEN Fail(IF colon # 0 /\ After(colon, src) = WrongVersion
                     THEN <<"InvalidProtocolVersion">> ELSE <<"InvalidPacket">>)
       ELSE Then(CstrOrEnd(src), LAMBDA info :
                FoldPairs(SetInfoKey, DefaultInfo, Tail(info.val)))

ShowInfo(info) ==
    FlattenSeq([i \in DOMAIN InfoOrder |->
        PutKey(InfoOrder[i], ShowValue(InfoKinds[InfoOrder[i]], info[InfoOrder[i]]))])

(***************************************************************************)
(* GetServerInfo2Response: fields of a fixed layout, then a byte that says *)
(* which of the optional fields follow it. The number of clients counts    *)
(* the bots in; the application has two bytes, and eight if it needs them. *)
(***************************************************************************)
Info2Layout ==
    << <<"protocol", "u8">>, <<"host", "cstr">>, <<"map", "cstr">>, <<"gamedir", "cstr">>,
       <<"game", "cstr">>, <<"app_id", "u16">>, <<"clients", "number">>,
       <<"max_players", "u8">>, <<"bots", "number">>, <<"ty", "type">>, <<"os", "os">>,
       <<"password", "bool">>, <<"secure", "bool">>, <<"version", "cstr">> >>

\* The bits of ServerInfoExtra and the fields behind them, in the order they are sent.
ExtraBits == [PORT |-> 128, STEAM_ID |-> 16, SOURCE_TV |-> 64, KEYWORDS |-> 32, APP_ID |-> 1]
ExtraLayout ==
    [PORT |-> << <<"port", "u16">> >>, STEAM_ID |-> << <<"steam_id", "u64">> >>,
     SOURCE_TV |-> << <<"tv_port", "u16">>, <<"tv_name", "cstr">> >>,
     KEYWORDS |-> << <<"keywords", "cstr">> >>, APP_ID |-> << <<"app_id", "u64">> >>]
ExtraOrder == <<"PORT", "STEAM_ID", "SOURCE_TV", "KEYWORDS", "APP_ID">>

LayoutOf(extras) ==
    FlattenSeq([i \in DOMAIN ExtraOrder |->
        IF ExtraOrder[i] \in extras THEN ExtraLayout[ExtraOrder[i]] ELSE <<>>])

ExtrasOf(byte) == {e \in DOMAIN ExtraBits : (NumberOf[byte] \div ExtraBits[e]) % 2 = 1}
ByteOfExtras(extras) == Byte(FoldSet(LAMBDA e, n : n + ExtraBits[e], 0, extras))

Zeros(n) == [i \in 1..n |-> Nul]

GetExtra(src) ==
    IF src = <<>> THEN Read([f \in {} |-> <<>>], <<>>)
    ELSE GetLayout(LayoutOf(ExtrasOf(Head(src))), Tail(src))

\* body.extra holds the optional fields the packet has.
Info2Body(fixed, extra) ==
    [f \in (DOMAIN fixed \ {"clients"}) \cup {"players", "extra"} |->
        CASE f = "app_id" -> IF f \in DOMAIN extra THEN extra[f] ELSE fixed[f] \o Zeros(6)
          [] f = "players" -> fixed.clients - fixed.bots
          [] f = "extra" -> [e \in DOMAIN extra \ {"app_id"} |-> extra[e]]
          [] OTHER -> fixed[f]]

DecodeInfo2(src) ==
    Then(GetLayout(Info2Layout, src), LAMBDA fixed :
        IF fixed.val.clients < fixed.val.bots THEN Fail(<<"InvalidPacket">>)
        ELSE Then(ExpectEmpty(GetExtra(fixed.rest)), LAMBDA extra :
                 Read(Info2Body(fixed.val, extra.val), <<>>)))

ExtrasOfBody(body) ==
    {e \in DOMAIN ExtraBits \ {"APP_ID"} : ExtraLayout[e][1][1] \in DOMAIN body.extra}
    \cup {e \in {"APP_ID"} : SubSeq(body.app_id, 3, 8) # Zeros(6)}

\* Mutant: the number of clients is sent without the bots.
Info2Fixed_NoBots(body) ==
    PutLayout(Info2Layout, [body EXCEPT !.app_id = SubSeq(@, 1, 2)] @@ [clients |-> body.players])

Info2Fixed(body) ==
    PutLayout(Info2Layout,
              [body EXCEPT !.app_id = SubSeq(@, 1, 2)] @@ [clients |-> body.players + body.bots])

\* The byte of the optional fields is set aside first: it must fit, used or not.
EncodeInfo2(body, size) ==
    LET extras == ExtrasOfBody(body)
        fixed == ServerHeaders["GetServerInfo2Response"] \o Info2Fixed(body)
        tail == PutLayout(LayoutOf(extras), body.extra @@ [app_id |-> body.app_id])
    IN IF Len(fixed) + 1 + Len(tail) > size THEN Fail(BufferOverflow)
       ELSE Read(IF extras = {} THEN fixed ELSE fixed \o <<ByteOfExtras(extras)>> \o tail, <<>>)

(***************************************************************************)
(* GetServerInfo2ResponseOld, whose information on the mod is optional.    *)
(***************************************************************************)
OldLayout ==
    << <<"address", "cstr">>, <<"host", "cstr">>, <<"map", "cstr">>, <<"gamedir", "cstr">>,
       <<"game", "cstr">>, <<"players", "u8">>, <<"max_players", "u8">>, <<"protocol", "u8">>,
       <<"ty", "type">>, <<"os", "os">>, <<"password", "bool">>, <<"has_mod", "bool">> >>
ModLayout ==
    << <<"link", "cstr">>, <<"download_link", "cstr">>, <<"zero", "u8">>, <<"version", "u32">>,
       <<"size", "u32">>, <<"multiplayer_only", "bool">>, <<"custom_dll", "bool">> >>
OldEnd == << <<"secure", "bool">>, <<"bots", "u8">> >>

DecodeInfo2Old(src) ==
    Then(GetLayout(OldLayout, src), LAMBDA first :
    Then(IF first.val.has_mod THEN GetLayout(ModLayout, first.rest)
                              ELSE Read([f \in {} |-> <<>>], first.rest), LAMBDA mod :
    Then(ExpectEmpty(GetLayout(OldEnd, mod.rest)), LAMBDA end :
        Read(first.val @@ end.val @@ [mod |-> mod.val], <<>>))))

ShowInfo2Old(body) ==
    PutLayout(OldLayout, body)
        \o (IF body.has_mod THEN PutLayout(ModLayout, body.mod) ELSE <<>>)
        \o PutLayout(OldEnd, body)

(***************************************************************************)
(* GetPlayersResponse: a count, then the players. They are read on demand; *)
(* the readers skip those that cannot be read, and after the first of them *)
(* the rest cannot be read either.                                         *)
(***************************************************************************)
PlayerLayout == << <<"id", "u8">>, <<"name", "cstr">>, <<"frags", "i32">>, <<"time", "f32">> >>

TakePlayer(r) ==
    LET p == GetLayout(PlayerLayout, r.rest)
    IN IF IsOk(p) THEN Read(Append(r.val, p.val), p.rest) ELSE r

Players(count, src) ==
    LET round[n \in Nat] == IF n = 0 THEN Read(<<>>, src) ELSE TakePlayer(round[n - 1])
    IN round[count].val

DecodePlayers(src) ==
    Then(GetField("number", src), LAMBDA count :
        Read([players |-> Players(count.val, count.rest)], <<>>))

ShowPlayers(players) ==
    <<Byte(Len(players))>>
        \o FlattenSeq([i \in DOMAIN players |-> PutLayout(PlayerLayout, players[i])])

(***************************************************************************)
(* All of them.                                                            *)
(***************************************************************************)
DecodeServerBody(kind, src) ==
    CASE kind = "Challenge" -> OptionalU32(src)
      [] kind = "ServerAdd" -> DecodeServerAdd(src)
      [] kind = "ServerRemove" -> ExpectEmpty(Read(<<>>, src))
      [] kind = "GetServerInfoResponse" -> DecodeInfoResponse(src)
      [] kind = "GetChallengeResponse" -> ExpectEmpty(GetField("u32", src))
      [] kind = "GetServerInfo2Response" -> DecodeInfo2(src)
      [] kind = "GetServerInfo2ResponseOld" -> DecodeInfo2Old(src)
      [] kind = "GetPlayersResponse" -> DecodePlayers(src)

ShowServerBody(kind, body) ==
    CASE kind \in {"Challenge", "ServerRemove", "GetChallengeResponse"} -> body
      [] kind = "ServerAdd" -> ShowAdd(body)
      [] kind = "GetServerInfoResponse" -> ShowInfo(body)
      [] kind = "GetServerInfo2ResponseOld" -> ShowInfo2Old(body)
      [] kind = "GetPlayersResponse" -> ShowPlayers(body.players)

DecodeServer(src) ==
    LET kind == Dispatch(ServerOrder, ServerHeaders, src)
    IN IF kind = "none" THEN Fail(<<"UndefinedPacket">>)
       ELSE Packet(kind, DecodeServerBody(kind, After(Len(ServerHeaders[kind]), src)))

EncodeServer(packet, size) ==
    IF packet.kind = "GetServerInfo2Response" THEN EncodeInfo2(packet.body, size)
    ELSE Encoded(ServerHeaders[packet.kind] \o ShowServerBody(packet.kind, packet.body), size)
==============================================================================

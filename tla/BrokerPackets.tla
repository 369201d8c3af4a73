----------------------------- MODULE BrokerPackets -----------------------------
(***************************************************************************)
(* The frames between a game and the Steam broker: a header, the length of *)
(* the payload and the payload, which is a command with arguments.         *)
(***************************************************************************)
EXTENDS ClientPackets

FrameHeader == <<"S", "B", "R", "K">>
FixedSize == Len(FrameHeader) + 2

(***************************************************************************)
(* Frame. A length is two bytes, of which short payloads use the first.    *)
(***************************************************************************)
EncodeFrame(payload, size) ==
    IF FixedSize + Len(payload) > size THEN Fail(BufferOverflow)
    ELSE IF Len(payload) > 65535 THEN Fail(InvalidNumber)
    ELSE Read(FrameHeader \o LittleEndian(2, Len(payload)) \o payload, <<>>)

LengthOf(bytes) == NumberOf[bytes[1]] + 256 * NumberOf[bytes[2]]

\* Mutant: the bytes of the header are asked for again with those of the payload.
DecodeFrame_AsksAgain(src) ==
    IF Len(src) < FixedSize THEN Fail(NeedMoreBytes(FixedSize - Len(src)))
    ELSE Then(Expect(FrameHeader, src), LAMBDA header :
         Then(GetBytes(2, header.rest), LAMBDA len :
             IF IsOk(GetBytes(LengthOf(len.val), len.rest)) THEN GetBytes(LengthOf(len.val), len.rest)
             ELSE Fail(NeedMoreBytes(LengthOf(len.val)))))

\* The payload, the bytes after the frame left in the rest.
DecodeFrame(src) ==
    IF Len(src) < FixedSize THEN Fail(NeedMoreBytes(FixedSize - Len(src)))
    ELSE Then(Expect(FrameHeader, src), LAMBDA header :
         Then(GetBytes(2, header.rest), LAMBDA len : GetBytes(LengthOf(len.val), len.rest)))

(***************************************************************************)
(* Args: words between spaces. Spaces in front of a word are skipped, and  *)
(* those after the last word are left to be unexpected.                    *)
(***************************************************************************)
SkipSpaces(src) ==
    LET skipped == TakeWhile(LAMBDA b : b = " ", src) IN IF IsOk(skipped) THEN skipped.rest ELSE src

FirstWord(src) ==
    LET word == TakeWhile(LAMBDA b : b # " ", src)
    IN IF src = <<>> THEN Fail(ExpectFailed) ELSE IF IsOk(word) THEN word ELSE Read(src, <<>>)

NextArg(src) == FirstWord(SkipSpaces(src))

ParseArg(kind, s) ==
    CASE kind = "text" -> Read(s, <<>>)
      [] kind = "address" -> ParseAddress(s)
      [] kind = "number" -> ParseNumber(U32Bound, s)
      [] kind = "bool" -> ParseBool(s)

ArgError(kind) == IF kind = "bool" THEN InvalidBool ELSE InvalidString

GetArg(args, kind) ==
    Then(NextArg(args.rest), LAMBDA word :
        LET arg == ParseArg(kind, word.val)
        IN IF IsOk(arg) THEN Read(Append(args.val, arg.val), word.rest) ELSE Fail(ArgError(kind)))

\* The arguments of a command, each of its kind, and nothing after them.
GetArgs(name, kinds, src) ==
    Then(NextArg(src), LAMBDA command :
        IF command.val # name THEN Fail(ExpectFailed)
        ELSE ExpectEmpty(FoldLeft(LAMBDA acc, kind : Then(acc, LAMBDA a : GetArg(a, kind)),
                                  Read(<<>>, command.rest), kinds)))

(***************************************************************************)
(* The packets of the game, told apart by how the payload starts, and the  *)
(* broker's answer, whose header is a name as well, but ends with a        *)
(* newline.                                                                *)
(***************************************************************************)
CommandNames ==
    [Gamedir |-> <<"sb_gamedir">>, Connect |-> <<"sb_connect">>,
     Disconnect |-> <<"sb_disconnect">>, Terminate |-> <<"sb_terminate">>]
CommandOrder == <<"Gamedir", "Connect", "Disconnect", "Terminate">>
ArgKinds ==
    [Gamedir |-> <<"text">>, Connect |-> <<"address", "number", "bool", "number">>,
     Disconnect |-> <<"address", "number">>, Terminate |-> <<>>]

ShowArg(kind, v) ==
    CASE kind = "text" -> ShowStr(v)
      [] kind = "address" -> ShowAddress(v)
      [] kind = "number" -> Digits[10, v]
      [] kind = "bool" -> ShowValue("bool", v)

ShowCommand(kind, args) ==
    CommandNames[kind]
        \o FlattenSeq([i \in DOMAIN args |-> <<" ">> \o ShowArg(ArgKinds[kind][i], args[i])])

DecodeCommand(payload) ==
    LET kind == Dispatch(CommandOrder, CommandNames, payload)
    IN IF kind = "none" THEN Fail(<<"InvalidPacket">>)
       ELSE Packet(kind, GetArgs(CommandNames[kind], ArgKinds[kind], payload))

ConnectResponseHeader == <<"sb_connect", "\n">>
ConnectResponseLayout == << <<"challenge", "u32">>, <<"client_steam_id", "u64">>, <<"len", "u32">> >>

ShowConnectResponse(body) ==
    ConnectResponseHeader \o body.challenge \o body.client_steam_id
        \o LittleEndian(4, Len(body.ticket)) \o body.ticket

\* The ticket, whose length has four bytes: with one of the upper two set, it is longer
\* than any payload.
GetTicket(len, src) ==
    IF len[3] = Nul /\ len[4] = Nul THEN GetBytes(LengthOf(len), src)
                                  ELSE Fail(NeedMoreBytes(256 * 256 - Len(src)))

DecodeConnectResponse(payload) ==
    IF ~StartsWith(payload, ConnectResponseHeader) THEN Fail(<<"InvalidPacket">>)
    ELSE Then(GetLayout(ConnectResponseLayout, After(Len(ConnectResponseHeader), payload)), LAMBDA fixed :
         Then(ExpectEmpty(GetTicket(fixed.val.len, fixed.rest)), LAMBDA ticket :
             Packet("ConnectResponse",
                    Read([challenge |-> fixed.val.challenge, ticket |-> ticket.val,
                          client_steam_id |-> fixed.val.client_steam_id], <<>>))))
==============================================================================

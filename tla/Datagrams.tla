------------------------------ MODULE Datagrams ------------------------------
(***************************************************************************)
(* A packet is encoded into a buffer and sent.  Whoever receives it may    *)
(* have a buffer that is shorter, which leaves the end of the datagram     *)
(* out, and may be of any side: all of them listen on the same sockets as  *)
(* the side the packet was meant for.                                      *)
(***************************************************************************)
EXTENDS BrokerPackets, FiniteSets

CONSTANTS
    Mail,            \* what is sent: by, kind, body and the size of the buffer
    HashLen,         \* bytes of a hash
    AddressWidth     \* bytes of an address with its port

VARIABLES
    mail,            \* what was sent
    wire,            \* the datagram
    side,            \* who received it, "none" before
    got              \* what decoding it returned

datagramVars == <<mail, wire, side, got>>

Nobody == [by |-> "none", kind |-> "none", body |-> <<>>, size |-> 0]

-----------------------------------------------------------------------------
EncodeMail(m) ==
    CASE m.by = "server" -> EncodeServer([kind |-> m.kind, body |-> m.body], m.size)
      [] m.by = "client" ->
            Encoded(ClientHeaders[m.kind] \o ShowClientBody(m.kind, m.body), m.size)
      [] m.by = "admin" ->
            Encoded(AdminHeaders[m.kind] \o ShowAdminBody(m.kind, m.body), m.size)
      [] m.by = "master" ->
            IF m.kind = "QueryServersResponse"
              THEN EncodeList(m.body.key, m.body.list, m.size, AddressWidth)
              ELSE Encoded(MasterHeaders[m.kind] \o ShowMasterBody(m.kind, m.body), m.size)
      [] m.by = "game" -> EncodeFrame(ShowCommand(m.kind, m.body), m.size)
      [] m.by = "broker" -> EncodeFrame(ShowConnectResponse(m.body), m.size)

\* The addresses of a list are read by its iterator.
WithAddresses(r) ==
    IF IsOk(r) /\ r.val.kind = "QueryServersResponse"
      THEN [r EXCEPT !.val.body = [key |-> r.val.body.key,
                                   list |-> ListAddresses(r.val.body.inner, AddressWidth)]]
      ELSE r

DecodeFramed(decode(_), src) ==
    Then(DecodeFrame(src), LAMBDA frame : decode(frame.val))

Sides == {"client", "server", "master", "tool", "game", "broker"}

DecodeAt(s, src) ==
    CASE s = "client" -> DecodeServer(src)
      [] s = "server" -> DecodeClient(src)
      [] s = "master" -> DecodeAtMaster(HashLen, src)
      [] s = "tool" -> WithAddresses(DecodeMaster(src))
      [] s = "game" -> DecodeFramed(DecodeConnectResponse, src)
      [] s = "broker" -> DecodeFramed(DecodeCommand, src)

-----------------------------------------------------------------------------
DatagramInit ==
    /\ mail = Nobody
    /\ wire = <<>>
    /\ side = "none"
    /\ got = Read(<<>>, <<>>)

\* Nothing is sent when the packet does not fit.
Send(m) ==
    LET bytes == EncodeMail(m) IN
    /\ mail = Nobody
    /\ mail' = IF IsOk(bytes) THEN m ELSE [m EXCEPT !.by = "overflow"]
    /\ wire' = bytes.val
    /\ UNCHANGED <<side, got>>

Receive(s, n) ==
    /\ mail.by \notin {"none", "overflow"} /\ side = "none"
    /\ side' = s
    /\ wire' = SubSeq(wire, 1, n)
    /\ got' = DecodeAt(s, wire')
    /\ UNCHANGED mail

DatagramNext ==
    \/ \E m \in Mail : Send(m)
    \/ \E s \in Sides, n \in 0..Len(wire) : Receive(s, n)

-----------------------------------------------------------------------------
Reader ==
    [server |-> {"client", "master"}, client |-> {"server", "master"}, admin |-> {"master"},
     master |-> {"tool"}, game |-> {"broker"}, broker |-> {"game"}]

\* Two kinds that only the servers and only the clients know.
Expected(m, s) ==
    /\ s \in Reader[m.by]
    /\ s = "master" => m.kind \in ToSet(AtMasterOrder)

Whole == wire = EncodeMail(mail).val

AsSent == got.val.kind = mail.kind /\ got.val.body = mail.body

\* A list that is sent in several datagrams begins with what fits in the first.
AllSent ==
    IF mail.kind = "QueryServersResponse"
      THEN /\ got.val.body.key = mail.body.key
           /\ IsPrefix(got.val.body.list, mail.body.list)
           /\ \/ Len(got.val.body.list) = Len(mail.body.list)
              \/ Len(wire) > mail.size - AddressWidth
      ELSE AsSent

\* What one side encodes, the other side decodes to the same packet; whoever else
\* receives it refuses it, or reads the same packet (headers that extend one
\* another, bytes read in the order they are written, optional parts).
RoundTrip ==
    side # "none" /\ Whole =>
        /\ Expected(mail, side) => IsOk(got)
        /\ IsOk(got) => got.val.kind = mail.kind /\ AllSent

\* At most one field is neither what was sent nor what an absent one is.
LastFieldOnly(read, sent, default) ==
    Cardinality({f \in DOMAIN sent : read[f] # sent[f] /\ read[f] # default[f]}) <= 1

FieldOr(filter, k) == IF Has(filter, k) THEN <<filter.fields[k]>> ELSE <<>>

PartOfFilter(read, sent) ==
    /\ read.mask \subseteq sent.mask
    /\ read.flags = sent.flags \cap read.mask
    /\ LastFieldOnly([k \in DOMAIN FilterKinds |-> FieldOr(read, k)],
                     [k \in DOMAIN FilterKinds |-> FieldOr(sent, k)],
                     [k \in DOMAIN FilterKinds |-> <<>>])

PartOf(kind, read, sent) ==
    CASE kind = "ServerAdd" ->
            /\ LastFieldOnly([read EXCEPT !.flags = sent.flags], sent, DefaultAdd)
            /\ read.flags \subseteq sent.flags
            /\ read.challenge # DefaultAdd.challenge
      [] kind = "GetServerInfoResponse" -> LastFieldOnly(read, sent, DefaultInfo)
      [] kind = "GetServerInfo2Response" ->
            [read EXCEPT !.extra = sent.extra, !.app_id = sent.app_id] = sent
      [] kind = "GetPlayersResponse" -> IsPrefix(read.players, sent.players)
      [] kind = "QueryServers" ->
            /\ read.region = sent.region /\ read.last = sent.last
            /\ PartOfFilter(read.filter, sent.filter)
      [] kind = "GetServerInfo" -> \E n \in {1, 10, 100} : read = sent \div n
      [] kind = "AdminCommand" ->
            /\ [read EXCEPT !.command = sent.command] = sent
            /\ IsPrefix(read.command, sent.command)
      [] kind = "QueryServersResponse" ->
            /\ IsPrefix(read.list, sent.list)
            /\ read.key = sent.key \/ read.list = <<>>
      [] kind = "ChallengeResponse" ->
            /\ read.master_challenge = sent.master_challenge
            /\ read.server_challenge \in {<<>>, sent.server_challenge}
      [] OTHER -> read \in {<<>>, sent}

\* A datagram whose end is missing is refused, or is the packet that was sent without
\* its end: no field is read at a place that is not its own, no challenge, hash or
\* address is made up.
CutLosesTheEndOnly ==
    side # "none" /\ IsOk(got) =>
        got.val.kind = mail.kind /\ PartOf(mail.kind, got.val.body, mail.body)

=============================================================================

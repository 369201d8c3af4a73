------------------------------- MODULE Cursors -------------------------------
(***************************************************************************)
(* Reading and writing the bytes of a datagram.                            *)
(*                                                                         *)
(* A datagram is a sequence of tokens. A token is one byte: the character, *)
(* if the byte is text ("4", "\\", "\n"), and "#" with its number if it is *)
(* not ("#0", "#255"). A word whose parts nothing tells apart (a header, a *)
(* key, a name) is one token as well.                                      *)
(***************************************************************************)
EXTENDS Naturals, Sequences, SequencesExt

(***************************************************************************)
(* Bytes and numbers. Numbers of two bytes or more that the code only      *)
(* copies (challenges, ports, Steam IDs) are the sequence of their bytes.  *)
(***************************************************************************)
Byte(n) == "#" \o ToString(n)

\* ToString is written by TLC: that it tells the bytes apart is seen by evaluating it.
ASSUME BytesAssumption == \A m, n \in 0..255 : Byte(m) = Byte(n) => m = n

Octets == {Byte(n) : n \in 0..255}
NumberOf == [b \in Octets |-> CHOOSE n \in 0..255 : Byte(n) = b]

Nul == Byte(0)
HexDigits == <<"0", "1", "2", "3", "4", "5", "6", "7", "8", "9", "a", "b", "c", "d", "e", "f">>
DigitOf == [d \in ToSet(HexDigits) |-> CHOOSE i \in 0..15 : HexDigits[i + 1] = d]

\* put_u32_le of a number: w bytes, the lowest first.
Place == <<1, 256, 65536, 16777216>>
LittleEndian(w, n) == [i \in 1..w |-> Byte((n \div Place[i]) % 256)]

\* put_as_str of a number, in base 10 or 16.
Digits[base \in {10, 16}, n \in Nat] ==
    (IF n < base THEN <<>> ELSE Digits[base, n \div base]) \o <<HexDigits[(n % base) + 1]>>

(***************************************************************************)
(* What reading returns: a value and the rest of the datagram, or an error.*)
(***************************************************************************)
NoError == <<>>
Read(val, rest) == [err |-> NoError, val |-> val, rest |-> rest]
Fail(err) == [err |-> err, val |-> <<>>, rest |-> <<>>]
IsOk(r) == r.err = NoError

\* The ? operator: an error ends the reading, else next goes on with what was read.
Then(r, next(_)) == IF IsOk(r) THEN next(r) ELSE r

InvalidNumber == <<"InvalidNumber">>
InvalidString == <<"InvalidString">>
InvalidBool == <<"InvalidBool">>
ExpectFailed == <<"Expect">>
ExpectEmptyFailed == <<"ExpectEmpty">>
NeedMoreBytes(n) == <<"NeedMoreBytes", n>>
BufferOverflow == <<"BufferOverflow">>

(***************************************************************************)
(* Cursor.                                                                 *)
(***************************************************************************)
After(n, src) == SubSeq(src, n + 1, Len(src))

StartsWith(src, header) == IsPrefix(header, src)

GetBytes(n, src) ==
    IF n <= Len(src) THEN Read(SubSeq(src, 1, n), After(n, src))
                     ELSE Fail(NeedMoreBytes(n - Len(src)))

\* The bytes in front of the first of stops, which is left in the rest.
SplitBefore(p, src) ==
    IF p = 0 THEN Fail(NeedMoreBytes(1)) ELSE Read(SubSeq(src, 1, p - 1), After(p - 1, src))

TakeUntil(stops, src) == SplitBefore(SelectInSeq(src, LAMBDA b : b \in stops), src)

\* The bytes in front of the first one that does not satisfy cond.
TakeWhile(cond(_), src) == SplitBefore(SelectInSeq(src, LAMBDA b : ~cond(b)), src)

GetCstr(src) == Then(TakeUntil({Nul}, src), LAMBDA s : Read(s.val, Tail(s.rest)))

Expect(header, src) ==
    IF Len(src) < Len(header) THEN Fail(NeedMoreBytes(Len(header) - Len(src)))
    ELSE IF StartsWith(src, header) THEN Read(<<>>, After(Len(header), src))
    ELSE Fail(ExpectFailed)

ExpectEmpty(read) ==
    Then(read, LAMBDA r : IF r.rest # <<>> THEN Fail(ExpectEmptyFailed) ELSE r)

\* A C string whose end the engine may leave out, and then nothing.
CstrOrEnd(src) ==
    LET s == GetCstr(src) IN IF IsOk(s) THEN ExpectEmpty(s) ELSE Read(src, <<>>)

\* str::parse of an unsigned number up to max, which may follow a plus.
IsNumber(s) == s # <<>> /\ \A i \in DOMAIN s : s[i] \in DOMAIN DigitOf /\ DigitOf[s[i]] < 10
ValueOf(base, s) == FoldLeft(LAMBDA n, d : base * n + DigitOf[d], 0, s)
AfterPlus(s) == IF Len(s) > 1 /\ s[1] = "+" THEN Tail(s) ELSE s
ParseNumber(max, s) ==
    LET n == AfterPlus(s) IN
    IF IsNumber(n) /\ ValueOf(10, n) <= max THEN Read(ValueOf(10, n), <<>>)
                                            ELSE Fail(InvalidNumber)

(***************************************************************************)
(* Fields of fixed layout: a layout is a sequence of names and kinds, read *)
(* and written in this order.                                              *)
(***************************************************************************)
Width == [u8 |-> 1, number |-> 1, bool |-> 1, type |-> 1, os |-> 1,
          u16 |-> 2, u32 |-> 4, i32 |-> 4, f32 |-> 4, u64 |-> 8]

ServerTypes == [d |-> "Dedicated", l |-> "Local", p |-> "Proxy"]
OsTypes == [l |-> "Linux", w |-> "Windows", m |-> "Mac"]
TypeOfByte(types, b) == IF b \in DOMAIN types THEN types[b] ELSE "Unknown"
ByteOfType(types, unknown, t) ==
    IF t = "Unknown" THEN unknown ELSE CHOOSE b \in DOMAIN types : types[b] = t

FromBytes(kind, bytes) ==
    CASE kind = "u8" -> bytes[1]
      [] kind = "number" -> NumberOf[bytes[1]]
      [] kind = "bool" -> bytes[1] # Nul
      [] kind = "type" -> TypeOfByte(ServerTypes, bytes[1])
      [] kind = "os" -> TypeOfByte(OsTypes, bytes[1])
      [] OTHER -> bytes

GetField(kind, src) ==
    CASE kind = "cstr" -> GetCstr(src)
      [] kind = "tail" -> Read(src, <<>>)
      [] OTHER -> Then(GetBytes(Width[kind], src),
                       LAMBDA r : Read(FromBytes(kind, r.val), r.rest))

GetLayout(layout, src) ==
    FoldLeft(LAMBDA acc, field :
                 Then(acc, LAMBDA a : Then(GetField(field[2], a.rest), LAMBDA r :
                     Read([f \in DOMAIN a.val \cup {field[1]} |->
                              IF f = field[1] THEN r.val ELSE a.val[f]], r.rest))),
             Read([f \in {} |-> <<>>], src), layout)

\* put_u8, put_u16_le, ..., put_cstr, put_bytes.
PutField(kind, v) ==
    CASE kind = "u8" -> <<v>>
      [] kind = "number" -> <<Byte(v)>>
      [] kind = "bool" -> <<IF v THEN Byte(1) ELSE Nul>>
      [] kind = "type" -> <<ByteOfType(ServerTypes, Nul, v)>>
      [] kind = "os" -> <<ByteOfType(OsTypes, Nul, v)>>
      [] kind = "cstr" -> v \o <<Nul>>
      [] OTHER -> v

PutLayout(layout, rec) ==
    FlattenSeq([i \in DOMAIN layout |-> PutField(layout[i][2], rec[layout[i][1]])])

\* Every put fails when its bytes do not fit, and encode with it.
Encoded(bytes, size) ==
    IF Len(bytes) <= size THEN Read(bytes, <<>>) ELSE Fail(BufferOverflow)
==============================================================================

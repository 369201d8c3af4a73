------------------------------ MODULE KeyValues ------------------------------
(***************************************************************************)
(* Strings of \key\value pairs, their iterator and the values in them.     *)
(***************************************************************************)
EXTENDS Cursors

Version(major, minor, patch) == <<major, minor, patch>>

\* MapStr::from_slice: a key or a value holds neither separators nor NUL.
IsMapStr(s) == \A i \in DOMAIN s : s[i] \notin {"\\", Nul}

(***************************************************************************)
(* MapIter. Its bytes are those after the first separator.                 *)
(***************************************************************************)
NewMapIter(src) ==
    IF src = <<>> THEN Read(src, <<>>)
    ELSE IF src[1] # "\\" \/ Nul \in ToSet(src) THEN Fail(<<"InvalidMap">>)
    ELSE Read(Tail(src), <<>>)

\* next() on bytes that are not empty: a pair, or an error that moves nothing.
PairOf(key, text) ==
    LET value == TakeUntil({"\\"}, text)
    IN IF IsOk(value) THEN Read(<<key, value.val>>, Tail(value.rest))
                      ELSE Read(<<key, text>>, <<>>)

NextPair(bytes) ==
    LET key == TakeUntil({"\\"}, bytes)
    IN IF IsOk(key) THEN PairOf(key.val, Tail(key.rest)) ELSE Fail(<<"InvalidMap">>)

\* A key the code knows is a word, one token.
WordOf(key) == IF Len(key) = 1 THEN key[1] ELSE "unknown"

\* One round of the loop of the decoders: setKey takes the next pair, if there is one.
TakePair(setKey(_, _, _), r) ==
    IF r.rest = <<>> THEN r
    ELSE Then(NextPair(r.rest), LAMBDA pair :
         Then(setKey(r.val, WordOf(pair.val[1]), pair.val[2]), LAMBDA set : Read(set.val, pair.rest)))

\* The loop; the first error ends it. A pair takes one byte at least.
FoldPairs(setKey(_, _, _), init, bytes) ==
    LET round[n \in Nat] ==
            IF n = 0 THEN Read(init, bytes)
            ELSE Then(round[n - 1], LAMBDA r : TakePair(setKey, r))
    IN round[Len(bytes)]

(***************************************************************************)
(* Values.                                                                 *)
(***************************************************************************)
Regions == 0..7 \cup {255}

SplitOnce(s) ==
    LET dot == TakeUntil({"."}, s)
    IN IF IsOk(dot) THEN <<dot.val, Tail(dot.rest)>> ELSE <<s, <<"0">>>>

ParseVersion(s) ==
    LET major == SplitOnce(s)
        minor == SplitOnce(major[2])
    IN Then(ParseNumber(255, major[1]), LAMBDA i :
       Then(ParseNumber(255, minor[1]), LAMBDA j :
       Then(ParseNumber(255, minor[2]), LAMBDA k : Read(Version(i.val, j.val, k.val), <<>>))))

ParseBool(s) ==
    IF s \in {<<"0">>, <<"1">>} THEN Read(s = <<"1">>, <<>>) ELSE Fail(InvalidBool)

ParseRegion(s) ==
    Then(ParseNumber(255, s), LAMBDA n : IF n.val \in Regions THEN n ELSE Fail(InvalidNumber))

\* from_str_radix: digits of either case, after any zeros no more than a u32 has.
UpperDigits == [A |-> "a", B |-> "b", C |-> "c", D |-> "d", E |-> "e", F |-> "f"]
LowerDigit(d) == IF d \in DOMAIN UpperDigits THEN UpperDigits[d] ELSE d

ParseHex(s) ==
    LET n == [i \in DOMAIN AfterPlus(s) |-> LowerDigit(AfterPlus(s)[i])]
        zeros == SelectInSeq(n, LAMBDA d : d # "0")
    IN IF /\ n # <<>> /\ ToSet(n) \subseteq ToSet(HexDigits)
          /\ zeros = 0 \/ Len(n) - zeros < 8
       THEN Read(ValueOf(16, n), <<>>) ELSE Fail(InvalidNumber)

ParseType(types, s) == Read(IF Len(s) = 1 THEN TypeOfByte(types, s[1]) ELSE "Unknown", <<>>)

U32Bound == 1000000   \* stands for u32::MAX in the numbers that are text

ParseValue(kind, s) ==
    CASE kind = "text" -> Read(s, <<>>)
      [] kind = "u8" -> ParseNumber(255, s)
      [] kind = "u32" -> ParseNumber(U32Bound, s)
      [] kind = "bool" -> ParseBool(s)
      [] kind = "hex" -> ParseHex(s)
      [] kind = "version" -> ParseVersion(s)
      [] kind = "region" -> ParseRegion(s)
      [] kind = "type" -> ParseType(ServerTypes, s)
      [] kind = "os" -> ParseType(OsTypes, s)

\* PutKeyValue, and Display where a value is printed.
ShowVersion(v) ==
    Digits[10, v[1]] \o <<".">> \o Digits[10, v[2]]
        \o (IF v[3] > 0 THEN <<".">> \o Digits[10, v[3]] ELSE <<>>)

ShowValue(kind, v) ==
    CASE kind = "text" -> v
      [] kind \in {"u8", "u32", "region"} -> Digits[10, v]
      [] kind = "bool" -> IF v THEN <<"1">> ELSE <<"0">>
      [] kind = "hex" -> Digits[16, v]
      [] kind = "version" -> ShowVersion(v)
      [] kind = "type" -> <<ByteOfType(ServerTypes, "?", v)>>
      [] kind = "os" -> <<ByteOfType(OsTypes, "?", v)>>

PutKey(key, bytes) == <<"\\", key, "\\">> \o bytes

(***************************************************************************)
(* str_format_bytes: how a text that may hold any byte is printed.         *)
(***************************************************************************)
ShowByte(b) ==
    CASE b = "\\" -> <<"\\", "\\">>
      [] b = "\n" -> <<"\\", "n">>
      [] b = "\t" -> <<"\\", "t">>
      [] b \in DOMAIN NumberOf ->
            <<"\\", "x", HexDigits[NumberOf[b] \div 16 + 1], HexDigits[(NumberOf[b] % 16) + 1]>>
      [] OTHER -> <<b>>

ShowStr(s) == FlattenSeq([i \in DOMAIN s |-> ShowByte(s[i])])
==============================================================================

----------------------------- MODULE ColoredText -----------------------------
(***************************************************************************)
(* Color codes in names: a caret and a digit.                              *)
(***************************************************************************)
EXTENDS Naturals, Sequences, SequencesExt

CONSTANTS
    Letters, ColorDigits,     \* the characters explored
    MaxText                   \* bound of the length of a text

ASSUME TextAssumption == "^" \notin ColorDigits /\ MaxText \in Nat

VARIABLE text

IsColorCode(s) == Len(s) >= 2 /\ s[1] = "^" /\ s[2] \in ColorDigits

From(i, s) == SubSeq(s, i, Len(s))

\* trim_start_color: the last of the codes in front, and what follows them.
TrimStartColor(s) ==
    LET codes == {n \in 0 .. Len(s) \div 2 : \A i \in 1..n : IsColorCode(From(2 * i - 1, s))}
        n == CHOOSE m \in codes : \A k \in codes : k <= m
    IN [color |-> IF n = 0 THEN <<>> ELSE SubSeq(s, 2 * n - 1, 2 * n), tail |-> From(2 * n + 1, s)]

\* Mutant: a part ends at the next caret, code or not.
ColorPart_AnyCaret(s) ==
    LET t == TrimStartColor(s)
        p == SelectInSeq(t.tail, LAMBDA c : c = "^")
    IN [color |-> t.color, head |-> IF p = 0 THEN t.tail ELSE SubSeq(t.tail, 1, p - 1),
        rest |-> IF p = 0 THEN <<>> ELSE From(p + 1, t.tail)]

\* next() of ColorIter: a color, the text it colors, and what is left.
ColorPart(s) ==
    LET t == TrimStartColor(s)
        starts == {i \in DOMAIN t.tail : IsColorCode(From(i, t.tail))}
        end == CHOOSE i \in starts \cup {Len(t.tail) + 1} :
                   \A j \in starts \cup {Len(t.tail) + 1} : i <= j
    IN [color |-> t.color, head |-> SubSeq(t.tail, 1, end - 1), rest |-> From(end, t.tail)]

TakePart(r) ==
    IF r.rest = <<>> THEN r
    ELSE LET p == ColorPart(r.rest) IN [parts |-> Append(r.parts, p), rest |-> p.rest]

\* A part takes one character at least.
ColorParts(s) ==
    LET round[n \in 0 .. Len(s)] ==
            IF n = 0 THEN [parts |-> <<>>, rest |-> s] ELSE TakePart(round[n - 1])
    IN round[Len(s)].parts

TrimColor(s) ==
    LET t == TrimStartColor(s).tail
        parts == ColorParts(t)
    IN IF "^" \notin ToSet(t) THEN t ELSE FlattenSeq([i \in DOMAIN parts |-> parts[i].head])

-----------------------------------------------------------------------------
TextInit == text = <<>>

\* A name is typed by somebody else: any characters in any order.
TypeCharacter(c) == Len(text) < MaxText /\ text' = Append(text, c)

TextCharacters == {"^"} \cup Letters \cup ColorDigits

TextNext == \E c \in TextCharacters : TypeCharacter(c)

TextSpec == TextInit /\ [][TextNext]_text

-----------------------------------------------------------------------------
\* A code starts at i: a caret in front of a digit.  No two codes overlap.
CodeAt(s, i) == i \in 1 .. Len(s) - 1 /\ s[i] = "^" /\ s[i + 1] \in ColorDigits
InCode(s, i) == CodeAt(s, i) \/ CodeAt(s, i - 1)

LastColor(s, i) ==
    LET codes == {j \in 1 .. i - 1 : CodeAt(s, j)}
        j == CHOOSE j \in codes : \A k \in codes : k <= j
    IN IF codes = {} THEN <<>> ELSE SubSeq(s, j, j + 1)

Plain(s) == FlattenSeq([i \in DOMAIN s |-> IF InCode(s, i) THEN <<>> ELSE <<s[i]>>])

Colored(s) ==
    FlattenSeq([i \in DOMAIN s |->
        IF InCode(s, i) THEN <<>> ELSE << <<s[i], LastColor(s, i)>> >>])

Painted(part) == [i \in DOMAIN part.head |-> <<part.head[i], part.color>>]
PaintedParts(parts) == FlattenSeq([p \in DOMAIN parts |-> Painted(parts[p])])

\* The characters that belong to no code are what is left of a name, in their order,
\* and each is given the color of the last code in front of it.
ColorsRight ==
    /\ TrimColor(text) = Plain(text)
    /\ PaintedParts(ColorParts(text)) = Colored(text)

=============================================================================

---------------------------- MODULE ProtocolProofs ----------------------------
(***************************************************************************)
(* Proofs about the protocol.                                              *)
(***************************************************************************)
EXTENDS BrokerStream, Listing, ColoredText, WellFoundedInduction, SequenceTheorems, FiniteSetTheorems, TLAPS

-----------------------------------------------------------------------------
(* Induction, over a set of numbers                                        *)

LEMMA SmallestOf ==
    ASSUME NEW S \in SUBSET Nat, S # {}
    PROVE  \E x \in S : \A y \in S : x <= y
<1>1. PICK x \in S : \A y \in S : ~ (<<y, x>> \in OpToRel(<, Nat))
    BY WFMin, NatLessThanWellFounded
<1>2. \A y \in S : ~ (y < x)
    BY <1>1 DEF OpToRel
<1> QED
    BY <1>2

LEMMA SetInduction ==
    ASSUME NEW P, 0 \in P, \A n \in Nat : n \in P => n + 1 \in P
    PROVE  \A n \in Nat : n \in P
<1> DEFINE Q == {n \in Nat : n \notin P}
<1>1. SUFFICES ASSUME NEW n \in Q PROVE FALSE
    OBVIOUS
<1>2. PICK m \in Q : \A k \in Q : m <= k
    <2>1. Q \in SUBSET Nat
        OBVIOUS
    <2> HIDE DEF Q
    <2> QED
        BY <1>1, <2>1, SmallestOf
<1>3. m # 0 /\ m \in Nat
    OBVIOUS
<1>4. m - 1 \in Nat /\ m - 1 \notin Q
    BY <1>2, <1>3
<1>5. m - 1 + 1 = m
    BY <1>3
<1> QED
    BY <1>4, <1>5

Regrouped(s, t, u) == (s \o t) \o u = s \o (t \o u)

LEMMA Regroup ==
    ASSUME NEW S, NEW s \in Seq(S), NEW t \in Seq(S), NEW u \in Seq(S)
    PROVE  Regrouped(s, t, u) /\ s \o t \in Seq(S) /\ t \o u \in Seq(S)
<1>1. (s \o t) \o u = s \o (t \o u)
    BY ConcatAssociative
<1>2. s \o t \in Seq(S) /\ t \o u \in Seq(S)
    BY ConcatProperties
<1> QED
    BY <1>1, <1>2, Zenon DEF Regrouped

-----------------------------------------------------------------------------
(* FlattenSeq                                                              *)

Flattens(f, ss, n) == f = [i \in 1..n |-> IF i = 1 THEN ss[i] ELSE f[i - 1] \o ss[i]]

LEMMA FlattensAt ==
    ASSUME NEW f, NEW ss, NEW n, Flattens(f, ss, n), NEW i \in 1..n
    PROVE  f[i] = IF i = 1 THEN ss[i] ELSE f[i - 1] \o ss[i]
<1> DEFINE E(j) == IF j = 1 THEN ss[j] ELSE f[j - 1] \o ss[j]
<1>1. f = [j \in 1..n |-> E(j)]
    BY DEF Flattens
<1> HIDE DEF E
<1>2. f[i] = E(i)
    BY <1>1
<1> QED
    BY <1>2 DEF E

LEMMA FlattensIf ==
    ASSUME NEW f, NEW ss, NEW n, f = [i \in 1..n |-> f[i]],
           \A i \in 1..n : f[i] = IF i = 1 THEN ss[i] ELSE f[i - 1] \o ss[i]
    PROVE  Flattens(f, ss, n)
<1> DEFINE E(j) == IF j = 1 THEN ss[j] ELSE f[j - 1] \o ss[j]
<1>1. \A i \in 1..n : f[i] = E(i)
    OBVIOUS
<1> HIDE DEF E
<1>2. f = [j \in 1..n |-> E(j)]
    BY <1>1
<1> QED
    BY <1>2 DEF E, Flattens

LEMMA FlattensExists ==
    ASSUME NEW ss
    PROVE  \A n \in Nat : \E f : Flattens(f, ss, n)
<1> DEFINE P == {n \in Nat : \E f : Flattens(f, ss, n)}
<1>1. 0 \in P
    <2>1. Flattens([i \in 1..0 |-> <<>>], ss, 0)
        BY DEF Flattens
    <2> QED
        BY <2>1
<1>2. ASSUME NEW n \in Nat, n \in P PROVE n + 1 \in P
    <2>1. PICK f : Flattens(f, ss, n)
        BY <1>2
    <2> DEFINE x == IF n = 0 THEN ss[n + 1] ELSE f[n] \o ss[n + 1]
               g == [i \in 1 .. n + 1 |-> IF i = n + 1 THEN x ELSE f[i]]
    <2>2. x = IF n + 1 = 1 THEN ss[n + 1] ELSE f[n] \o ss[n + 1]
        OBVIOUS
    <2>3. g[n + 1] = x /\ (\A i \in 1..n : g[i] = f[i]) /\ g = [i \in 1 .. n + 1 |-> g[i]]
        <3> HIDE DEF x
        <3> QED
            OBVIOUS
    <2> HIDE DEF g, x
    <2>4. ASSUME NEW i \in 1 .. n + 1
          PROVE  g[i] = IF i = 1 THEN ss[i] ELSE g[i - 1] \o ss[i]
        <3>1. CASE i = n + 1
            <4>1. n # 0 => g[n] = f[n]
                BY <2>3
            <4>2. i - 1 = n
                BY <3>1
            <4> QED
                BY <2>2, <2>3, <3>1, <4>1, <4>2
        <3>2. CASE i # n + 1
            <4>1. i \in 1..n /\ (i # 1 => i - 1 \in 1..n)
                BY <3>2
            <4>2. g[i] = f[i] /\ (i # 1 => g[i - 1] = f[i - 1])
                BY <2>3, <4>1
            <4>3. f[i] = IF i = 1 THEN ss[i] ELSE f[i - 1] \o ss[i]
                BY <2>1, <4>1, FlattensAt
            <4> QED
                BY <4>2, <4>3
        <3> QED
            BY <3>1, <3>2
    <2>5. Flattens(g, ss, n + 1)
        BY <2>3, <2>4, FlattensIf
    <2> QED
        BY <2>5
<1> QED
    <2> HIDE DEF P
    <2>1. \A n \in Nat : n \in P
        BY <1>1, <1>2, SetInduction
    <2> QED
        BY <2>1 DEF P

Agree(f, g, n) == \A i \in 1..n : f[i] = g[i]

LEMMA FlattensUnique ==
    ASSUME NEW ss, NEW tt, NEW n \in Nat, NEW m \in Nat, NEW f, NEW g,
           Flattens(f, ss, n), Flattens(g, tt, m), n <= m, Agree(ss, tt, n)
    PROVE  Agree(f, g, n)
<1> DEFINE P == {k \in Nat : k \in 1..n => f[k] = g[k]}
<1>1. 0 \in P
    OBVIOUS
<1>2. ASSUME NEW k \in Nat, k \in P PROVE k + 1 \in P
    <2>1. CASE k + 1 \notin 1..n
        BY <2>1
    <2>2. CASE k + 1 \in 1..n
        <3> DEFINE i == k + 1
        <3>1. f[i] = IF i = 1 THEN ss[i] ELSE f[i - 1] \o ss[i]
            BY <2>2, FlattensAt
        <3>2. g[i] = IF i = 1 THEN tt[i] ELSE g[i - 1] \o tt[i]
            <4>1. i \in 1..m
                BY <2>2
            <4> QED
                BY <4>1, FlattensAt
        <3>3. i # 1 => f[i - 1] = g[i - 1]
            <4>1. i - 1 = k /\ (i # 1 => k \in 1..n)
                BY <2>2
            <4> QED
                BY <1>2, <4>1
        <3>4. ss[i] = tt[i]
            BY <2>2 DEF Agree
        <3> HIDE DEF i
        <3>5. f[i] = g[i]
            BY <3>1, <3>2, <3>3, <3>4
        <3> QED
            BY <3>5 DEF i
    <2> QED
        BY <2>1, <2>2
<1> QED
    <2> HIDE DEF P
    <2>1. \A k \in Nat : k \in P
        BY <1>1, <1>2, SetInduction
    <2> QED
        BY <2>1 DEF P, Agree

LEMMA FlattenSeqIs ==
    ASSUME NEW S, NEW ss \in Seq(S), ss # <<>>
    PROVE  \E f : Flattens(f, ss, Len(ss)) /\ FlattenSeq(ss) = f[Len(ss)]
<1> DEFINE g == CHOOSE f : Flattens(f, ss, Len(ss))
<1>1. Len(ss) \in Nat /\ Len(ss) # 0
    OBVIOUS
<1>2. FlattenSeq(ss) = g[Len(ss)]
    BY <1>1, Zenon DEF FlattenSeq, Flattens
<1>3. \E f : Flattens(f, ss, Len(ss))
    BY <1>1, FlattensExists
<1>4. Flattens(g, ss, Len(ss))
    BY <1>3, Zenon
<1> QED
    BY <1>2, <1>4

LEMMA FlattenEmpty == FlattenSeq(<<>>) = <<>>
BY DEF FlattenSeq

LEMMA FlattenAppend ==
    ASSUME NEW S, NEW ss \in Seq(Seq(S)), NEW s \in Seq(S)
    PROVE  FlattenSeq(Append(ss, s)) = FlattenSeq(ss) \o s
<1> DEFINE tt == Append(ss, s)
           n == Len(ss)
           m == Len(tt)
<1>1. tt \in Seq(Seq(S)) /\ tt # <<>> /\ m = n + 1 /\ tt[n + 1] = s
        /\ \A i \in 1..n : tt[i] = ss[i]
    BY AppendProperties
<1>2. n \in Nat /\ m \in Nat /\ n <= m /\ m \in 1..m /\ m - 1 = n
    BY <1>1
<1>3. PICK g : Flattens(g, tt, m) /\ FlattenSeq(tt) = g[m]
    <2> HIDE DEF tt
    <2> QED
        BY <1>1, FlattenSeqIs
<1>4. g[m] = IF m = 1 THEN s ELSE g[n] \o s
    <2>1. tt[m] = s
        BY <1>1
    <2> HIDE DEF m, tt
    <2>2. g[m] = IF m = 1 THEN tt[m] ELSE g[m - 1] \o tt[m]
        BY <1>2, <1>3, FlattensAt
    <2> QED
        BY <1>2, <2>1, <2>2
<1>5. CASE ss = <<>>
    <2>1. n = 0
        BY <1>5
    <2>2. g[m] = s
        BY <1>1, <1>4, <2>1
    <2>3. FlattenSeq(ss) \o s = s
        BY <1>5, FlattenEmpty
    <2> QED
        BY <1>3, <2>2, <2>3
<1>6. CASE ss # <<>>
    <2>1. PICK f : Flattens(f, ss, n) /\ FlattenSeq(ss) = f[n]
        BY <1>6, FlattenSeqIs
    <2>2. n \in 1..n
        BY <1>6
    <2>3. f[n] = g[n]
        <3>1. Agree(ss, tt, n)
            BY <1>1 DEF Agree
        <3> HIDE DEF m, tt, n
        <3>2. Agree(f, g, n)
            BY <1>2, <1>3, <2>1, <3>1, FlattensUnique
        <3> QED
            BY <3>2, <2>2 DEF Agree
    <2>4. m # 1
        BY <1>1, <2>2
    <2> QED
        BY <1>3, <1>4, <2>1, <2>3, <2>4
<1> QED
    BY <1>5, <1>6

LEMMA FlattenType ==
    ASSUME NEW S
    PROVE  \A ss \in Seq(Seq(S)) : FlattenSeq(ss) \in Seq(S)
<1> DEFINE P == {n \in Nat : \A ss \in Seq(Seq(S)) : Len(ss) = n => FlattenSeq(ss) \in Seq(S)}
<1>1. 0 \in P
    <2>1. ASSUME NEW ss \in Seq(Seq(S)), Len(ss) = 0 PROVE FlattenSeq(ss) \in Seq(S)
        <3>1. ss = <<>>
            BY <2>1
        <3>2. FlattenSeq(ss) = <<>>
            BY <3>1, FlattenEmpty, Zenon
        <3> QED
            BY <3>2
    <2> QED
        BY <2>1
<1>2. ASSUME NEW n \in Nat, n \in P PROVE n + 1 \in P
    <2>1. ASSUME NEW ss \in Seq(Seq(S)), Len(ss) = n + 1 PROVE FlattenSeq(ss) \in Seq(S)
        <3>1. PICK tt \in Seq(Seq(S)), t \in Seq(S) : ss = Append(tt, t)
            <4>1. ss # <<>>
                BY <2>1
            <4> HIDE DEF P
            <4> QED
                BY <4>1, SequenceEmptyOrAppend
        <3>2. Len(tt) = n
            BY <2>1, <3>1
        <3>3. FlattenSeq(tt) \in Seq(S)
            BY <1>2, <3>2
        <3>4. FlattenSeq(ss) = FlattenSeq(tt) \o t
            BY <3>1, FlattenAppend
        <3> QED
            BY <3>3, <3>4
    <2> QED
        BY <2>1
<1> HIDE DEF P
<1>3. \A n \in Nat : n \in P
    BY <1>1, <1>2, SetInduction
<1>4. ASSUME NEW ss \in Seq(Seq(S)) PROVE FlattenSeq(ss) \in Seq(S)
    <2>1. Len(ss) \in Nat
        OBVIOUS
    <2>2. Len(ss) \in P
        BY <1>3, <2>1
    <2> QED
        BY <2>2 DEF P
<1> QED
    BY <1>4

LEMMA FlattenConcat ==
    ASSUME NEW S, NEW ss \in Seq(Seq(S))
    PROVE  \A tt \in Seq(Seq(S)) : FlattenSeq(ss \o tt) = FlattenSeq(ss) \o FlattenSeq(tt)
<1> DEFINE Good(tt) == FlattenSeq(ss \o tt) = FlattenSeq(ss) \o FlattenSeq(tt)
           P == {n \in Nat : \A tt \in Seq(Seq(S)) : Len(tt) = n => Good(tt)}
<1>0. FlattenSeq(ss) \in Seq(S)
    BY FlattenType
<1>1. 0 \in P
    <2>1. ASSUME NEW tt \in Seq(Seq(S)), Len(tt) = 0 PROVE Good(tt)
        <3>1. tt = <<>>
            BY <2>1
        <3>2. ss \o tt = ss
            BY <3>1
        <3>3. FlattenSeq(ss) \o <<>> = FlattenSeq(ss)
            BY <1>0
        <3> QED
            BY <3>1, <3>2, <3>3, FlattenEmpty
    <2> QED
        BY <2>1
<1>2. ASSUME NEW n \in Nat, n \in P PROVE n + 1 \in P
    <2>1. ASSUME NEW tt \in Seq(Seq(S)), Len(tt) = n + 1 PROVE Good(tt)
        <3>1. PICK uu \in Seq(Seq(S)), u \in Seq(S) : tt = Append(uu, u)
            <4>1. tt # <<>>
                BY <2>1
            <4> HIDE DEF P
            <4> QED
                BY <4>1, SequenceEmptyOrAppend
        <3>2. Len(uu) = n
            BY <2>1, <3>1
        <3>3. FlattenSeq(ss \o uu) = FlattenSeq(ss) \o FlattenSeq(uu)
            BY <1>2, <3>2
        <3>4. ss \o tt = Append(ss \o uu, u) /\ ss \o uu \in Seq(Seq(S))
            <4>1. tt = uu \o <<u>> /\ <<u>> \in Seq(Seq(S))
                BY <3>1, AppendIsConcat
            <4>2. ss \o uu \in Seq(Seq(S)) /\ (ss \o uu) \o <<u>> = ss \o (uu \o <<u>>)
                <5> DEFINE w == <<u>>
                <5>1. w \in Seq(Seq(S))
                    BY <4>1
                <5> HIDE DEF w
                <5>2. Regrouped(ss, uu, w) /\ ss \o uu \in Seq(Seq(S))
                    BY <5>1, Regroup
                <5> QED
                    BY <5>2, Zenon DEF Regrouped, w
            <4>3. Append(ss \o uu, u) = (ss \o uu) \o <<u>>
                BY <4>2, AppendIsConcat
            <4> QED
                BY <4>1, <4>2, <4>3
        <3>5. FlattenSeq(ss \o tt) = FlattenSeq(ss \o uu) \o u
            BY <3>4, FlattenAppend
        <3>6. FlattenSeq(tt) = FlattenSeq(uu) \o u /\ FlattenSeq(uu) \in Seq(S)
            BY <3>1, FlattenAppend, FlattenType
        <3> DEFINE f == FlattenSeq(ss)
                   g == FlattenSeq(uu)
        <3>7. Regrouped(f, g, u)
            <4>1. f \in Seq(S) /\ g \in Seq(S)
                BY <1>0, <3>6
            <4> HIDE DEF f, g
            <4> QED
                BY <4>1, Regroup
        <3>8. (f \o g) \o u = f \o (g \o u)
            BY <3>7, Zenon DEF Regrouped
        <3> QED
            BY <3>3, <3>5, <3>6, <3>8, Zenon
    <2> QED
        BY <2>1
<1> HIDE DEF P
<1>3. \A n \in Nat : n \in P
    BY <1>1, <1>2, SetInduction
<1>4. ASSUME NEW tt \in Seq(Seq(S)) PROVE Good(tt)
    <2>1. Len(tt) \in Nat
        OBVIOUS
    <2>2. Len(tt) \in P
        BY <1>3, <2>1
    <2> QED
        BY <2>2 DEF P
<1> QED
    BY <1>4

LEMMA FlattenCons ==
    ASSUME NEW S, NEW s \in Seq(S), NEW tt \in Seq(Seq(S))
    PROVE  FlattenSeq(<<s>> \o tt) = s \o FlattenSeq(tt)
<1>1. <<s>> = Append(<<>>, s) /\ <<>> \in Seq(Seq(S)) /\ <<s>> \in Seq(Seq(S))
    OBVIOUS
<1>2. FlattenSeq(<<s>>) = FlattenSeq(<<>>) \o s
    BY <1>1, FlattenAppend
<1>3. FlattenSeq(<<s>>) = s
    <2>1. <<>> \o s = s
        BY ConcatEmptySeq
    <2> QED
        BY <1>2, <2>1, FlattenEmpty, Zenon
<1> QED
    BY <1>1, <1>3, FlattenConcat

-----------------------------------------------------------------------------
(* Frames that come in pieces                                              *)

Token == STRING \cup {"S", "B", "R", "K"} \cup Octets
Small(n) == n \in 0..255
Two(n) == n \in Nat /\ n < 65536
LEMMA NumberOfByte ==
    ASSUME NEW n, Small(n)
    PROVE  NumberOf[Byte(n)] = n /\ Byte(n) \in Token
<1>1. Byte(n) \in Octets
    BY DEF Small, Octets
<1>2. NumberOf[Byte(n)] = CHOOSE m \in 0..255 : Byte(m) = Byte(n)
    BY <1>1 DEF NumberOf
<1>3. \A m \in 0..255 : Byte(m) = Byte(n) => m = n
    BY BytesAssumption DEF Small
<1> QED
    BY <1>1, <1>2, <1>3 DEF Token, Small

LEMMA LowHigh ==
    ASSUME NEW n, Two(n)
    PROVE  /\ Small((n \div 1) % 256) /\ Small((n \div 256) % 256)
           /\ ((n \div 1) % 256) + 256 * ((n \div 256) % 256) = n
<1>0. n \in Nat /\ n < 65536
    BY DEF Two
<1>1. n \div 1 = n
    BY <1>0
<1>2. n \div 256 \in Nat /\ n \div 256 < 256
    BY <1>0
<1>3. (n \div 256) % 256 = n \div 256
    BY <1>2
<1>4. (n % 256) + 256 * (n \div 256) = n /\ n % 256 \in Nat /\ n % 256 < 256
    BY <1>0
<1>5. (n \div 1) % 256 = n % 256
    BY <1>1, Zenon
<1>6. \A x \in Nat : x < 256 => Small(x)
    BY DEF Small
<1>7. Small(n % 256) /\ Small(n \div 256)
    BY <1>2, <1>4, <1>6, Zenon
<1> DEFINE a == n % 256
           b == n \div 256
           c == (n \div 1) % 256
           d == (n \div 256) % 256
<1>8. c = a /\ d = b /\ Small(a) /\ Small(b) /\ a + 256 * b = n
    BY <1>3, <1>4, <1>5, <1>7, Zenon
<1> HIDE DEF a, b, c, d
<1>9. Small(c) /\ Small(d) /\ c + 256 * d = n
    BY <1>8, Zenon
<1> QED
    BY <1>9, Zenon DEF c, d

LEMMA TwoBytes ==
    ASSUME NEW n, Two(n)
    PROVE  /\ LittleEndian(2, n) \in Seq(Token) /\ Len(LittleEndian(2, n)) = 2
           /\ LengthOf(LittleEndian(2, n)) = n
<1> DEFINE low == (n \div 1) % 256
           high == (n \div 256) % 256
           E(i) == Byte((n \div Place[i]) % 256)
           bytes == [i \in 1..2 |-> E(i)]
<1>1. LittleEndian(2, n) = bytes
    BY DEF LittleEndian
<1>2. E(1) = Byte(low) /\ E(2) = Byte(high)
    <2>1. Place[1] = 1 /\ Place[2] = 256
        BY DEF Place
    <2> QED BY <2>1, Zenon
<1>3. Small(low) /\ Small(high) /\ n = low + 256 * high
    BY LowHigh
<1> HIDE DEF E, low, high
<1>5. bytes[1] = Byte(low) /\ bytes[2] = Byte(high)
    BY <1>2
<1>6. NumberOf[Byte(low)] = low /\ Byte(low) \in Token
    BY <1>3, NumberOfByte
<1>61. NumberOf[Byte(high)] = high /\ Byte(high) \in Token
    BY <1>3, NumberOfByte
<1>62. \A i \in 1..2 : E(i) \in Token
    BY <1>2, <1>6, <1>61
<1>7. bytes \in Seq(Token) /\ Len(bytes) = 2
    BY <1>62
<1> HIDE DEF bytes
<1> QED
    BY <1>1, <1>3, <1>5, <1>6, <1>61, <1>7 DEF LengthOf

LEMMA FrontAndRest ==
    ASSUME NEW S, NEW s \in Seq(S), NEW t \in Seq(S)
    PROVE  /\ s \o t \in Seq(S) /\ Len(s \o t) = Len(s) + Len(t)
           /\ SubSeq(s \o t, 1, Len(s)) = s /\ After(Len(s), s \o t) = t
           /\ IsPrefix(s, s \o t)
<1>1. s \o t \in Seq(S) /\ Len(s \o t) = Len(s) + Len(t)
    OBVIOUS
<1>2. SubSeq(s \o t, 1, Len(s)) = s /\ SubSeq(s, 1, Len(s)) = s
    OBVIOUS
<1>3. After(Len(s), s \o t) = t
    BY <1>1 DEF After
<1> QED
    BY <1>1, <1>2, <1>3 DEF IsPrefix

LEMMA ReadIs ==
    ASSUME NEW v, NEW r
    PROVE  IsOk(Read(v, r)) /\ Read(v, r).val = v /\ Read(v, r).rest = r /\ Read(v, r).err = NoError
BY DEF IsOk, Read

LEMMA NeedMoreIs ==
    ASSUME NEW n
    PROVE  ~IsOk(Fail(NeedMoreBytes(n))) /\ Fail(NeedMoreBytes(n)).err = NeedMoreBytes(n)
BY DEF IsOk, Fail, NeedMoreBytes, NoError

LEMMA NeedMoreTells ==
    ASSUME NEW m, NEW n, NeedMoreBytes(m) = NeedMoreBytes(n)
    PROVE  m = n
BY DEF NeedMoreBytes

LEMMA HeaderIs == FrameHeader \in Seq(Token) /\ Len(FrameHeader) = 4 /\ FixedSize = 6
<1>1. "S" \in Token /\ "B" \in Token /\ "R" \in Token /\ "K" \in Token
    BY Zenon DEF Token
<1>2. FrameHeader \in Seq(Token) /\ Len(FrameHeader) = 4
    BY <1>1 DEF FrameHeader
<1> QED
    BY <1>2 DEF FixedSize

LEMMA DecodeAfter ==
    ASSUME NEW len \in Seq(Token), Len(len) = 2, NEW p \in Seq(Token)
    PROVE  DecodeFrame(FrameHeader \o len \o p) = GetBytes(LengthOf(len), p)
<1> DEFINE src == FrameHeader \o len \o p
           rest == len \o p
<1>1. src = FrameHeader \o rest /\ rest \in Seq(Token) /\ Len(rest) = 2 + Len(p)
    <2>1. rest \in Seq(Token) /\ Len(rest) = 2 + Len(p)
        BY FrontAndRest
    <2>2. FrameHeader \in Seq(Token)
        BY HeaderIs
    <2> QED
        BY <2>1, <2>2, ConcatAssociative
<1>2. /\ src \in Seq(Token) /\ Len(src) = 4 + Len(rest) 
      /\ After(4, src) = rest /\ IsPrefix(FrameHeader, src)
    <2> HIDE DEF src, rest
    <2>1. FrameHeader \in Seq(Token) /\ Len(FrameHeader) = 4 /\ rest \in Seq(Token)
        BY <1>1, HeaderIs
    <2>2. /\ FrameHeader \o rest \in Seq(Token)
          /\ Len(FrameHeader \o rest) = Len(FrameHeader) + Len(rest)
          /\ After(Len(FrameHeader), FrameHeader \o rest) = rest
          /\ IsPrefix(FrameHeader, FrameHeader \o rest)
        BY <2>1, FrontAndRest
    <2> QED
        BY <1>1, <2>1, <2>2, Zenon
<1>3. SubSeq(rest, 1, 2) = len /\ After(2, rest) = p
    BY FrontAndRest
<1> HIDE DEF src, rest
<1>4. Expect(FrameHeader, src) = Read(<<>>, rest)
    <2>1. ~(Len(src) < Len(FrameHeader))
        BY <1>1, <1>2, HeaderIs
    <2> QED
        BY <1>2, <2>1, HeaderIs, Zenon DEF Expect, StartsWith
<1>5. GetBytes(2, rest) = Read(len, p)
    <2>1. 2 <= Len(rest)
        BY <1>1
    <2> QED
        BY <1>3, <2>1, Zenon DEF GetBytes
<1>6. ~(Len(src) < FixedSize)
    BY <1>1, <1>2, HeaderIs
<1>7. DecodeFrame(src) = Then(Read(<<>>, rest), LAMBDA header :
         Then(GetBytes(2, header.rest), LAMBDA l : GetBytes(LengthOf(l.val), l.rest)))
    BY <1>4, <1>6, Zenon DEF DecodeFrame
<1>8. DecodeFrame(src) = Then(Read(len, p), LAMBDA l : GetBytes(LengthOf(l.val), l.rest))
    <2>1. DecodeFrame(src) =
            Then(GetBytes(2, Read(<<>>, rest).rest), LAMBDA l : GetBytes(LengthOf(l.val), l.rest))
        BY <1>7, ReadIs DEF Then
    <2>2. Read(<<>>, rest).rest = rest
        BY ReadIs
    <2> QED
        BY <1>5, <2>1, <2>2
<1>9. DecodeFrame(src) = GetBytes(LengthOf(len), p)
    <2>1. Read(len, p).val = len /\ Read(len, p).rest = p /\ IsOk(Read(len, p))
        BY ReadIs
    <2> QED
        BY <1>8, <2>1, Zenon DEF Then
<1> QED
    BY <1>9 DEF src

Joins(s, t, whole) == s \o t = whole

LEMMA CutAt ==
    ASSUME NEW S, NEW s \in Seq(S), NEW t \in Seq(S), NEW k \in Nat, k <= Len(t)
    PROVE  SubSeq(s \o t, 1, Len(s) + k) = s \o SubSeq(t, 1, k)
<1> DEFINE l == SubSeq(s \o t, 1, Len(s) + k)
           u == SubSeq(t, 1, k)
           r == s \o u
<1>1. s \o t \in Seq(S) /\ Len(s \o t) = Len(s) + Len(t) /\ Len(s) \in Nat /\ Len(t) \in Nat
    OBVIOUS
<1>2. u \in Seq(S) /\ Len(u) = k /\ \A i \in 1..k : u[i] = t[i]
    BY <1>1, SubSeqProperties
<1>3. r \in Seq(S) /\ Len(r) = Len(s) + k
    <2> HIDE DEF u
    <2> QED
        BY <1>2
<1>4. l \in Seq(S) /\ Len(l) = Len(s) + k /\ \A i \in 1 .. Len(s) + k : l[i] = (s \o t)[i]
    BY <1>1, SubSeqProperties
<1>5. ASSUME NEW i \in 1 .. Len(s) + k PROVE l[i] = r[i]
    <2>1. (s \o t)[i] = IF i <= Len(s) THEN s[i] ELSE t[i - Len(s)]
        BY <1>1
    <2>2. r[i] = IF i <= Len(s) THEN s[i] ELSE u[i - Len(s)]
        <3> HIDE DEF u
        <3> QED
            BY <1>1, <1>2
    <2>3. ~(i <= Len(s)) => u[i - Len(s)] = t[i - Len(s)]
        <3> HIDE DEF u
        <3> QED
            BY <1>1, <1>2
    <2> HIDE DEF u, r, l
    <2> QED
        BY <1>4, <2>1, <2>2, <2>3
<1> HIDE DEF l, u, r
<1>6. l = r
    BY <1>1, <1>3, <1>4, <1>5, SeqEqual
<1> QED
    BY <1>6 DEF l, u, r

\* How a frame decodes of which the first k bytes were read.
LEMMA DecodeOfPart ==
    ASSUME NEW len \in Seq(Token), Len(len) = 2, NEW p \in Seq(Token), LengthOf(len) = Len(p),
           NEW src \in Seq(Token), NEW more \in Seq(Token),
           Joins(src, more, FrameHeader \o len \o p)
    PROVE  /\ more = <<>> => DecodeFrame(src) = Read(p, <<>>)
           /\ more # <<>> => \E m \in 1 .. Len(more) : DecodeFrame(src) = Fail(NeedMoreBytes(m))
<1> DEFINE front == FrameHeader \o len
<1>0. /\ Len(src) \in Nat /\ Len(more) \in Nat /\ Len(p) \in Nat
      /\ front \in Seq(Token) /\ Len(front) = 6 /\ FixedSize = 6
    <2>1. FrameHeader \in Seq(Token) /\ Len(FrameHeader) = 4 /\ FixedSize = 6
        BY HeaderIs
    <2>2. front \in Seq(Token) /\ Len(front) = Len(FrameHeader) + Len(len)
        BY <2>1, FrontAndRest
    <2> QED
        BY <2>1, <2>2
<1>1. /\ Len(src) + Len(more) = 6 + Len(p) /\ src \o more = front \o p
      /\ src = SubSeq(front \o p, 1, Len(src))
    <2>1. Len(src \o more) = Len(src) + Len(more) /\ SubSeq(src \o more, 1, Len(src)) = src
        BY FrontAndRest
    <2>2. Len(front \o p) = 6 + Len(p)
        <3> HIDE DEF front
        <3>1. Len(front \o p) = Len(front) + Len(p)
            BY <1>0, ConcatProperties
        <3> QED
            BY <1>0, <3>1, Zenon
    <2>3. src \o more = front \o p
        BY Zenon DEF Joins
    <2> HIDE DEF front
    <2> QED
        BY <2>1, <2>2, <2>3, Zenon
<1> HIDE DEF front
<1>2. CASE Len(src) < 6
    <2>1. DecodeFrame(src) = Fail(NeedMoreBytes(6 - Len(src)))
        BY <1>0, <1>2 DEF DecodeFrame
    <2>2. 6 - Len(src) \in 1 .. Len(more) /\ more # <<>>
        BY <1>0, <1>1, <1>2
    <2> QED
        BY <2>1, <2>2
<1>3. CASE ~(Len(src) < 6)
    <2> DEFINE k == Len(src) - 6
               q == SubSeq(p, 1, k)
    <2>1. k \in Nat /\ k <= Len(p) /\ Len(src) = 6 + k /\ Len(p) - k = Len(more)
        BY <1>0, <1>1, <1>3
    <2> HIDE DEF k
    <2>2. q \in Seq(Token) /\ Len(q) = k
        BY <1>0, <2>1, SubSeqProperties
    <2>25. src = FrameHeader \o len \o q
        <3>1. SubSeq(front \o p, 1, Len(front) + k) = front \o q
            BY <1>0, <2>1, CutAt
        <3>2. Len(front) + k = Len(src)
            BY <1>0, <2>1
        <3>3. src = front \o q
            BY <1>1, <3>1, <3>2, Zenon
        <3> QED
            BY <3>3, Zenon DEF front
    <2>3. DecodeFrame(src) = GetBytes(Len(p), q)
        <3> HIDE DEF q
        <3> QED
            BY <2>2, <2>25, DecodeAfter
    <2>4. CASE more = <<>>
        <3>1. q = p /\ Len(q) = Len(p)
            BY <1>0, <2>1, <2>2, <2>4
        <3>2. GetBytes(Len(p), p) = Read(p, <<>>)
            <4>1. SubSeq(p, 1, Len(p)) = p /\ After(Len(p), p) = <<>> /\ Len(p) <= Len(p)
                BY <1>0 DEF After
            <4> QED
                BY <4>1, Zenon DEF GetBytes
        <3> QED
            BY <2>3, <2>4, <3>1, <3>2
    <2>5. CASE more # <<>>
        <3>1. Len(more) # 0 /\ Len(p) - Len(q) = Len(more) /\ ~(Len(p) <= Len(q))
            BY <1>0, <2>1, <2>2, <2>5
        <3> HIDE DEF q
        <3>2. DecodeFrame(src) = Fail(NeedMoreBytes(Len(more)))
            BY <2>3, <3>1, Zenon DEF GetBytes
        <3> QED
            BY <1>0, <2>5, <3>1, <3>2
    <2> QED
        BY <2>4, <2>5
<1> QED
    BY <1>2, <1>3

FramesSent == [i \in DOMAIN Payloads |-> FrameOf(Payloads[i])]

LEMMA FrameIs ==
    ASSUME NEW i \in DOMAIN Payloads
    PROVE  /\ Payloads[i] \in Seq(Token) /\ FramesSent[i] = FrameOf(Payloads[i])
           /\ FramesSent[i] \in Seq(Token)
           /\ \E len \in Seq(Token) : /\ Len(len) = 2 /\ LengthOf(len) = Len(Payloads[i])
                                      /\ FramesSent[i] = FrameHeader \o len \o Payloads[i]
<1> DEFINE p == Payloads[i]
           len == LittleEndian(2, Len(p))
<1>1. p \in Seq(STRING) /\ IsOk(EncodeFrame(p, FrameRoom)) /\ FrameRoom \in Nat
    BY StreamAssumption
<1>2. p \in Seq(Token)
    <2>1. STRING \subseteq Token
        BY Zenon DEF Token
    <2> HIDE DEF p
    <2> QED
        BY <1>1, <2>1, SeqMonotonic
<1>3. ~IsOk(Fail(BufferOverflow)) /\ ~IsOk(Fail(InvalidNumber))
    BY DEF IsOk, Fail, BufferOverflow, InvalidNumber, NoError
<1> HIDE DEF p
<1>4. EncodeFrame(p, FrameRoom) = Read(FrameHeader \o len \o p, <<>>) /\ ~(Len(p) > 65535)
    <2> DEFINE whole == Read(FrameHeader \o len \o p, <<>>)
               tooLong == FixedSize + Len(p) > FrameRoom
               tooMany == Len(p) > 65535
    <2>1. EncodeFrame(p, FrameRoom) =
            IF tooLong THEN Fail(BufferOverflow) ELSE IF tooMany THEN Fail(InvalidNumber) ELSE whole
        BY DEF EncodeFrame
    <2> HIDE DEF whole, tooLong, tooMany
    <2>2. EncodeFrame(p, FrameRoom) = whole /\ ~tooMany
        BY <1>1, <1>3, <2>1
    <2> QED
        BY <2>2 DEF whole, tooMany
<1>5. Two(Len(p))
    <2>1. Len(p) \in Nat
        BY <1>2
    <2>2. ~(Len(p) > 65535)
        BY <1>4
    <2> QED
        BY <2>1, <2>2 DEF Two
<1>6. len \in Seq(Token) /\ Len(len) = 2 /\ LengthOf(len) = Len(p)
    BY <1>5, TwoBytes
<1>7. FrameOf(p) = FrameHeader \o len \o p
    <2> DEFINE whole == FrameHeader \o len \o p
    <2>1. EncodeFrame(p, FrameRoom) = Read(whole, <<>>)
        BY <1>4
    <2> HIDE DEF whole
    <2>2. FrameOf(p) = whole
        BY <2>1, ReadIs DEF FrameOf
    <2> QED
        BY <2>2 DEF whole
<1>8. FrameHeader \o len \o p \in Seq(Token)
    <2> HIDE DEF len
    <2>1. FrameHeader \in Seq(Token)
        BY HeaderIs
    <2> QED
        BY <1>2, <1>6, <2>1
<1>9. FramesSent[i] = FrameOf(p)
    BY Zenon DEF FramesSent, p
<1> QED
    BY <1>2, <1>6, <1>7, <1>8, <1>9, Zenon DEF p

LEMMA FramesSentType ==
    FramesSent \in Seq(Seq(Token)) /\ Len(FramesSent) = Len(Payloads) /\ Len(Payloads) \in Nat
      /\ DOMAIN Payloads = 1 .. Len(Payloads)
<1>1. Len(Payloads) \in Nat /\ DOMAIN Payloads = 1 .. Len(Payloads)
    BY StreamAssumption
<1>2. FramesSent = [i \in 1 .. Len(Payloads) |-> FramesSent[i]]
    BY <1>1, Zenon DEF FramesSent
<1>3. \A i \in 1 .. Len(Payloads) : FramesSent[i] \in Seq(Token)
    BY <1>1, FrameIs
<1> QED
    BY <1>1, <1>2, <1>3

\* The bytes of the frames after the first k.
Later(k) == FlattenSeq(SubSeq(FramesSent, k + 1, Len(Payloads)))

LEMMA LaterIs ==
    ASSUME NEW k \in 0 .. Len(Payloads)
    PROVE  /\ Later(k) \in Seq(Token) /\ (k = Len(Payloads) => Later(k) = <<>>)
           /\ (k < Len(Payloads) => Joins(FramesSent[k + 1], Later(k + 1), Later(k)))
<1> DEFINE n == Len(Payloads)
           F == FramesSent
           here == SubSeq(F, k + 1, n)
           next == SubSeq(F, (k + 1) + 1, n)
<1>1. F \in Seq(Seq(Token)) /\ Len(F) = n /\ n \in Nat /\ k \in Nat
    BY FramesSentType
<1>2. here \in Seq(Seq(Token)) /\ next \in Seq(Seq(Token))
    BY <1>1
<1>3. Later(k) = FlattenSeq(here) /\ Later(k + 1) = FlattenSeq(next)
    BY Zenon DEF Later
<1>4. Later(k) \in Seq(Token)
    <2> HIDE DEF here, next
    <2> QED
        BY <1>2, <1>3, FlattenType
<1>5. CASE k = n
    <2>1. here = <<>>
        BY <1>1, <1>5
    <2>2. Later(k) = <<>>
        BY <1>3, <2>1, FlattenEmpty, Zenon
    <2> QED
        BY <1>1, <1>4, <1>5, <2>2
<1>6. CASE k < n
    <2>1. F[k + 1] \in Seq(Token)
        BY <1>1, <1>6
    <2>2. here = <<F[k + 1]>> \o next
        BY <1>1, <1>6
    <2>3. FlattenSeq(<<F[k + 1]>> \o next) = F[k + 1] \o FlattenSeq(next)
        <3> HIDE DEF next, F
        <3> QED
            BY <1>2, <2>1, FlattenCons
    <2>4. F[k + 1] \o Later(k + 1) = Later(k)
        BY <1>3, <2>2, <2>3, Zenon
    <2>5. Joins(F[k + 1], Later(k + 1), Later(k))
        BY <2>4, Zenon DEF Joins
    <2>6. k # n
        BY <1>1, <1>6
    <2> QED
        BY <1>4, <2>5, <2>6, Zenon
<1> QED
    BY <1>1, <1>5, <1>6

\* What the reader still has to read: the rest of the current frame, and the later ones.
Pending(k, held, unread) ==
    IF k = Len(Payloads) THEN held = <<>> /\ unread = <<>>
    ELSE \E more \in Seq(Token) : /\ Joins(held, more, FramesSent[k + 1])
                                 /\ Joins(more, Later(k + 1), unread)

StreamInv ==
    /\ frames \in Seq(Seq(Token)) /\ Len(frames) <= Len(Payloads)
    /\ Agree(frames, Payloads, Len(frames))
    /\ buffer \in Seq(Token)
    /\ Pending(Len(frames), buffer, ahead)

LEMMA PendingNext ==
    ASSUME NEW k \in 0 .. Len(Payloads)
    PROVE  Pending(k, <<>>, Later(k))
<1>0. Len(Payloads) \in Nat
    BY FramesSentType
<1>1. DOMAIN Payloads = 1 .. Len(Payloads)
    BY FramesSentType
<1>2. CASE k = Len(Payloads)
    BY <1>2, LaterIs, Zenon DEF Pending
<1>3. CASE k # Len(Payloads)
    <2>1. k < Len(Payloads) /\ k + 1 \in DOMAIN Payloads
        <3>1. k < Len(Payloads) /\ k + 1 \in 1 .. Len(Payloads)
            BY <1>0, <1>3
        <3> QED
            BY <1>1, <3>1, Zenon
    <2>2. FramesSent[k + 1] \in Seq(Token)
        BY <2>1, FrameIs
    <2>3. Joins(<<>>, FramesSent[k + 1], FramesSent[k + 1])
        BY <2>2 DEF Joins
    <2>4. Joins(FramesSent[k + 1], Later(k + 1), Later(k))
        BY <2>1, LaterIs
    <2> QED
        BY <1>3, <2>2, <2>3, <2>4, Zenon DEF Pending
<1> QED
    BY <1>2, <1>3

LEMMA StreamStarts == StreamInit => StreamInv
<1> SUFFICES ASSUME StreamInit PROVE StreamInv
    OBVIOUS
<1>1. frames = <<>> /\ buffer = <<>> /\ ahead = FlattenSeq(FramesSent)
    BY Zenon DEF StreamInit, FramesSent
<1>2. Len(frames) = 0 /\ frames \in Seq(Seq(Token)) /\ buffer \in Seq(Token)
    BY <1>1
<1>3. Len(Payloads) \in Nat /\ 0 \in 0 .. Len(Payloads)
    BY FramesSentType
<1>4. ahead = Later(0)
    <2>1. SubSeq(FramesSent, 0 + 1, Len(Payloads)) = FramesSent
        BY FramesSentType
    <2> QED
        BY <1>1, <2>1, Zenon DEF Later
<1>5. Pending(0, <<>>, Later(0))
    BY <1>3, PendingNext
<1>6. Agree(frames, Payloads, 0)
    BY DEF Agree
<1> QED
    BY <1>1, <1>2, <1>3, <1>4, <1>5, <1>6 DEF StreamInv

LEMMA NothingPending ==
    ASSUME StreamInv, Len(frames) = Len(Payloads)
    PROVE  buffer = <<>> /\ ahead = <<>> /\ ~IsOk(DecodeFrame(buffer))
<1>1. buffer = <<>> /\ ahead = <<>>
    BY Zenon DEF StreamInv, Pending
<1>2. Len(buffer) = 0 /\ FixedSize = 6
    BY <1>1, HeaderIs
<1>3. DecodeFrame(buffer) = Fail(NeedMoreBytes(FixedSize - Len(buffer)))
    BY <1>2 DEF DecodeFrame
<1> QED
    BY <1>1, <1>3, NeedMoreIs

LEMMA SomePending ==
    ASSUME StreamInv, Len(frames) # Len(Payloads)
    PROVE  /\ Len(frames) \in Nat /\ Len(frames) < Len(Payloads)
           /\ \E more \in Seq(Token) :
                 /\ Joins(buffer, more, FramesSent[Len(frames) + 1])
                 /\ Joins(more, Later(Len(frames) + 1), ahead)
                 /\ more = <<>> => DecodeFrame(buffer) = Read(Payloads[Len(frames) + 1], <<>>)
                 /\ more # <<>> => \E m \in 1 .. Len(more) : DecodeFrame(buffer) = Fail(NeedMoreBytes(m))
<1> DEFINE i == Len(frames) + 1
<1>1. /\ Len(frames) \in Nat /\ Len(frames) <= Len(Payloads) /\ buffer \in Seq(Token)
      /\ Pending(Len(frames), buffer, ahead)
    BY DEF StreamInv
<1>2. Len(Payloads) \in Nat /\ DOMAIN Payloads = 1 .. Len(Payloads)
    BY FramesSentType
<1>3. Len(frames) < Len(Payloads) /\ i \in DOMAIN Payloads
    BY <1>1, <1>2
<1>4. PICK more \in Seq(Token) : Joins(buffer, more, FramesSent[i]) /\ Joins(more, Later(i), ahead)
    BY <1>1, Zenon DEF Pending
<1> HIDE DEF i
<1>5. PICK len \in Seq(Token) : /\ Len(len) = 2 /\ LengthOf(len) = Len(Payloads[i])
                               /\ FramesSent[i] = FrameHeader \o len \o Payloads[i]
    BY <1>3, FrameIs
<1>6. Payloads[i] \in Seq(Token)
    BY <1>3, FrameIs
<1>7. Joins(buffer, more, FrameHeader \o len \o Payloads[i])
    BY <1>4, <1>5, Zenon
<1>8. /\ more = <<>> => DecodeFrame(buffer) = Read(Payloads[i], <<>>)
      /\ more # <<>> => \E m \in 1 .. Len(more) : DecodeFrame(buffer) = Fail(NeedMoreBytes(m))
    <2>1. LengthOf(len) = Len(Payloads[i]) /\ Len(len) = 2
        BY <1>5, Zenon
    <2> DEFINE p == Payloads[i]
    <2>2. p \in Seq(Token) /\ LengthOf(len) = Len(p) /\ Joins(buffer, more, FrameHeader \o len \o p)
        BY <1>6, <1>7, <2>1, Zenon
    <2> HIDE DEF p
    <2>3. /\ more = <<>> => DecodeFrame(buffer) = Read(p, <<>>)
          /\ more # <<>> => \E m \in 1 .. Len(more) : DecodeFrame(buffer) = Fail(NeedMoreBytes(m))
        BY <1>1, <2>1, <2>2, DecodeOfPart
    <2> QED
        BY <2>3 DEF p
<1> QED
    BY <1>1, <1>3, <1>4, <1>8, Zenon DEF i

LEMMA JoinsEmpty ==
    ASSUME NEW S, NEW s, NEW t \in Seq(S), NEW whole, s = <<>>, Joins(s, t, whole)
    PROVE  whole = t
BY DEF Joins

LEMMA DeliverKeeps == StreamInv /\ Deliver => StreamInv'
<1> SUFFICES ASSUME StreamInv, Deliver PROVE StreamInv'
    OBVIOUS
<1> DEFINE k == Len(frames)
<1>1. k # Len(Payloads)
    BY NothingPending DEF Deliver
<1>2. PICK more \in Seq(Token) :
        /\ Joins(more, Later(k + 1), ahead)
        /\ more = <<>> => DecodeFrame(buffer) = Read(Payloads[k + 1], <<>>)
        /\ more # <<>> => \E m \in 1 .. Len(more) : DecodeFrame(buffer) = Fail(NeedMoreBytes(m))
    BY <1>1, SomePending
<1>3. more = <<>>
    BY <1>2, NeedMoreIs DEF Deliver
<1>4. k \in Nat /\ k < Len(Payloads) /\ Len(Payloads) \in Nat /\ DOMAIN Payloads = 1 .. Len(Payloads)
    BY <1>1, SomePending, FramesSentType
<1>5. k + 1 \in 0 .. Len(Payloads) /\ k + 1 \in 1 .. Len(Payloads)
    BY <1>4
<1>6. frames' = Append(frames, Payloads[k + 1]) /\ buffer' = <<>> /\ ahead' = ahead
    <2>1. DecodeFrame(buffer).val = Payloads[k + 1] /\ DecodeFrame(buffer).rest = <<>>
        BY <1>2, <1>3, ReadIs
    <2> QED
        BY <2>1, Zenon DEF Deliver
<1>7. ahead = Later(k + 1)
    <2>1. Later(k + 1) \in Seq(Token)
        BY <1>5, LaterIs
    <2> QED
        BY <1>2, <1>3, <2>1, JoinsEmpty
<1>8. frames \in Seq(Seq(Token)) /\ Agree(frames, Payloads, k)
    BY DEF StreamInv
<1>9. Payloads[k + 1] \in Seq(Token)
    <2>1. k + 1 \in DOMAIN Payloads
        BY <1>4, <1>5, Zenon
    <2> QED
        BY <2>1, FrameIs
<1>10. /\ frames' \in Seq(Seq(Token)) /\ Len(frames') = k + 1
       /\ frames'[k + 1] = Payloads[k + 1] /\ \A i \in 1..k : frames'[i] = frames[i]
    <2> DEFINE p == Payloads[k + 1]
    <2>1. p \in Seq(Token)
        BY <1>9
    <2> HIDE DEF p
    <2>2. /\ Append(frames, p) \in Seq(Seq(Token)) /\ Len(Append(frames, p)) = k + 1
          /\ Append(frames, p)[k + 1] = p /\ \A i \in 1..k : Append(frames, p)[i] = frames[i]
        BY <1>8, <2>1, AppendProperties
    <2>3. frames' = Append(frames, p)
        BY <1>6 DEF p
    <2> QED
        BY <2>2, <2>3, Zenon DEF p
<1>11. Agree(frames', Payloads, k + 1)
    <2>1. ASSUME NEW i \in 1 .. k + 1 PROVE frames'[i] = Payloads[i]
        <3>1. CASE i = k + 1
            BY <1>10, <3>1, Zenon
        <3>2. CASE i # k + 1
            <4>1. i \in 1..k
                BY <1>4, <3>2
            <4> QED
                BY <1>8, <1>10, <4>1, Zenon DEF Agree
        <3> QED
            BY <3>1, <3>2
    <2> QED
        BY <2>1, Zenon DEF Agree
<1>12. Pending(k + 1, <<>>, Later(k + 1))
    BY <1>5, PendingNext
<1>13. k + 1 <= Len(Payloads) /\ <<>> \in Seq(Token)
    BY <1>5
<1> HIDE DEF k
<1> QED
    BY <1>6, <1>7, <1>10, <1>11, <1>12, <1>13, Zenon DEF StreamInv

LEMMA FrontAndEnd ==
    ASSUME NEW S, NEW s \in Seq(S), NEW n \in Nat, n <= Len(s)
    PROVE  SubSeq(s, 1, n) \o After(n, s) = s
<1> DEFINE a == SubSeq(s, 1, n)
           b == After(n, s)
           c == a \o b
<1>1. a \in Seq(S) /\ Len(a) = n /\ \A i \in 1..n : a[i] = s[i]
    BY SubSeqProperties
<1>2. b \in Seq(S) /\ Len(b) = Len(s) - n /\ \A i \in 1 .. Len(s) - n : b[i] = s[n + i]
    BY SubSeqProperties DEF After
<1> HIDE DEF a, b
<1>0. /\ c \in Seq(S) /\ Len(c) = Len(a) + Len(b)
      /\ \A i \in 1 .. Len(a) + Len(b) : c[i] = IF i <= Len(a) THEN a[i] ELSE b[i - Len(a)]
    BY <1>1, <1>2, ConcatProperties
<1> HIDE DEF c
<1>3. c \in Seq(S) /\ Len(c) = Len(s)
    BY <1>0, <1>1, <1>2
<1>4. ASSUME NEW i \in 1 .. Len(s) PROVE c[i] = s[i]
    <2>1. c[i] = IF i <= n THEN a[i] ELSE b[i - n]
        BY <1>0, <1>1, <1>2
    <2>2. ~(i <= n) => b[i - n] = s[i]
        <3>1. ~(i <= n) => i - n \in 1 .. Len(s) - n /\ n + (i - n) = i
            OBVIOUS
        <3> QED
            BY <1>2, <3>1
    <2> QED
        BY <1>1, <2>1, <2>2
<1>5. c = s
    BY <1>3, <1>4, SeqEqual
<1> QED
    BY <1>5 DEF a, b, c

LEMMA ReadPart ==
    ASSUME NEW held \in Seq(Token), NEW more \in Seq(Token), NEW later \in Seq(Token),
           NEW n \in Nat, n <= Len(more), NEW frame, NEW unread,
           Joins(held, more, frame), Joins(more, later, unread)
    PROVE  /\ held \o SubSeq(unread, 1, n) \in Seq(Token) /\ After(n, more) \in Seq(Token)
           /\ Joins(held \o SubSeq(unread, 1, n), After(n, more), frame)
           /\ Joins(After(n, more), later, After(n, unread))
<1> DEFINE s == SubSeq(more, 1, n)
           t == After(n, more)
<1>1. s \in Seq(Token) /\ Len(s) = n /\ t \in Seq(Token)
    BY SubSeqProperties DEF After
<1>2. s \o t = more
    BY FrontAndEnd
<1> HIDE DEF s, t
<1>3. unread = s \o (t \o later) /\ t \o later \in Seq(Token)
    <2>1. Regrouped(s, t, later) /\ t \o later \in Seq(Token)
        BY <1>1, Regroup
    <2>2. (s \o t) \o later = s \o (t \o later)
        BY <2>1, Zenon DEF Regrouped
    <2>3. unread = more \o later
        BY Zenon DEF Joins
    <2> QED
        BY <1>2, <2>1, <2>2, <2>3, Zenon
<1>4. SubSeq(unread, 1, n) = s /\ After(n, unread) = t \o later
    <2> DEFINE u == t \o later
    <2>1. u \in Seq(Token) /\ unread = s \o u
        BY <1>3
    <2> HIDE DEF u
    <2>2. SubSeq(s \o u, 1, Len(s)) = s /\ After(Len(s), s \o u) = u
        BY <1>1, <2>1, FrontAndRest
    <2>3. SubSeq(unread, 1, n) = s /\ After(n, unread) = u
        BY <1>1, <2>1, <2>2, Zenon
    <2> QED
        BY <2>3, Zenon DEF u
<1>5. (held \o s) \o t = frame /\ held \o s \in Seq(Token)
    <2>1. Regrouped(held, s, t) /\ held \o s \in Seq(Token)
        BY <1>1, Regroup
    <2>2. (held \o s) \o t = held \o (s \o t)
        BY <2>1, Zenon DEF Regrouped
    <2>3. frame = held \o more
        BY Zenon DEF Joins
    <2> QED
        BY <1>2, <2>1, <2>2, <2>3, Zenon
<1>6. Joins(held \o s, t, frame) /\ Joins(t, later, After(n, unread))
    BY <1>4, <1>5, Zenon DEF Joins
<1> QED
    BY <1>1, <1>4, <1>5, <1>6, Zenon DEF t

LEMMA ReadMoreKeeps ==
    ASSUME NEW n \in 1 .. FrameRoom
    PROVE  StreamInv /\ ReadMore(n) => StreamInv'
<1> SUFFICES ASSUME StreamInv, ReadMore(n) PROVE StreamInv'
    OBVIOUS
<1> DEFINE k == Len(frames)
<1>0. n \in Nat /\ n >= 1 /\ FrameRoom \in Nat
    BY StreamAssumption
<1>1. k # Len(Payloads)
    <2>1. ASSUME k = Len(Payloads) PROVE FALSE
        <3>1. ahead = <<>>
            BY <2>1, NothingPending
        <3>2. Len(ahead) = 0
            BY <3>1
        <3> QED
            BY <1>0, <3>2 DEF ReadMore
    <2> QED
        BY <2>1
<1>2. PICK more \in Seq(Token) :
        /\ Joins(buffer, more, FramesSent[k + 1])
        /\ Joins(more, Later(k + 1), ahead)
        /\ more = <<>> => DecodeFrame(buffer) = Read(Payloads[k + 1], <<>>)
        /\ more # <<>> => \E m \in 1 .. Len(more) : DecodeFrame(buffer) = Fail(NeedMoreBytes(m))
    BY <1>1, SomePending
<1>3. PICK m \in n .. FrameRoom : DecodeFrame(buffer).err = NeedMoreBytes(m)
    BY DEF ReadMore
<1>4. n <= Len(more)
    <2>1. more # <<>>
        <3>1. ASSUME more = <<>> PROVE FALSE
            <4>1. DecodeFrame(buffer).err = NoError
                BY <1>2, <3>1, ReadIs
            <4>2. NeedMoreBytes(m) # NoError
                BY DEF NeedMoreBytes, NoError
            <4> QED
                BY <1>3, <4>1, <4>2
        <3> QED
            BY <3>1
    <2>2. PICK l \in 1 .. Len(more) : DecodeFrame(buffer) = Fail(NeedMoreBytes(l))
        BY <1>2, <2>1
    <2>3. NeedMoreBytes(l) = NeedMoreBytes(m)
        BY <1>3, <2>2, NeedMoreIs, Zenon
    <2>4. l = m
        BY <2>3, NeedMoreTells
    <2> QED
        BY <1>0, <1>3, <2>2, <2>4
<1>5. k \in Nat /\ k + 1 \in 0 .. Len(Payloads)
    BY <1>1, SomePending, FramesSentType
<1>6. Later(k + 1) \in Seq(Token)
    BY <1>5, LaterIs
<1>7. buffer \in Seq(Token)
    BY DEF StreamInv
<1>8. buffer' = buffer \o SubSeq(ahead, 1, n) /\ ahead' = After(n, ahead) /\ frames' = frames
    BY DEF ReadMore
<1>9. /\ buffer' \in Seq(Token) /\ After(n, more) \in Seq(Token)
      /\ Joins(buffer', After(n, more), FramesSent[k + 1])
      /\ Joins(After(n, more), Later(k + 1), ahead')
    <2> DEFINE later == Later(k + 1)
               frame == FramesSent[k + 1]
    <2>1. later \in Seq(Token) /\ Joins(buffer, more, frame) /\ Joins(more, later, ahead)
        BY <1>2, <1>6
    <2> HIDE DEF later, frame
    <2>2. /\ buffer \o SubSeq(ahead, 1, n) \in Seq(Token) /\ After(n, more) \in Seq(Token)
          /\ Joins(buffer \o SubSeq(ahead, 1, n), After(n, more), frame)
          /\ Joins(After(n, more), later, After(n, ahead))
        BY <1>0, <1>4, <1>7, <2>1, ReadPart
    <2> QED
        BY <1>8, <2>2, Zenon DEF later, frame
<1>10. Pending(k, buffer', ahead')
    BY <1>1, <1>9, Zenon DEF Pending
<1> QED
    BY <1>8, <1>9, <1>10, Zenon DEF StreamInv

LEMMA StreamApart == StreamInv => FramesKeptApart
<1> SUFFICES ASSUME StreamInv PROVE FramesKeptApart
    OBVIOUS
<1> DEFINE k == Len(frames)
<1>1. /\ frames \in Seq(Seq(Token)) /\ k \in Nat /\ k <= Len(Payloads) /\ buffer \in Seq(Token)
      /\ Agree(frames, Payloads, k)
    BY DEF StreamInv
<1>2. Payloads \in Seq(Seq(STRING)) /\ Len(Payloads) \in Nat
    BY StreamAssumption
<1>3. IsPrefix(frames, Payloads)
    <2>1. SubSeq(frames, 1, k) = [i \in 1..k |-> frames[i]]
        BY <1>1
    <2>2. SubSeq(Payloads, 1, k) = [i \in 1..k |-> Payloads[i]]
        BY <1>1, <1>2
    <2>3. [i \in 1..k |-> frames[i]] = [i \in 1..k |-> Payloads[i]]
        BY <1>1, Zenon DEF Agree
    <2> QED
        BY <1>1, <2>1, <2>2, <2>3, Zenon DEF IsPrefix
<1>4. CASE k = Len(Payloads)
    <2>1. buffer = <<>>
        BY <1>4, NothingPending
    <2> QED
        BY <1>3, <1>4, <2>1, Zenon DEF FramesKeptApart
<1>5. CASE k # Len(Payloads)
    <2>1. PICK more \in Seq(Token) : Joins(buffer, more, FramesSent[k + 1])
        BY <1>5, SomePending
    <2>2. FramesSent[k + 1] = FrameOf(Payloads[k + 1])
        <3>1. k + 1 \in 1 .. Len(Payloads)
            BY <1>1, <1>2, <1>5
        <3>2. k + 1 \in DOMAIN Payloads
            BY <3>1, FramesSentType, Zenon
        <3> QED
            BY <3>2, FrameIs
    <2>3. IsPrefix(buffer, buffer \o more)
        BY <1>1, FrontAndRest
    <2>4. IsPrefix(buffer, FrameOf(Payloads[k + 1]))
        BY <2>1, <2>2, <2>3, Zenon DEF Joins
    <2> QED
        BY <1>3, <1>5, <2>4, Zenon DEF FramesKeptApart
<1> QED
    BY <1>4, <1>5

\* Whatever the payloads, however their frames are cut into reads: the frames come out
\* as they went in, and no byte of the next frame is read before the current one is done
\* (net/broker.rs, Frame::decode and what it says is missing).
THEOREM FramesAreKeptApart == StreamSpec => []FramesKeptApart
<1>1. StreamInit => StreamInv
    BY StreamStarts
<1>2. StreamInv /\ [StreamNext]_streamVars => StreamInv'
    <2> SUFFICES ASSUME StreamInv, [StreamNext]_streamVars PROVE StreamInv'
        OBVIOUS
    <2>1. CASE Deliver
        BY <2>1, DeliverKeeps
    <2>2. ASSUME NEW n \in 1 .. FrameRoom, ReadMore(n) PROVE StreamInv'
        BY <2>2, ReadMoreKeeps
    <2>3. CASE UNCHANGED streamVars
        BY <2>3, Zenon DEF streamVars, StreamInv
    <2> QED
        BY <2>1, <2>2, <2>3 DEF StreamNext
<1>3. StreamInv => FramesKeptApart
    BY StreamApart
<1> QED
    BY <1>1, <1>2, <1>3, PTL DEF StreamSpec

-----------------------------------------------------------------------------
(* The addresses of a list, and its header                                 *)

-----------------------------------------------------------------------------
(* Lists of addresses                                                      *)

LEMMA Rows ==
    ASSUME NEW w \in {6, 18}, NEW n \in Nat
    PROVE  /\ n * w \in Nat /\ (n + 1) * w = n * w + w /\ (n * w) \div w = n /\ w \in Nat /\ w >= 6
           /\ \A i \in 1..n : /\ (i - 1) * w \in Nat /\ i * w \in Nat /\ i * w = (i - 1) * w + w
                              /\ i * w <= n * w
<1>1. CASE w = 6
    BY <1>1
<1>2. CASE w = 18
    BY <1>2
<1> QED
    BY <1>1, <1>2

LEMMA SubOfFront ==
    ASSUME NEW S, NEW s \in Seq(S), NEW t \in Seq(S), NEW a \in Nat, NEW b \in Nat, 1 <= a, b <= Len(s)
    PROVE  SubSeq(s \o t, a, b) = SubSeq(s, a, b)
<1>1. s \o t \in Seq(S) /\ Len(s \o t) = Len(s) + Len(t) /\ Len(s) \in Nat /\ Len(t) \in Nat
    OBVIOUS
<1>2. \A i \in 1 .. Len(s) : (s \o t)[i] = s[i]
    OBVIOUS
<1> DEFINE st == s \o t
<1>3. st \in Seq(S) /\ Len(st) = Len(s) + Len(t) /\ \A i \in 1 .. Len(s) : st[i] = s[i]
    BY <1>1, <1>2
<1> HIDE DEF st
<1>4. SubSeq(st, a, b) = SubSeq(s, a, b)
    BY <1>1, <1>3
<1> QED
    BY <1>4 DEF st

LEMMA SubOfEnd ==
    ASSUME NEW S, NEW s \in Seq(S), NEW t \in Seq(S), NEW n \in Nat, NEW m \in Nat,
           n = Len(s), m = n + Len(t)
    PROVE  SubSeq(s \o t, n + 1, m) = t
BY DEF After

\* The addresses.
Wide(S, w) == {a \in Seq(S) : Len(a) = w}

LEMMA Chunks ==
    ASSUME NEW S, NEW w \in {6, 18}
    PROVE  \A ss \in Seq(Wide(S, w)) : /\ FlattenSeq(ss) \in Seq(S) /\ Len(FlattenSeq(ss)) = Len(ss) * w
                              /\ \A i \in 1 .. Len(ss) :
                                    SubSeq(FlattenSeq(ss), (i - 1) * w + 1, i * w) = ss[i]
<1> DEFINE Good(ss) == /\ FlattenSeq(ss) \in Seq(S) /\ Len(FlattenSeq(ss)) = Len(ss) * w
                       /\ \A i \in 1 .. Len(ss) :
                             SubSeq(FlattenSeq(ss), (i - 1) * w + 1, i * w) = ss[i]
           P == {n \in Nat : \A ss \in Seq(Wide(S, w)) : Len(ss) = n => Good(ss)}
<1>1. 0 \in P
    <2>1. ASSUME NEW ss \in Seq(Wide(S, w)), Len(ss) = 0 PROVE Good(ss)
        <3>1. ss = <<>>
            BY <2>1
        <3>2. FlattenSeq(ss) = <<>>
            BY <3>1, FlattenEmpty, Zenon
        <3>3. Len(FlattenSeq(ss)) = 0 /\ FlattenSeq(ss) \in Seq(S) /\ 0 * w = 0
            BY <3>2
        <3> QED
            BY <2>1, <3>3
    <2> QED
        BY <2>1
<1>2. ASSUME NEW n \in Nat, n \in P PROVE n + 1 \in P
    <2>1. ASSUME NEW ss \in Seq(Wide(S, w)), Len(ss) = n + 1 PROVE Good(ss)
        <3>1. PICK tt \in Seq(Wide(S, w)), a \in Wide(S, w) : ss = Append(tt, a)
            <4>1. ss # <<>>
                BY <2>1
            <4> HIDE DEF P, Good
            <4> QED
                BY <4>1, SequenceEmptyOrAppend
        <3>2. Len(tt) = n /\ a \in Seq(S) /\ Len(a) = w
            BY <2>1, <3>1 DEF Wide
        <3>21. ss[n + 1] = a /\ \A i \in 1..n : ss[i] = tt[i]
            BY <3>1, <3>2
        <3> DEFINE f == FlattenSeq(tt)
        <3>3. /\ f \in Seq(S) /\ Len(f) = n * w
              /\ \A i \in 1..n : SubSeq(f, (i - 1) * w + 1, i * w) = tt[i]
            BY <1>2, <3>2
        <3>4. tt \in Seq(Seq(S))
            <4>1. Wide(S, w) \subseteq Seq(S)
                BY Zenon DEF Wide
            <4> QED
                BY <4>1, SeqMonotonic
        <3>5. FlattenSeq(ss) = f \o a
            BY <3>1, <3>2, <3>4, FlattenAppend
        <3> HIDE DEF f
        <3>6. /\ n * w \in Nat /\ (n + 1) * w = n * w + w /\ w \in Nat /\ w >= 6
            BY Rows
        <3>7. f \o a \in Seq(S) /\ Len(f \o a) = (n + 1) * w
            BY <3>2, <3>3, <3>6
        <3>8. ASSUME NEW i \in 1 .. n + 1
              PROVE  SubSeq(f \o a, (i - 1) * w + 1, i * w) = ss[i]
            <4>1. CASE i = n + 1
                <5>1. SubSeq(f \o a, n * w + 1, (n + 1) * w) = a
                    <6> DEFINE lo == n * w
                               hi == (n + 1) * w
                    <6>1. lo \in Nat /\ hi \in Nat /\ lo = Len(f) /\ hi = lo + Len(a)
                        BY <3>2, <3>3, <3>6
                    <6> HIDE DEF lo, hi
                    <6>2. SubSeq(f \o a, lo + 1, hi) = a
                        BY <3>2, <3>3, <6>1, SubOfEnd
                    <6> QED
                        BY <6>2 DEF lo, hi
                <5>2. i - 1 = n
                    BY <4>1
                <5> QED
                    BY <3>21, <4>1, <5>1, <5>2
            <4>2. CASE i # n + 1
                <5>1. i \in 1..n
                    BY <4>2
                <5> DEFINE lo == (i - 1) * w + 1
                           hi == i * w
                <5>2. lo \in Nat /\ hi \in Nat /\ 1 <= lo /\ hi <= Len(f)
                    BY <3>3, <5>1, Rows
                <5>3. SubSeq(f, lo, hi) = tt[i]
                    BY <3>3, <5>1
                <5> HIDE DEF lo, hi
                <5>4. SubSeq(f \o a, lo, hi) = SubSeq(f, lo, hi)
                    BY <3>2, <3>3, <5>2, SubOfFront
                <5>5. SubSeq(f \o a, lo, hi) = ss[i]
                    BY <3>21, <5>1, <5>3, <5>4, Zenon
                <5> QED
                    BY <5>5 DEF lo, hi
            <4> QED
                BY <4>1, <4>2
        <3> QED
            BY <2>1, <3>5, <3>7, <3>8
    <2> QED
        BY <2>1
<1> HIDE DEF P
<1>3. \A n \in Nat : n \in P
    BY <1>1, <1>2, SetInduction
<1>4. ASSUME NEW ss \in Seq(Wide(S, w)) PROVE Good(ss)
    <2>1. Len(ss) \in Nat
        OBVIOUS
    <2>2. Len(ss) \in P
        BY <1>3, <2>1
    <2> QED
        BY <2>2 DEF P
<1> QED
    BY <1>4

LEMMA ZerosAre ==
    ASSUME NEW S, Nul \in S, NEW w \in Nat
    PROVE  Zeros(w) \in Seq(S) /\ Len(Zeros(w)) = w /\ \A i \in 1..w : Zeros(w)[i] = Nul
BY DEF Zeros

LEMMA LastTwo ==
    ASSUME NEW S, NEW s \in Seq(S), NEW l \in Nat, l = Len(s), l >= 2
    PROVE  SubSeq(s, l - 1, l) = [i \in 1..2 |-> s[l - 2 + i]]
OBVIOUS

LEMMA ListOfRows ==
    ASSUME NEW S, Nul \in S, NEW w \in {6, 18}, NEW ss \in Seq(Wide(S, w))
    PROVE  /\ FlattenSeq(ss) \o Zeros(w) \in Seq(S)
           /\ Len(FlattenSeq(ss) \o Zeros(w)) = (Len(ss) + 1) * w
           /\ ListAddresses(FlattenSeq(ss) \o Zeros(w), w) = ss
<1> DEFINE f == FlattenSeq(ss)
           z == Zeros(w)
           n == Len(ss)
           inner == f \o z
<1>1. f \in Seq(S) /\ Len(f) = n * w /\ \A i \in 1..n : SubSeq(f, (i - 1) * w + 1, i * w) = ss[i]
    BY Chunks
<1>2. z \in Seq(S) /\ Len(z) = w /\ \A i \in 1..w : z[i] = Nul
    BY ZerosAre
<1>3. n \in Nat /\ n * w \in Nat /\ (n + 1) * w = n * w + w /\ w \in Nat /\ w >= 6 /\ n + 1 \in Nat
    BY Rows
<1>4. ((n + 1) * w) \div w = n + 1
    <2> DEFINE m == n + 1
    <2>1. m \in Nat
        BY <1>3
    <2> HIDE DEF m
    <2>2. (m * w) \div w = m
        BY <2>1, Rows
    <2> QED
        BY <2>2 DEF m
<1> HIDE DEF f, z
<1>5. inner \in Seq(S) /\ Len(inner) = (n + 1) * w /\ \A i \in 1..w : inner[n * w + i] = Nul
    BY <1>1, <1>2, <1>3
<1>6. SubSeq(inner, Len(inner) - 1, Len(inner)) = Zeros(2)
    <2> DEFINE l == Len(inner)
    <2>1. inner[l - 1] = Nul /\ inner[l] = Nul /\ l \in Nat /\ l >= 2
        <3>1. w - 1 \in 1..w /\ w \in 1..w /\ n * w + (w - 1) = l - 1 /\ n * w + w = l /\ l \in Nat /\ l >= 2
            BY <1>3, <1>5
        <3> HIDE DEF inner, l
        <3> QED
            BY <1>5, <3>1
    <2> HIDE DEF inner
    <2>2. inner \in Seq(S) /\ l = Len(inner)
        BY <1>5
    <2> HIDE DEF l
    <2> DEFINE e == SubSeq(inner, l - 1, l)
    <2>3. e = [i \in 1..2 |-> inner[l - 2 + i]]
        BY <2>1, <2>2, LastTwo
    <2>4. ASSUME NEW i \in 1..2 PROVE inner[l - 2 + i] = Nul
        <3>1. l - 2 + i = l - 1 \/ l - 2 + i = l
            BY <2>1
        <3> QED
            BY <2>1, <3>1
    <2>5. e = Zeros(2)
        BY <2>3, <2>4, Zenon DEF Zeros
    <2> QED
        BY <2>5 DEF l
<1>7. ListAddresses(inner, w) = [i \in 1..n |-> SubSeq(inner, (i - 1) * w + 1, i * w)]
    <2> HIDE DEF inner
    <2>1. Len(inner) \div w = n + 1
        BY <1>4, <1>5
    <2>2. n + 1 > 0 /\ (n + 1) - 1 = n
        BY <1>3
    <2> HIDE DEF n
    <2> QED
        BY <1>5, <1>6, <2>1, <2>2 DEF ListAddresses
<1>8. ASSUME NEW i \in 1..n PROVE SubSeq(inner, (i - 1) * w + 1, i * w) = ss[i]
    <2> DEFINE lo == (i - 1) * w + 1
               hi == i * w
    <2>1. lo \in Nat /\ hi \in Nat /\ 1 <= lo /\ hi <= Len(f)
        BY <1>1, <1>3, Rows
    <2>2. SubSeq(f, lo, hi) = ss[i]
        BY <1>1
    <2> HIDE DEF lo, hi
    <2>3. SubSeq(f \o z, lo, hi) = SubSeq(f, lo, hi)
        BY <1>1, <1>2, <2>1, SubOfFront
    <2>4. SubSeq(inner, lo, hi) = ss[i]
        BY <2>2, <2>3
    <2> QED
        BY <2>4 DEF lo, hi
<1>9. ss = [i \in 1..n |-> ss[i]]
    OBVIOUS
<1>10. ListAddresses(inner, w) = ss
    <2> DEFINE E(i) == SubSeq(inner, (i - 1) * w + 1, i * w)
    <2>1. \A i \in 1..n : E(i) = ss[i]
        BY <1>8
    <2>2. ListAddresses(inner, w) = [i \in 1..n |-> E(i)]
        BY <1>7
    <2> HIDE DEF E, inner, n
    <2>3. [i \in 1..n |-> E(i)] = [i \in 1..n |-> ss[i]]
        BY <2>1
    <2> QED
        BY <1>9, <2>2, <2>3, Zenon
<1> QED
    BY <1>5, <1>10 DEF f, z

LEMMA NotAKey ==
    ASSUME NEW S, Nul \in S, NEW w \in {6, 18}, NEW ss \in Seq(Wide(S, w)),
           \A i \in 1 .. Len(ss) : ~LooksLikeKey(ss[i])
    PROVE  ~LooksLikeKey(FlattenSeq(ss) \o Zeros(w))
<1> DEFINE f == FlattenSeq(ss)
           z == Zeros(w)
<1>1. f \in Seq(S) /\ Len(f) = Len(ss) * w /\ \A i \in 1 .. Len(ss) : SubSeq(f, (i - 1) * w + 1, i * w) = ss[i]
    BY Chunks
<1>2. z \in Seq(S) /\ Len(z) = w /\ z[1] = Nul
    BY ZerosAre
<1>3. Len(ss) \in Nat /\ w \in Nat /\ w >= 6
    BY Rows
<1> HIDE DEF f, z
<1>4. CASE Len(ss) = 0
    <2>1. Len(f) = 0
        BY <1>1, <1>3, <1>4
    <2>2. (f \o z)[1] = Nul
        <3> DEFINE g == f \o z
        <3>1. \A i \in 1 .. Len(f) + Len(z) : g[i] = IF i <= Len(f) THEN f[i] ELSE z[i - Len(f)]
            BY <1>1, <1>2, ConcatProperties
        <3> HIDE DEF g
        <3>2. 1 \in 1 .. Len(f) + Len(z) /\ ~(1 <= Len(f)) /\ 1 - Len(f) = 1
            BY <1>2, <1>3, <2>1
        <3>3. g[1] = Nul
            BY <1>2, <3>1, <3>2
        <3> QED
            BY <3>3 DEF g
    <2>3. Nul # Byte(127)
        <3> DEFINE B == 0..255
                   a == 0
                   b == 127
        <3>1. a \in B /\ b \in B /\ a # b
            OBVIOUS
        <3>2. \A i, j \in B : Byte(i) = Byte(j) => i = j
            BY BytesAssumption
        <3> HIDE DEF B, a, b
        <3>3. Byte(a) # Byte(b)
            BY <3>1, <3>2
        <3> QED
            BY <3>3 DEF Nul, a, b
    <2> QED
        BY <2>2, <2>3 DEF LooksLikeKey, f, z
<1>5. CASE Len(ss) # 0
    <2>1. 1 \in 1 .. Len(ss) /\ Len(f) >= w
        BY <1>1, <1>3, <1>5, Rows
    <2>2. ss[1] \in Seq(S) /\ Len(ss[1]) = w
        BY <2>1 DEF Wide
    <2>3. SubSeq(f, 1, w) = ss[1]
        <3>1. (1 - 1) * w + 1 = 1 /\ 1 * w = w
            BY <1>3
        <3> QED
            BY <1>1, <2>1, <3>1
    <2>4. SubSeq(f, 1, w)[1] = f[1] /\ SubSeq(f, 1, w)[6] = f[6]
        BY <1>1, <1>3, <2>1
    <2>5. (f \o z)[1] = f[1] /\ (f \o z)[6] = f[6]
        BY <1>1, <1>2, <1>3, <2>1
    <2>6. ~LooksLikeKey(ss[1]) /\ Len(ss[1]) >= 6
        BY <1>3, <2>1, <2>2
    <2> QED
        BY <2>3, <2>4, <2>5, <2>6 DEF LooksLikeKey, f, z
<1> QED
    BY <1>4, <1>5

LEMMA LargestOf ==
    ASSUME NEW S \in SUBSET Nat, NEW b \in Nat, \A x \in S : x <= b, S # {}
    PROVE  Max(S) \in S /\ \A y \in S : Max(S) >= y
<1> DEFINE U == {u \in Nat : \A x \in S : x <= u}
<1>1. U \in SUBSET Nat /\ U # {}
    OBVIOUS
<1>2. PICK u \in U : \A v \in U : u <= v
    <2> HIDE DEF U
    <2> QED
        BY <1>1, SmallestOf
<1>3. u \in S
    <2>1. ASSUME u \notin S PROVE FALSE
        <3>1. \A x \in S : x <= u /\ x # u /\ x \in Nat
            BY <2>1
        <3>2. PICK y \in S : TRUE
            OBVIOUS
        <3>3. u \in Nat /\ u - 1 \in Nat
            BY <3>1, <3>2
        <3>4. u - 1 \in U
            BY <3>1, <3>3
        <3> QED
            BY <1>2, <3>3, <3>4
    <2> QED
        BY <2>1
<1>4. \A y \in S : u >= y
    OBVIOUS
<1>5. \E x \in S : \A y \in S : x >= y
    BY <1>3, <1>4
<1> QED
    BY <1>5, Zenon DEF Max

LEMMA CountIs ==
    ASSUME NEW w \in {6, 18}, NEW S, NEW l \in Seq(S), NEW key, NEW size \in Nat,
           Len(ListHead(key)) \in Nat, Len(ListHead(key)) <= 12, size >= 12 + 2 * w
    PROVE  /\ CountThatFits(key, l, size, w) \in 0 .. Len(l)
           /\ Len(ListHead(key)) + (CountThatFits(key, l, size, w) + 1) * w <= size
           /\ l # <<>> => CountThatFits(key, l, size, w) >= 1
<1> DEFINE h == Len(ListHead(key))
           N == {0} \cup {n \in DOMAIN l : TakesAnother(key, n, size, w)}
           c == Max(N)
<1>1. CountThatFits(key, l, size, w) = c
    BY Zenon DEF CountThatFits
<1>2. N \in SUBSET Nat /\ (\A n \in N : n <= Len(l)) /\ N # {} /\ Len(l) \in Nat
    OBVIOUS
<1>3. c \in N
    <2> HIDE DEF N
    <2> QED
        BY <1>2, LargestOf
<1>4. c \in 0 .. Len(l)
    <2> HIDE DEF c
    <2> QED
        BY <1>2, <1>3
<1>5. h + (c + 1) * w <= size
    <2> HIDE DEF c
    <2>1. CASE c = 0
        <3>1. (c + 1) * w = w /\ w \in Nat
            BY <2>1
        <3> QED
            BY <3>1
    <2>2. CASE c # 0
        BY <1>3, <2>2 DEF TakesAnother
    <2> QED
        BY <2>1, <2>2
<1>6. ASSUME l # <<>> PROVE c >= 1
    <2>1. 1 \in N
        <3>1. 1 \in DOMAIN l
            BY <1>6
        <3>2. TakesAnother(key, 1, size, w)
            <4>1. (1 + 1) * w = 2 * w /\ 2 * w \in Nat
                OBVIOUS
            <4>2. h + 2 * w <= size
                BY <4>1
            <4> QED
                BY <4>1, <4>2 DEF TakesAnother
        <3> QED
            BY <3>1, <3>2
    <2>2. \A y \in N : c >= y
        <3> HIDE DEF N
        <3> QED
            BY <1>2, LargestOf
    <2> QED
        BY <2>1, <2>2
<1> QED
    BY <1>1, <1>4, <1>5, <1>6

ListToken(S) == Octets \subseteq S /\ "f" \in S /\ "\n" \in S
IsKey(S, key) == key = <<>> \/ (key \in Seq(S) /\ Len(key) = 4)
KeyPart(key) == IF key = <<>> THEN <<>> ELSE <<Byte(127)>> \o key \o <<Byte(8)>>

LEMMA OctetIs ==
    ASSUME NEW n, Small(n)
    PROVE  Byte(n) \in Octets
BY DEF Small, Octets

LEMMA SomeOctets ==
    Nul \in Octets /\ Byte(127) \in Octets /\ Byte(8) \in Octets /\ FF \in Octets
<1>1. Small(0) /\ Small(127) /\ Small(8) /\ Small(255)
    BY DEF Small
<1> QED
    BY <1>1, OctetIs DEF Nul, FF

LEMMA ListHeaderIs ==
    ASSUME NEW S, ListToken(S)
    PROVE  ListHeader \in Seq(S) /\ Len(ListHeader) = 6
<1>1. FF \in S /\ "f" \in S /\ "\n" \in S
    BY SomeOctets DEF ListToken
<1>2. OutOfBand \in Seq(S) /\ Len(OutOfBand) = 4
    BY <1>1 DEF OutOfBand
<1>3. <<"f", "\n">> \in Seq(S) /\ Len(<<"f", "\n">>) = 2
    BY <1>1
<1> DEFINE t == <<"f", "\n">>
<1> HIDE DEF t
<1>4. OutOfBand \o t \in Seq(S) /\ Len(OutOfBand \o t) = Len(OutOfBand) + Len(t)
    BY <1>2, <1>3, FrontAndRest DEF t
<1> QED
    BY <1>2, <1>3, <1>4 DEF ListHeader, t

LEMMA ConcatFront ==
    ASSUME NEW S, NEW s \in Seq(S), NEW t \in Seq(S), NEW i \in 1 .. Len(s)
    PROVE  (s \o t)[i] = s[i]
OBVIOUS

LEMMA Surrounded ==
    ASSUME NEW S, NEW a \in S, NEW b \in S, NEW key \in Seq(S), Len(key) = 4
    PROVE  /\ <<a>> \o key \o <<b>> \in Seq(S) /\ Len(<<a>> \o key \o <<b>>) = 6
           /\ (<<a>> \o key \o <<b>>)[1] = a /\ (<<a>> \o key \o <<b>>)[6] = b
           /\ \A i \in 1..4 : (<<a>> \o key \o <<b>>)[i + 1] = key[i]
<1> DEFINE x == <<a>>
           y == <<b>>
           u == x \o key
           k == u \o y
<1>0. x \in Seq(S) /\ Len(x) = 1 /\ x[1] = a /\ y \in Seq(S) /\ Len(y) = 1 /\ y[1] = b
    OBVIOUS
<1> HIDE DEF x, y
<1>1. u \in Seq(S) /\ Len(u) = 5 /\ u[1] = a /\ \A i \in 1..4 : u[i + 1] = key[i]
    <2>1. /\ u \in Seq(S) /\ Len(u) = Len(x) + Len(key)
          /\ \A i \in 1 .. Len(x) + Len(key) : u[i] = IF i <= Len(x) THEN x[i] ELSE key[i - Len(x)]
        BY <1>0, ConcatProperties, Zenon
    <2> HIDE DEF u
    <2> QED
        BY <1>0, <2>1
<1> HIDE DEF u
<1>2. k \in Seq(S) /\ Len(k) = 6 /\ k[6] = b /\ \A i \in 1..5 : k[i] = u[i]
    <2>1. /\ k \in Seq(S) /\ Len(k) = Len(u) + Len(y)
          /\ \A i \in 1 .. Len(u) + Len(y) : k[i] = IF i <= Len(u) THEN u[i] ELSE y[i - Len(u)]
        BY <1>0, <1>1, ConcatProperties, Zenon
    <2> HIDE DEF k
    <2> QED
        BY <1>0, <1>1, <2>1
<1> HIDE DEF k
<1>3. k[1] = a /\ \A i \in 1..4 : k[i + 1] = key[i]
    BY <1>1, <1>2
<1> QED
    BY <1>2, <1>3, Zenon DEF k, u, x, y

LEMMA KeyPartIs ==
    ASSUME NEW S, ListToken(S), NEW key \in Seq(S), Len(key) = 4, NEW inner \in Seq(S)
    PROVE  /\ KeyPart(key) \in Seq(S) /\ Len(KeyPart(key)) = 6
           /\ LooksLikeKey(KeyPart(key) \o inner)
           /\ SubSeq(KeyPart(key) \o inner, 2, 5) = key
           /\ After(6, KeyPart(key) \o inner) = inner
<1> DEFINE a == Byte(127)
           b == Byte(8)
           k == KeyPart(key)
           s == k \o inner
<1>1. a \in S /\ b \in S
    BY SomeOctets DEF ListToken
<1>2. key # <<>>
    OBVIOUS
<1>3. k = <<a>> \o key \o <<b>>
    BY <1>2, Zenon DEF KeyPart
<1> HIDE DEF a, b
<1>4. k \in Seq(S) /\ Len(k) = 6 /\ k[1] = a /\ k[6] = b /\ \A i \in 1..4 : k[i + 1] = key[i]
    <2> DEFINE w == <<a>> \o key \o <<b>>
    <2>1. w \in Seq(S) /\ Len(w) = 6 /\ w[1] = a /\ w[6] = b /\ \A i \in 1..4 : w[i + 1] = key[i]
        BY <1>1, Surrounded
    <2>2. k = w
        BY <1>3
    <2> HIDE DEF w, k
    <2> QED
        BY <2>1, <2>2, Zenon
<1> HIDE DEF k
<1>6. s \in Seq(S) /\ Len(s) = Len(k) + Len(inner) /\ After(Len(k), s) = inner
    BY <1>4, FrontAndRest
<1>5. s \in Seq(S) /\ Len(s) >= 6 /\ \A i \in 1..6 : s[i] = k[i]
    <2>1. \A i \in 1 .. Len(k) : s[i] = k[i]
        BY <1>4, ConcatFront
    <2> HIDE DEF s
    <2> QED
        BY <1>4, <1>6, <2>1
<1> HIDE DEF s
<1>7. s[1] = a /\ s[6] = b /\ \A i \in 1..4 : s[i + 1] = key[i]
    BY <1>4, <1>5
<1>8. SubSeq(s, 2, 5) = key
    <2> DEFINE q == SubSeq(s, 2, 5)
    <2>1. q \in Seq(S) /\ Len(q) = 4 /\ \A i \in 1..4 : q[i] = s[i + 1]
        BY <1>5, SubSeqProperties
    <2> HIDE DEF q
    <2>2. \A i \in 1 .. Len(key) : q[i] = key[i]
        BY <1>7, <2>1
    <2>3. q = key
        BY <2>1, <2>2, SeqEqual
    <2> QED
        BY <2>3 DEF q
<1>9. LooksLikeKey(s)
    BY <1>5, <1>7 DEF LooksLikeKey, a, b
<1>10. After(6, s) = inner
    BY <1>4, <1>6, Zenon DEF s
<1> QED
    BY <1>4, <1>8, <1>9, <1>10, Zenon DEF s, k

LEMMA KeyPartType ==
    ASSUME NEW S, ListToken(S), NEW key, IsKey(S, key)
    PROVE  KeyPart(key) \in Seq(S) /\ Len(KeyPart(key)) <= 6 /\ Len(KeyPart(key)) \in Nat
<1>1. CASE key = <<>>
    <2>1. KeyPart(key) = <<>>
        BY <1>1, Zenon DEF KeyPart
    <2> QED
        BY <2>1
<1>2. CASE key \in Seq(S) /\ Len(key) = 4
    <2>1. <<>> \in Seq(S)
        OBVIOUS
    <2>2. KeyPart(key) \in Seq(S) /\ Len(KeyPart(key)) = 6
        BY <1>2, <2>1, KeyPartIs, Zenon
    <2> QED
        BY <2>2
<1> QED
    BY <1>1, <1>2 DEF IsKey

LEMMA ListHeadIs ==
    ASSUME NEW S, ListToken(S), NEW key, IsKey(S, key)
    PROVE  /\ ListHead(key) \in Seq(S) /\ KeyPart(key) \in Seq(S)
           /\ ListHead(key) = ListHeader \o KeyPart(key) /\ Len(ListHead(key)) \in Nat /\ Len(ListHead(key)) <= 12
<1>1. ListHead(key) = ListHeader \o KeyPart(key)
    BY Zenon DEF ListHead, KeyPart
<1> DEFINE h == ListHeader
           k == KeyPart(key)
<1>2. k \in Seq(S) /\ Len(k) <= 6 /\ Len(k) \in Nat
    BY KeyPartType
<1>3. h \in Seq(S) /\ Len(h) = 6
    BY ListHeaderIs
<1> HIDE DEF h, k
<1>4. h \o k \in Seq(S) /\ Len(h \o k) = Len(h) + Len(k)
    BY <1>2, <1>3, FrontAndRest
<1>5. Len(h \o k) \in Nat /\ Len(h \o k) <= 12
    BY <1>2, <1>3, <1>4
<1> QED
    BY <1>1, <1>2, <1>4, <1>5, Zenon DEF h, k

LEMMA DecodeListIs ==
    ASSUME NEW S, ListToken(S), NEW key, IsKey(S, key), NEW inner \in Seq(S),
           key = <<>> => ~LooksLikeKey(inner)
    PROVE  DecodeList(ListHead(key) \o inner) = Read([key |-> key, inner |-> inner], <<>>)
<1> DEFINE h == ListHeader
           k == KeyPart(key)
           rest == k \o inner
           src == h \o rest
<1>1. h \in Seq(S) /\ Len(h) = 6 /\ k \in Seq(S)
    BY ListHeaderIs, KeyPartType
<1>11. ListHead(key) = h \o k
    BY Zenon DEF ListHead, KeyPart
<1> HIDE DEF h, k
<1>2. rest \in Seq(S) /\ (h \o k) \o inner = src
    BY <1>1, ConcatAssociative
<1>21. ListHead(key) \o inner = src
    BY <1>11, <1>2, Zenon
<1>22. rest \in Seq(S)
    BY <1>2
<1> HIDE DEF rest
<1>23. Len(rest) \in Nat /\ h \in Seq(S)
    BY <1>1, <1>22
<1>3. Len(src) = Len(h) + Len(rest) /\ IsPrefix(h, src) /\ After(Len(h), src) = rest
    BY <1>22, <1>23, FrontAndRest
<1> HIDE DEF src
<1>4. Expect(ListHeader, src) = Read(<<>>, rest)
    <2>1. ~(Len(src) < Len(h))
        BY <1>1, <1>23, <1>3
    <2> QED
        BY <1>3, <2>1, Zenon DEF Expect, StartsWith, h
<1> DEFINE F(x) == IF LooksLikeKey(x)
                     THEN Read([key |-> SubSeq(x, 2, 5), inner |-> After(6, x)], <<>>)
                     ELSE Read([key |-> <<>>, inner |-> x], <<>>)
           found == F(rest)
<1>5. DecodeList(src) = found
    <2>1. DecodeList(src) = Then(Read(<<>>, rest), LAMBDA s : F(s.rest))
        BY <1>4, Zenon DEF DecodeList
    <2> HIDE DEF F
    <2>2. DecodeList(src) = F(Read(<<>>, rest).rest)
        BY <2>1, ReadIs DEF Then
    <2> QED
        BY <2>2, ReadIs
<1>6. found = Read([key |-> key, inner |-> inner], <<>>)
    <2>1. CASE key = <<>>
        <3>1. KeyPart(key) = <<>>
            BY <2>1, Zenon DEF KeyPart
        <3>2. rest = inner
            BY <3>1 DEF rest, k
        <3>3. ~LooksLikeKey(rest)
            BY <2>1, <3>2, Zenon
        <3> QED
            BY <2>1, <3>2, <3>3, Zenon
    <2>2. CASE key \in Seq(S) /\ Len(key) = 4
        <3>1. LooksLikeKey(rest) /\ SubSeq(rest, 2, 5) = key /\ After(6, rest) = inner
            BY <2>2, KeyPartIs DEF rest, k
        <3> QED
            BY <3>1, Zenon
    <2> QED
        BY <2>1, <2>2 DEF IsKey
<1> QED
    BY <1>21, <1>5, <1>6, Zenon

-----------------------------------------------------------------------------
(* A datagram of a list, and what is read of it                            *)

Sendable == {a \in Wide(Octets, AddressWidth) : ~LooksLikeKey(a)}
Datagram(key, ss) == ListHead(key) \o FlattenSeq(ss) \o Zeros(AddressWidth)
KeyShaped(key) == key = <<>> \/ key \in [1..4 -> {key[i] : i \in 1..4}]
KeyTokens(key) == Octets \cup {"f", "\n"} \cup {key[i] : i \in 1..4}

LEMMA FunctionSeq ==
    ASSUME NEW S, NEW n \in Nat, NEW f \in [1..n -> S]
    PROVE  f \in Seq(S) /\ Len(f) = n
OBVIOUS

LEMMA KeyShape ==
    ASSUME NEW key, KeyShaped(key)
    PROVE  ListToken(KeyTokens(key)) /\ IsKey(KeyTokens(key), key)
<1>1. ListToken(KeyTokens(key))
    BY Zenon DEF ListToken, KeyTokens
<1>2. CASE key = <<>>
    BY <1>1, <1>2, Zenon DEF IsKey
<1>3. CASE key \in [1..4 -> {key[i] : i \in 1..4}]
    <2> DEFINE K == {key[i] : i \in 1..4}
    <2>1. key \in [1..4 -> K] /\ K \subseteq KeyTokens(key)
        BY <1>3, Zenon DEF KeyTokens
    <2> HIDE DEF K
    <2>2. key \in Seq(K) /\ Len(key) = 4
        BY <2>1, FunctionSeq
    <2>3. key \in Seq(KeyTokens(key))
        BY <2>1, <2>2, SeqMonotonic
    <2> QED
        BY <1>1, <2>2, <2>3, Zenon DEF IsKey
<1> QED
    BY <1>2, <1>3 DEF KeyShaped

LEMMA KeyReadShape == KeyShaped(KeyRead)
<1> DEFINE filter == DecodeAtMaster(HashLen, question).val.body.filter
<1>1. KeyRead = KeyOf(filter)
    BY Zenon DEF KeyRead
<1> HIDE DEF filter
<1>2. CASE ~Has(filter, "key")
    BY <1>1, <1>2, Zenon DEF KeyOf, KeyShaped
<1>3. CASE Has(filter, "key")
    <2> DEFINE E(i) == Byte((filter.fields.key \div Place[i]) % 256)
               k == [i \in 1..4 |-> E(i)]
    <2>1. KeyRead = k
        BY <1>1, <1>3, Zenon DEF KeyOf, LittleEndian
    <2> HIDE DEF E
    <2>2. k \in [1..4 -> {k[i] : i \in 1..4}]
        OBVIOUS
    <2> HIDE DEF k
    <2> QED
        BY <2>1, <2>2, Zenon DEF KeyShaped
<1> QED
    BY <1>2, <1>3

LEMMA WidthIs == AddressWidth \in {6, 18} /\ Mtu \in Nat /\ Mtu >= 12 + 2 * AddressWidth
BY ListingAssumption

LEMMA DatagramIs ==
    ASSUME NEW key, KeyShaped(key), NEW ss \in Seq(Sendable)
    PROVE  /\ \E inner : /\ DecodeList(Datagram(key, ss)) = Read([key |-> key, inner |-> inner], <<>>)
                         /\ ListAddresses(inner, AddressWidth) = ss
           /\ Len(Datagram(key, ss)) = Len(ListHead(key)) + (Len(ss) + 1) * AddressWidth
           /\ Datagram(key, ss) \in Seq(KeyTokens(key))
           /\ Len(ListHead(key)) \in Nat
<1> DEFINE w == AddressWidth
           T == KeyTokens(key)
           f == FlattenSeq(ss)
           z == Zeros(w)
           inner == f \o z
<1>1. ListToken(T) /\ IsKey(T, key)
    BY KeyShape
<1>2. w \in {6, 18} /\ Nul \in Octets /\ w \in Nat
    <2>1. w \in {6, 18}
        BY WidthIs
    <2> QED
        BY <2>1, SomeOctets
<1>3. ss \in Seq(Wide(Octets, w))
    <2>1. Sendable \subseteq Wide(Octets, w)
        BY Zenon DEF Sendable
    <2> QED
        BY <2>1, SeqMonotonic
<1>4. \A i \in 1 .. Len(ss) : ~LooksLikeKey(ss[i])
    <2>1. \A i \in 1 .. Len(ss) : ss[i] \in Sendable
        OBVIOUS
    <2> QED
        BY <2>1, Zenon DEF Sendable
<1> HIDE DEF w
<1>5. inner \in Seq(Octets) /\ Len(inner) = (Len(ss) + 1) * w /\ ListAddresses(inner, w) = ss
    BY <1>2, <1>3, ListOfRows
<1>6. ~LooksLikeKey(inner)
    BY <1>2, <1>3, <1>4, NotAKey
<1>7. f \in Seq(Octets) /\ z \in Seq(Octets)
    BY <1>2, <1>3, Chunks, ZerosAre
<1>8. Octets \subseteq T
    BY <1>1, Zenon DEF ListToken
<1>9. f \in Seq(T) /\ z \in Seq(T) /\ inner \in Seq(T)
    <2> HIDE DEF f, z, inner
    <2> QED
        BY <1>5, <1>7, <1>8, SeqMonotonic
<1>10. ListHead(key) \in Seq(T) /\ Len(ListHead(key)) \in Nat
    BY <1>1, ListHeadIs, Zenon
<1> DEFINE h == ListHead(key)
<1> HIDE DEF T, f, z, h
<1>11. (h \o f) \o z = h \o inner
    BY <1>9, <1>10, ConcatAssociative DEF h
<1>12. Datagram(key, ss) = h \o inner
    BY <1>11, Zenon DEF Datagram, h, f, z, w
<1> HIDE DEF inner
<1>13. h \o inner \in Seq(T) /\ Len(h \o inner) = Len(h) + Len(inner)
    BY <1>9, <1>10, FrontAndRest DEF h
<1>14. DecodeList(ListHead(key) \o inner) = Read([key |-> key, inner |-> inner], <<>>)
    BY <1>1, <1>6, <1>9, DecodeListIs
<1> QED
    BY <1>5, <1>10, <1>12, <1>13, <1>14, Zenon DEF h, T, w

LEMMA HeldIs ==
    ASSUME NEW key, KeyShaped(key), NEW ss \in Seq(Sendable)
    PROVE  Held(Datagram(key, ss)) = ss
<1>1. PICK inner : /\ DecodeList(Datagram(key, ss)) = Read([key |-> key, inner |-> inner], <<>>)
                   /\ ListAddresses(inner, AddressWidth) = ss
    BY DatagramIs
<1>2. DecodeList(Datagram(key, ss)).val = [key |-> key, inner |-> inner]
    BY <1>1, ReadIs
<1>3. DecodeList(Datagram(key, ss)).val.inner = inner
    BY <1>2
<1> QED
    BY <1>1, <1>3, Zenon DEF Held

-----------------------------------------------------------------------------
(* The list as it is split over datagrams                                  *)

\* What was sent, s, are the first o servers of l, in parts that are empty only if l is.
Split(key, l, o, s) ==
    \E parts \in Seq(Seq(Sendable)) :
        /\ s = [i \in 1 .. Len(parts) |-> Datagram(key, parts[i])]
        /\ Joins(FlattenSeq(parts), <<>>, SubSeq(l, 1, o))
        /\ l # <<>> => \A i \in 1 .. Len(parts) : parts[i] # <<>>

LEMMA SplitStart ==
    ASSUME NEW key, NEW l \in Seq(Sendable)
    PROVE  Split(key, l, 0, <<>>)
<1> DEFINE parts == <<>>
<1>1. parts \in Seq(Seq(Sendable)) /\ Len(parts) = 0
    OBVIOUS
<1>2. <<>> = [i \in 1 .. Len(parts) |-> Datagram(key, parts[i])]
    BY <1>1
<1>3. SubSeq(l, 1, 0) = <<>> /\ <<>> \o <<>> = <<>>
    OBVIOUS
<1>4. Joins(FlattenSeq(parts), <<>>, SubSeq(l, 1, 0))
    BY <1>3, FlattenEmpty, Zenon DEF Joins
<1>5. \A i \in 1 .. Len(parts) : parts[i] # <<>>
    BY <1>1
<1> HIDE DEF parts
<1> QED
    BY <1>1, <1>2, <1>4, <1>5, Zenon DEF Split

LEMMA NextPart ==
    ASSUME NEW S, NEW l \in Seq(S), NEW o \in Nat, NEW c \in Nat, o + c <= Len(l)
    PROVE  /\ After(o, l) \in Seq(S) /\ Len(After(o, l)) = Len(l) - o
           /\ SubSeq(After(o, l), 1, c) \in Seq(S) /\ Len(SubSeq(After(o, l), 1, c)) = c
           /\ SubSeq(l, 1, o) \o SubSeq(After(o, l), 1, c) = SubSeq(l, 1, o + c)
<1> DEFINE r == After(o, l)
           a == SubSeq(l, 1, o)
           b == SubSeq(r, 1, c)
           d == SubSeq(l, 1, o + c)
           e == a \o b
<1>1. r \in Seq(S) /\ Len(r) = Len(l) - o /\ \A i \in 1 .. Len(l) - o : r[i] = l[o + i]
    BY SubSeqProperties DEF After
<1>2. a \in Seq(S) /\ Len(a) = o /\ \A i \in 1..o : a[i] = l[i]
    BY SubSeqProperties
<1>3. d \in Seq(S) /\ Len(d) = o + c /\ \A i \in 1 .. o + c : d[i] = l[i]
    BY SubSeqProperties
<1> HIDE DEF r, a, d
<1>4. b \in Seq(S) /\ Len(b) = c /\ \A i \in 1..c : b[i] = r[i]
    <2>1. r \in Seq(S) /\ c <= Len(r) /\ Len(r) \in Nat
        BY <1>1
    <2> QED
        BY <2>1, SubSeqProperties
<1> HIDE DEF b
<1>5. e \in Seq(S) /\ Len(e) = o + c
    BY <1>2, <1>4
<1>6. ASSUME NEW i \in 1 .. o + c PROVE e[i] = d[i]
    <2>1. e[i] = IF i <= o THEN a[i] ELSE b[i - o]
        BY <1>2, <1>4
    <2>2. ~(i <= o) => b[i - o] = l[i]
        <3>1. ~(i <= o) => i - o \in 1..c /\ i - o \in 1 .. Len(l) - o /\ o + (i - o) = i
            OBVIOUS
        <3> QED
            BY <1>1, <1>4, <3>1
    <2> HIDE DEF e
    <2> QED
        BY <1>2, <1>3, <2>1, <2>2
<1> HIDE DEF e
<1>7. e = d
    BY <1>3, <1>5, <1>6, SeqEqual
<1> QED
    BY <1>1, <1>4, <1>7, Zenon DEF r, a, b, d, e

LEMMA AppendIs ==
    ASSUME NEW S, NEW s \in Seq(S), NEW x \in S, NEW n, n = Len(s)
    PROVE  Append(s, x) = [i \in 1 .. n + 1 |-> IF i = n + 1 THEN x ELSE s[i]]
<1> DEFINE t == Append(s, x)
<1>1. /\ t \in Seq(S) /\ Len(t) = n + 1 /\ t[n + 1] = x /\ n \in Nat
      /\ \A i \in 1..n : t[i] = s[i]
    BY AppendProperties
<1> HIDE DEF t
<1>2. t = [i \in 1 .. n + 1 |-> t[i]]
    BY <1>1
<1>3. \A i \in 1 .. n + 1 : t[i] = IF i = n + 1 THEN x ELSE s[i]
    BY <1>1
<1>4. t = [i \in 1 .. n + 1 |-> IF i = n + 1 THEN x ELSE s[i]]
    BY <1>2, <1>3, Zenon
<1> QED
    BY <1>4 DEF t

LEMMA SplitAppend ==
    ASSUME NEW key, NEW l \in Seq(Sendable), NEW o \in Nat, NEW c \in Nat, NEW s,
           Split(key, l, o, s), o + c <= Len(l), l # <<>> => c >= 1
    PROVE  Split(key, l, o + c, Append(s, Datagram(key, SubSeq(After(o, l), 1, c))))
<1> DEFINE p == SubSeq(After(o, l), 1, c)
           x == Datagram(key, p)
<1>1. PICK parts \in Seq(Seq(Sendable)) :
        /\ s = [i \in 1 .. Len(parts) |-> Datagram(key, parts[i])]
        /\ Joins(FlattenSeq(parts), <<>>, SubSeq(l, 1, o))
        /\ l # <<>> => \A i \in 1 .. Len(parts) : parts[i] # <<>>
    BY Zenon DEF Split
<1>2. p \in Seq(Sendable) /\ Len(p) = c /\ SubSeq(l, 1, o) \o p = SubSeq(l, 1, o + c)
    BY NextPart
<1> HIDE DEF p
<1> DEFINE more == Append(parts, p)
           n == Len(parts)
<1>3. /\ more \in Seq(Seq(Sendable)) /\ Len(more) = n + 1 /\ more[n + 1] = p
      /\ (\A i \in 1..n : more[i] = parts[i]) /\ n \in Nat
    BY <1>2, AppendProperties
<1>4. FlattenSeq(more) = FlattenSeq(parts) \o p
    BY <1>2, FlattenAppend
<1>5. FlattenSeq(parts) \in Seq(Sendable)
    BY FlattenType
<1> HIDE DEF more
<1>6. Joins(FlattenSeq(more), <<>>, SubSeq(l, 1, o + c))
    <2>1. FlattenSeq(parts) = SubSeq(l, 1, o)
        <3>1. FlattenSeq(parts) \o <<>> = FlattenSeq(parts)
            BY <1>5, ConcatEmptySeq
        <3> QED
            BY <1>1, <3>1, Zenon DEF Joins
    <2>2. FlattenSeq(more) = SubSeq(l, 1, o + c)
        BY <1>2, <1>4, <2>1, Zenon
    <2>3. FlattenSeq(more) \in Seq(Sendable)
        BY <1>3, FlattenType
    <2>4. FlattenSeq(more) \o <<>> = FlattenSeq(more)
        BY <2>3, ConcatEmptySeq
    <2> QED
        BY <2>2, <2>4, Zenon DEF Joins
<1>7. Append(s, x) = [i \in 1 .. Len(more) |-> Datagram(key, more[i])]
    <2> DEFINE E(i) == Datagram(key, parts[i])
               D == {E(i) : i \in 1..n} \cup {x}
               G(i) == Datagram(key, more[i])
    <2>1. s = [i \in 1..n |-> E(i)]
        BY <1>1
    <2>2. G(n + 1) = x /\ \A i \in 1..n : G(i) = E(i)
        BY <1>3, Zenon
    <2> HIDE DEF E, G, x
    <2>3. s \in Seq(D) /\ x \in D /\ Len(s) = n
        <3>1. s \in [1..n -> D] /\ x \in D
            BY <2>1, Zenon
        <3> HIDE DEF D
        <3> QED
            BY <1>3, <3>1, FunctionSeq
    <2> HIDE DEF D
    <2>4. Append(s, x) = [i \in 1 .. n + 1 |-> IF i = n + 1 THEN x ELSE s[i]]
        <3>1. s \in Seq(D) /\ x \in D /\ n = Len(s)
            BY <2>3
        <3> HIDE DEF more, n
        <3> QED
            BY <3>1, AppendIs
    <2>5. ASSUME NEW i \in 1 .. n + 1 PROVE (IF i = n + 1 THEN x ELSE s[i]) = G(i)
        <3>1. CASE i = n + 1
            BY <2>2, <3>1
        <3>2. CASE i # n + 1
            <4>1. i \in 1..n
                BY <1>3, <3>2
            <4> QED
                BY <2>1, <2>2, <3>2, <4>1
        <3> QED
            BY <3>1, <3>2
    <2>6. Append(s, x) = [i \in 1 .. n + 1 |-> G(i)]
        BY <2>4, <2>5, Zenon
    <2> QED
        BY <1>3, <2>6, Zenon DEF G
<1>8. ASSUME l # <<>> PROVE \A i \in 1 .. Len(more) : more[i] # <<>>
    <2>1. p # <<>>
        BY <1>2, <1>8
    <2>2. \A i \in 1..n : parts[i] # <<>>
        BY <1>1, <1>8, Zenon
    <2>3. ASSUME NEW i \in 1 .. n + 1 PROVE more[i] # <<>>
        <3>1. CASE i = n + 1
            BY <1>3, <2>1, <3>1, Zenon
        <3>2. CASE i # n + 1
            <4>1. i \in 1..n
                BY <1>3, <3>2
            <4> QED
                BY <1>3, <2>2, <4>1, Zenon
        <3> QED
            BY <3>1, <3>2
    <2> QED
        BY <1>3, <2>3, Zenon
<1> QED
    BY <1>3, <1>6, <1>7, <1>8, Zenon DEF Split, p, x

LEMMA SplitIs ==
    ASSUME NEW key, KeyShaped(key), NEW l \in Seq(Sendable), NEW o \in Nat, NEW s, Split(key, l, o, s)
    PROVE  /\ FlattenSeq([i \in DOMAIN s |-> Held(s[i])]) = SubSeq(l, 1, o)
           /\ l # <<>> => \A i \in DOMAIN s : Held(s[i]) # <<>>
<1>1. PICK parts \in Seq(Seq(Sendable)) :
        /\ s = [i \in 1 .. Len(parts) |-> Datagram(key, parts[i])]
        /\ Joins(FlattenSeq(parts), <<>>, SubSeq(l, 1, o))
        /\ l # <<>> => \A i \in 1 .. Len(parts) : parts[i] # <<>>
    BY Zenon DEF Split
<1> DEFINE n == Len(parts)
           E(i) == Datagram(key, parts[i])
<1>2. s = [i \in 1..n |-> E(i)]
    BY <1>1
<1>3. \A i \in 1..n : parts[i] \in Seq(Sendable)
    OBVIOUS
<1>4. \A i \in 1..n : Held(E(i)) = parts[i]
    BY <1>3, HeldIs, Zenon
<1> HIDE DEF E
<1>5. DOMAIN s = 1..n /\ \A i \in 1..n : s[i] = E(i)
    BY <1>2
<1>6. \A i \in 1..n : Held(s[i]) = parts[i]
    BY <1>4, <1>5, Zenon
<1>7. [i \in DOMAIN s |-> Held(s[i])] = [i \in 1..n |-> parts[i]]
    BY <1>5, <1>6, Zenon
<1>8. [i \in 1..n |-> parts[i]] = parts
    OBVIOUS
<1>9. FlattenSeq(parts) \o <<>> = FlattenSeq(parts)
    <2>1. FlattenSeq(parts) \in Seq(Sendable)
        BY FlattenType
    <2> QED
        BY <2>1, ConcatEmptySeq
<1>10. FlattenSeq([i \in DOMAIN s |-> Held(s[i])]) = SubSeq(l, 1, o)
    BY <1>1, <1>7, <1>8, <1>9, Zenon DEF Joins
<1> QED
    BY <1>1, <1>5, <1>6, <1>10, Zenon

ListingInv ==
    /\ list \in Seq(Sendable) /\ offset \in 0 .. Len(list)
    /\ stage \in {"ask", "query", "sending", "sent", "exit", "ignored", "send_error"}
    /\ stage \in {"ask", "query"} => list = <<>> /\ offset = 0 /\ sent = <<>>
    /\ stage = "sending" /\ list # <<>> => offset < Len(list)
    /\ stage = "sent" => offset = Len(list)
    /\ Split(KeyRead, list, offset, sent)

LEMMA ListsAreSendable ==
    ASSUME NEW query, NEW l \in Orders(Selected(query))
    PROVE  l \in Seq(Sendable) /\ ToSet(l) = Selected(query)
<1> DEFINE F == Selected(query)
<1>1. \A a \in DOMAIN GameServers \cup {UpdateAddr} : a \in Sendable
    BY ListingAssumption, Zenon DEF Sendable, Wide
<1>2. F \subseteq DOMAIN GameServers \cup {UpdateAddr} /\ IsFiniteSet(F)
    <2>1. IsFiniteSet(DOMAIN GameServers)
        BY ListingAssumption
    <2>2. CASE F = Filtered(query)
        <3>1. Filtered(query) \in SUBSET DOMAIN GameServers
            BY Zenon DEF Filtered
        <3>2. IsFiniteSet(Filtered(query))
            BY <2>1, <3>1, FS_Subset
        <3> QED
            BY <2>2, <3>1, <3>2, Zenon
    <2>3. CASE F = {UpdateAddr}
        <3>1. IsFiniteSet({UpdateAddr})
            BY FS_Singleton
        <3> QED
            BY <2>3, <3>1, Zenon
    <2> QED
        BY <2>2, <2>3, Zenon DEF Selected
<1> DEFINE n == Cardinality(F)
<1>3. l \in [1..n -> F] /\ ToSet(l) = F /\ F \subseteq Sendable
    BY <1>1, <1>2, Zenon DEF Orders
<1>4. n \in Nat
    <2> HIDE DEF F
    <2> QED
        BY <1>2, FS_CardinalityType
<1> HIDE DEF n, F
<1>5. l \in Seq(F)
    BY <1>3, <1>4, FunctionSeq
<1> QED
    BY <1>3, <1>5, SeqMonotonic DEF F

LEMMA ListingStarts == ListingInit => ListingInv
<1> SUFFICES ASSUME ListingInit PROVE ListingInv
    OBVIOUS
<1>1. list = <<>> /\ offset = 0 /\ sent = <<>> /\ stage = "ask"
    BY DEF ListingInit
<1>2. list \in Seq(Sendable) /\ Len(list) = 0
    BY <1>1
<1>3. Split(KeyRead, list, 0, <<>>)
    BY <1>2, SplitStart
<1> QED
    BY <1>1, <1>2, <1>3 DEF ListingInv

LEMMA KeyReadKept ==
    ASSUME question' = question
    PROVE  KeyRead' = KeyRead
BY Zenon DEF KeyRead

LEMMA AskKeeps ==
    ASSUME ListingInv, NEW a, Ask(a)
    PROVE  ListingInv'
<1>1. list' = <<>> /\ offset' = 0 /\ sent' = <<>> /\ stage' \in {"query", "exit"}
    BY Zenon DEF ListingInv, Ask
<1>2. list' \in Seq(Sendable) /\ Len(list') = 0
    BY <1>1
<1>3. Split(KeyRead', list', 0, <<>>)
    BY <1>2, SplitStart
<1> QED
    BY <1>1, <1>2, <1>3 DEF ListingInv

LEMMA AnswerKeeps ==
    ASSUME ListingInv, Answer
    PROVE  ListingInv'
<1>1. list = <<>> /\ offset' = 0 /\ sent' = <<>>
    BY Zenon DEF ListingInv, Answer
<1>2. \/ stage' = "sending" /\ \E query : list' \in Orders(Selected(query))
      \/ stage' = "ignored" /\ list' = list
    BY Zenon DEF Answer
<1>3. list' \in Seq(Sendable)
    <2>1. ASSUME NEW query, list' \in Orders(Selected(query)) PROVE list' \in Seq(Sendable)
        BY <2>1, ListsAreSendable
    <2>2. <<>> \in Seq(Sendable)
        OBVIOUS
    <2> QED
        BY <1>1, <1>2, <2>1, <2>2, Zenon
<1>4. Split(KeyRead', list', 0, <<>>)
    BY <1>3, SplitStart
<1>5. Len(list') \in Nat /\ (list' # <<>> => 0 < Len(list'))
    BY <1>3
<1> QED
    BY <1>1, <1>2, <1>3, <1>4, <1>5 DEF ListingInv

LEMMA SendPartKeeps ==
    ASSUME ListingInv, SendPart
    PROVE  ListingInv'
<1> DEFINE key == KeyRead
           rest == After(offset, list)
           c == CountThatFits(key, rest, Mtu, AddressWidth)
           p == SubSeq(rest, 1, c)
<1>0. stage = "sending" /\ SendFirstOf(key, rest) /\ list' = list /\ question' = question
    BY DEF SendPart
<1>1. /\ list \in Seq(Sendable) /\ offset \in Nat /\ offset <= Len(list) /\ Len(list) \in Nat
      /\ (list # <<>> => offset < Len(list)) /\ Split(key, list, offset, sent)
    BY <1>0 DEF ListingInv
<1>2. KeyShaped(key) /\ AddressWidth \in {6, 18} /\ Mtu \in Nat /\ Mtu >= 12 + 2 * AddressWidth
    BY KeyReadShape, WidthIs
<1>3. Len(ListHead(key)) \in Nat /\ Len(ListHead(key)) <= 12
    BY <1>2, KeyShape, ListHeadIs
<1>4. rest \in Seq(Sendable) /\ Len(rest) = Len(list) - offset
    BY <1>1, NextPart
<1> HIDE DEF key, rest
<1>5. /\ c \in 0 .. Len(rest) /\ Len(ListHead(key)) + (c + 1) * AddressWidth <= Mtu
      /\ rest # <<>> => c >= 1
    BY <1>2, <1>3, <1>4, CountIs
<1> HIDE DEF c
<1>6. c \in Nat /\ offset + c <= Len(list) /\ (list # <<>> => c >= 1)
    BY <1>1, <1>4, <1>5
<1>7. p \in Seq(Sendable) /\ Len(p) = c
    BY <1>1, <1>6, NextPart DEF rest
<1> HIDE DEF p
<1>8. Len(Datagram(key, p)) = Len(ListHead(key)) + (c + 1) * AddressWidth
    BY <1>2, <1>7, DatagramIs
<1>9. EncodeList(key, rest, Mtu, AddressWidth) = Read(Datagram(key, p), <<>>)
    <2>1. Len(Datagram(key, p)) <= Mtu
        BY <1>5, <1>8
    <2>2. EncodeList(key, rest, Mtu, AddressWidth) = Encoded(Datagram(key, p), Mtu)
        BY Zenon DEF EncodeList, Datagram, p, c
    <2> QED
        BY <2>1, <2>2, Zenon DEF Encoded
<1>10. /\ sent' = Append(sent, Datagram(key, p)) /\ offset' = offset + c
       /\ stage' = IF offset' >= Len(list) THEN "sent" ELSE "sending"
    <2>1. /\ IsOk(EncodeList(key, rest, Mtu, AddressWidth))
          /\ EncodeList(key, rest, Mtu, AddressWidth).val = Datagram(key, p)
        BY <1>9, ReadIs
    <2> QED
        BY <1>0, <2>1, Zenon DEF SendFirstOf, c
<1>11. Split(key, list, offset + c, Append(sent, Datagram(key, p)))
    BY <1>1, <1>6, SplitAppend DEF p, rest
<1>12. KeyRead' = key
    BY <1>0, KeyReadKept DEF key
<1>13. Split(KeyRead', list', offset', sent')
    BY <1>0, <1>10, <1>11, <1>12, Zenon
<1>14. offset' \in 0 .. Len(list)
    BY <1>1, <1>6, <1>10
<1> QED
    BY <1>0, <1>1, <1>10, <1>13, <1>14 DEF ListingInv

LEMMA OthersKeep ==
    ASSUME ListingInv, UNCHANGED <<question, list, offset, sent>>,
           stage' = stage \/ (stage = "sending" /\ stage' = "send_error")
    PROVE  ListingInv'
<1>1. KeyRead' = KeyRead
    BY KeyReadKept, Zenon
<1> QED
    BY <1>1 DEF ListingInv

LEMMA ListingSplits == ListingInv => SplitKeepsTheList
<1> SUFFICES ASSUME ListingInv PROVE SplitKeepsTheList
    OBVIOUS
<1>1. /\ list \in Seq(Sendable) /\ offset \in Nat /\ Split(KeyRead, list, offset, sent) /\ stage # "failed"
      /\ stage = "sent" => offset = Len(list)
    BY DEF ListingInv
<1>2. /\ FlattenSeq([i \in DOMAIN sent |-> Held(sent[i])]) = SubSeq(list, 1, offset)
      /\ list # <<>> => \A i \in DOMAIN sent : Held(sent[i]) # <<>>
    BY <1>1, KeyReadShape, SplitIs
<1> QED
    BY <1>1, <1>2, Zenon DEF SplitKeepsTheList

LEMMA ListingKeeps == ListingInv /\ [ListingNext]_listingVars => ListingInv'
<1> SUFFICES ASSUME ListingInv, [ListingNext]_listingVars PROVE ListingInv'
    OBVIOUS
<1>1. ASSUME NEW a \in Asks, Ask(a) PROVE ListingInv'
    BY <1>1, AskKeeps
<1>2. CASE Answer
    BY <1>2, AnswerKeeps
<1>3. CASE SendPart
    BY <1>3, SendPartKeeps
<1>4. CASE SendFails
    BY <1>4, OthersKeep DEF SendFails
<1>5. ASSUME NEW d, ToolReceive(d) PROVE ListingInv'
    BY <1>5, OthersKeep DEF ToolReceive
<1>6. CASE UNCHANGED listingVars
    BY <1>6, OthersKeep DEF listingVars
<1> QED
    BY <1>1, <1>2, <1>3, <1>4, <1>5, <1>6 DEF ListingNext

\* A list of any length goes over the wire as it is, whatever the order of its servers:
\* every datagram has room for its end, holds a server at least, and together they hold
\* each server once (net/master.rs, QueryServersResponse::encode and its iterator).
THEOREM SplitsKeepTheList == ListingSpec => []SplitKeepsTheList
<1>1. ListingInit => ListingInv
    BY ListingStarts
<1>2. ListingInv /\ [ListingNext]_listingVars => ListingInv'
    BY ListingKeeps
<1>3. ListingInv => SplitKeepsTheList
    BY ListingSplits
<1> QED
    BY <1>1, <1>2, <1>3, PTL DEF ListingSpec

-----------------------------------------------------------------------------
(* What the tool makes of a datagram                                       *)

LEMMA ToSetConcat ==
    ASSUME NEW S, NEW s \in Seq(S), NEW t \in Seq(S)
    PROVE  ToSet(s \o t) = ToSet(s) \cup ToSet(t)
<1> DEFINE u == s \o t
<1>1. /\ u \in Seq(S) /\ Len(u) = Len(s) + Len(t)
      /\ \A i \in 1 .. Len(s) + Len(t) : u[i] = IF i <= Len(s) THEN s[i] ELSE t[i - Len(s)]
    BY ConcatProperties
<1> HIDE DEF u
<1>2. ASSUME NEW x \in ToSet(u) PROVE x \in ToSet(s) \cup ToSet(t)
    <2>1. PICK i \in 1 .. Len(s) + Len(t) : x = u[i]
        BY <1>1 DEF ToSet
    <2>2. CASE i <= Len(s)
        BY <1>1, <2>1, <2>2 DEF ToSet
    <2>3. CASE ~(i <= Len(s))
        <3>1. i - Len(s) \in 1 .. Len(t) /\ x = t[i - Len(s)]
            BY <1>1, <2>1, <2>3
        <3> QED
            BY <3>1 DEF ToSet
    <2> QED
        BY <2>2, <2>3
<1>3. ASSUME NEW x \in ToSet(s) PROVE x \in ToSet(u)
    BY <1>1 DEF ToSet
<1>4. ASSUME NEW x \in ToSet(t) PROVE x \in ToSet(u)
    <2>1. PICK i \in 1 .. Len(t) : x = t[i]
        BY DEF ToSet
    <2> DEFINE j == i + Len(s)
    <2>2. j \in DOMAIN u /\ u[j] = t[i]
        <3>1. j \in 1 .. Len(s) + Len(t) /\ ~(j <= Len(s)) /\ j - Len(s) = i
            OBVIOUS
        <3> HIDE DEF j
        <3>2. DOMAIN u = 1 .. Len(s) + Len(t)
            BY <1>1
        <3> QED
            BY <1>1, <3>1, <3>2, Zenon
    <2> HIDE DEF j
    <2> QED
        BY <2>1, <2>2 DEF ToSet
<1>5. ToSet(u) = ToSet(s) \cup ToSet(t)
    BY <1>2, <1>3, <1>4
<1> QED
    BY <1>5 DEF u

LEMMA FlattenHolds ==
    ASSUME NEW S
    PROVE  \A ss \in Seq(Seq(S)) : \A x :
               x \in ToSet(FlattenSeq(ss)) <=> \E i \in 1 .. Len(ss) : x \in ToSet(ss[i])
<1> DEFINE Good(ss) == \A x : x \in ToSet(FlattenSeq(ss)) <=> \E i \in 1 .. Len(ss) : x \in ToSet(ss[i])
           P == {n \in Nat : \A ss \in Seq(Seq(S)) : Len(ss) = n => Good(ss)}
<1>1. 0 \in P
    <2>1. ASSUME NEW ss \in Seq(Seq(S)), Len(ss) = 0 PROVE Good(ss)
        <3>1. ss = <<>>
            BY <2>1
        <3>2. FlattenSeq(ss) = <<>>
            BY <3>1, FlattenEmpty, Zenon
        <3>3. ToSet(FlattenSeq(ss)) = {}
            BY <3>2 DEF ToSet
        <3> QED
            BY <2>1, <3>3
    <2> QED
        BY <2>1
<1>2. ASSUME NEW n \in Nat, n \in P PROVE n + 1 \in P
    <2>1. ASSUME NEW ss \in Seq(Seq(S)), Len(ss) = n + 1 PROVE Good(ss)
        <3>1. PICK tt \in Seq(Seq(S)), t \in Seq(S) : ss = Append(tt, t)
            <4>1. ss # <<>>
                BY <2>1
            <4> HIDE DEF P, Good
            <4> QED
                BY <4>1, SequenceEmptyOrAppend
        <3>2. Len(tt) = n /\ ss[n + 1] = t /\ \A i \in 1..n : ss[i] = tt[i]
            BY <2>1, <3>1
        <3>3. Good(tt)
            BY <1>2, <3>2
        <3>4. FlattenSeq(ss) = FlattenSeq(tt) \o t /\ FlattenSeq(tt) \in Seq(S)
            BY <3>1, FlattenAppend, FlattenType
        <3>5. ToSet(FlattenSeq(ss)) = ToSet(FlattenSeq(tt)) \cup ToSet(t)
            BY <3>4, ToSetConcat
        <3>6. ASSUME NEW x
              PROVE  (\E i \in 1 .. n + 1 : x \in ToSet(ss[i])) <=> (\E i \in 1..n : x \in ToSet(tt[i])) \/ x \in ToSet(t)
            <4>1. \A i \in 1 .. n + 1 : i \in 1..n \/ i = n + 1
                OBVIOUS
            <4>2. n + 1 \in 1 .. n + 1 /\ \A i \in 1..n : i \in 1 .. n + 1
                OBVIOUS
            <4> HIDE DEF P, Good
            <4> QED
                BY <3>2, <4>1, <4>2, Zenon
        <3> QED
            BY <2>1, <3>2, <3>3, <3>5, <3>6, Zenon
    <2> QED
        BY <2>1
<1> HIDE DEF P
<1>3. \A n \in Nat : n \in P
    BY <1>1, <1>2, SetInduction
<1>4. ASSUME NEW ss \in Seq(Seq(S)) PROVE Good(ss)
    <2>1. Len(ss) \in Nat
        OBVIOUS
    <2>2. Len(ss) \in P
        BY <1>3, <2>1
    <2> QED
        BY <2>2 DEF P
<1> QED
    BY <1>4
-----------------------------------------------------------------------------
(* The tool                                                                *)

IsListPacket(r) == IsOk(r) /\ r.val.kind = "QueryServersResponse"

LEMMA PacketIs ==
    ASSUME NEW kind, NEW body
    PROVE  /\ IsOk(body) => /\ IsOk(Packet(kind, body)) /\ Packet(kind, body).val.kind = kind
                            /\ Packet(kind, body).val.body = body.val
           /\ ~IsOk(body) => ~IsOk(Packet(kind, body))
<1> DEFINE rec == [kind |-> kind, body |-> body.val]
<1>1. rec.kind = kind /\ rec.body = body.val
    OBVIOUS
<1>2. Packet(kind, body) = IF IsOk(body) THEN Read(rec, <<>>) ELSE body
    BY DEF Packet, Then
<1> HIDE DEF rec
<1>3. IsOk(Read(rec, <<>>)) /\ Read(rec, <<>>).val = rec
    BY ReadIs
<1> QED
    BY <1>1, <1>2, <1>3, Zenon

LEMMA KindIs ==
    ASSUME NEW src
    PROVE  Dispatch(MasterOrder, MasterHeaders, src) \in
             {"none", "ChallengeResponse", "QueryServersResponse", "ClientAnnounce", "AdminChallengeResponse"}
<1> DEFINE I == {i \in 1 .. Len(MasterOrder) : StartsWith(src, MasterHeaders[MasterOrder[i]])}
           m == IF I # {} THEN Min(I) ELSE 0
<1>1. Dispatch(MasterOrder, MasterHeaders, src) = IF m = 0 THEN "none" ELSE MasterOrder[m]
    BY Zenon DEF Dispatch, SelectInSeq
<1>2. I \in SUBSET Nat /\ I \subseteq 1..4
    BY DEF MasterOrder
<1>3. m = 0 \/ m \in 1..4
    <2>1. ASSUME I # {} PROVE Min(I) \in I
        <3> HIDE DEF I
        <3>1. \E x \in I : \A y \in I : x <= y
            BY <1>2, <2>1, SmallestOf
        <3> QED
            BY <3>1, Zenon DEF Min
    <2> HIDE DEF I
    <2> QED
        BY <1>2, <2>1
<1> HIDE DEF m
<1> QED
    BY <1>1, <1>3 DEF MasterOrder

\* A list is what DecodeList makes of it, whatever else the datagram could be.
LEMMA ListPacketIs ==
    ASSUME NEW src, IsListPacket(DecodeMaster(src))
    PROVE  DecodeMaster(src).val.body = DecodeList(src).val
<1> DEFINE kind == Dispatch(MasterOrder, MasterHeaders, src)
           body == After(Len(MasterHeaders[kind]), src)
           a == DecodeChallengeResponse(body)
           b == DecodeList(src)
           c == ParseAddress(body)
           d == ExpectEmpty(GetLayout(AdminChallengeLayout, body))
<1>1. kind \in {"none", "ChallengeResponse", "QueryServersResponse", "ClientAnnounce", "AdminChallengeResponse"}
    BY KindIs
<1>2. DecodeMaster(src) =
         CASE kind = "none" -> Fail(<<"UndefinedPacket">>)
           [] kind = "ChallengeResponse" -> Packet(kind, a)
           [] kind = "QueryServersResponse" -> Packet(kind, b)
           [] kind = "ClientAnnounce" -> Packet(kind, c)
           [] kind = "AdminChallengeResponse" -> Packet(kind, d)
    BY Zenon DEF DecodeMaster
<1>3. ~IsOk(Fail(<<"UndefinedPacket">>))
    BY DEF IsOk, Fail, NoError
<1> HIDE DEF kind, a, b, c, d
<1>4. kind = "QueryServersResponse"
    BY <1>1, <1>2, <1>3, PacketIs DEF IsListPacket
<1>5. DecodeMaster(src) = Packet(kind, b)
    BY <1>2, <1>4
<1>6. IsOk(DecodeMaster(src))
    BY DEF IsListPacket
<1>7. /\ IsOk(b) => Packet(kind, b).val.body = b.val
      /\ ~IsOk(b) => ~IsOk(Packet(kind, b))
    BY PacketIs
<1>8. Packet(kind, b).val.body = b.val
    BY <1>5, <1>6, <1>7, Zenon
<1> QED
    BY <1>5, <1>8, Zenon DEF b

LEMMA DatagramStarts ==
    ASSUME NEW key, KeyShaped(key), NEW ss \in Seq(Sendable)
    PROVE  Dispatch(MasterOrder, MasterHeaders, Datagram(key, ss)) = "QueryServersResponse"
<1> DEFINE src == Datagram(key, ss)
           T == KeyTokens(key)
           I == {i \in 1 .. Len(MasterOrder) : StartsWith(src, MasterHeaders[MasterOrder[i]])}
<1>1. src \in Seq(T) /\ ListToken(T) /\ IsKey(T, key)
    BY DatagramIs, KeyShape
<1>2. IsPrefix(ListHeader, src) /\ src[5] = "f"
    <2> DEFINE h == ListHeader
               k == KeyPart(key)
               f == FlattenSeq(ss)
               z == Zeros(AddressWidth)
               r == (k \o f) \o z
    <2>1. h \in Seq(T) /\ Len(h) = 6 /\ k \in Seq(T)
        BY <1>1, ListHeaderIs, KeyPartType
    <2>2. f \in Seq(T) /\ z \in Seq(T)
        <3>1. AddressWidth \in {6, 18} /\ AddressWidth \in Nat
            BY WidthIs
        <3>2. Sendable \subseteq Wide(Octets, AddressWidth) /\ Octets \subseteq T
            BY <1>1, Zenon DEF Sendable, ListToken
        <3>3. ss \in Seq(Wide(Octets, AddressWidth))
            BY <3>2, SeqMonotonic
        <3>4. f \in Seq(Octets) /\ z \in Seq(Octets)
            BY <3>1, <3>3, SomeOctets, Chunks, ZerosAre
        <3> HIDE DEF f, z
        <3> QED
            BY <3>2, <3>4, SeqMonotonic
    <2>3. src = ((h \o k) \o f) \o z
        BY Zenon DEF Datagram, ListHead, KeyPart
    <2>4. ListHeader[5] = "f"
        BY DEF ListHeader, OutOfBand
    <2> HIDE DEF h, k, f, z, src
    <2>5. ((h \o k) \o f) \o z = h \o r /\ r \in Seq(T)
        <3>1. Regrouped(h, k, f) /\ k \o f \in Seq(T)
            BY <2>1, <2>2, Regroup
        <3>2. (h \o k) \o f = h \o (k \o f)
            BY <3>1, Zenon DEF Regrouped
        <3> DEFINE g == k \o f
        <3>0. g \in Seq(T)
            BY <3>1
        <3> HIDE DEF g, T
        <3>3. Regrouped(h, g, z) /\ g \o z \in Seq(T)
            BY <2>1, <2>2, <3>0, Regroup
        <3> QED
            BY <3>2, <3>3, Zenon DEF Regrouped, g
    <2>6. r \in Seq(T)
        BY <2>5
    <2> HIDE DEF r
    <2>7. IsPrefix(h, h \o r)
        BY <2>1, <2>6, FrontAndRest
    <2>8. (h \o r)[5] = h[5]
        <3>1. 5 \in 1 .. Len(h)
            BY <2>1
        <3> HIDE DEF T
        <3>2. \A i \in 1 .. Len(h) : (h \o r)[i] = h[i]
            BY <2>1, <2>6, ConcatFront
        <3> QED
            BY <3>1, <3>2, Zenon
    <2> QED
        BY <2>3, <2>4, <2>5, <2>7, <2>8, Zenon DEF h
<1> HIDE DEF src
<1>3. MasterOrder[1] = "ChallengeResponse" /\ MasterOrder[2] = "QueryServersResponse" /\ Len(MasterOrder) = 4
    BY DEF MasterOrder
<1>4. /\ MasterHeaders["QueryServersResponse"] = ListHeader
      /\ MasterHeaders["ChallengeResponse"] = OutOfBand \o <<"s", "\n">>
    BY DEF MasterHeaders
<1>5. 2 \in I
    BY <1>2, <1>3, <1>4 DEF StartsWith
<1>6. 1 \notin I
    <2> DEFINE c == OutOfBand \o <<"s", "\n">>
    <2>1. c[5] = "s" /\ Len(c) = 6 /\ c \in Seq({FF, "s", "\n"})
        BY DEF OutOfBand
    <2>2. "s" # "f"
        OBVIOUS
    <2> HIDE DEF c
    <2>3. ASSUME IsPrefix(c, src) PROVE FALSE
        <3>1. Len(c) <= Len(src) /\ SubSeq(c, 1, Len(c)) = SubSeq(src, 1, Len(c))
            BY <2>3, Zenon DEF IsPrefix
        <3>2. SubSeq(c, 1, Len(c))[5] = c[5]
            BY <2>1
        <3>3. SubSeq(src, 1, Len(c))[5] = src[5]
            BY <1>1, <2>1, <3>1 DEF src
        <3> QED
            BY <1>2, <2>1, <2>2, <3>1, <3>2, <3>3, Zenon
    <2> QED
        BY <1>3, <1>4, <2>3, Zenon DEF StartsWith, c
<1>7. Min(I) = 2
    <2>1. I \subseteq 1..4
        BY <1>3
    <2> HIDE DEF I
    <2>2. \A y \in I : 2 <= y /\ y \in Nat
        BY <1>6, <2>1
    <2> QED
        BY <1>5, <2>2 DEF Min
<1>8. Dispatch(MasterOrder, MasterHeaders, src) =
        LET i == IF I # {} THEN Min(I) ELSE 0 IN IF i = 0 THEN "none" ELSE MasterOrder[i]
    BY Zenon DEF Dispatch, SelectInSeq
<1> HIDE DEF I
<1>9. Dispatch(MasterOrder, MasterHeaders, src) = MasterOrder[2]
    BY <1>5, <1>7, <1>8
<1> QED
    BY <1>3, <1>9 DEF src

LEMMA DatagramRead ==
    ASSUME NEW key, KeyShaped(key), NEW ss \in Seq(Sendable)
    PROVE  /\ IsListPacket(DecodeMaster(Datagram(key, ss)))
           /\ DecodeMaster(Datagram(key, ss)).val.body.key = key
           /\ ListAddresses(DecodeMaster(Datagram(key, ss)).val.body.inner, AddressWidth) = ss
<1> DEFINE src == Datagram(key, ss)
           b == DecodeList(src)
<1>1. PICK inner : b = Read([key |-> key, inner |-> inner], <<>>) /\ ListAddresses(inner, AddressWidth) = ss
    BY DatagramIs
<1>2. IsOk(b) /\ b.val = [key |-> key, inner |-> inner]
    BY <1>1, ReadIs
<1>3. b.val.key = key /\ b.val.inner = inner
    BY <1>2
<1>4. Dispatch(MasterOrder, MasterHeaders, src) = "QueryServersResponse"
    BY DatagramStarts
<1> HIDE DEF src
<1>5. DecodeMaster(src) = Packet("QueryServersResponse", b)
    BY <1>4 DEF DecodeMaster
<1> HIDE DEF b
<1>6. IsListPacket(DecodeMaster(src)) /\ DecodeMaster(src).val.body = b.val
    <2> DEFINE kind == "QueryServersResponse"
    <2> HIDE DEF kind
    <2>1. IsOk(b) => /\ IsOk(Packet(kind, b)) /\ Packet(kind, b).val.kind = kind
                     /\ Packet(kind, b).val.body = b.val
        BY PacketIs
    <2> QED
        BY <1>2, <1>5, <2>1, Zenon DEF IsListPacket, kind
<1> QED
    BY <1>1, <1>3, <1>6, Zenon DEF src

-----------------------------------------------------------------------------
(* From the list to what is shown                                          *)

Quiet == {"ask", "query", "exit", "ignored"}

\* The list is what the user means, the tool shows nothing else, and everything of each
\* datagram it has heard.
TransferInv ==
    /\ ListingInv
    /\ heard \subseteq ToSet(sent) \cup StrayLists
    /\ stage \in Quiet => sent = <<>> /\ shown = {}
    /\ stage \notin Quiet => KeyRead = LittleEndian(4, QueryKey) /\ ToSet(list) = Meant(ask)
    /\ shown \subseteq ToSet(list)
    /\ \A d \in ToSet(sent) \cap heard : ToSet(Held(d)) \subseteq shown

LEMMA PartsHold ==
    ASSUME NEW parts \in Seq(Seq(Sendable)), NEW l \in Seq(Sendable), NEW o \in 0 .. Len(l),
           Joins(FlattenSeq(parts), <<>>, SubSeq(l, 1, o))
    PROVE  /\ \A i \in 1 .. Len(parts) : ToSet(parts[i]) \subseteq ToSet(l)
           /\ o = Len(l) => \A x \in ToSet(l) : \E i \in 1 .. Len(parts) : x \in ToSet(parts[i])
<1> DEFINE f == FlattenSeq(parts)
           u == SubSeq(l, 1, o)
<1>1. f \in Seq(Sendable) /\ f \o <<>> = f
    <2>1. f \in Seq(Sendable)
        BY FlattenType
    <2> HIDE DEF f
    <2> QED
        BY <2>1, ConcatEmptySeq
<1>2. f = u
    BY <1>1, Zenon DEF Joins
<1>3. \A x : x \in ToSet(f) <=> \E i \in 1 .. Len(parts) : x \in ToSet(parts[i])
    BY FlattenHolds
<1>4. u \in Seq(Sendable) /\ Len(u) = o /\ \A i \in 1..o : u[i] = l[i]
    BY SubSeqProperties
<1> HIDE DEF f, u
<1>5. ToSet(u) \subseteq ToSet(l) /\ (o = Len(l) => ToSet(l) \subseteq ToSet(u))
    BY <1>4 DEF ToSet
<1> QED
    BY <1>2, <1>3, <1>5, Zenon

LEMMA SplitSends ==
    ASSUME NEW key, NEW l, NEW o, NEW s, Split(key, l, o, s), NEW d \in ToSet(s)
    PROVE  \E ss \in Seq(Sendable) : d = Datagram(key, ss)
<1>1. PICK parts \in Seq(Seq(Sendable)) : s = [i \in 1 .. Len(parts) |-> Datagram(key, parts[i])]
    BY Zenon DEF Split
<1> DEFINE n == Len(parts)
<1>2. \A i \in 1..n : parts[i] \in Seq(Sendable)
    OBVIOUS
<1> HIDE DEF n
<1>3. PICK i \in 1..n : d = Datagram(key, parts[i])
    BY <1>1, Zenon DEF ToSet, n
<1> QED
    BY <1>2, <1>3, Zenon

\* Every datagram sent is one of the list with the key that was read, and together they
\* hold what was sent of it.
LEMMA SentIs ==
    ASSUME ListingInv
    PROVE  /\ \A d \in ToSet(sent) :
                 \E ss \in Seq(Sendable) : d = Datagram(KeyRead, ss) /\ ToSet(ss) \subseteq ToSet(list)
           /\ stage = "sent" => \A x \in ToSet(list) : \E d \in ToSet(sent) : x \in ToSet(Held(d))
<1> DEFINE key == KeyRead
<1>1. /\ list \in Seq(Sendable) /\ offset \in 0 .. Len(list) /\ Split(key, list, offset, sent)
      /\ stage = "sent" => offset = Len(list)
    BY DEF ListingInv
<1>2. KeyShaped(key)
    BY KeyReadShape
<1> HIDE DEF key
<1>3. PICK parts \in Seq(Seq(Sendable)) :
        /\ sent = [i \in 1 .. Len(parts) |-> Datagram(key, parts[i])]
        /\ Joins(FlattenSeq(parts), <<>>, SubSeq(list, 1, offset))
    BY <1>1, Zenon DEF Split
<1> DEFINE n == Len(parts)
           E(i) == Datagram(key, parts[i])
<1>4. sent = [i \in 1..n |-> E(i)] /\ \A i \in 1..n : E(i) = Datagram(key, parts[i])
    BY <1>3
<1>5. \A i \in 1..n : parts[i] \in Seq(Sendable)
    OBVIOUS
<1>6. \A i \in 1..n : Held(E(i)) = parts[i]
    BY <1>2, <1>5, HeldIs, Zenon
<1> HIDE DEF E
<1>7. DOMAIN sent = 1..n /\ \A i \in 1..n : sent[i] = E(i)
    BY <1>4
<1>8. /\ \A i \in 1..n : ToSet(parts[i]) \subseteq ToSet(list)
      /\ offset = Len(list) => \A x \in ToSet(list) : \E i \in 1..n : x \in ToSet(parts[i])
    BY <1>1, <1>3, PartsHold
<1> HIDE DEF n
<1>9. ASSUME NEW d \in ToSet(sent)
      PROVE  \E ss \in Seq(Sendable) : d = Datagram(key, ss) /\ ToSet(ss) \subseteq ToSet(list)
    <2>1. PICK i \in 1..n : d = E(i)
        BY <1>7, Zenon DEF ToSet
    <2> QED
        BY <1>4, <1>5, <1>8, <2>1, Zenon
<1>10. ASSUME stage = "sent", NEW x \in ToSet(list) PROVE \E d \in ToSet(sent) : x \in ToSet(Held(d))
    <2>1. PICK i \in 1..n : x \in ToSet(parts[i])
        BY <1>1, <1>8, <1>10, Zenon
    <2>2. E(i) \in ToSet(sent)
        BY <1>7, <2>1, Zenon DEF ToSet
    <2> QED
        BY <1>6, <2>1, <2>2, Zenon
<1> QED
    BY <1>9, <1>10, Zenon DEF key

LEMMA OwnIs ==
    ASSUME NEW d, d \in StrayLists
    PROVE  ~(IsListPacket(DecodeMaster(d)) /\ OwnList(DecodeMaster(d).val.body))
<1> SUFFICES ASSUME IsListPacket(DecodeMaster(d)), OwnList(DecodeMaster(d).val.body) PROVE FALSE
    OBVIOUS
<1>1. DecodeMaster(d).val.body = DecodeList(d).val
    BY ListPacketIs
<1>2. DecodeList(d).val.key # LittleEndian(4, QueryKey)
    BY StrayAssumption
<1> QED
    BY <1>1, <1>2, Zenon DEF OwnList

LEMMA SentIsOwn ==
    ASSUME TransferInv, NEW d \in ToSet(sent)
    PROVE  /\ d \notin StrayLists
           /\ IsListPacket(DecodeMaster(d)) /\ OwnList(DecodeMaster(d).val.body)
           /\ ListAddresses(DecodeMaster(d).val.body.inner, AddressWidth) = Held(d)
           /\ ToSet(Held(d)) \subseteq ToSet(list)
<1>1. PICK ss \in Seq(Sendable) : d = Datagram(KeyRead, ss) /\ ToSet(ss) \subseteq ToSet(list)
    BY SentIs DEF TransferInv
<1>2. stage \notin Quiet
    <2>1. ToSet(<<>>) = {}
        BY DEF ToSet
    <2> QED
        BY <2>1, Zenon DEF TransferInv
<1>3. KeyRead = LittleEndian(4, QueryKey)
    BY <1>2, Zenon DEF TransferInv
<1> DEFINE key == KeyRead
<1>4. KeyShaped(key)
    BY KeyReadShape
<1> HIDE DEF key
<1>5. /\ IsListPacket(DecodeMaster(Datagram(key, ss)))
      /\ DecodeMaster(Datagram(key, ss)).val.body.key = key
      /\ ListAddresses(DecodeMaster(Datagram(key, ss)).val.body.inner, AddressWidth) = ss
    BY <1>4, DatagramRead
<1>6. Held(Datagram(key, ss)) = ss
    BY <1>4, HeldIs
<1>7. IsListPacket(DecodeMaster(d)) /\ OwnList(DecodeMaster(d).val.body)
    BY <1>1, <1>3, <1>5, Zenon DEF OwnList, key
<1>8. d \notin StrayLists
    BY <1>7, OwnIs, Zenon
<1> QED
    BY <1>1, <1>5, <1>6, <1>7, <1>8, Zenon DEF key

LEMMA TransferStarts == ListingInit => TransferInv
<1> SUFFICES ASSUME ListingInit PROVE TransferInv
    OBVIOUS
<1>1. ListingInv
    BY ListingStarts
<1>2. stage = "ask" /\ sent = <<>> /\ shown = {} /\ heard = {}
    BY DEF ListingInit
<1> QED
    BY <1>1, <1>2, Zenon DEF TransferInv, Quiet

LEMMA AskTransfers ==
    ASSUME TransferInv, NEW a, Ask(a), ListingInv'
    PROVE  TransferInv'
<1>1. stage = "ask" /\ stage' \in {"query", "exit"} /\ UNCHANGED <<list, sent, heard, shown>>
    BY Zenon DEF Ask
<1>2. stage \in Quiet /\ stage' \in Quiet
    BY <1>1 DEF Quiet
<1> QED
    BY <1>1, <1>2, Zenon DEF TransferInv

LEMMA AnswerTransfers ==
    ASSUME TransferInv, ReadAsMeant, Answer, ListingInv'
    PROVE  TransferInv'
<1> DEFINE read == DecodeAtMaster(HashLen, question)
<1>1. stage = "query" /\ UNCHANGED <<ask, question, sent, heard, shown>>
    BY Zenon DEF Answer
<1>2. sent = <<>> /\ shown = {}
    BY <1>1, Zenon DEF TransferInv, Quiet
<1>3. KeyRead' = KeyRead
    BY <1>1, KeyReadKept
<1>4. ToSet(sent) = {}
    BY <1>2 DEF ToSet
<1>5. CASE ~IsOk(read)
    <2>1. stage' = "ignored" /\ list' = list
        BY <1>5, Zenon DEF Answer
    <2>2. stage' \in Quiet
        BY <2>1 DEF Quiet
    <2> QED
        BY <1>1, <1>2, <1>4, <2>1, <2>2, Zenon DEF TransferInv
<1>6. CASE IsOk(read)
    <2>1. stage' = "sending" /\ list' \in Orders(Selected(read.val.body))
        BY <1>6, Zenon DEF Answer
    <2>2. Selected(read.val.body) = Meant(ask) /\ KeyRead = LittleEndian(4, QueryKey)
        BY <1>1, <1>6, Zenon DEF ReadAsMeant
    <2>3. ToSet(list') = Selected(read.val.body)
        <3> DEFINE query == read.val.body
        <3> HIDE DEF read, query
        <3>1. list' \in Orders(Selected(query))
            BY <2>1 DEF query
        <3> QED
            BY <3>1, ListsAreSendable DEF query
    <2>4. stage' \notin Quiet
        BY <2>1 DEF Quiet
    <2>5. ToSet(list') = Meant(ask')
        BY <1>1, <2>2, <2>3, Zenon
    <2> QED
        BY <1>1, <1>2, <1>3, <1>4, <2>2, <2>4, <2>5, Zenon DEF TransferInv
<1> QED
    BY <1>5, <1>6

LEMMA SendPartTransfers ==
    ASSUME TransferInv, SendPart, ListingInv'
    PROVE  TransferInv'
<1>1. stage = "sending" /\ UNCHANGED <<ask, question, list, heard, shown>> /\ KeyRead' = KeyRead
    BY KeyReadKept, Zenon DEF SendPart
<1>2. stage \notin Quiet /\ stage' \notin Quiet
    <2>1. stage' \in {"sent", "sending", "failed"}
        BY Zenon DEF SendPart, SendFirstOf
    <2> QED
        BY <1>1, <2>1 DEF Quiet
<1>3. ToSet(sent) \subseteq ToSet(sent')
    <2>1. \/ sent' = sent
          \/ \E x : sent' = Append(sent, x)
        BY Zenon DEF SendPart, SendFirstOf
    <2>2. sent \in Seq(ToSet(sent))
        <3>1. Split(KeyRead, list, offset, sent)
            BY Zenon DEF TransferInv, ListingInv
        <3>2. PICK parts \in Seq(Seq(Sendable)) : sent = [i \in 1 .. Len(parts) |-> Datagram(KeyRead, parts[i])]
            BY <3>1, Zenon DEF Split
        <3> DEFINE n == Len(parts)
                   E(i) == Datagram(KeyRead, parts[i])
        <3>3. n \in Nat /\ sent = [i \in 1..n |-> E(i)]
            BY <3>2
        <3> HIDE DEF n, E
        <3>4. sent \in [1..n -> ToSet(sent)]
            BY <3>3, Zenon DEF ToSet
        <3> QED
            BY <3>3, <3>4, FunctionSeq
    <2>3. ASSUME NEW x, sent' = Append(sent, x) PROVE ToSet(sent) \subseteq ToSet(sent')
        <3> DEFINE S == ToSet(sent) \cup {x}
        <3>1. sent \in Seq(S) /\ x \in S
            BY <2>2, SeqMonotonic
        <3> HIDE DEF S
        <3>2. /\ Len(sent') = Len(sent) + 1 /\ sent' \in Seq(S)
              /\ \A i \in 1 .. Len(sent) : sent'[i] = sent[i]
            BY <2>3, <3>1, AppendProperties
        <3> QED
            BY <3>1, <3>2 DEF ToSet
    <2> QED
        BY <2>1, <2>3
<1>4. /\ KeyRead' = LittleEndian(4, QueryKey) /\ ToSet(list') = Meant(ask')
      /\ heard' \subseteq ToSet(sent') \cup StrayLists /\ shown' \subseteq ToSet(list')
    BY <1>1, <1>2, <1>3, Zenon DEF TransferInv
<1>5. ASSUME NEW d \in ToSet(sent') \cap heard' PROVE ToSet(Held(d)) \subseteq shown'
    <2>1. PICK ss \in Seq(Sendable) : d = Datagram(KeyRead', ss)
        <3>1. Split(KeyRead', list', offset', sent')
            BY DEF ListingInv
        <3> DEFINE k == KeyRead'
                   s == sent'
        <3>2. Split(k, list', offset', s) /\ d \in ToSet(s)
            BY <1>5, <3>1
        <3> HIDE DEF k, s
        <3>3. \E ss \in Seq(Sendable) : d = Datagram(k, ss)
            BY <3>2, SplitSends
        <3> QED
            BY <3>3 DEF k
    <2> DEFINE key == KeyRead
    <2>2. KeyShaped(key) /\ d = Datagram(key, ss) /\ key = LittleEndian(4, QueryKey)
        BY <1>1, <1>4, <2>1, KeyReadShape
    <2> HIDE DEF key
    <2>3. IsListPacket(DecodeMaster(d)) /\ OwnList(DecodeMaster(d).val.body)
        <3>1. /\ IsListPacket(DecodeMaster(Datagram(key, ss)))
              /\ DecodeMaster(Datagram(key, ss)).val.body.key = key
            BY <2>2, DatagramRead
        <3> QED
            BY <2>2, <3>1, Zenon DEF OwnList
    <2>4. d \notin StrayLists
        BY <2>3, OwnIs, Zenon
    <2>5. d \in ToSet(sent) \cap heard
        BY <1>1, <1>5, <2>4, Zenon DEF TransferInv
    <2> QED
        BY <1>1, <2>5, Zenon DEF TransferInv
<1> QED
    BY <1>2, <1>4, <1>5, Zenon DEF TransferInv

LEMMA ReceiveTransfers ==
    ASSUME TransferInv, NEW d \in ToSet(sent) \cup StrayLists, ToolReceive(d), ListingInv'
    PROVE  TransferInv'
<1> DEFINE packet == DecodeMaster(d)
           own == IsListPacket(packet) /\ OwnList(packet.val.body)
           new == ToSet(ListAddresses(packet.val.body.inner, AddressWidth))
<1>1. /\ UNCHANGED <<ask, question, stage, list, sent>> /\ KeyRead' = KeyRead
      /\ heard' = heard \cup {d} /\ shown' = IF own THEN shown \cup new ELSE shown
    BY KeyReadKept, Zenon DEF ToolReceive, IsListPacket
<1>2. CASE d \in ToSet(sent)
    <2>1. own /\ new = ToSet(Held(d)) /\ ToSet(Held(d)) \subseteq ToSet(list)
        BY <1>2, SentIsOwn
    <2>2. stage \notin Quiet
        <3>1. ToSet(<<>>) = {}
            BY DEF ToSet
        <3> QED
            BY <1>2, <3>1, Zenon DEF TransferInv
    <2> HIDE DEF own, new
    <2>3. shown' = shown \cup ToSet(Held(d))
        BY <1>1, <2>1, Zenon
    <2> QED
        BY <1>1, <1>2, <2>1, <2>2, <2>3, Zenon DEF TransferInv
<1>3. CASE d \notin ToSet(sent)
    <2>1. ~own
        BY <1>3, OwnIs
    <2> HIDE DEF own, new
    <2>2. shown' = shown
        BY <1>1, <2>1, Zenon
    <2> QED
        BY <1>1, <1>3, <2>2, Zenon DEF TransferInv
<1> QED
    BY <1>2, <1>3

LEMMA OthersTransfer ==
    ASSUME TransferInv, UNCHANGED <<ask, question, list, offset, sent, heard, shown>>,
           stage' = stage \/ (stage = "sending" /\ stage' = "send_error"), ListingInv'
    PROVE  TransferInv'
<1>1. KeyRead' = KeyRead
    BY KeyReadKept, Zenon
<1>2. stage \in Quiet <=> stage' \in Quiet
    BY DEF Quiet
<1> QED
    BY <1>1, <1>2, Zenon DEF TransferInv

LEMMA TransferKeeps ==
    TransferInv /\ ReadAsMeant /\ [ListingNext]_listingVars => TransferInv'
<1> SUFFICES ASSUME TransferInv, ReadAsMeant, [ListingNext]_listingVars PROVE TransferInv'
    OBVIOUS
<1>0. ListingInv'
    BY ListingKeeps DEF TransferInv
<1>1. ASSUME NEW a \in Asks, Ask(a) PROVE TransferInv'
    BY <1>0, <1>1, AskTransfers
<1>2. CASE Answer
    BY <1>0, <1>2, AnswerTransfers
<1>3. CASE SendPart
    BY <1>0, <1>3, SendPartTransfers
<1>4. CASE SendFails
    BY <1>0, <1>4, OthersTransfer DEF SendFails
<1>5. ASSUME NEW d \in ToSet(sent) \cup StrayLists, ToolReceive(d) PROVE TransferInv'
    BY <1>0, <1>5, ReceiveTransfers
<1>6. CASE UNCHANGED listingVars
    BY <1>0, <1>6, OthersTransfer DEF listingVars
<1> QED
    BY <1>1, <1>2, <1>3, <1>4, <1>5, <1>6 DEF ListingNext

LEMMA TransferShows ==
    ASSUME TransferInv
    PROVE  ShownWasAsked /\ ShownWhenDelivered
<1>1. ShownWasAsked
    BY Zenon DEF TransferInv, ShownWasAsked
<1>2. ASSUME stage = "sent", ToSet(sent) \subseteq heard PROVE Meant(ask) \subseteq shown
    <2>1. stage \notin Quiet
        BY <1>2 DEF Quiet
    <2>2. ToSet(list) = Meant(ask) /\ \A d \in ToSet(sent) : ToSet(Held(d)) \subseteq shown
        BY <1>2, <2>1, Zenon DEF TransferInv
    <2>3. \A x \in ToSet(list) : \E d \in ToSet(sent) : x \in ToSet(Held(d))
        BY <1>2, SentIs DEF TransferInv
    <2> QED
        BY <2>2, <2>3, Zenon
<1> QED
    BY <1>1, <1>2, Zenon DEF ShownWhenDelivered

\* As long as the master server reads the request as it was meant, nothing on the way of
\* the list shows a server that was not asked for: no split, order, repetition or loss
\* of datagrams, and no list of another request (master_server.rs, send_server_list;
\* query_servers.rs, handle_master_packet).
THEOREM OnlyWhatWasAsked == ListingSpec /\ []ReadAsMeant => []ShownWasAsked
<1>1. ListingInit => TransferInv
    BY TransferStarts
<1>2. TransferInv /\ ReadAsMeant /\ [ListingNext]_listingVars => TransferInv'
    BY TransferKeeps
<1>3. TransferInv => ShownWasAsked
    BY TransferShows
<1> QED
    BY <1>1, <1>2, <1>3, PTL DEF ListingSpec

\* Under the same condition every server asked for is shown once every datagram of the
\* list has come, however the list was split and whatever else came with it.
THEOREM AllThatWasAsked == ListingSpec /\ []ReadAsMeant => []ShownWhenDelivered
<1>1. ListingInit => TransferInv
    BY TransferStarts
<1>2. TransferInv /\ ReadAsMeant /\ [ListingNext]_listingVars => TransferInv'
    BY TransferKeeps
<1>3. TransferInv => ShownWhenDelivered
    BY TransferShows
<1> QED
    BY <1>1, <1>2, <1>3, PTL DEF ListingSpec

-----------------------------------------------------------------------------
(* Color codes, and where a text is cut                                    *)

\* What is left of a text, position by position.
LEMMA FromIs ==
    ASSUME NEW S, NEW s \in Seq(S), NEW p \in 0 .. Len(s)
    PROVE  /\ From(p + 1, s) \in Seq(S) /\ Len(From(p + 1, s)) = Len(s) - p
           /\ \A i \in 1 .. Len(s) - p : From(p + 1, s)[i] = s[p + i]
<1> DEFINE t == SubSeq(s, p + 1, Len(s))
<1>1. Len(s) \in Nat /\ p \in Nat
    OBVIOUS
<1>2. t \in Seq(S) /\ Len(t) = Len(s) - p /\ \A i \in 1 .. Len(s) - p : t[i] = s[p + 1 + i - 1]
    BY <1>1, SubSeqProperties
<1> HIDE DEF t
<1>3. \A i \in 1 .. Len(s) - p : p + 1 + i - 1 = p + i
    BY <1>1
<1> QED
    BY <1>2, <1>3 DEF From, t

LEMMA SubIs ==
    ASSUME NEW S, NEW s \in Seq(S), NEW a \in Nat, NEW b \in Nat, b <= Len(s), a <= b
    PROVE  /\ SubSeq(s, a + 1, b) \in Seq(S) /\ Len(SubSeq(s, a + 1, b)) = b - a
           /\ \A i \in 1 .. b - a : SubSeq(s, a + 1, b)[i] = s[a + i]
<1> DEFINE t == SubSeq(s, a + 1, b)
<1>1. t \in Seq(S) /\ Len(t) = b - a /\ \A i \in 1 .. b - a : t[i] = s[a + 1 + i - 1]
    BY SubSeqProperties
<1> HIDE DEF t
<1>2. \A i \in 1 .. b - a : a + 1 + i - 1 = a + i
    OBVIOUS
<1> QED
    BY <1>1, <1>2 DEF t

LEMMA SubFrom ==
    ASSUME NEW S, NEW s \in Seq(S), NEW p \in 0 .. Len(s), NEW a \in Nat, NEW b \in Nat,
           a <= b, p + b <= Len(s)
    PROVE  SubSeq(From(p + 1, s), a + 1, b) = SubSeq(s, (p + a) + 1, p + b)
<1> DEFINE t == From(p + 1, s)
           c == SubSeq(t, a + 1, b)
           d == SubSeq(s, (p + a) + 1, p + b)
           e == p + a
           f == p + b
<1>0. Len(s) \in Nat /\ p \in Nat /\ e \in Nat /\ f \in Nat /\ f <= Len(s) /\ e <= f /\ f - e = b - a
    OBVIOUS
<1>1. t \in Seq(S) /\ Len(t) = Len(s) - p /\ \A i \in 1 .. Len(s) - p : t[i] = s[p + i]
    BY FromIs
<1> HIDE DEF t, c, d, e, f
<1>2. b <= Len(t)
    BY <1>0, <1>1
<1>3. c \in Seq(S) /\ Len(c) = b - a /\ \A i \in 1 .. b - a : c[i] = t[a + i]
    BY <1>1, <1>2, SubIs DEF c
<1>4. d \in Seq(S) /\ Len(d) = b - a /\ \A i \in 1 .. b - a : d[i] = s[e + i]
    BY <1>0, SubIs DEF d, e, f
<1>5. ASSUME NEW i \in 1 .. b - a PROVE c[i] = d[i]
    <2>1. a + i \in 1 .. Len(s) - p /\ p + (a + i) = e + i
        BY <1>0, <1>1, <1>2 DEF e
    <2> QED
        BY <1>1, <1>3, <1>4, <2>1
<1>6. c = d
    BY <1>3, <1>4, <1>5, SeqEqual
<1> QED
    BY <1>6 DEF c, d, t

LEMMA FromFrom ==
    ASSUME NEW S, NEW s \in Seq(S), NEW p \in 0 .. Len(s), NEW a \in Nat, p + a <= Len(s)
    PROVE  From(a + 1, From(p + 1, s)) = From((p + a) + 1, s)
<1> DEFINE t == From(p + 1, s)
           b == Len(t)
<1>1. b = Len(s) - p /\ Len(s) \in Nat /\ p \in Nat
    BY FromIs
<1> HIDE DEF b, t
<1>2. b \in Nat /\ a <= b /\ p + b <= Len(s) /\ p + b = Len(s)
    BY <1>1
<1>3. SubSeq(t, a + 1, b) = SubSeq(s, (p + a) + 1, p + b)
    BY <1>2, SubFrom DEF t
<1> QED
    BY <1>2, <1>3 DEF From, t, b

LEMMA FromEnd ==
    ASSUME NEW S, NEW s \in Seq(S), NEW p \in 0 .. Len(s)
    PROVE  From(p + 1, s) = <<>> <=> p = Len(s)
<1> DEFINE t == From(p + 1, s)
<1>1. t \in Seq(S) /\ Len(t) = Len(s) - p /\ Len(s) \in Nat /\ p \in Nat
    BY FromIs
<1> HIDE DEF t
<1>2. t = <<>> <=> Len(t) = 0
    BY <1>1
<1> QED
    BY <1>1, <1>2 DEF t

LEMMA CodeIs ==
    ASSUME NEW S, NEW s \in Seq(S), NEW i \in Nat, i < Len(s)
    PROVE  IsColorCode(From(i + 1, s)) <=> CodeAt(s, i + 1)
<1> DEFINE t == From(i + 1, s)
<1>0. i \in 0 .. Len(s)
    OBVIOUS
<1>1. t \in Seq(S) /\ Len(t) = Len(s) - i /\ \A k \in 1 .. Len(s) - i : t[k] = s[i + k]
    BY <1>0, FromIs
<1> HIDE DEF t
<1>2. t[1] = s[i + 1] /\ Len(s) \in Nat
    BY <1>1
<1>3. Len(t) >= 2 => t[2] = s[i + 2]
    BY <1>1
<1>4. Len(t) >= 2 <=> i + 1 \in 1 .. Len(s) - 1
    BY <1>1
<1>5. i + 1 + 1 = i + 2
    OBVIOUS
<1> QED
    BY <1>2, <1>3, <1>4, <1>5 DEF IsColorCode, CodeAt, t

LEMMA CodeFrom ==
    ASSUME NEW S, NEW s \in Seq(S), NEW p \in 0 .. Len(s), NEW i \in Nat \ {0}
    PROVE  CodeAt(From(p + 1, s), i) <=> CodeAt(s, p + i)
<1> DEFINE t == From(p + 1, s)
<1>1. t \in Seq(S) /\ Len(t) = Len(s) - p /\ \A k \in 1 .. Len(s) - p : t[k] = s[p + k]
    BY FromIs
<1> HIDE DEF t
<1>2. Len(s) \in Nat /\ p \in Nat
    OBVIOUS
<1>3. i \in 1 .. Len(t) - 1 <=> p + i \in 1 .. Len(s) - 1
    BY <1>1, <1>2
<1>4. i \in 1 .. Len(t) - 1 => t[i] = s[p + i] /\ t[i + 1] = s[p + (i + 1)]
    BY <1>1, <1>2
<1>5. p + (i + 1) = (p + i) + 1
    BY <1>2
<1> QED
    BY <1>3, <1>4, <1>5 DEF CodeAt, t

\* No two codes overlap.
LEMMA CodesApart ==
    ASSUME NEW s, NEW i, CodeAt(s, i)
    PROVE  ~CodeAt(s, i + 1)
BY TextAssumption DEF CodeAt

\* n codes are skipped.
Skips(s, n) ==
    /\ n \in Nat /\ 2 * n <= Len(s)
    /\ \A i \in 1..n : CodeAt(s, 2 * i - 1)
    /\ ~CodeAt(s, 2 * n + 1)

ColorOf(s, n) == IF n = 0 THEN <<>> ELSE SubSeq(s, 2 * n - 1, 2 * n)

LEMMA TrimIs ==
    ASSUME NEW S, NEW s \in Seq(S)
    PROVE  \E n : /\ Skips(s, n)
                  /\ TrimStartColor(s) = [color |-> ColorOf(s, n), tail |-> From(2 * n + 1, s)]
<1> DEFINE C == {n \in 0 .. Len(s) \div 2 : \A i \in 1..n : IsColorCode(From(2 * i - 1, s))}
           n == CHOOSE m \in C : \A k \in C : k <= m
<1>0. Len(s) \in Nat
    OBVIOUS
<1>1. \E m \in C : \A k \in C : k <= m
    <2>1. C \in SUBSET Nat /\ 0 \in C /\ \A x \in C : x <= Len(s) \div 2
        BY <1>0
    <2>2. Len(s) \div 2 \in Nat
        BY <1>0
    <2> HIDE DEF C
    <2>3. Max(C) \in C /\ \A y \in C : Max(C) >= y
        BY <2>1, <2>2, LargestOf
    <2> QED
        BY <2>1, <2>3
<1>2. n \in C /\ \A k \in C : k <= n
    <2> HIDE DEF C
    <2> QED
        BY <1>1
<1>3. TrimStartColor(s) = [color |-> ColorOf(s, n), tail |-> From(2 * n + 1, s)]
    BY Zenon DEF TrimStartColor, ColorOf
<1> HIDE DEF n
<1>4. n \in Nat /\ 2 * n <= Len(s)
    BY <1>0, <1>2
<1>5. ASSUME NEW i \in Nat, i # 0, 2 * i <= Len(s)
      PROVE  IsColorCode(From(2 * i - 1, s)) <=> CodeAt(s, 2 * i - 1)
    <2> DEFINE j == 2 * i - 2
    <2>1. j \in Nat /\ j < Len(s) /\ 2 * i - 1 = j + 1
        BY <1>0, <1>5
    <2> HIDE DEF j
    <2> QED
        BY <2>1, CodeIs
<1>6. \A i \in 1..n : CodeAt(s, 2 * i - 1)
    <2>1. \A i \in 1..n : i \in Nat /\ i # 0 /\ 2 * i <= Len(s)
        BY <1>0, <1>4
    <2>2. \A i \in 1..n : IsColorCode(From(2 * i - 1, s))
        BY <1>2
    <2> QED
        BY <1>5, <2>1, <2>2, Zenon
<1>7. ~CodeAt(s, 2 * n + 1)
    <2> SUFFICES ASSUME CodeAt(s, 2 * n + 1) PROVE FALSE
        OBVIOUS
    <2> DEFINE m == n + 1
    <2>1. 2 * n + 1 \in 1 .. Len(s) - 1
        BY DEF CodeAt
    <2>2. m \in Nat /\ m # 0 /\ 2 * m <= Len(s) /\ 2 * m - 1 = 2 * n + 1 /\ m \in 0 .. Len(s) \div 2
        BY <1>0, <1>4, <2>1
    <2>3. IsColorCode(From(2 * m - 1, s))
        <3> HIDE DEF m
        <3> QED
            BY <1>5, <2>2
    <2>4. \A i \in 1..m : i \in 1..n \/ i = m
        BY <1>4
    <2>5. m \in C
        <3>1. \A i \in 1..n : IsColorCode(From(2 * i - 1, s))
            BY <1>2
        <3> HIDE DEF m
        <3>2. \A i \in 1..m : IsColorCode(From(2 * i - 1, s))
            BY <2>3, <2>4, <3>1, Zenon
        <3> QED
            BY <2>2, <3>2
    <2> HIDE DEF C
    <2>6. m <= n
        BY <1>2, <2>5
    <2> QED
        BY <1>4, <2>6
<1> QED
    BY <1>3, <1>4, <1>6, <1>7 DEF Skips

\* Everything of the codes is skipped, and no code reaches over their end.
LEMMA SkipsIs ==
    ASSUME NEW S, NEW s \in Seq(S), NEW n, Skips(s, n)
    PROVE  /\ \A a \in 1 .. 2 * n : InCode(s, a)
           /\ ~CodeAt(s, 2 * n)
<1>0. n \in Nat /\ Len(s) \in Nat /\ 2 * n <= Len(s)
    BY DEF Skips
<1>1. ASSUME NEW a \in 1 .. 2 * n PROVE InCode(s, a)
    <2>1. \/ \E i \in 1..n : a = 2 * i - 1
          \/ \E i \in 1..n : a = 2 * i
        <3> DEFINE h == a \div 2
        <3>1. h \in Nat /\ (a = 2 * h \/ a = 2 * h + 1)
            BY <1>0
        <3> HIDE DEF h
        <3>2. CASE a = 2 * h
            <4>1. h \in 1..n
                BY <1>0, <3>1, <3>2
            <4> QED
                BY <3>2, <4>1
        <3>3. CASE a = 2 * h + 1
            <4>1. h + 1 \in 1..n /\ a = 2 * (h + 1) - 1
                BY <1>0, <3>1, <3>3
            <4> QED
                BY <4>1
        <3> QED
            BY <3>1, <3>2, <3>3
    <2>2. ASSUME NEW i \in 1..n, a = 2 * i - 1 PROVE InCode(s, a)
        BY <2>2 DEF Skips, InCode
    <2>3. ASSUME NEW i \in 1..n, a = 2 * i PROVE InCode(s, a)
        <3>1. CodeAt(s, 2 * i - 1) /\ a - 1 = 2 * i - 1
            BY <2>3 DEF Skips
        <3> QED
            BY <3>1 DEF InCode
    <2> QED
        BY <2>1, <2>2, <2>3
<1>2. ~CodeAt(s, 2 * n)
    <2>1. CASE n = 0
        BY <2>1 DEF CodeAt
    <2>2. CASE n # 0
        <3>1. n \in 1..n /\ (2 * n - 1) + 1 = 2 * n
            BY <1>0, <2>2
        <3>2. CodeAt(s, 2 * n - 1)
            BY <3>1 DEF Skips
        <3>3. ~CodeAt(s, (2 * n - 1) + 1)
            BY <3>2, CodesApart
        <3> QED
            BY <3>1, <3>3
    <2> QED
        BY <2>1, <2>2
<1> QED
    BY <1>1, <1>2

\* One part of a text: n codes, then everything before the next code.
IsPart(part, s, n, q) ==
    /\ Skips(s, n)
    /\ q \in Nat /\ 2 * n <= q /\ q <= Len(s) /\ q # 0
    /\ q = Len(s) \/ CodeAt(s, q + 1)
    /\ \A a \in 2 * n + 1 .. q : ~CodeAt(s, a)
    /\ part = [color |-> ColorOf(s, n), head |-> SubSeq(s, 2 * n + 1, q), rest |-> From(q + 1, s)]

LEMMA PartIs ==
    ASSUME NEW S, NEW s \in Seq(S), s # <<>>
    PROVE  \E n, q : IsPart(ColorPart(s), s, n, q)
<1>1. PICK n : /\ Skips(s, n)
               /\ TrimStartColor(s) = [color |-> ColorOf(s, n), tail |-> From(2 * n + 1, s)]
    BY TrimIs
<1> DEFINE m == 2 * n
           t == From(m + 1, s)
           T == {i \in DOMAIN t : IsColorCode(From(i, t))}
           E == T \cup {Len(t) + 1}
           e == CHOOSE i \in E : \A j \in E : i <= j
           w == TrimStartColor(s)
<1>2. w.color = ColorOf(s, n) /\ w.tail = t
    BY <1>1
<1> HIDE DEF w
<1>3. ColorPart(s) = [color |-> ColorOf(s, n), head |-> SubSeq(t, 1, e - 1), rest |-> From(e, t)]
    BY <1>2, Zenon DEF ColorPart, w
<1>4. n \in Nat /\ m \in 0 .. Len(s) /\ Len(s) \in Nat /\ Len(s) # 0
    BY <1>1 DEF Skips
<1>5. t \in Seq(S) /\ Len(t) = Len(s) - m
    <2> HIDE DEF m
    <2> QED
        BY <1>4, FromIs
<1>6. \E i \in E : \A j \in E : i <= j
    <2>1. E \in SUBSET Nat /\ E # {}
        BY <1>4, <1>5
    <2> HIDE DEF E
    <2> QED
        BY <2>1, SmallestOf
<1>7. e \in E /\ \A j \in E : e <= j
    <2> HIDE DEF E
    <2> QED
        BY <1>6
<1> HIDE DEF e, t
<1>8. \A i \in 1 .. Len(t) : i \in T <=> CodeAt(s, m + i)
    <2>1. ASSUME NEW i \in 1 .. Len(t) PROVE IsColorCode(From(i, t)) <=> CodeAt(s, m + i)
        <3> DEFINE k == i - 1
        <3>1. k \in Nat /\ k < Len(t) /\ k + 1 = i /\ i \in Nat \ {0}
            BY <1>4, <1>5
        <3> HIDE DEF k
        <3>2. IsColorCode(From(k + 1, t)) <=> CodeAt(t, k + 1)
            BY <1>5, <3>1, CodeIs
        <3>3. CodeAt(t, i) <=> CodeAt(s, m + i)
            <4> HIDE DEF m
            <4> QED
                BY <1>4, <3>1, CodeFrom DEF t
        <3> QED
            BY <3>1, <3>2, <3>3, Zenon
    <2>2. DOMAIN t = 1 .. Len(t)
        BY <1>5
    <2> QED
        BY <2>1, <2>2
<1> DEFINE q == m + (e - 1)
           g == e - 1
<1>9. e \in 1 .. Len(t) + 1 /\ g \in Nat /\ g <= Len(t) /\ m + g <= Len(s) /\ g + 1 = e
    BY <1>4, <1>5, <1>7
<1>10. SubSeq(t, 1, g) = SubSeq(s, m + 1, q) /\ From(e, t) = From(q + 1, s)
    <2> DEFINE z == 0
    <2>0. z \in Nat /\ z <= g /\ m \in 0 .. Len(s) /\ g \in Nat /\ m + g <= Len(s)
        BY <1>4, <1>9
    <2> HIDE DEF m, g, z
    <2>1. SubSeq(t, z + 1, g) = SubSeq(s, (m + z) + 1, m + g)
        BY <2>0, SubFrom DEF t
    <2>2. From(g + 1, t) = From((m + g) + 1, s)
        BY <2>0, FromFrom DEF t
    <2>3. z + 1 = 1 /\ m + z = m
        BY <1>4 DEF z
    <2> QED
        BY <1>9, <2>1, <2>2, <2>3 DEF g
<1>11. q = Len(s) \/ CodeAt(s, q + 1)
    <2>1. CASE e = Len(t) + 1
        BY <1>4, <1>5, <2>1
    <2>2. CASE e # Len(t) + 1
        <3>1. e \in T /\ e \in 1 .. Len(t) /\ q + 1 = m + e
            <4>1. e \in T
                BY <1>7, <2>2
            <4> HIDE DEF T, m
            <4>2. e \in 1 .. Len(t) /\ q + 1 = m + e
                BY <1>4, <1>5, <1>9, <2>2
            <4> QED
                BY <4>1, <4>2
        <3> QED
            BY <1>8, <3>1
    <2> QED
        BY <2>1, <2>2
<1>12. ASSUME NEW a \in m + 1 .. q PROVE ~CodeAt(s, a)
    <2> DEFINE i == a - m
    <2>1. i \in 1 .. Len(t) /\ i < e /\ m + i = a
        BY <1>4, <1>9
    <2> HIDE DEF i
    <2>2. i \notin T
        BY <1>7, <1>9, <2>1
    <2> QED
        BY <1>8, <2>1, <2>2
<1>13. q # 0
    <2> SUFFICES ASSUME q = 0 PROVE FALSE
        OBVIOUS
    <2>1. m = 0 /\ e = 1 /\ n = 0
        BY <1>4, <1>9
    <2>2. CodeAt(s, 1)
        BY <1>4, <1>11, <2>1
    <2>3. ~CodeAt(s, 1)
        BY <1>1, <2>1 DEF Skips
    <2> QED
        BY <2>2, <2>3
<1>14. q \in Nat /\ m <= q /\ q <= Len(s)
    BY <1>4, <1>9
<1>15. ColorPart(s) = [color |-> ColorOf(s, n), head |-> SubSeq(s, m + 1, q), rest |-> From(q + 1, s)]
    <2> HIDE DEF m, q
    <2> QED
        BY <1>3, <1>10, Zenon DEF g
<1> HIDE DEF q
<1>16. IsPart(ColorPart(s), s, n, q)
    BY <1>1, <1>11, <1>12, <1>13, <1>14, <1>15, Zenon DEF IsPart, m
<1> QED
    BY <1>16

LEMMA LastColorIs ==
    ASSUME NEW s, NEW i \in Nat, NEW j \in 1 .. i - 1, CodeAt(s, j),
           \A k \in j + 1 .. i - 1 : ~CodeAt(s, k)
    PROVE  LastColor(s, i) = SubSeq(s, j, j + 1)
<1> DEFINE C == {c \in 1 .. i - 1 : CodeAt(s, c)}
           l == CHOOSE c \in C : \A k \in C : k <= c
<1>1. j \in C /\ \A k \in C : k <= j
    OBVIOUS
<1>2. l \in C /\ \A k \in C : k <= l
    <2> HIDE DEF C
    <2> QED
        BY <1>1
<1>3. l = j
    <2> HIDE DEF l
    <2> QED
        BY <1>1, <1>2
<1>4. LastColor(s, i) = IF C = {} THEN <<>> ELSE SubSeq(s, l, l + 1)
    BY Zenon DEF LastColor
<1>5. C # {}
    BY <1>1
<1> HIDE DEF C, l
<1> QED
    BY <1>3, <1>4, <1>5

LEMMA NoColor ==
    ASSUME NEW s, NEW i, \A k \in 1 .. i - 1 : ~CodeAt(s, k)
    PROVE  LastColor(s, i) = <<>>
<1> DEFINE C == {c \in 1 .. i - 1 : CodeAt(s, c)}
           l == CHOOSE c \in C : \A k \in C : k <= c
<1>1. LastColor(s, i) = IF C = {} THEN <<>> ELSE SubSeq(s, l, l + 1)
    BY Zenon DEF LastColor
<1>2. C = {}
    OBVIOUS
<1> HIDE DEF C, l
<1> QED
    BY <1>1, <1>2

\* A part starts at the start of the text or at a code, and no code reaches into it.
Cut(s, p) ==
    /\ p \in 0 .. Len(s) /\ ~CodeAt(s, p)
    /\ p = 0 \/ p = Len(s) \/ CodeAt(s, p + 1)

\* From p to m nothing is shown, and from there to q everything in one color.
Painting(s, p, m, q, color) ==
    /\ m \in Nat /\ q \in Nat /\ p <= m /\ m <= q /\ p < q /\ q <= Len(s)
    /\ \A a \in p + 1 .. m : InCode(s, a)
    /\ \A a \in m + 1 .. q : ~InCode(s, a) /\ LastColor(s, a) = color

PartAt(S, s, p, m, q, color, part) ==
    /\ Painting(s, p, m, q, color) /\ Cut(s, q) /\ color \in Seq(S)
    /\ part = [color |-> color, head |-> SubSeq(s, m + 1, q), rest |-> From(q + 1, s)]

LEMMA NextPartIs ==
    ASSUME NEW S, NEW s \in Seq(S), NEW p, Cut(s, p), p # Len(s)
    PROVE  \E m, q, color : PartAt(S, s, p, m, q, color, ColorPart(From(p + 1, s)))
<1> DEFINE v == From(p + 1, s)
<1>1. p \in 0 .. Len(s) /\ p \in Nat /\ Len(s) \in Nat /\ ~CodeAt(s, p)
    BY DEF Cut
<1>2. v \in Seq(S) /\ Len(v) = Len(s) - p /\ v # <<>>
    BY <1>1, FromIs, FromEnd
<1>3. \A i \in Nat \ {0} : CodeAt(v, i) <=> CodeAt(s, p + i)
    BY <1>1, CodeFrom
<1>4. PICK n, k : IsPart(ColorPart(v), v, n, k)
    <2> HIDE DEF v
    <2> QED
        BY <1>2, PartIs
<1> DEFINE d == 2 * n
           m == p + d
           q == p + k
           color == ColorOf(v, n)
<1>5. /\ Skips(v, n) /\ k \in Nat /\ d <= k /\ k <= Len(v) /\ k # 0
      /\ k = Len(v) \/ CodeAt(v, k + 1)
      /\ \A a \in d + 1 .. k : ~CodeAt(v, a)
      /\ ColorPart(v) = [color |-> color, head |-> SubSeq(v, d + 1, k), rest |-> From(k + 1, v)]
    <2> HIDE DEF v
    <2> QED
        BY <1>4 DEF IsPart
<1>6. n \in Nat /\ d \in Nat
    BY <1>5 DEF Skips
<1>7. (\A a \in 1..d : InCode(v, a)) /\ ~CodeAt(v, d)
    <2> HIDE DEF v
    <2> QED
        BY <1>2, <1>5, SkipsIs
<1> HIDE DEF v
<1>8. m \in Nat /\ q \in Nat /\ p <= m /\ m <= q /\ p < q /\ q <= Len(s)
    BY <1>1, <1>2, <1>5, <1>6
<1>9. ASSUME NEW a \in p + 1 .. m PROVE InCode(s, a)
    <2> DEFINE i == a - p
    <2>1. i \in 1..d /\ i \in Nat \ {0} /\ p + i = a /\ i - 1 \in Nat /\ p + (i - 1) = a - 1
        BY <1>1, <1>6
    <2> HIDE DEF i
    <2>2. CodeAt(v, i) \/ CodeAt(v, i - 1)
        BY <1>7, <2>1 DEF InCode
    <2>3. CASE CodeAt(v, i)
        BY <1>3, <2>1, <2>3 DEF InCode
    <2>4. CASE CodeAt(v, i - 1)
        <3>1. i - 1 \in Nat \ {0}
            BY <2>1, <2>4 DEF CodeAt
        <3>2. CodeAt(s, p + (i - 1))
            BY <1>3, <2>4, <3>1
        <3> QED
            BY <2>1, <3>2 DEF InCode
    <2> QED
        BY <2>2, <2>3, <2>4
<1>10. ASSUME NEW a \in m .. q PROVE ~CodeAt(s, a)
    <2> DEFINE i == a - p
    <2>1. i \in d..k /\ i \in Nat /\ p + i = a
        BY <1>1, <1>5, <1>6
    <2> HIDE DEF i
    <2>2. CASE i = 0
        BY <1>1, <2>1, <2>2
    <2>3. CASE i # 0
        <3>1. ~CodeAt(v, i)
            <4>1. i = d \/ i \in d + 1 .. k
                BY <1>5, <1>6, <2>1
            <4> HIDE DEF d
            <4> QED
                BY <1>5, <1>7, <4>1
        <3> QED
            BY <1>3, <2>1, <2>3, <3>1
    <2> QED
        BY <2>2, <2>3
<1>11. Cut(s, q)
    <2>1. ~CodeAt(s, q)
        BY <1>8, <1>10
    <2>2. q = Len(s) \/ CodeAt(s, q + 1)
        <3>1. CASE k = Len(v)
            BY <1>1, <1>2, <3>1
        <3>2. CASE CodeAt(v, k + 1)
            <4>1. k + 1 \in Nat \ {0} /\ p + (k + 1) = q + 1
                BY <1>1, <1>5
            <4> QED
                BY <1>3, <3>2, <4>1
        <3> QED
            BY <1>5, <3>1, <3>2
    <2> QED
        BY <1>1, <1>8, <2>1, <2>2 DEF Cut
<1>12. SubSeq(v, d + 1, k) = SubSeq(s, m + 1, q) /\ From(k + 1, v) = From(q + 1, s)
    <2>1. p + k <= Len(s) /\ p \in 0 .. Len(s) /\ d \in Nat /\ k \in Nat /\ d <= k
        BY <1>1, <1>5, <1>6, <1>8
    <2> HIDE DEF d
    <2>2. SubSeq(v, d + 1, k) = SubSeq(s, (p + d) + 1, p + k)
        BY <2>1, SubFrom DEF v
    <2>3. From(k + 1, v) = From((p + k) + 1, s)
        BY <2>1, FromFrom DEF v
    <2> QED
        BY <2>2, <2>3, Zenon
<1>13. color \in Seq(S) /\ \A a \in m + 1 .. q : LastColor(s, a) = color
    <2>1. CASE n = 0
        <3>1. color = <<>> /\ d = 0 /\ m = p
            BY <1>1, <2>1 DEF ColorOf
        <3>2. p = 0
            <4>1. ~CodeAt(v, 1)
                BY <1>5, <2>1 DEF Skips
            <4>2. ~CodeAt(s, p + 1)
                BY <1>3, <4>1
            <4> QED
                BY <4>2 DEF Cut
        <3>3. ASSUME NEW a \in m + 1 .. q PROVE \A i \in 1 .. a - 1 : ~CodeAt(s, i)
            <4> HIDE DEF m, q, d, color
            <4>1. m = 0 /\ a \in m + 1 .. q /\ q \in Nat
                BY <1>8, <3>1, <3>2
            <4>2. \A i \in 1 .. a - 1 : i \in m .. q
                BY <4>1
            <4> QED
                BY <1>10, <4>2
        <3>4. ASSUME NEW a \in m + 1 .. q PROVE LastColor(s, a) = <<>>
            BY <3>3, NoColor
        <3> HIDE DEF m, q, color
        <3> QED
            BY <3>1, <3>4
    <2>2. CASE n # 0
        <3> DEFINE j == p + (d - 1)
                   b == d - 2
        <3>1. j \in Nat \ {0} /\ j + 1 = m /\ d - 1 \in Nat \ {0} /\ b \in Nat /\ b <= d /\ p + d <= Len(s)
            BY <1>1, <1>6, <1>8, <2>2
        <3>2. CodeAt(v, d - 1)
            <4>1. n \in 1..n
                BY <1>6, <2>2
            <4> QED
                BY <1>5, <4>1 DEF Skips
        <3>3. CodeAt(s, j)
            BY <1>3, <3>1, <3>2
        <3>4. color = SubSeq(s, j, j + 1)
            <4>1. color = SubSeq(v, d - 1, d)
                BY <2>2 DEF ColorOf
            <4>2. d - 1 = b + 1 /\ (p + b) + 1 = j
                BY <1>1, <1>6
            <4> HIDE DEF b, d
            <4>3. SubSeq(v, b + 1, d) = SubSeq(s, (p + b) + 1, p + d)
                <5>1. b \in Nat /\ d \in Nat /\ b <= d /\ p + d <= Len(s) /\ p \in 0 .. Len(s)
                    BY <1>1, <1>6, <3>1
                <5> QED
                    BY <5>1, SubFrom DEF v
            <4> HIDE DEF color, j
            <4> QED
                BY <3>1, <4>1, <4>2, <4>3 DEF m
        <3>5. color \in Seq(S)
            <4> DEFINE g == j - 1
            <4>1. g \in Nat /\ j + 1 <= Len(s) /\ g + 1 = j /\ g <= j + 1 /\ j + 1 \in Nat
                BY <1>8, <3>1
            <4> HIDE DEF g, j, color
            <4>2. SubSeq(s, g + 1, j + 1) \in Seq(S)
                BY <4>1, SubIs
            <4> QED
                BY <3>4, <4>1, <4>2
        <3> HIDE DEF j, color
        <3>6. ASSUME NEW a \in m + 1 .. q PROVE LastColor(s, a) = color
            <4>1. a \in Nat /\ j \in 1 .. a - 1 /\ \A i \in j + 1 .. a - 1 : i \in m .. q
                BY <1>8, <3>1
            <4>2. \A i \in j + 1 .. a - 1 : ~CodeAt(s, i)
                BY <1>10, <4>1
            <4>3. LastColor(s, a) = SubSeq(s, j, j + 1)
                BY <3>3, <4>1, <4>2, LastColorIs
            <4> QED
                BY <3>4, <4>3
        <3> QED
            BY <3>5, <3>6
    <2> QED
        BY <2>1, <2>2
<1>14. ASSUME NEW a \in m + 1 .. q PROVE ~InCode(s, a)
    <2>1. a \in m .. q /\ a - 1 \in m .. q
        BY <1>8
    <2> QED
        BY <1>10, <2>1 DEF InCode
<1> HIDE DEF m, q, color, d
<1>15. Painting(s, p, m, q, color)
    BY <1>8, <1>9, <1>13, <1>14 DEF Painting
<1>16. ColorPart(v) = [color |-> color, head |-> SubSeq(s, m + 1, q), rest |-> From(q + 1, s)]
    BY <1>5, <1>12
<1>17. PartAt(S, s, p, m, q, color, ColorPart(v))
    BY <1>11, <1>13, <1>15, <1>16, Zenon DEF PartAt
<1> QED
    BY <1>17, Zenon DEF v

-----------------------------------------------------------------------------
(* What the cells of a text hold                                           *)

LEMMA FrontNext ==
    ASSUME NEW S, NEW s \in Seq(S), NEW k \in Nat, k + 1 <= Len(s)
    PROVE  SubSeq(s, 1, k + 1) = Append(SubSeq(s, 1, k), s[k + 1])
<1> DEFINE n == k + 1
           x == s[n]
           a == SubSeq(s, 1, n)
           b == SubSeq(s, 1, k)
           c == Append(b, x)
<1>1. n \in Nat /\ n <= Len(s) /\ k <= Len(s) /\ x \in S /\ Len(s) \in Nat
    OBVIOUS
<1>2. a \in Seq(S) /\ Len(a) = n /\ \A i \in 1..n : a[i] = s[i]
    BY <1>1, SubSeqProperties
<1>3. b \in Seq(S) /\ Len(b) = k /\ \A i \in 1..k : b[i] = s[i]
    BY <1>1, SubSeqProperties
<1> HIDE DEF a, b, x
<1>4. c \in Seq(S) /\ Len(c) = n /\ c[n] = x /\ \A i \in 1..k : c[i] = b[i]
    BY <1>1, <1>3, AppendProperties
<1> HIDE DEF c
<1>5. \A i \in 1..n : a[i] = c[i]
    <2>1. \A i \in 1..n : i \in 1..k \/ i = n
        OBVIOUS
    <2> HIDE DEF n
    <2> QED
        BY <1>2, <1>3, <1>4, <2>1 DEF x
<1> HIDE DEF n
<1>6. a = c
    BY <1>2, <1>4, <1>5, SeqEqual
<1> QED
    BY <1>6 DEF a, b, c, x, n

LEMMA FrontNothing ==
    ASSUME NEW s
    PROVE  SubSeq(s, 1, 0) = <<>>
OBVIOUS

LEMMA FrontWhole ==
    ASSUME NEW S, NEW s \in Seq(S)
    PROVE  SubSeq(s, 1, Len(s)) = s
OBVIOUS

LEMMA FrontType ==
    ASSUME NEW S, NEW s \in Seq(S), NEW k \in Nat, k <= Len(s)
    PROVE  SubSeq(s, 1, k) \in Seq(S)
BY SubSeqProperties

\* Cells without a character add nothing, and cells with one add it.
LEMMA CellsSkipped ==
    ASSUME NEW S, NEW c \in Seq(Seq(S)), NEW p \in Nat, NEW m \in Nat, p <= m, m <= Len(c),
           \A a \in p + 1 .. m : c[a] = <<>>
    PROVE  FlattenSeq(SubSeq(c, 1, m)) = FlattenSeq(SubSeq(c, 1, p))
<1> DEFINE T(k) == FlattenSeq(SubSeq(c, 1, p + k))
           P == {k \in Nat : p + k <= m => T(k) = T(0)}
<1>1. 0 \in P
    OBVIOUS
<1>2. ASSUME NEW k \in Nat, k \in P PROVE k + 1 \in P
    <2> SUFFICES ASSUME p + (k + 1) <= m PROVE T(k + 1) = T(0)
        OBVIOUS
    <2> DEFINE j == p + k
               b == SubSeq(c, 1, j)
    <2>1. j \in Nat /\ j + 1 <= Len(c) /\ j + 1 = p + (k + 1) /\ j + 1 \in p + 1 .. m /\ j <= m
        OBVIOUS
    <2>2. T(k) = T(0)
        BY <1>2, <2>1
    <2> HIDE DEF j
    <2>3. c[j + 1] = <<>> /\ <<>> \in Seq(S)
        BY <2>1
    <2>4. SubSeq(c, 1, j + 1) = Append(b, <<>>)
        BY <2>1, <2>3, FrontNext
    <2>5. b \in Seq(Seq(S))
        <3>1. j <= Len(c)
            BY <2>1
        <3> QED
            BY <2>1, <3>1, FrontType
    <2> HIDE DEF b
    <2>6. FlattenSeq(Append(b, <<>>)) = FlattenSeq(b) \o <<>>
        BY <2>3, <2>5, FlattenAppend
    <2>7. FlattenSeq(b) \in Seq(S)
        BY <2>5, FlattenType
    <2>8. FlattenSeq(b) \o <<>> = FlattenSeq(b)
        BY <2>7, ConcatEmptySeq
    <2>9. FlattenSeq(SubSeq(c, 1, j + 1)) = FlattenSeq(b)
        BY <2>4, <2>6, <2>8, Zenon
    <2>10. T(k + 1) = FlattenSeq(b)
        BY <2>1, <2>9
    <2>11. T(k) = FlattenSeq(b)
        BY DEF b, j
    <2> QED
        BY <2>2, <2>10, <2>11, Zenon
<1> HIDE DEF P
<1>3. \A k \in Nat : k \in P
    BY <1>1, <1>2, SetInduction
<1> DEFINE k == m - p
<1>4. k \in Nat /\ p + k = m /\ p + 0 = p /\ p + k <= m
    OBVIOUS
<1> HIDE DEF k, T
<1>5. T(k) = T(0)
    BY <1>3, <1>4 DEF P
<1> QED
    BY <1>4, <1>5 DEF T

LEMMA CellsTaken ==
    ASSUME NEW S, NEW c \in Seq(Seq(S)), NEW m \in Nat, NEW h \in Seq(S), m + Len(h) <= Len(c),
           \A i \in 1 .. Len(h) : c[m + i] = <<h[i]>>
    PROVE  Joins(FlattenSeq(SubSeq(c, 1, m)), h, FlattenSeq(SubSeq(c, 1, m + Len(h))))
<1> DEFINE T(k) == FlattenSeq(SubSeq(c, 1, m + k))
           f == FlattenSeq(SubSeq(c, 1, m))
           Good(k) == Joins(f, SubSeq(h, 1, k), T(k))
           P == {k \in Nat : k <= Len(h) => Good(k)}
<1>0. Len(h) \in Nat /\ m <= Len(c) /\ Len(c) \in Nat
    OBVIOUS
<1>1. f \in Seq(S)
    <2>1. SubSeq(c, 1, m) \in Seq(Seq(S))
        BY <1>0, FrontType
    <2> QED
        BY <2>1, FlattenType
<1>2. 0 \in P
    <2>1. f \o <<>> = f
        BY <1>1, ConcatEmptySeq
    <2>2. SubSeq(h, 1, 0) = <<>> /\ m + 0 = m
        BY FrontNothing
    <2>3. T(0) = f
        BY <2>2
    <2> HIDE DEF f, T
    <2> QED
        BY <2>1, <2>2, <2>3 DEF Joins
<1>3. ASSUME NEW k \in Nat, k \in P PROVE k + 1 \in P
    <2> SUFFICES ASSUME k + 1 <= Len(h) PROVE Good(k + 1)
        OBVIOUS
    <2> DEFINE j == m + k
               b == SubSeq(c, 1, j)
               a == SubSeq(h, 1, k)
               x == h[k + 1]
    <2>1. j \in Nat /\ j + 1 <= Len(c) /\ j + 1 = m + (k + 1) /\ k <= Len(h) /\ j <= Len(c)
        BY <1>0
    <2>2. Good(k)
        BY <1>3, <2>1
    <2>3. x \in S /\ c[m + (k + 1)] = <<x>> /\ <<x>> \in Seq(S)
        OBVIOUS
    <2> HIDE DEF x, j
    <2>4. SubSeq(c, 1, j + 1) = Append(b, <<x>>)
        BY <2>1, <2>3, FrontNext
    <2>5. b \in Seq(Seq(S)) /\ a \in Seq(S)
        <3>1. b \in Seq(Seq(S))
            BY <2>1, FrontType
        <3>2. a \in Seq(S)
            BY <2>1, FrontType
        <3> QED
            BY <3>1, <3>2
    <2>6. SubSeq(h, 1, k + 1) = Append(a, x)
        BY FrontNext DEF x
    <2>7. T(k) = FlattenSeq(b)
        BY DEF b, j
    <2>8. T(k + 1) = FlattenSeq(Append(b, <<x>>))
        BY <2>1, <2>4
    <2> HIDE DEF b, a, f, T
    <2>9. FlattenSeq(Append(b, <<x>>)) = FlattenSeq(b) \o <<x>>
        BY <2>3, <2>5, FlattenAppend
    <2>10. f \o a = FlattenSeq(b)
        BY <2>2, <2>7 DEF Joins, a
    <2>11. f \o Append(a, x) = (f \o a) \o <<x>>
        <3>1. Append(a, x) = a \o <<x>>
            BY <2>3, <2>5, AppendIsConcat
        <3>2. f \o (a \o <<x>>) = (f \o a) \o <<x>>
            <4> DEFINE w == <<x>>
            <4>1. w \in Seq(S)
                BY <2>3
            <4> HIDE DEF w
            <4>2. Regrouped(f, a, w)
                BY <1>1, <2>5, <4>1, Regroup
            <4> QED
                BY <4>2, Zenon DEF Regrouped, w
        <3> QED
            BY <3>1, <3>2, Zenon
    <2>12. f \o Append(a, x) = T(k + 1)
        BY <2>8, <2>9, <2>10, <2>11, Zenon
    <2> QED
        BY <2>6, <2>12, Zenon DEF Joins
<1> HIDE DEF P
<1>4. \A k \in Nat : k \in P
    BY <1>2, <1>3, SetInduction
<1> DEFINE n == Len(h)
<1> HIDE DEF Good
<1>5. n \in Nat /\ n <= Len(h)
    BY <1>0
<1> HIDE DEF n
<1>6. Good(n)
    BY <1>4, <1>5 DEF P
<1>7. SubSeq(h, 1, Len(h)) = h
    BY FrontWhole
<1> QED
    BY <1>6, <1>7, Zenon DEF Good, n

PlainCells(s) == [i \in DOMAIN s |-> IF InCode(s, i) THEN <<>> ELSE <<s[i]>>]

Shown(s, i) == <<s[i], LastColor(s, i)>>
AllShown(s) == {Shown(s, i) : i \in 1 .. Len(s)}

ColoredCells(s) == [i \in DOMAIN s |-> IF InCode(s, i) THEN <<>> ELSE <<Shown(s, i)>>]

LEMMA CellsAre ==
    ASSUME NEW S, NEW s \in Seq(S)
    PROVE  /\ PlainCells(s) \in Seq(Seq(S)) /\ Len(PlainCells(s)) = Len(s)
           /\ ColoredCells(s) \in Seq(Seq(AllShown(s))) /\ Len(ColoredCells(s)) = Len(s)
<1> DEFINE n == Len(s)
           D == AllShown(s)
           E(i) == IF InCode(s, i) THEN <<>> ELSE <<s[i]>>
           F(i) == IF InCode(s, i) THEN <<>> ELSE <<Shown(s, i)>>
<1>1. n \in Nat /\ DOMAIN s = 1..n
    OBVIOUS
<1>2. \A i \in 1..n : E(i) \in Seq(S)
    <2>1. \A i \in 1..n : s[i] \in S
        OBVIOUS
    <2>2. <<>> \in Seq(S) /\ \A x \in S : <<x>> \in Seq(S)
        OBVIOUS
    <2> HIDE DEF n
    <2> QED
        BY <2>1, <2>2, Zenon
<1>3. \A i \in 1..n : F(i) \in Seq(D)
    <2>1. \A i \in 1..n : Shown(s, i) \in D
        BY DEF AllShown
    <2> HIDE DEF D, n
    <2>2. <<>> \in Seq(D) /\ \A x \in D : <<x>> \in Seq(D)
        OBVIOUS
    <2> QED
        BY <2>1, <2>2, Zenon
<1>4. PlainCells(s) = [i \in 1..n |-> E(i)] /\ ColoredCells(s) = [i \in 1..n |-> F(i)]
    BY <1>1, Zenon DEF PlainCells, ColoredCells
<1> HIDE DEF E, F, D, n
<1>5. PlainCells(s) \in [1..n -> Seq(S)] /\ ColoredCells(s) \in [1..n -> Seq(D)]
    BY <1>2, <1>3, <1>4
<1>6. PlainCells(s) \in Seq(Seq(S)) /\ Len(PlainCells(s)) = n
    BY <1>1, <1>5, FunctionSeq
<1>7. ColoredCells(s) \in Seq(Seq(D)) /\ Len(ColoredCells(s)) = n
    BY <1>1, <1>5, FunctionSeq
<1> QED
    BY <1>6, <1>7 DEF n, D

LEMMA CellIs ==
    ASSUME NEW S, NEW s \in Seq(S), NEW i \in 1 .. Len(s)
    PROVE  /\ InCode(s, i) => PlainCells(s)[i] = <<>> /\ ColoredCells(s)[i] = <<>>
           /\ ~InCode(s, i) => PlainCells(s)[i] = <<s[i]>> /\ ColoredCells(s)[i] = <<Shown(s, i)>>
<1>1. i \in DOMAIN s
    OBVIOUS
<1> QED
    BY <1>1, Zenon DEF PlainCells, ColoredCells

PlainUpTo(s, p) == FlattenSeq(SubSeq(PlainCells(s), 1, p))
ColoredUpTo(s, p) == FlattenSeq(SubSeq(ColoredCells(s), 1, p))

\* The part shows what stands between p and q.
PaintedTo(s, p, q, part) ==
    /\ PlainUpTo(s, q) = PlainUpTo(s, p) \o part.head
    /\ Painted(part) \in Seq(AllShown(s))
    /\ ColoredUpTo(s, q) = ColoredUpTo(s, p) \o Painted(part)

LEMMA CellsPainted ==
    ASSUME NEW S, NEW s \in Seq(S), NEW p \in Nat, NEW m, NEW q, NEW color, NEW part,
           Painting(s, p, m, q, color), part.color = color, part.head = SubSeq(s, m + 1, q)
    PROVE  PaintedTo(s, p, q, part)
<1> DEFINE h == part.head
           n == q - m
           c == PlainCells(s)
           d == ColoredCells(s)
           D == AllShown(s)
           g == Painted(part)
<1>1. /\ m \in Nat /\ q \in Nat /\ p <= m /\ m <= q /\ q <= Len(s) /\ m <= Len(s)
      /\ n \in Nat /\ m + n = q /\ Len(s) \in Nat
    BY DEF Painting
<1>2. /\ \A a \in p + 1 .. m : InCode(s, a)
      /\ \A a \in m + 1 .. q : ~InCode(s, a) /\ LastColor(s, a) = color
    BY DEF Painting
<1>3. h \in Seq(S) /\ Len(h) = n /\ \A i \in 1..n : h[i] = s[m + i]
    BY <1>1, SubIs
<1>4. c \in Seq(Seq(S)) /\ Len(c) = Len(s) /\ d \in Seq(Seq(D)) /\ Len(d) = Len(s)
    BY CellsAre
<1>5. \A a \in p + 1 .. m : c[a] = <<>> /\ d[a] = <<>>
    <2>1. \A a \in p + 1 .. m : a \in 1 .. Len(s)
        BY <1>1
    <2> HIDE DEF c, d
    <2> QED
        BY <1>2, <2>1, CellIs DEF c, d
<1>6. \A i \in 1..n : c[m + i] = <<h[i]>> /\ d[m + i] = << <<h[i], color>> >> /\ <<h[i], color>> \in D
    <2> SUFFICES ASSUME NEW i \in 1..n
                 PROVE  c[m + i] = <<h[i]>> /\ d[m + i] = << <<h[i], color>> >> /\ <<h[i], color>> \in D
        OBVIOUS
    <2> DEFINE a == m + i
    <2>1. a \in m + 1 .. q /\ a \in 1 .. Len(s)
        BY <1>1
    <2>2. h[i] = s[a]
        BY <1>3
    <2> HIDE DEF a, c, d, D, h
    <2>3. ~InCode(s, a) /\ LastColor(s, a) = color
        BY <1>2, <2>1
    <2>4. Shown(s, a) = <<h[i], color>>
        BY <2>2, <2>3, Zenon DEF Shown
    <2>5. c[a] = <<s[a]>> /\ d[a] = <<Shown(s, a)>>
        BY <2>1, <2>3, CellIs DEF c, d
    <2>6. Shown(s, a) \in D
        BY <2>1, Zenon DEF D, AllShown
    <2> QED
        BY <2>2, <2>4, <2>5, <2>6, Zenon DEF a
<1>7. g = [i \in 1..n |-> <<h[i], color>>]
    <2>1. DOMAIN h = 1..n
        BY <1>3
    <2> QED
        BY <2>1, Zenon DEF Painted
<1> HIDE DEF c, d, D, g, h, n
<1>8. g \in Seq(D) /\ Len(g) = n /\ \A i \in 1..n : g[i] = <<h[i], color>>
    <2>1. g \in [1..n -> D]
        BY <1>6, <1>7, Zenon
    <2>2. \A i \in 1..n : g[i] = <<h[i], color>>
        BY <1>7, Zenon
    <2> QED
        BY <1>1, <2>1, <2>2, FunctionSeq
<1>9. FlattenSeq(SubSeq(c, 1, q)) = FlattenSeq(SubSeq(c, 1, p)) \o h
    <2>1. FlattenSeq(SubSeq(c, 1, m)) = FlattenSeq(SubSeq(c, 1, p))
        BY <1>1, <1>4, <1>5, CellsSkipped
    <2>2. m + Len(h) <= Len(c) /\ \A i \in 1 .. Len(h) : c[m + i] = <<h[i]>>
        BY <1>1, <1>3, <1>4, <1>6
    <2>3. Joins(FlattenSeq(SubSeq(c, 1, m)), h, FlattenSeq(SubSeq(c, 1, m + Len(h))))
        BY <1>1, <1>3, <1>4, <2>2, CellsTaken
    <2> QED
        BY <1>1, <1>3, <2>1, <2>3, Zenon DEF Joins
<1>10. FlattenSeq(SubSeq(d, 1, q)) = FlattenSeq(SubSeq(d, 1, p)) \o g
    <2>1. FlattenSeq(SubSeq(d, 1, m)) = FlattenSeq(SubSeq(d, 1, p))
        BY <1>1, <1>4, <1>5, CellsSkipped
    <2>2. m + Len(g) <= Len(d) /\ \A i \in 1 .. Len(g) : d[m + i] = <<g[i]>>
        BY <1>1, <1>4, <1>6, <1>8
    <2>3. Joins(FlattenSeq(SubSeq(d, 1, m)), g, FlattenSeq(SubSeq(d, 1, m + Len(g))))
        BY <1>1, <1>4, <1>8, <2>2, CellsTaken
    <2> QED
        BY <1>1, <1>8, <2>1, <2>3, Zenon DEF Joins
<1> QED
    BY <1>8, <1>9, <1>10, Zenon DEF PaintedTo, PlainUpTo, ColoredUpTo, c, d, D, g, h

-----------------------------------------------------------------------------
(* The turns of the iterator                                               *)

\* The turns of the iterator.
Rounds(r, s, n) ==
    r = [k \in 0..n |-> IF k = 0 THEN [parts |-> <<>>, rest |-> s] ELSE TakePart(r[k - 1])]

LEMMA RoundsAt ==
    ASSUME NEW r, NEW s, NEW n \in Nat, Rounds(r, s, n), NEW k \in 0..n
    PROVE  r[k] = IF k = 0 THEN [parts |-> <<>>, rest |-> s] ELSE TakePart(r[k - 1])
<1> DEFINE E(j) == IF j = 0 THEN [parts |-> <<>>, rest |-> s] ELSE TakePart(r[j - 1])
<1>1. r = [j \in 0..n |-> E(j)]
    BY DEF Rounds
<1> HIDE DEF E
<1>2. r[k] = E(k)
    BY <1>1
<1> QED
    BY <1>2 DEF E

LEMMA RoundsExist ==
    ASSUME NEW s
    PROVE  \A n \in Nat : \E r : Rounds(r, s, n)
<1> DEFINE P == {n \in Nat : \E r : Rounds(r, s, n)}
           start == [parts |-> <<>>, rest |-> s]
<1>1. 0 \in P
    <2> DEFINE r == [k \in 0..0 |-> start]
    <2>1. r = [k \in 0..0 |-> IF k = 0 THEN start ELSE TakePart(r[k - 1])]
        <3>1. \A k \in 0..0 : k = 0
            OBVIOUS
        <3> HIDE DEF start
        <3> QED
            BY <3>1, Zenon
    <2> HIDE DEF r
    <2>2. Rounds(r, s, 0)
        BY <2>1 DEF Rounds
    <2> QED
        BY <2>2
<1>2. ASSUME NEW n \in Nat, n \in P PROVE n + 1 \in P
    <2>1. PICK f : Rounds(f, s, n)
        BY <1>2
    <2> DEFINE N == n + 1
               r == [k \in 0..N |-> IF k = N THEN TakePart(f[n]) ELSE f[k]]
               E(k) == IF k = 0 THEN start ELSE TakePart(r[k - 1])
    <2>2. N \in Nat /\ N - 1 = n /\ n # N /\ N # 0 /\ n \in 0..N /\ \A k \in 0..N : k = N \/ k \in 0..n
        OBVIOUS
    <2>3. \A k \in 0..n : k # N /\ k \in 0..N /\ (k # 0 => k - 1 \in 0..n)
        OBVIOUS
    <2> HIDE DEF N, start
    <2>4. \A k \in 0..n : r[k] = f[k]
        BY <2>3, Zenon
    <2>5. \A k \in 0..n : f[k] = IF k = 0 THEN start ELSE TakePart(f[k - 1])
        BY <2>1, RoundsAt DEF start
    <2>6. r[N] = TakePart(f[n])
        <3>1. N \in 0..N
            BY <2>2
        <3> QED
            BY <3>1, Zenon
    <2>7. r = [k \in 0..N |-> r[k]]
        BY Zenon
    <2> HIDE DEF r
    <2>8. ASSUME NEW k \in 0..N PROVE r[k] = E(k)
        <3>1. CASE k = N
            <4>1. n \in 0..n
                OBVIOUS
            <4> QED
                BY <2>2, <2>4, <2>6, <3>1, <4>1, Zenon
        <3>2. CASE k \in 0..n
            BY <2>3, <2>4, <2>5, <3>2, Zenon
        <3> QED
            BY <2>2, <3>1, <3>2
    <2>9. r = [k \in 0..N |-> E(k)]
        <3> HIDE DEF E
        <3> QED
            BY <2>7, <2>8, Zenon
    <2>10. Rounds(r, s, N)
        BY <2>9 DEF Rounds, start
    <2> QED
        BY <2>10 DEF N
<1> HIDE DEF P
<1>3. \A n \in Nat : n \in P
    BY <1>1, <1>2, SetInduction
<1> QED
    BY <1>3 DEF P

Heads(parts) == [i \in DOMAIN parts |-> parts[i].head]

\* Parts as the iterator returns them for s.
PartsOf(S, s) ==
    {part \in [color : Seq(S), head : Seq(S), rest : Seq(S)] : Painted(part) \in Seq(AllShown(s))}

\* After some turns: everything up to p was read.
ReadTo(S, s, x, p) ==
    /\ Cut(s, p) /\ x.rest = From(p + 1, s) /\ x.parts \in Seq(PartsOf(S, s))
    /\ FlattenSeq(Heads(x.parts)) = PlainUpTo(s, p)
    /\ PaintedParts(x.parts) = ColoredUpTo(s, p)

\* w is t and one element more.
Adds(w, t, x, n) ==
    w = [i \in 1 .. n + 1 |-> w[i]] /\ w[n + 1] = x /\ \A i \in 1..n : w[i] = t[i]

LEMMA AppendTo ==
    ASSUME NEW S, NEW t \in Seq(S), NEW n, n = Len(t), NEW x \in S, NEW w, Adds(w, t, x, n)
    PROVE  w = Append(t, x)
<1>1. Append(t, x) = [i \in 1 .. n + 1 |-> IF i = n + 1 THEN x ELSE t[i]]
    BY AppendIs
<1>2. \A i \in 1 .. n + 1 : w[i] = IF i = n + 1 THEN x ELSE t[i]
    <2>1. \A i \in 1 .. n + 1 : i = n + 1 \/ i \in 1..n
        OBVIOUS
    <2> QED
        BY <2>1, Zenon DEF Adds
<1>3. w = [i \in 1 .. n + 1 |-> w[i]]
    BY Zenon DEF Adds
<1> QED
    BY <1>1, <1>2, <1>3, Zenon

\* What the parts show with one part more.
Gathered(S, s, parts, part, more) ==
    /\ more \in Seq(PartsOf(S, s))
    /\ FlattenSeq(Heads(more)) = FlattenSeq(Heads(parts)) \o part.head
    /\ PaintedParts(more) = PaintedParts(parts) \o Painted(part)

LEMMA PartsAppended ==
    ASSUME NEW S, NEW s, NEW parts \in Seq(PartsOf(S, s)), NEW part \in PartsOf(S, s),
           NEW more, more = Append(parts, part)
    PROVE  Gathered(S, s, parts, part, more)
<1> DEFINE U == PartsOf(S, s)
           D == AllShown(s)
           n == Len(parts)
           g(ps) == [i \in DOMAIN ps |-> Painted(ps[i])]
<1>1. \A x \in U : x.head \in Seq(S) /\ Painted(x) \in Seq(D)
    BY DEF PartsOf
<1> HIDE DEF U, D
<1>2. /\ more \in Seq(U) /\ DOMAIN more = 1 .. n + 1 /\ more[n + 1] = part
      /\ \A i \in 1..n : more[i] = parts[i]
    BY AppendProperties DEF U
<1>3. n \in Nat /\ DOMAIN parts = 1..n /\ n + 1 \in 1 .. n + 1 /\ \A i \in 1..n : i \in 1 .. n + 1
    OBVIOUS
<1>4. (\A i \in 1..n : parts[i] \in U) /\ part \in U
    BY <1>3, ElementOfSeq DEF U
<1> HIDE DEF n, g
<1>5. /\ Heads(parts) = [i \in 1..n |-> parts[i].head] /\ g(parts) = [i \in 1..n |-> Painted(parts[i])]
      /\ Heads(more) = [i \in 1 .. n + 1 |-> more[i].head] /\ g(more) = [i \in 1 .. n + 1 |-> Painted(more[i])]
    BY <1>2, <1>3, Zenon DEF Heads, g
<1> DEFINE a == Heads(parts)
           b == Heads(more)
           c == g(parts)
           d == g(more)
<1>6. a \in [1..n -> Seq(S)] /\ c \in [1..n -> Seq(D)]
    <2>1. \A i \in 1..n : parts[i].head \in Seq(S) /\ Painted(parts[i]) \in Seq(D)
        BY <1>1, <1>4, Zenon
    <2>2. a = [i \in 1..n |-> parts[i].head] /\ c = [i \in 1..n |-> Painted(parts[i])]
        BY <1>5, Zenon
    <2> HIDE DEF a, c
    <2>3. a \in [1..n -> Seq(S)]
        BY <2>1, <2>2, Zenon
    <2>4. c \in [1..n -> Seq(D)]
        BY <2>1, <2>2, Zenon
    <2> QED
        BY <2>3, <2>4
<1>7. /\ b[n + 1] = part.head /\ d[n + 1] = Painted(part)
      /\ \A i \in 1..n : b[i] = a[i] /\ d[i] = c[i]
    <2>1. \A i \in 1 .. n + 1 : b[i] = more[i].head /\ d[i] = Painted(more[i])
        BY <1>5, Zenon
    <2>2. \A i \in 1..n : a[i] = parts[i].head /\ c[i] = Painted(parts[i])
        BY <1>5, Zenon
    <2> HIDE DEF a, b, c, d
    <2> QED
        BY <1>2, <1>3, <2>1, <2>2, Zenon
<1>8. b = [i \in 1 .. n + 1 |-> b[i]] /\ d = [i \in 1 .. n + 1 |-> d[i]]
    BY <1>5, Zenon
<1> HIDE DEF a, b, c, d
<1>9. a \in Seq(Seq(S)) /\ Len(a) = n /\ c \in Seq(Seq(D)) /\ Len(c) = n
    BY <1>3, <1>6, FunctionSeq
<1> DEFINE h == part.head
           e == Painted(part)
<1>10. h \in Seq(S) /\ e \in Seq(D)
    BY <1>1, <1>4
<1> HIDE DEF h, e
<1>11. b = Append(a, h)
    <2>1. Adds(b, a, h, n)
        BY <1>7, <1>8, Zenon DEF Adds, h
    <2> QED
        BY <1>9, <1>10, <2>1, AppendTo
<1>12. d = Append(c, e)
    <2>1. Adds(d, c, e, n)
        BY <1>7, <1>8, Zenon DEF Adds, e
    <2> QED
        BY <1>9, <1>10, <2>1, AppendTo
<1>13. FlattenSeq(b) = FlattenSeq(a) \o h /\ FlattenSeq(d) = FlattenSeq(c) \o e
    BY <1>9, <1>10, <1>11, <1>12, FlattenAppend
<1>14. PaintedParts(parts) = FlattenSeq(c) /\ PaintedParts(more) = FlattenSeq(d)
    BY Zenon DEF PaintedParts, c, d, g
<1> QED
    BY <1>2, <1>13, <1>14, Zenon DEF Gathered, a, b, h, e, U

LEMMA NextTurn ==
    ASSUME NEW S, NEW s \in Seq(S), NEW x, NEW p, ReadTo(S, s, x, p), p # Len(s)
    PROVE  \E q \in Nat : p < q /\ ReadTo(S, s, TakePart(x), q)
<1> DEFINE v == From(p + 1, s)
           part == ColorPart(v)
<1>1. /\ Cut(s, p) /\ x.rest = v /\ x.parts \in Seq(PartsOf(S, s))
      /\ FlattenSeq(Heads(x.parts)) = PlainUpTo(s, p)
      /\ PaintedParts(x.parts) = ColoredUpTo(s, p)
    BY DEF ReadTo
<1>2. PICK m, q, color :
          /\ Painting(s, p, m, q, color) /\ Cut(s, q) /\ color \in Seq(S)
          /\ part = [color |-> color, head |-> SubSeq(s, m + 1, q), rest |-> From(q + 1, s)]
    <2>1. \E m, q, color : PartAt(S, s, p, m, q, color, part)
        BY <1>1, NextPartIs
    <2> QED
        BY <2>1, Zenon DEF PartAt
<1>3. p \in 0 .. Len(s) /\ p \in Nat /\ Len(s) \in Nat
    BY <1>1 DEF Cut
<1>4. v # <<>>
    BY <1>3, FromEnd
<1> DEFINE y == [parts |-> Append(x.parts, part), rest |-> part.rest]
<1>5. TakePart(x) = y
    BY <1>1, <1>4, Zenon DEF TakePart
<1>6. m \in Nat /\ q \in Nat /\ p < q /\ m <= q /\ q <= Len(s) /\ q \in 0 .. Len(s)
    BY <1>2, <1>3 DEF Painting
<1>7. part.color = color /\ part.head = SubSeq(s, m + 1, q) /\ part.rest = From(q + 1, s)
    BY <1>2
<1>8. /\ PlainUpTo(s, q) = PlainUpTo(s, p) \o part.head
      /\ Painted(part) \in Seq(AllShown(s))
      /\ ColoredUpTo(s, q) = ColoredUpTo(s, p) \o Painted(part)
    <2> HIDE DEF part
    <2>1. PaintedTo(s, p, q, part)
        BY <1>2, <1>3, <1>7, CellsPainted
    <2> QED
        BY <2>1, Zenon DEF PaintedTo
<1>9. part \in PartsOf(S, s)
    <2>1. SubSeq(s, m + 1, q) \in Seq(S)
        BY <1>6, SubIs
    <2>2. From(q + 1, s) \in Seq(S)
        BY <1>6, FromIs
    <2>3. part \in [color : Seq(S), head : Seq(S), rest : Seq(S)]
        <3> DEFINE h == SubSeq(s, m + 1, q)
                   w == From(q + 1, s)
        <3>1. part = [color |-> color, head |-> h, rest |-> w] /\ h \in Seq(S) /\ w \in Seq(S)
            BY <1>2, <2>1, <2>2, Zenon
        <3>2. color \in Seq(S)
            BY <1>2
        <3> HIDE DEF part, h, w
        <3> QED
            BY <3>1, <3>2, Zenon
    <2> HIDE DEF part
    <2> QED
        BY <1>8, <2>3 DEF PartsOf
<1>10. y.parts = Append(x.parts, part) /\ y.rest = part.rest
    BY Zenon
<1> HIDE DEF part, y, v
<1>11. /\ y.parts \in Seq(PartsOf(S, s))
       /\ FlattenSeq(Heads(y.parts)) = FlattenSeq(Heads(x.parts)) \o part.head
       /\ PaintedParts(y.parts) = PaintedParts(x.parts) \o Painted(part)
    <2> DEFINE ps == x.parts
               more == y.parts
    <2>1. ps \in Seq(PartsOf(S, s)) /\ more = Append(ps, part)
        BY <1>1, <1>10
    <2> HIDE DEF ps, more
    <2>2. Gathered(S, s, ps, part, more)
        BY <1>9, <2>1, PartsAppended
    <2> QED
        BY <2>2, Zenon DEF Gathered, ps, more
<1>12. ReadTo(S, s, y, q)
    BY <1>1, <1>2, <1>7, <1>8, <1>10, <1>11, Zenon DEF ReadTo
<1> QED
    BY <1>5, <1>6, <1>12

\* Every part takes one character at least, so that as many turns as characters are enough.
LEMMA PartsAre ==
    ASSUME NEW S, NEW s \in Seq(S)
    PROVE  /\ FlattenSeq(Heads(ColorParts(s))) = Plain(s)
           /\ PaintedParts(ColorParts(s)) = Colored(s)
<1> DEFINE n == Len(s)
           r == CHOOSE f : Rounds(f, s, n)
<1>1. n \in Nat
    OBVIOUS
<1>2. ColorParts(s) = r[n].parts
    BY Zenon DEF ColorParts, Rounds
<1>3. Rounds(r, s, n)
    <2>1. \E f : Rounds(f, s, n)
        BY <1>1, RoundsExist
    <2> QED
        BY <2>1, Zenon
<1> HIDE DEF r
<1> DEFINE Good(k) == \E p \in Nat : k <= p /\ ReadTo(S, s, r[k], p)
           P == {k \in Nat : k <= n => Good(k)}
           start == [parts |-> <<>>, rest |-> s]
<1>4. \A k \in 0..n : r[k] = IF k = 0 THEN start ELSE TakePart(r[k - 1])
    BY <1>1, <1>3, RoundsAt
<1>5. 0 \in P
    <2>1. r[0] = start
        <3>1. 0 \in 0..n
            BY <1>1
        <3> QED
            BY <1>4, <3>1, Zenon
    <2>2. start.parts = <<>> /\ start.rest = s
        BY Zenon
    <2> HIDE DEF start
    <2>3. Cut(s, 0)
        BY <1>1 DEF Cut, CodeAt
    <2>4. From(0 + 1, s) = s
        BY FrontWhole DEF From
    <2>5. Heads(<<>>) = <<>> /\ PaintedParts(<<>>) = <<>> /\ <<>> \in Seq(PartsOf(S, s))
        <3>1. \A e : [i \in DOMAIN <<>> |-> e] = <<>>
            OBVIOUS
        <3>2. DOMAIN <<>> = {}
            OBVIOUS
        <3>3. Heads(<<>>) = <<>>
            BY <3>2 DEF Heads
        <3>4. [i \in DOMAIN <<>> |-> Painted(<<>>[i])] = <<>>
            BY <3>2
        <3>5. PaintedParts(<<>>) = FlattenSeq(<<>>)
            BY <3>4, Zenon DEF PaintedParts
        <3> QED
            BY <3>3, <3>5, FlattenEmpty
    <2>6. PlainUpTo(s, 0) = <<>> /\ ColoredUpTo(s, 0) = <<>>
        BY FrontNothing, FlattenEmpty, Zenon DEF PlainUpTo, ColoredUpTo
    <2>7. ReadTo(S, s, start, 0)
        BY <2>2, <2>3, <2>4, <2>5, <2>6, FlattenEmpty, Zenon DEF ReadTo
    <2>8. 0 \in Nat /\ 0 <= 0
        OBVIOUS
    <2> QED
        BY <2>1, <2>7, <2>8
<1> HIDE DEF start
<1>6. ASSUME NEW k \in Nat, k \in P PROVE k + 1 \in P
    <2> SUFFICES ASSUME k + 1 <= n PROVE Good(k + 1)
        OBVIOUS
    <2>1. k <= n /\ k + 1 \in 0..n /\ k + 1 # 0 /\ (k + 1) - 1 = k
        BY <1>1
    <2>2. PICK p \in Nat : k <= p /\ ReadTo(S, s, r[k], p)
        BY <1>6, <2>1
    <2>3. r[k + 1] = TakePart(r[k])
        BY <1>4, <2>1
    <2> HIDE DEF n
    <2>4. CASE p = n
        <3>1. r[k].rest = From(p + 1, s) /\ p \in 0 .. Len(s)
            BY <2>2 DEF ReadTo, Cut
        <3>2. r[k].rest = <<>>
            BY <2>4, <3>1, FromEnd DEF n
        <3>3. r[k + 1] = r[k]
            BY <2>3, <3>2 DEF TakePart
        <3> QED
            BY <2>1, <2>2, <2>4, <3>3
    <2>5. CASE p # n
        <3>1. PICK q \in Nat : p < q /\ ReadTo(S, s, TakePart(r[k]), q)
            BY <2>2, <2>5, NextTurn DEF n
        <3>2. k + 1 <= q
            BY <2>2, <3>1
        <3> QED
            BY <2>3, <3>1, <3>2
    <2> QED
        BY <2>4, <2>5
<1> HIDE DEF P
<1>7. \A k \in Nat : k \in P
    BY <1>5, <1>6, SetInduction
<1>8. PICK p \in Nat : n <= p /\ ReadTo(S, s, r[n], p)
    BY <1>1, <1>7 DEF P
<1>9. p = n
    <2>1. p \in 0 .. Len(s)
        BY <1>8 DEF ReadTo, Cut
    <2> QED
        BY <1>1, <1>8, <2>1
<1>10. FlattenSeq(Heads(r[n].parts)) = PlainUpTo(s, n) /\ PaintedParts(r[n].parts) = ColoredUpTo(s, n)
    BY <1>8, <1>9, Zenon DEF ReadTo
<1>11. PlainUpTo(s, n) = Plain(s) /\ ColoredUpTo(s, n) = Colored(s)
    <2> DEFINE c == PlainCells(s)
               d == ColoredCells(s)
               D == AllShown(s)
    <2>1. c \in Seq(Seq(S)) /\ Len(c) = n /\ d \in Seq(Seq(D)) /\ Len(d) = n
        BY CellsAre
    <2>2. Plain(s) = FlattenSeq(c) /\ Colored(s) = FlattenSeq(d)
        BY Zenon DEF Plain, Colored, PlainCells, ColoredCells, Shown
    <2>3. PlainUpTo(s, n) = FlattenSeq(SubSeq(c, 1, n)) /\ ColoredUpTo(s, n) = FlattenSeq(SubSeq(d, 1, n))
        BY Zenon DEF PlainUpTo, ColoredUpTo
    <2> HIDE DEF c, d, D, n
    <2>4. SubSeq(c, 1, n) = c /\ SubSeq(d, 1, n) = d
        BY <2>1, FrontWhole
    <2> QED
        BY <2>2, <2>3, <2>4, Zenon
<1> QED
    BY <1>2, <1>10, <1>11, Zenon

-----------------------------------------------------------------------------
(* What is left of a name                                                  *)

\* A text without a code is left as it is.
LEMMA PlainAlready ==
    ASSUME NEW S, NEW s \in Seq(S), \A i \in 1 .. Len(s) : ~InCode(s, i)
    PROVE  Plain(s) = s
<1> DEFINE c == PlainCells(s)
           n == Len(s)
           m == 0
<1>1. c \in Seq(Seq(S)) /\ Len(c) = n /\ n \in Nat
    BY CellsAre
<1>2. \A i \in 1..n : c[i] = <<s[i]>>
    BY CellIs
<1>3. Plain(s) = FlattenSeq(c)
    BY Zenon DEF Plain, PlainCells
<1> HIDE DEF c
<1>4. SubSeq(c, 1, n) = c
    BY <1>1, FrontWhole
<1>5. m \in Nat /\ m + n = n /\ \A i \in 1..n : m + i = i
    BY <1>1
<1>6. FlattenSeq(SubSeq(c, 1, m)) = <<>>
    BY FrontNothing, FlattenEmpty, Zenon
<1>7. FlattenSeq(SubSeq(c, 1, m + n)) = FlattenSeq(SubSeq(c, 1, m)) \o s
    <2> HIDE DEF m
    <2>1. m + Len(s) <= Len(c) /\ \A i \in 1 .. Len(s) : c[m + i] = <<s[i]>>
        BY <1>1, <1>2, <1>5
    <2>2. Joins(FlattenSeq(SubSeq(c, 1, m)), s, FlattenSeq(SubSeq(c, 1, m + Len(s))))
        BY <1>1, <1>5, <2>1, CellsTaken
    <2> QED
        BY <2>2, Zenon DEF Joins
<1>8. <<>> \o s = s
    BY ConcatEmptySeq
<1> HIDE DEF m
<1> QED
    BY <1>3, <1>4, <1>5, <1>6, <1>7, <1>8, Zenon

\* The codes in front show nothing.
LEMMA PlainTail ==
    ASSUME NEW S, NEW s \in Seq(S), NEW n, Skips(s, n)
    PROVE  Plain(From(2 * n + 1, s)) = Plain(s)
<1> DEFINE m == 2 * n
           k == Len(s)
           t == From(m + 1, s)
           c == PlainCells(s)
           d == PlainCells(t)
           a == SubSeq(c, 1, m)
           b == SubSeq(c, m + 1, k)
           z == 0
<1>1. m \in Nat /\ k \in Nat /\ m <= k /\ m \in 0 .. Len(s)
    BY DEF Skips
<1>2. (\A i \in 1..m : InCode(s, i)) /\ ~CodeAt(s, m)
    BY SkipsIs
<1> HIDE DEF m
<1>3. t \in Seq(S) /\ Len(t) = k - m /\ \A i \in 1 .. k - m : t[i] = s[m + i]
    BY <1>1, FromIs
<1>4. \A i \in Nat \ {0} : CodeAt(t, i) <=> CodeAt(s, m + i)
    BY <1>1, CodeFrom
<1> HIDE DEF t
<1>5. c \in Seq(Seq(S)) /\ Len(c) = k
    BY CellsAre
<1>6. d \in Seq(Seq(S)) /\ Len(d) = k - m
    BY <1>3, CellsAre
<1>7. ASSUME NEW i \in 1 .. k - m PROVE d[i] = c[m + i]
    <2>1. i \in Nat \ {0} /\ i \in 1 .. Len(t) /\ m + i \in 1 .. Len(s) /\ m + (i - 1) = (m + i) - 1
        BY <1>1, <1>3
    <2>2. CodeAt(t, i) <=> CodeAt(s, m + i)
        BY <1>4, <2>1
    <2>3. CodeAt(t, i - 1) <=> CodeAt(s, (m + i) - 1)
        <3>1. CASE i = 1
            <4>1. ~CodeAt(t, 0) /\ i - 1 = 0 /\ (m + i) - 1 = m
                BY <1>1, <3>1 DEF CodeAt
            <4> QED
                BY <1>2, <4>1
        <3>2. CASE i # 1
            <4>1. i - 1 \in Nat \ {0}
                BY <2>1, <3>2
            <4> QED
                BY <1>4, <2>1, <4>1
        <3> QED
            BY <3>1, <3>2
    <2>4. InCode(t, i) <=> InCode(s, m + i)
        BY <2>2, <2>3 DEF InCode
    <2>5. t[i] = s[m + i]
        BY <1>3
    <2> DEFINE j == m + i
    <2>6. j \in 1 .. Len(s) /\ (InCode(t, i) <=> InCode(s, j)) /\ t[i] = s[j]
        BY <2>1, <2>4, <2>5
    <2> HIDE DEF j
    <2>7. /\ InCode(t, i) => d[i] = <<>>
          /\ ~InCode(t, i) => d[i] = <<t[i]>>
        BY <1>3, <2>1, CellIs
    <2>8. /\ InCode(s, j) => c[j] = <<>>
          /\ ~InCode(s, j) => c[j] = <<s[j]>>
        BY <2>6, CellIs
    <2> HIDE DEF c, d
    <2>9. d[i] = c[j]
        BY <2>6, <2>7, <2>8, Zenon
    <2> QED
        BY <2>9 DEF j
<1>8. Plain(s) = FlattenSeq(c) /\ Plain(t) = FlattenSeq(d)
    BY Zenon DEF Plain, PlainCells
<1>9. \A i \in 1..m : c[i] = <<>>
    <2>1. \A i \in 1..m : i \in 1 .. Len(s)
        BY <1>1
    <2> QED
        BY <1>2, <2>1, CellIs
<1> HIDE DEF c, d, k
<1>10. a \in Seq(Seq(S))
    BY <1>1, <1>5, FrontType
<1>11. b \in Seq(Seq(S)) /\ Len(b) = k - m /\ \A i \in 1 .. k - m : b[i] = c[m + i]
    BY <1>1, <1>5, SubIs
<1>12. a \o b = c
    <2>1. 1 \in 1 .. Len(c) + 1 /\ m \in 1 - 1 .. Len(c) /\ k \in m .. Len(c)
        BY <1>1, <1>5
    <2>2. SubSeq(c, 1, m) \o SubSeq(c, m + 1, k) = SubSeq(c, 1, k)
        BY <1>5, <2>1, ConcatAdjacentSubSeq
    <2>3. SubSeq(c, 1, k) = c
        BY <1>5, FrontWhole
    <2> QED
        BY <2>2, <2>3, Zenon
<1>13. FlattenSeq(a) = <<>>
    <2>1. z \in Nat /\ z <= m /\ z + 1 = 1
        BY <1>1
    <2>2. FlattenSeq(SubSeq(c, 1, z)) = <<>>
        BY FrontNothing, FlattenEmpty, Zenon
    <2> HIDE DEF z
    <2>3. FlattenSeq(SubSeq(c, 1, m)) = FlattenSeq(SubSeq(c, 1, z))
        BY <1>1, <1>5, <1>9, <2>1, CellsSkipped
    <2> QED
        BY <2>2, <2>3, Zenon
<1> HIDE DEF a, b
<1>14. b = d
    <2>1. \A i \in 1 .. k - m : b[i] = d[i]
        BY <1>7, <1>11, Zenon
    <2> QED
        BY <1>6, <1>11, <2>1, SeqEqual
<1>15. FlattenSeq(a \o b) = FlattenSeq(a) \o FlattenSeq(b)
    BY <1>10, <1>11, FlattenConcat
<1>16. <<>> \o FlattenSeq(b) = FlattenSeq(b)
    <2>1. FlattenSeq(b) \in Seq(S)
        BY <1>11, FlattenType
    <2> QED
        BY <2>1, ConcatEmptySeq
<1>17. Plain(t) = Plain(s)
    BY <1>8, <1>12, <1>13, <1>14, <1>15, <1>16, Zenon
<1> QED
    BY <1>17 DEF t, m

LEMMA TrimmedIs ==
    ASSUME NEW S, NEW s \in Seq(S)
    PROVE  TrimColor(s) = Plain(s)
<1>1. PICK n : /\ Skips(s, n)
               /\ TrimStartColor(s) = [color |-> ColorOf(s, n), tail |-> From(2 * n + 1, s)]
    BY TrimIs
<1> DEFINE t == From(2 * n + 1, s)
           w == TrimStartColor(s)
           parts == ColorParts(t)
<1>2. w.tail = t
    BY <1>1
<1>3. Plain(t) = Plain(s)
    BY <1>1, PlainTail
<1>4. t \in Seq(S)
    <2> DEFINE m == 2 * n
    <2>1. m \in 0 .. Len(s)
        BY <1>1 DEF Skips
    <2> HIDE DEF m
    <2>2. From(m + 1, s) \in Seq(S)
        BY <2>1, FromIs
    <2> QED
        BY <2>2 DEF m
<1> HIDE DEF w, t
<1>5. TrimColor(s) = IF "^" \notin ToSet(t) THEN t ELSE FlattenSeq(Heads(parts))
    BY <1>2, Zenon DEF TrimColor, Heads, w
<1>6. FlattenSeq(Heads(parts)) = Plain(t)
    BY <1>4, PartsAre
<1>7. "^" \notin ToSet(t) => Plain(t) = t
    <2> SUFFICES ASSUME "^" \notin ToSet(t) PROVE Plain(t) = t
        OBVIOUS
    <2>1. \A i \in 1 .. Len(t) : t[i] # "^"
        BY <1>4 DEF ToSet
    <2>2. \A i : ~CodeAt(t, i)
        <3>1. \A i \in 1 .. Len(t) - 1 : i \in 1 .. Len(t)
            BY <1>4
        <3> QED
            BY <2>1, <3>1 DEF CodeAt
    <2>3. \A i \in 1 .. Len(t) : ~InCode(t, i)
        BY <2>2 DEF InCode
    <2> QED
        BY <1>4, <2>3, PlainAlready
<1> QED
    BY <1>3, <1>5, <1>6, <1>7, Zenon

\* Whatever characters a name is written with, the ones that belong to no color code are
\* left of it, in their order, and ColorIter gives each the color of the last code in front
\* of it (trim_color and ColorIter::next in color.rs).
THEOREM ColorsAreRight == TextSpec => []ColorsRight
<1> DEFINE Typed == text \in Seq(TextCharacters)
<1>1. TextInit => Typed
    BY DEF TextInit
<1>2. Typed /\ [TextNext]_text => Typed'
    BY DEF TextNext, TypeCharacter
<1>3. Typed => ColorsRight
    <2> SUFFICES ASSUME Typed PROVE ColorsRight
        OBVIOUS
    <2>1. TrimColor(text) = Plain(text)
        BY TrimmedIs
    <2>2. PaintedParts(ColorParts(text)) = Colored(text)
        BY PartsAre
    <2> QED
        BY <2>1, <2>2 DEF ColorsRight
<1> QED
    BY <1>1, <1>2, <1>3, PTL DEF TextSpec

=============================================================================

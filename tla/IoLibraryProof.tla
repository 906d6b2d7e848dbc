--------------------------- MODULE IoLibraryProof ---------------------------
(***************************************************************************)
(* The I/O library is correct for every file system, content, capacity of  *)
(* the buffers and list of formats: the scanner of numerals takes the      *)
(* longest prefix that can begin one; the state keeps its type and the     *)
(* file of an open handle exists; and where no file has a bare 0x., the    *)
(* library implements FileSpec: a handle is a file and one position in it, *)
(* whatever its buffer holds.                                              *)
(***************************************************************************)
EXTENDS IoLibrary, Induction, SequenceTheorems

\* The parts of tok, by their indices.
PrefixAt(tok, hex) == hex => tok[SignLen(tok) + 1] = "0" /\ tok[SignLen(tok) + 2] = "x"
MantissaAt(tok, hex, b) ==
    /\ \A i \in (Start(tok, hex) + 1)..b : tok[i] \in Digits(hex) \cup {"."}
    /\ \A i, j \in (Start(tok, hex) + 1)..b : tok[i] = "." /\ tok[j] = "." => i = j
DigitAt(tok, hex, b) == \E i \in (Start(tok, hex) + 1)..b : tok[i] \in Digits(hex)
ExponentAt(tok, hex, b) ==
    /\ b < Len(tok) => tok[b + 1] = Mark(hex)
    /\ b + 1 < Len(tok) => tok[b + 2] \in Signs \cup DecDigits
    /\ \A i \in (b + 3)..Len(tok) : tok[i] \in DecDigits
Shape(tok, hex, b) ==
    /\ hex \in BOOLEAN /\ b \in Start(tok, hex)..Len(tok)
    /\ PrefixAt(tok, hex) /\ MantissaAt(tok, hex, b) /\ ExponentAt(tok, hex, b)
-----------------------------------------------------------------------------
(* Sequences                                                               *)

\* A part of a sequence.
LEMMA PartOf ==
    ASSUME NEW S, NEW s \in Seq(S), NEW m \in Nat, NEW n \in Int, 1 <= m, n <= Len(s)
    PROVE  LET p == SubSeq(s, m, n)
           IN  /\ p \in Seq(S) /\ Len(p) = IF m <= n THEN n - m + 1 ELSE 0
               /\ DOMAIN p = 1..Len(p)
               /\ \A i \in 1..Len(p) : p[i] = s[m + i - 1]
<1>1. \A i \in m..n : s[i] \in S
  BY ElementOfSeq, LenProperties
<1> QED
  BY <1>1, SubSeqProperties, LenProperties

\* The part of s after the first a elements.
LEMMA PartAfter ==
    ASSUME NEW S, NEW s \in Seq(S), NEW a \in Nat, NEW b \in Int, b <= Len(s)
    PROVE  LET p == SubSeq(s, a + 1, b)
           IN  /\ p \in Seq(S) /\ DOMAIN p = 1..Len(p) /\ Len(p) = IF a <= b THEN b - a ELSE 0
               /\ \A i \in 1..Len(p) : p[i] = s[a + i]
<1> DEFINE p == SubSeq(s, a + 1, b)
<1>1. a + 1 \in Nat /\ 1 <= a + 1
  OBVIOUS
<1>2. /\ p \in Seq(S) /\ Len(p) = (IF a + 1 <= b THEN b - (a + 1) + 1 ELSE 0) /\ DOMAIN p = 1..Len(p)
      /\ \A i \in 1..Len(p) : p[i] = s[a + 1 + i - 1]
  <2> DEFINE m == a + 1
  <2>1. m \in Nat /\ 1 <= m
    BY <1>1
  <2> HIDE DEF m
  <2>2. LET q == SubSeq(s, m, b)
        IN  /\ q \in Seq(S) /\ Len(q) = (IF m <= b THEN b - m + 1 ELSE 0) /\ DOMAIN q = 1..Len(q)
            /\ \A i \in 1..Len(q) : q[i] = s[m + i - 1]
    BY <2>1, PartOf
  <2> QED
    BY <2>2 DEF m
<1> HIDE DEF p
<1>3. \A i \in 1..Len(p) : a + 1 + i - 1 = a + i
  OBVIOUS
<1>4. Len(p) = IF a <= b THEN b - a ELSE 0
  BY <1>2
<1> QED
  BY <1>2, <1>3, <1>4 DEF p

LEMMA RangeOfPart ==
    ASSUME NEW S, NEW s \in Seq(S), NEW m \in Nat, NEW n \in Int, 1 <= m, n <= Len(s)
    PROVE  Range(SubSeq(s, m, n)) = {s[i] : i \in m..n}
<1> DEFINE p == SubSeq(s, m, n)
<1>1. /\ DOMAIN p = 1..Len(p) /\ Len(p) = IF m <= n THEN n - m + 1 ELSE 0
      /\ \A i \in 1..Len(p) : p[i] = s[m + i - 1]
  BY PartOf
<1> HIDE DEF p
<1>2. ASSUME NEW i \in m..n PROVE s[i] \in {p[k] : k \in DOMAIN p}
  <2>1. i - m + 1 \in DOMAIN p /\ p[i - m + 1] = s[m + (i - m + 1) - 1] /\ m + (i - m + 1) - 1 = i
    BY <1>1
  <2> QED
    BY <2>1
<1>3. ASSUME NEW k \in DOMAIN p PROVE p[k] \in {s[i] : i \in m..n}
  BY <1>1
<1> QED
  BY <1>2, <1>3 DEF p, Range
-----------------------------------------------------------------------------
(* Numerals                                                                *)

LEMMA SplitIsShape ==
    ASSUME NEW S, NEW tok \in Seq(S), NEW hex \in BOOLEAN, NEW b \in 0..Len(tok)
    PROVE  /\ IsSplit(tok, hex, b) <=> Shape(tok, hex, b)
           /\ Start(tok, hex) <= b => (HasDigit(Mantissa(tok, hex, b), hex) <=> DigitAt(tok, hex, b))
           /\ Exponent(tok, b) = <<>> <=> b = Len(tok)
           /\ b < Len(tok) => Last(Exponent(tok, b)) = tok[Len(tok)]
<1> DEFINE a == Start(tok, hex)
           g == SignLen(tok)
           M == Mantissa(tok, hex, b)
           E == Exponent(tok, b)
           P == SubSeq(tok, g + 1, a)
<1>1. Len(tok) \in Nat /\ g \in {0, 1} /\ a = g + (IF hex THEN 2 ELSE 0) /\ a \in Nat /\ b \in Nat
  BY LenProperties DEF SignLen, Start
<1> HIDE DEF a, g
<1>2. /\ E \in Seq(S) /\ DOMAIN E = 1..Len(E) /\ Len(E) = Len(tok) - b
      /\ \A i \in 1..Len(E) : E[i] = tok[b + i]
  <2>1. E = SubSeq(tok, b + 1, Len(tok))
    BY DEF Exponent
  <2> HIDE DEF E
  <2>2. /\ E \in Seq(S) /\ DOMAIN E = 1..Len(E) /\ Len(E) = IF b <= Len(tok) THEN Len(tok) - b ELSE 0
        /\ \A i \in 1..Len(E) : E[i] = tok[b + i]
    BY <1>1, <2>1, PartAfter
  <2> QED
    BY <1>1, <2>2
<1>3. /\ M \in Seq(S) /\ DOMAIN M = 1..Len(M) /\ Len(M) = IF a + 1 <= b THEN b - a ELSE 0
      /\ \A i \in 1..Len(M) : M[i] = tok[a + i]
  <2>1. M = SubSeq(tok, a + 1, b)
    BY DEF Mantissa, a
  <2> HIDE DEF M
  <2>2. /\ M \in Seq(S) /\ DOMAIN M = 1..Len(M) /\ Len(M) = IF a <= b THEN b - a ELSE 0
        /\ \A i \in 1..Len(M) : M[i] = tok[a + i]
    BY <1>1, <2>1, PartAfter
  <2> QED
    BY <1>1, <2>2
<1>4. Range(M) = {tok[i] : i \in (a + 1)..b}
  BY <1>1, RangeOfPart DEF Mantissa, a
<1>5. a <= b => /\ P \in Seq(S) /\ DOMAIN P = 1..Len(P) /\ Len(P) = a - g
                /\ \A i \in 1..Len(P) : P[i] = tok[g + i]
  <2> SUFFICES ASSUME a <= b
               PROVE  /\ P \in Seq(S) /\ DOMAIN P = 1..Len(P) /\ Len(P) = a - g
                      /\ \A i \in 1..Len(P) : P[i] = tok[g + i]
    OBVIOUS
  <2>1. g \in Nat /\ a \in Int /\ g <= a /\ a <= Len(tok)
    BY <1>1
  <2>2. /\ P \in Seq(S) /\ DOMAIN P = 1..Len(P) /\ Len(P) = (IF g <= a THEN a - g ELSE 0)
        /\ \A i \in 1..Len(P) : P[i] = tok[g + i]
    BY <2>1, PartAfter
  <2> QED
    BY <2>1, <2>2
<1>6. E = <<>> <=> Len(E) = 0
  BY <1>2, EmptySeq
<1> HIDE DEF M, E, P
<1>7. HasDigit(M, hex) <=> DigitAt(tok, hex, b)
  BY <1>4 DEF HasDigit, DigitAt, a
<1>8. IsMantissa(M, hex) <=> MantissaAt(tok, hex, b)
  <2>1. Range(M) \subseteq Digits(hex) \cup {"."} <=> \A i \in (a + 1)..b : tok[i] \in Digits(hex) \cup {"."}
    BY <1>4
  <2>0. /\ \A i \in (a + 1)..b : i - a \in DOMAIN M /\ M[i - a] = tok[i]
        /\ \A i \in DOMAIN M : a + i \in (a + 1)..b /\ M[i] = tok[a + i] /\ i \in Nat
    <3>1. ASSUME NEW i \in (a + 1)..b PROVE i - a \in DOMAIN M /\ M[i - a] = tok[i]
      <4>1. a + 1 <= b /\ i - a \in 1..(b - a) /\ a + (i - a) = i
        BY <1>1
      <4> QED
        BY <1>3, <4>1
    <3>2. ASSUME NEW i \in DOMAIN M PROVE a + i \in (a + 1)..b /\ M[i] = tok[a + i] /\ i \in Nat
      <4>1. a + 1 <= b /\ i \in 1..(b - a)
        BY <1>1, <1>3
      <4>2. a + i \in (a + 1)..b /\ i \in Nat
        BY <1>1, <4>1
      <4> QED
        BY <1>3, <4>2
    <3> QED
      BY <3>1, <3>2
  <2>2. (\A i, j \in DOMAIN M : M[i] = "." /\ M[j] = "." => i = j)
        <=> \A i, j \in (a + 1)..b : tok[i] = "." /\ tok[j] = "." => i = j
    <3>1. ASSUME \A i, j \in DOMAIN M : M[i] = "." /\ M[j] = "." => i = j,
                 NEW i \in (a + 1)..b, NEW j \in (a + 1)..b, tok[i] = ".", tok[j] = "."
          PROVE  i = j
      <4>1. i - a \in DOMAIN M /\ j - a \in DOMAIN M /\ M[i - a] = tok[i] /\ M[j - a] = tok[j]
        BY <2>0
      <4>2. i - a = j - a
        BY <3>1, <4>1
      <4> QED
        BY <1>1, <4>2
    <3>2. ASSUME \A i, j \in (a + 1)..b : tok[i] = "." /\ tok[j] = "." => i = j,
                 NEW i \in DOMAIN M, NEW j \in DOMAIN M, M[i] = ".", M[j] = "."
          PROVE  i = j
      <4>1. /\ a + i \in (a + 1)..b /\ a + j \in (a + 1)..b
            /\ M[i] = tok[a + i] /\ M[j] = tok[a + j]
        BY <2>0
      <4>2. a + i = a + j
        BY <3>2, <4>1
      <4> QED
        BY <1>1, <2>0, <4>2
    <3> QED
      BY <3>1, <3>2
  <2> QED
    BY <2>1, <2>2 DEF IsMantissa, MantissaAt, a
<1>9. IsExponent(E, hex) <=> ExponentAt(tok, hex, b)
  <2>1. ASSUME IsExponent(E, hex) PROVE ExponentAt(tok, hex, b)
    <3>1. b < Len(tok) => tok[b + 1] = Mark(hex)
      <4> SUFFICES ASSUME b < Len(tok) PROVE tok[b + 1] = Mark(hex)
        OBVIOUS
      <4>1. 1 \in 1..Len(E) /\ Len(E) # 0
        BY <1>1, <1>2
      <4> QED
        BY <1>2, <1>6, <2>1, <4>1 DEF IsExponent
    <3>2. b + 1 < Len(tok) => tok[b + 2] \in Signs \cup DecDigits
      <4> SUFFICES ASSUME b + 1 < Len(tok) PROVE tok[b + 2] \in Signs \cup DecDigits
        OBVIOUS
      <4>1. 2 \in 1..Len(E) /\ Len(E) # 0 /\ Len(E) > 1
        BY <1>1, <1>2
      <4> QED
        BY <1>2, <1>6, <2>1, <4>1 DEF IsExponent
    <3>3. ASSUME NEW i \in (b + 3)..Len(tok) PROVE tok[i] \in DecDigits
      <4>1. i - b \in 3..Len(E) /\ i - b \in 1..Len(E) /\ b + (i - b) = i /\ Len(E) # 0
        BY <1>1, <1>2
      <4> QED
        BY <1>2, <1>6, <2>1, <4>1 DEF IsExponent
    <3> QED
      BY <3>1, <3>2, <3>3 DEF ExponentAt
  <2>2. ASSUME ExponentAt(tok, hex, b), E # <<>>
        PROVE  /\ E[1] = Mark(hex)
               /\ Len(E) > 1 => E[2] \in Signs \cup DecDigits
               /\ \A i \in 3..Len(E) : E[i] \in DecDigits
    <3>1. b < Len(tok) /\ 1 \in 1..Len(E) /\ (Len(E) > 1 => b + 1 < Len(tok) /\ 2 \in 1..Len(E))
      BY <1>1, <1>2, <1>6, <2>2
    <3>2. ASSUME NEW i \in 3..Len(E) PROVE E[i] \in DecDigits
      <4>1. b + i \in (b + 3)..Len(tok) /\ i \in 1..Len(E)
        BY <1>1, <1>2
      <4> QED
        BY <1>2, <2>2, <4>1 DEF ExponentAt
    <3> QED
      BY <1>2, <2>2, <3>1, <3>2 DEF ExponentAt
  <2> QED
    BY <2>1, <2>2 DEF IsExponent
<1>10. a <= b => (IsPrefixPart(P, hex) <=> PrefixAt(tok, hex))
  <2> SUFFICES ASSUME a <= b PROVE IsPrefixPart(P, hex) <=> PrefixAt(tok, hex)
    OBVIOUS
  <2>1. CASE hex
    <3>1. Len(P) = 2 /\ P \in Seq(S) /\ \A i \in 1..2 : P[i] = tok[g + i]
      <4>1. a - g = 2
        BY <1>1, <2>1
      <4> QED
        BY <1>5, <4>1
    <3>2. P = <<P[1], P[2]>>
      BY <3>1, LenProperties
    <3>3. P = <<"0", "x">> <=> P[1] = "0" /\ P[2] = "x"
      BY <3>2
    <3> QED
      BY <2>1, <3>1, <3>3 DEF IsPrefixPart, PrefixAt, g
  <2>2. CASE ~hex
    <3>1. Len(P) = 0 /\ P \in Seq(S)
      BY <1>1, <1>5, <2>2
    <3> QED
      BY <2>2, <3>1, EmptySeq DEF IsPrefixPart, PrefixAt
  <2> QED
    BY <2>1, <2>2
<1>11. IsSplit(tok, hex, b) <=> Shape(tok, hex, b)
  BY <1>1, <1>8, <1>9, <1>10 DEF IsSplit, Shape, a, g, P, M, E
<1>12. b < Len(tok) => Last(E) = tok[Len(tok)]
  BY <1>1, <1>2 DEF Last
<1> QED
  BY <1>1, <1>2, <1>6, <1>7, <1>11, <1>12 DEF E, M

LEMMA PrefixShape ==
    ASSUME NEW S, NEW tok \in Seq(S)
    PROVE  IsNumeralPrefix(tok) <=>
             \E hex \in BOOLEAN, b \in 0..Len(tok) : Shape(tok, hex, b) /\ (b < Len(tok) => DigitAt(tok, hex, b))
<1>1. \A hex \in BOOLEAN, b \in 0..Len(tok) :
         /\ IsSplit(tok, hex, b) <=> Shape(tok, hex, b)
         /\ Start(tok, hex) <= b => (HasDigit(Mantissa(tok, hex, b), hex) <=> DigitAt(tok, hex, b))
         /\ Exponent(tok, b) = <<>> <=> b = Len(tok)
  BY SplitIsShape
<1>2. Len(tok) \in Nat
  BY LenProperties
<1>3. \A hex \in BOOLEAN, b \in 0..Len(tok) : Shape(tok, hex, b) => Start(tok, hex) <= b
  BY <1>2 DEF Shape, Start, SignLen
<1> QED
  BY <1>1, <1>2, <1>3 DEF IsNumeralPrefix

LEMMA NumeralShape ==
    ASSUME NEW S, NEW tok \in Seq(S)
    PROVE  IsNumeral(tok) <=>
             \E hex \in BOOLEAN, b \in 0..Len(tok) :
                Shape(tok, hex, b) /\ DigitAt(tok, hex, b) /\ (b < Len(tok) => tok[Len(tok)] \in DecDigits)
<1>1. \A hex \in BOOLEAN, b \in 0..Len(tok) :
         /\ IsSplit(tok, hex, b) <=> Shape(tok, hex, b)
         /\ Start(tok, hex) <= b => (HasDigit(Mantissa(tok, hex, b), hex) <=> DigitAt(tok, hex, b))
         /\ Exponent(tok, b) = <<>> <=> b = Len(tok)
         /\ b < Len(tok) => Last(Exponent(tok, b)) = tok[Len(tok)]
  BY SplitIsShape
<1>2. Len(tok) \in Nat
  BY LenProperties
<1>3. \A hex \in BOOLEAN, b \in 0..Len(tok) : Shape(tok, hex, b) => Start(tok, hex) <= b
  BY <1>2 DEF Shape, Start, SignLen
<1> QED
  BY <1>1, <1>2, <1>3 DEF IsNumeral

\* A sequence has one shape.
LEMMA ShapeUnique ==
    ASSUME NEW S, NEW tok \in Seq(S), NEW h1, NEW h2, NEW b1, NEW b2,
           Shape(tok, h1, b1), Shape(tok, h2, b2)
    PROVE  h1 = h2 /\ b1 = b2
<1>1. Len(tok) \in Nat /\ SignLen(tok) \in Nat
  BY LenProperties DEF SignLen
<1>2. ASSUME NEW h, NEW g, NEW b, NEW c, Shape(tok, h, b), Shape(tok, g, c), h, ~g PROVE FALSE
  <2> DEFINE i == SignLen(tok) + 2
  <2>1. /\ i \in Nat /\ i <= Len(tok) /\ c \in Nat /\ i > 0 /\ tok[i] = "x"
        /\ i > Start(tok, g) /\ Start(tok, g) \in Nat
    BY <1>1, <1>2 DEF Shape, Start, PrefixAt
  <2> HIDE DEF i
  <2>2. i <= c => tok[i] \in {"0", "1", "."}
    <3> SUFFICES ASSUME i <= c PROVE tok[i] \in {"0", "1", "."}
      OBVIOUS
    <3>1. i \in (Start(tok, g) + 1)..c
      BY <2>1
    <3> QED
      BY <1>2, <3>1 DEF Shape, MantissaAt, Digits, DecDigits
  <2>3. i = c + 1 => tok[i] = "e"
    BY <1>1, <1>2, <2>1 DEF Shape, ExponentAt, Mark
  <2>4. i = c + 2 => tok[i] \in {"0", "1", "+", "-"}
    BY <1>1, <1>2, <2>1 DEF Shape, ExponentAt, Signs, DecDigits
  <2>5. i > c + 2 => tok[i] \in {"0", "1"}
    BY <1>1, <1>2, <2>1 DEF Shape, ExponentAt, DecDigits
  <2>6. i <= c \/ i = c + 1 \/ i = c + 2 \/ i > c + 2
    BY <2>1
  <2> QED
    BY <2>1, <2>2, <2>3, <2>4, <2>5, <2>6
<1>3. h1 = h2
  <2>1. h1 \in BOOLEAN /\ h2 \in BOOLEAN
    BY DEF Shape
  <2>2. ~(h1 /\ ~h2) /\ ~(~h1 /\ h2)
    BY <1>2
  <2> QED
    BY <2>1, <2>2
<1>4. ASSUME NEW b, NEW c, Shape(tok, h1, b), Shape(tok, h1, c), b < c PROVE FALSE
  <2>1. b \in Nat /\ c \in Nat /\ b < Len(tok) /\ b + 1 \in (Start(tok, h1) + 1)..c
    BY <1>1, <1>4 DEF Shape, Start
  <2>2. tok[b + 1] = Mark(h1)
    BY <1>4, <2>1 DEF Shape, ExponentAt
  <2>3. tok[b + 1] \in Digits(h1) \cup {"."}
    BY <1>4, <2>1 DEF Shape, MantissaAt
  <2> QED
    BY <1>4, <2>2, <2>3 DEF Digits, Mark, DecDigits, HexDigits
<1>5. b1 \in Nat /\ b2 \in Nat
  BY <1>1 DEF Shape, Start
<1> QED
  <2>1. Shape(tok, h1, b2)
    BY <1>3
  <2>2. ~(b1 < b2) /\ ~(b2 < b1)
    BY <1>4, <2>1
  <2> QED
    BY <1>3, <1>5, <2>2

\* The last byte c of Append(tok, c) continues the parts of tok.
Continues(tok, h, b, c, h2, b2) ==
    \/ tok = <<>> /\ c \in Signs /\ h = FALSE /\ b = 0 /\ h2 = FALSE /\ b2 = 1
    \/ /\ Len(tok) = SignLen(tok) + 1 /\ tok[Len(tok)] = "0" /\ c = "x"
       /\ h = FALSE /\ b = Len(tok) /\ h2 = TRUE /\ b2 = Len(tok) + 1
    \/ /\ c \in Digits(h) \/ (c = "." /\ \A i \in (Start(tok, h) + 1)..b : tok[i] # ".")
       /\ h2 = h /\ b = Len(tok) /\ b2 = b + 1
    \/ c = Mark(h) /\ DigitAt(tok, h, b) /\ h2 = h /\ b = Len(tok) /\ b2 = b
    \/ /\ c \in DecDigits \/ (c \in Signs /\ Len(tok) = b + 1)
       /\ h2 = h /\ b < Len(tok) /\ b2 = b

\* tok splits there and can be continued to a numeral.
Open(tok, h, b) == Shape(tok, h, b) /\ (b < Len(tok) => DigitAt(tok, h, b))

LEMMA OpenAppend ==
    ASSUME NEW S, NEW tok \in Seq(S), NEW c \in S
    PROVE  /\ \A h, b, h2, b2 : Open(tok, h, b) /\ Continues(tok, h, b, c, h2, b2) => Open(Append(tok, c), h2, b2)
           /\ \A h2, b2 : Open(Append(tok, c), h2, b2) =>
                \E h, b : Open(tok, h, b) /\ Continues(tok, h, b, c, h2, b2)
<1> DEFINE u == Append(tok, c)
           n == Len(tok)
<1>1. /\ n \in Nat /\ u \in Seq(S) /\ Len(u) = n + 1 /\ u # <<>>
      /\ \A i \in 1..n : u[i] = tok[i]
      /\ u[n + 1] = c
      /\ tok = <<>> <=> n = 0
  BY AppendProperties, LenProperties, EmptySeq
<1>2. /\ SignLen(tok) \in {0, 1} /\ SignLen(tok) <= n /\ SignLen(u) \in {0, 1}
      /\ tok # <<>> => SignLen(u) = SignLen(tok)
      /\ tok = <<>> => SignLen(tok) = 0 /\ (SignLen(u) = 1 <=> c \in Signs)
  <2>1. 1 \in 1..n \/ n = 0
    BY <1>1
  <2> HIDE DEF u, n
  <2> QED
    BY <1>1, <2>1 DEF SignLen
<1> HIDE DEF u, n
<1>3. ASSUME NEW h, NEW b, NEW h2, NEW b2, Open(tok, h, b), Continues(tok, h, b, c, h2, b2)
      PROVE  Open(u, h2, b2)
  <2>0. Shape(tok, h, b) /\ b \in Nat /\ b <= n /\ h \in BOOLEAN /\ Start(tok, h) <= b /\ Start(tok, h) \in Nat
    <3>1. Start(tok, h) \in Nat /\ Shape(tok, h, b)
      BY <1>2, <1>3 DEF Start, Open
    <3> QED
      BY <1>1, <3>1 DEF Shape, n
  <2>1. CASE tok = <<>> /\ c \in Signs /\ h = FALSE /\ b = 0 /\ h2 = FALSE /\ b2 = 1
    <3>0. h2 \in BOOLEAN /\ ~h2
      BY <2>1
    <3>1. SignLen(u) = 1 /\ Len(u) = 1
      BY <1>1, <1>2, <2>1
    <3>3. Start(u, h2) = 1
      BY <3>0, <3>1 DEF Start
    <3>2. PrefixAt(u, h2) /\ MantissaAt(u, h2, 1) /\ ExponentAt(u, h2, 1)
      BY <3>0, <3>1, <3>3 DEF PrefixAt, MantissaAt, ExponentAt
    <3> QED
      BY <2>1, <3>0, <3>1, <3>2, <3>3 DEF Open, Shape
  <2>2. CASE /\ n = SignLen(tok) + 1 /\ tok[n] = "0" /\ c = "x"
             /\ h = FALSE /\ b = n /\ h2 = TRUE /\ b2 = n + 1
    <3>1. /\ h2 \in BOOLEAN /\ h2 /\ SignLen(u) = SignLen(tok) /\ u[n] = "0" /\ u[n + 1] = "x"
          /\ Len(u) = n + 1 /\ n = SignLen(u) + 1 /\ SignLen(u) \in Nat
      BY <1>1, <1>2, <2>2
    <3>2. Start(u, h2) = n + 1
      BY <3>1 DEF Start
    <3>3. PrefixAt(u, h2)
      <4>1. SignLen(u) + 2 = n + 1
        BY <3>1
      <4> QED
        BY <3>1, <4>1 DEF PrefixAt
    <3>4. MantissaAt(u, h2, n + 1)
      <4>1. (Start(u, h2) + 1)..(n + 1) = {}
        BY <1>1, <3>2
      <4> QED
        BY <4>1 DEF MantissaAt
    <3>5. ExponentAt(u, h2, n + 1)
      BY <1>1 DEF ExponentAt
    <3>6. Shape(u, h2, n + 1)
      <4>1. n + 1 \in Start(u, h2)..Len(u)
        <5>1. Start(u, h2) = n + 1 /\ Len(u) = n + 1 /\ n + 1 \in Int
          BY <1>1, <3>2
        <5> QED
          BY <5>1
      <4>2. h2 \in BOOLEAN
        BY <3>1
      <4> QED
        BY <3>3, <3>4, <3>5, <4>1, <4>2 DEF Shape
    <3>7. ~(b2 < Len(u)) /\ b2 = n + 1
      BY <1>1, <2>2, <3>1
    <3> QED
      BY <3>6, <3>7 DEF Open
  <2>6. ((h2 = h /\ c \in Digits(h) \cup {".", "e", "p"}) \/ tok # <<>>) =>
           /\ SignLen(u) = SignLen(tok) /\ Start(u, h) = Start(tok, h)
           /\ PrefixAt(u, h) /\ \A i \in (Start(tok, h) + 1)..b : u[i] = tok[i]
    <3> SUFFICES ASSUME (h2 = h /\ c \in Digits(h) \cup {".", "e", "p"}) \/ tok # <<>>
                 PROVE  /\ SignLen(u) = SignLen(tok) /\ Start(u, h) = Start(tok, h)
                        /\ PrefixAt(u, h) /\ \A i \in (Start(tok, h) + 1)..b : u[i] = tok[i]
      OBVIOUS
    <3>1. SignLen(u) = SignLen(tok)
      BY <1>1, <1>2 DEF Digits, DecDigits, HexDigits, Signs
    <3>2. Start(u, h) = Start(tok, h)
      BY <3>1 DEF Start
    <3>3. \A i \in (Start(tok, h) + 1)..b : i \in 1..n
      BY <1>1, <2>0
    <3>4. ASSUME h PROVE u[SignLen(u) + 1] = "0" /\ u[SignLen(u) + 2] = "x"
      <4>1. SignLen(tok) + 1 \in 1..n /\ SignLen(tok) + 2 \in 1..n
        BY <1>1, <1>2, <2>0, <3>4 DEF Start
      <4>2. tok[SignLen(tok) + 1] = "0" /\ tok[SignLen(tok) + 2] = "x"
        BY <2>0, <3>4 DEF Shape, PrefixAt
      <4> QED
        BY <1>1, <3>1, <4>1, <4>2
    <3>5. PrefixAt(u, h)
      BY <3>4 DEF PrefixAt
    <3> QED
      BY <1>1, <3>1, <3>2, <3>3, <3>5
  <2>3. CASE /\ c \in Digits(h) \/ (c = "." /\ \A i \in (Start(tok, h) + 1)..b : tok[i] # ".")
             /\ h2 = h /\ b = n /\ b2 = b + 1
    <3>1. /\ Start(u, h) = Start(tok, h) /\ PrefixAt(u, h)
          /\ \A i \in (Start(tok, h) + 1)..n : u[i] = tok[i]
      BY <2>3, <2>6
    <3>2. MantissaAt(u, h, n + 1)
      <4>1. \A i \in (Start(tok, h) + 1)..(n + 1) : i = n + 1 \/ i \in (Start(tok, h) + 1)..n
        BY <1>1, <2>0
      <4>2. MantissaAt(tok, h, n)
        BY <2>0, <2>3 DEF Shape
      <4>3. \A i \in (Start(tok, h) + 1)..(n + 1) : u[i] \in Digits(h) \cup {"."}
        BY <1>1, <2>3, <3>1, <4>1, <4>2 DEF MantissaAt
      <4>4. "." \notin Digits(h)
        BY DEF Digits, DecDigits, HexDigits
      <4>5. ASSUME NEW i \in (Start(tok, h) + 1)..(n + 1), NEW j \in (Start(tok, h) + 1)..(n + 1),
                   u[i] = ".", u[j] = "."
            PROVE  i = j
        <5>1. CASE i = n + 1 \/ j = n + 1
          BY <1>1, <2>3, <3>1, <4>1, <4>4, <4>5, <5>1
        <5>2. CASE i # n + 1 /\ j # n + 1
          BY <3>1, <4>1, <4>2, <4>5, <5>2 DEF MantissaAt
        <5> QED
          BY <5>1, <5>2
      <4> QED
        BY <3>1, <4>3, <4>5 DEF MantissaAt
    <3>3. ExponentAt(u, h, n + 1)
      BY <1>1 DEF ExponentAt
    <3> QED
      BY <1>1, <2>0, <2>3, <3>1, <3>2, <3>3 DEF Open, Shape
  <2>7. b2 = b /\ ((h2 = h /\ c \in Digits(h) \cup {".", "e", "p"}) \/ tok # <<>>) /\ DigitAt(tok, h, b) /\ ExponentAt(u, h, b) /\ h2 = h
        => Open(u, h2, b2)
    <3> SUFFICES ASSUME b2 = b, (h2 = h /\ c \in Digits(h) \cup {".", "e", "p"}) \/ tok # <<>>,
                        DigitAt(tok, h, b), ExponentAt(u, h, b), h2 = h
                 PROVE  Open(u, h, b)
      OBVIOUS
    <3>1. /\ Start(u, h) = Start(tok, h) /\ PrefixAt(u, h)
          /\ \A i \in (Start(tok, h) + 1)..b : u[i] = tok[i]
      BY <2>6
    <3>2. MantissaAt(u, h, b) /\ DigitAt(u, h, b)
      BY <2>0, <3>1 DEF Shape, MantissaAt, DigitAt
    <3> QED
      BY <1>1, <2>0, <3>1, <3>2 DEF Open, Shape
  <2>4. CASE c = Mark(h) /\ DigitAt(tok, h, b) /\ h2 = h /\ b = n /\ b2 = b
    <3>1. ExponentAt(u, h, b)
      BY <1>1, <2>4 DEF ExponentAt
    <3>2. c \in {"e", "p"}
      BY <2>4 DEF Mark
    <3> QED
      BY <2>4, <2>7, <3>1, <3>2
  <2>5. CASE /\ c \in DecDigits \/ (c \in Signs /\ n = b + 1)
             /\ h2 = h /\ b < n /\ b2 = b
    <3>1. DigitAt(tok, h, b) /\ tok # <<>>
      BY <1>1, <1>3, <2>0, <2>5 DEF Open, n
    <3>2. ExponentAt(tok, h, b)
      BY <2>0 DEF Shape
    <3>3. b + 1 \in 1..n /\ (b + 1 < n => b + 2 \in 1..n)
      BY <1>1, <2>0, <2>5
    <3>4. b < Len(u) => u[b + 1] = Mark(h)
      BY <1>1, <2>5, <3>2, <3>3 DEF ExponentAt, n
    <3>5. b + 1 < Len(u) => u[b + 2] \in Signs \cup DecDigits
      <4>1. CASE b + 1 < n
        <5>1. tok[b + 2] \in Signs \cup DecDigits
          BY <3>2, <4>1 DEF ExponentAt, n
        <5>2. b + 2 \in 1..n
          BY <1>1, <2>0, <4>1
        <5> QED
          BY <1>1, <5>1, <5>2
      <4>2. CASE b + 1 = n
        <5>1. b + 2 = n + 1
          BY <2>0, <4>2
        <5> QED
          BY <1>1, <2>5, <5>1
      <4>3. b + 1 < n \/ b + 1 = n
        BY <1>1, <2>0, <2>5
      <4> QED
        BY <4>1, <4>2, <4>3
    <3>6. ASSUME NEW i \in (b + 3)..Len(u) PROVE u[i] \in DecDigits
      <4>1. CASE i = n + 1
        BY <1>1, <2>0, <2>5, <4>1
      <4>2. CASE i # n + 1
        <5>1. i \in (b + 3)..n /\ i \in 1..n
          BY <1>1, <2>0, <4>2
        <5> QED
          BY <1>1, <3>2, <5>1 DEF ExponentAt, n
      <4> QED
        BY <4>1, <4>2
    <3>7. ExponentAt(u, h, b)
      BY <3>4, <3>5, <3>6 DEF ExponentAt
    <3> QED
      BY <2>5, <2>7, <3>1, <3>7
  <2> QED
    BY <1>3, <2>1, <2>2, <2>3, <2>4, <2>5 DEF Continues, n
<1>4. ASSUME NEW h2, NEW b2, Open(u, h2, b2)
      PROVE  \E h, b : Open(tok, h, b) /\ Continues(tok, h, b, c, h2, b2)
  <2>0. /\ Shape(u, h2, b2) /\ h2 \in BOOLEAN /\ Start(u, h2) \in Nat /\ b2 \in Nat
        /\ Start(u, h2) <= b2 /\ b2 <= n + 1
    <3>1. Start(u, h2) \in Nat /\ Shape(u, h2, b2)
      BY <1>2, <1>4 DEF Start, Open
    <3> QED
      BY <1>1, <3>1 DEF Shape
  <2>1. CASE tok = <<>> /\ c \in Signs
    <3>1. SignLen(u) = 1 /\ n = 0 /\ SignLen(tok) = 0
      BY <1>1, <1>2, <2>1
    <3>2. ~h2 /\ b2 = 1
      BY <2>0, <3>1 DEF Start
    <3>3. ASSUME NEW h \in BOOLEAN, ~h PROVE Open(tok, h, 0)
      <4>1. Start(tok, h) = 0
        BY <3>1, <3>3 DEF Start
      <4> QED
        BY <3>1, <3>3, <4>1 DEF Open, Shape, PrefixAt, MantissaAt, ExponentAt, n
    <3>4. Continues(tok, FALSE, 0, c, h2, b2)
      <4>1. h2 = FALSE
        BY <2>0, <3>2
      <4> QED
        BY <2>1, <3>2, <4>1 DEF Continues
    <3> QED
      BY <3>3, <3>4
  <2>2. CASE ~(tok = <<>> /\ c \in Signs) /\ n < Start(u, h2)
    <3>1. SignLen(u) = SignLen(tok)
      BY <1>1, <1>2, <2>2
    <3>2. h2 /\ n + 1 = SignLen(tok) + 2 /\ b2 = n + 1
      BY <1>1, <1>2, <2>0, <2>2, <3>1 DEF Start
    <3>3. u[n] = "0" /\ u[n + 1] = "x"
      <4>1. SignLen(u) + 1 = n /\ SignLen(u) + 2 = n + 1
        BY <1>1, <1>2, <3>1, <3>2
      <4> QED
        BY <2>0, <3>2, <4>1 DEF Shape, PrefixAt
    <3>4. n \in 1..n /\ tok[n] = "0" /\ c = "x" /\ n = SignLen(tok) + 1
      BY <1>1, <1>2, <3>2, <3>3
    <3>5. ASSUME NEW h \in BOOLEAN, ~h PROVE Open(tok, h, n)
      <4>1. Start(tok, h) = SignLen(tok)
        BY <1>2, <3>5 DEF Start
      <4>2. \A i \in (Start(tok, h) + 1)..n : i = n
        BY <1>1, <1>2, <3>4, <4>1
      <4>3. MantissaAt(tok, h, n)
        BY <3>4, <4>2 DEF MantissaAt, Digits, DecDigits, HexDigits
      <4>4. ExponentAt(tok, h, n) /\ PrefixAt(tok, h)
        BY <1>1, <3>5 DEF ExponentAt, PrefixAt, n
      <4> QED
        BY <1>1, <1>2, <3>4, <4>1, <4>3, <4>4 DEF Open, Shape, n
    <3>6. Continues(tok, FALSE, n, c, h2, b2)
      <4>1. h2 = TRUE
        BY <2>0, <3>2
      <4> QED
        BY <3>2, <3>4, <4>1 DEF Continues, n
    <3> QED
      BY <3>5, <3>6
  <2>3. CASE ~(tok = <<>> /\ c \in Signs) /\ Start(u, h2) <= n
    <3>1. SignLen(u) = SignLen(tok) /\ Start(u, h2) = Start(tok, h2)
      BY <1>1, <1>2, <2>3 DEF Start
    <3>2. PrefixAt(tok, h2)
      <4> SUFFICES ASSUME h2 PROVE tok[SignLen(tok) + 1] = "0" /\ tok[SignLen(tok) + 2] = "x"
        BY DEF PrefixAt
      <4>1. SignLen(tok) + 1 \in 1..n /\ SignLen(tok) + 2 \in 1..n
        BY <1>1, <1>2, <2>0, <2>3, <3>1 DEF Start
      <4>2. u[SignLen(tok) + 1] = "0" /\ u[SignLen(tok) + 2] = "x"
        BY <2>0, <3>1 DEF Shape, PrefixAt
      <4> QED
        BY <1>1, <4>1, <4>2
    <3>3. \A i \in (Start(tok, h2) + 1)..n : u[i] = tok[i]
      <4>1. \A i \in (Start(tok, h2) + 1)..n : i \in 1..n
        BY <1>1, <2>0, <3>1
      <4> QED
        BY <1>1, <4>1
    <3>4. MantissaAt(u, h2, b2) /\ ExponentAt(u, h2, b2)
      BY <2>0 DEF Shape
    <3>5. CASE b2 = n + 1
      <4>1. MantissaAt(tok, h2, n)
        <5>1. \A i \in (Start(tok, h2) + 1)..n : i \in (Start(u, h2) + 1)..(n + 1)
          BY <1>1, <2>0, <3>1
        <5> QED
          BY <3>3, <3>4, <3>5, <5>1 DEF MantissaAt
      <4>2. ExponentAt(tok, h2, n)
        BY <1>1 DEF ExponentAt, n
      <4>3. Open(tok, h2, n)
        BY <1>1, <2>0, <2>3, <3>1, <3>2, <4>1, <4>2 DEF Open, Shape, n
      <4>4. c \in Digits(h2) \/ (c = "." /\ \A i \in (Start(tok, h2) + 1)..n : tok[i] # ".")
        <5>1. n + 1 \in (Start(u, h2) + 1)..(n + 1)
          BY <1>1, <2>0, <2>3
        <5>2. u[n + 1] \in Digits(h2) \cup {"."}
          BY <3>4, <3>5, <5>1 DEF MantissaAt
        <5>3. ASSUME c = ".", NEW i \in (Start(tok, h2) + 1)..n PROVE tok[i] # "."
          <6>1. i \in (Start(u, h2) + 1)..(n + 1) /\ i # n + 1 /\ u[i] = tok[i]
            BY <1>1, <2>0, <3>1, <3>3
          <6> QED
            BY <1>1, <3>4, <3>5, <5>1, <5>3, <6>1 DEF MantissaAt
        <5> QED
          BY <1>1, <5>2, <5>3
      <4> QED
        BY <3>5, <4>3, <4>4 DEF Continues, n
    <3>6. CASE b2 <= n
      <4>1. DigitAt(tok, h2, b2) /\ MantissaAt(tok, h2, b2)
        <5>1. \A i \in (Start(tok, h2) + 1)..b2 : i \in (Start(tok, h2) + 1)..n
          BY <1>1, <2>0, <3>1, <3>6
        <5>2. DigitAt(u, h2, b2)
          BY <1>1, <1>4, <2>0, <3>6 DEF Open
        <5> QED
          BY <3>1, <3>3, <3>4, <5>1, <5>2 DEF DigitAt, MantissaAt
      <4>2. ExponentAt(tok, h2, b2)
        <5>1. b2 < n => b2 + 1 \in 1..n /\ b2 + 1 < n + 2
          BY <1>1, <2>0
        <5>2. b2 + 1 < n => b2 + 2 \in 1..n
          BY <1>1, <2>0
        <5>3. \A i \in (b2 + 3)..n : i \in 1..n /\ i \in (b2 + 3)..(n + 1)
          BY <1>1, <2>0
        <5>4. b2 < n => tok[b2 + 1] = Mark(h2)
          BY <1>1, <2>0, <3>4, <5>1 DEF ExponentAt
        <5>5. b2 + 1 < n => tok[b2 + 2] \in Signs \cup DecDigits
          BY <1>1, <2>0, <3>4, <5>2 DEF ExponentAt
        <5>6. \A i \in (b2 + 3)..n : tok[i] \in DecDigits
          BY <1>1, <2>0, <3>4, <5>3 DEF ExponentAt
        <5> QED
          BY <5>4, <5>5, <5>6 DEF ExponentAt, n
      <4>3. Open(tok, h2, b2)
        BY <1>1, <2>0, <3>1, <3>2, <3>6, <4>1, <4>2 DEF Open, Shape, n
      <4>4. CASE b2 = n
        <5>1. c = Mark(h2)
          BY <1>1, <2>0, <3>4, <4>4 DEF ExponentAt
        <5> QED
          BY <4>1, <4>3, <4>4, <5>1 DEF Continues, n
      <4>5. CASE b2 < n
        <5>1. c \in DecDigits \/ (c \in Signs /\ n = b2 + 1)
          <6>1. CASE n = b2 + 1
            <7>1. b2 + 2 = n + 1 /\ b2 + 1 < Len(u)
              BY <1>1, <2>0, <6>1
            <7>2. u[b2 + 2] \in Signs \cup DecDigits
              BY <3>4, <7>1 DEF ExponentAt
            <7> QED
              BY <1>1, <6>1, <7>1, <7>2
          <6>2. CASE n # b2 + 1
            <7>1. n + 1 \in (b2 + 3)..Len(u)
              BY <1>1, <2>0, <4>5, <6>2
            <7> QED
              BY <1>1, <3>4, <7>1 DEF ExponentAt
          <6> QED
            BY <6>1, <6>2
        <5> QED
          BY <4>3, <4>5, <5>1 DEF Continues, n
      <4> QED
        BY <1>1, <2>0, <3>6, <4>4, <4>5
    <3> QED
      BY <1>1, <2>0, <3>5, <3>6
  <2> QED
    BY <1>1, <2>0, <2>1, <2>2, <2>3
<1> QED
  BY <1>3, <1>4 DEF u

LEMMA PrefixIsOpen ==
    ASSUME NEW S, NEW tok \in Seq(S)
    PROVE  IsNumeralPrefix(tok) <=> \E h, b : Open(tok, h, b)
<1>1. Len(tok) \in Nat /\ \A h : Start(tok, h) \in Nat
  BY LenProperties DEF Start, SignLen
<1>2. \A h, b : Shape(tok, h, b) => h \in BOOLEAN /\ b \in 0..Len(tok)
  BY <1>1 DEF Shape
<1> QED
  BY <1>2, PrefixShape DEF Open

LEMMA EmptyIsOpen ==
    ASSUME NEW h \in BOOLEAN, ~h
    PROVE  Open(<<>>, h, 0)
<1>1. Len(<<>>) = 0
  BY EmptySeq
<1>2. SignLen(<<>>) = 0
  BY DEF SignLen
<1>3. Start(<<>>, h) = 0
  BY <1>2 DEF Start
<1>4. PrefixAt(<<>>, h) /\ MantissaAt(<<>>, h, 0) /\ ExponentAt(<<>>, h, 0)
  BY <1>1, <1>3 DEF PrefixAt, MantissaAt, ExponentAt
<1> QED
  BY <1>1, <1>3, <1>4 DEF Open, Shape

\* A prefix of a sequence is the one before with a byte more.
LEMMA PrefixGrows ==
    ASSUME NEW S, NEW s \in Seq(S), NEW k \in 0..Len(s)
    PROVE  /\ SubSeq(s, 1, k) \in Seq(S) /\ Len(SubSeq(s, 1, k)) = k
           /\ k = 0 => SubSeq(s, 1, k) = <<>>
           /\ k < Len(s) => s[k + 1] \in S /\ SubSeq(s, 1, k + 1) = Append(SubSeq(s, 1, k), s[k + 1])
<1>1. Len(s) \in Nat
  BY LenProperties
<1>2. SubSeq(s, 1, k) \in Seq(S) /\ Len(SubSeq(s, 1, k)) = k /\ \A i \in 1..k : SubSeq(s, 1, k)[i] = s[i]
  BY <1>1, PartOf
<1>3. ASSUME k < Len(s) PROVE s[k + 1] \in S /\ SubSeq(s, 1, k + 1) = Append(SubSeq(s, 1, k), s[k + 1])
  <2> DEFINE p == SubSeq(s, 1, k)
             q == SubSeq(s, 1, k + 1)
             u == Append(p, s[k + 1])
  <2>1. q \in Seq(S) /\ Len(q) = k + 1 /\ \A i \in 1..(k + 1) : q[i] = s[i]
    BY <1>1, <1>3, PartOf
  <2>2. s[k + 1] \in S
    BY <1>1, <1>3, ElementOfSeq
  <2>3. u \in Seq(S) /\ Len(u) = k + 1 /\ (\A i \in 1..k : u[i] = p[i]) /\ u[k + 1] = s[k + 1]
    BY <1>2, <2>2, AppendProperties
  <2> HIDE DEF p, q, u
  <2>4. \A i \in 1..(k + 1) : q[i] = u[i]
    <3>1. \A i \in 1..(k + 1) : i = k + 1 \/ i \in 1..k
      BY <1>1
    <3> QED
      BY <1>2, <2>1, <2>3, <3>1 DEF p
  <2>5. q = u
    BY <2>1, <2>3, <2>4, SeqEqual
  <2> QED
    BY <2>2, <2>5 DEF p, q, u
<1>4. k = 0 => SubSeq(s, 1, k) = <<>>
  BY <1>2, EmptySeq
<1> QED
  BY <1>2, <1>3, <1>4

\* What can be continued to a numeral starts with what can.
LEMMA PrefixesAreClosed ==
    ASSUME NEW S, NEW s \in Seq(S), NEW k \in 0..Len(s), IsNumeralPrefix(SubSeq(s, 1, k)), NEW j \in 0..k
    PROVE  IsNumeralPrefix(SubSeq(s, 1, j))
<1> DEFINE T == {d \in Nat : d <= k => IsNumeralPrefix(SubSeq(s, 1, k - d))}
<1>1. Len(s) \in Nat /\ k \in Nat
  BY LenProperties
<1>2. 0 \in T
  BY <1>1
<1>3. ASSUME NEW d \in Nat, d \in T PROVE d + 1 \in T
  <2> SUFFICES ASSUME d + 1 <= k PROVE IsNumeralPrefix(SubSeq(s, 1, k - (d + 1)))
    OBVIOUS
  <2> DEFINE m == k - (d + 1)
  <2>1. m \in 0..Len(s) /\ m < Len(s) /\ m + 1 = k - d /\ d <= k
    BY <1>1
  <2>2. IsNumeralPrefix(SubSeq(s, 1, m + 1))
    BY <1>3, <2>1
  <2> HIDE DEF m
  <2>3. SubSeq(s, 1, m) \in Seq(S) /\ s[m + 1] \in S /\ SubSeq(s, 1, m + 1) = Append(SubSeq(s, 1, m), s[m + 1])
    BY <2>1, PrefixGrows
  <2>4. Append(SubSeq(s, 1, m), s[m + 1]) \in Seq(S)
    BY <2>3, AppendProperties
  <2>5. \E h, b : Open(Append(SubSeq(s, 1, m), s[m + 1]), h, b)
    BY <2>2, <2>3, <2>4, PrefixIsOpen
  <2>6. \E h, b : Open(SubSeq(s, 1, m), h, b)
    BY <2>3, <2>5, OpenAppend
  <2>7. IsNumeralPrefix(SubSeq(s, 1, m))
    BY <2>3, <2>6, PrefixIsOpen
  <2> QED
    BY <2>7 DEF m
<1> HIDE DEF T
<1>4. k - j \in T
  BY <1>1, <1>2, <1>3, SetInduction
<1> QED
  BY <1>1, <1>4 DEF T

\* The longest prefix is the one that cannot be continued.
LEMMA LongestPrefixIs ==
    ASSUME NEW S, NEW s \in Seq(S), NEW k \in 0..Len(s), IsNumeralPrefix(SubSeq(s, 1, k)),
           k < Len(s) => ~IsNumeralPrefix(SubSeq(s, 1, k + 1))
    PROVE  LongestPrefix(s) = SubSeq(s, 1, k)
<1> DEFINE T == {i \in 0..Len(s) : IsNumeralPrefix(SubSeq(s, 1, i))}
<1>1. Len(s) \in Nat /\ k \in Nat
  BY LenProperties
<1>2. k \in T
  OBVIOUS
<1>3. ASSUME NEW i \in T PROVE k >= i
  <2> SUFFICES ASSUME k < i PROVE FALSE
    BY <1>1
  <2>1. k + 1 \in 0..i /\ k < Len(s) /\ i \in 0..Len(s)
    BY <1>1
  <2> QED
    BY <2>1, PrefixesAreClosed
<1>4. T \subseteq Nat
  BY <1>1
<1> HIDE DEF T
<1>5. Max(T) = k
  <2>1. Max(T) \in T /\ \A y \in T : Max(T) >= y
    BY <1>2, <1>3 DEF Max
  <2>2. Max(T) >= k /\ k >= Max(T) /\ Max(T) \in Nat
    BY <1>2, <1>3, <1>4, <2>1
  <2> QED
    BY <1>1, <2>2
<1> QED
  BY <1>5 DEF LongestPrefix, T

\* There is such a prefix.
LEMMA LongestPrefixExists ==
    ASSUME NEW S, NEW s \in Seq(S)
    PROVE  \E k \in 0..Len(s) :
              /\ IsNumeralPrefix(SubSeq(s, 1, k)) /\ LongestPrefix(s) = SubSeq(s, 1, k)
              /\ k < Len(s) => ~IsNumeralPrefix(SubSeq(s, 1, k + 1))
<1> DEFINE T == {i \in 0..Len(s) : IsNumeralPrefix(SubSeq(s, 1, i))}
<1>1. Len(s) \in Nat
  BY LenProperties
<1>2. IsNumeralPrefix(<<>>)
  BY EmptyIsOpen, EmptySeq, PrefixIsOpen
<1>3. 0 \in T /\ T \in SUBSET (0..Len(s))
  <2>1. 0 \in 0..Len(s)
    BY <1>1
  <2>2. SubSeq(s, 1, 0) = <<>>
    BY <2>1, PrefixGrows
  <2> QED
    BY <1>2, <2>1, <2>2
<1> HIDE DEF T
<1>4. PICK k \in T : \A i \in T : k >= i
  BY <1>1, <1>3, GreatestMember
<1>5. k \in 0..Len(s) /\ IsNumeralPrefix(SubSeq(s, 1, k))
  BY <1>4 DEF T
<1>6. k < Len(s) => ~IsNumeralPrefix(SubSeq(s, 1, k + 1))
  <2>1. k < Len(s) => k + 1 \in 0..Len(s) /\ ~(k >= k + 1)
    BY <1>1, <1>5
  <2> QED
    BY <1>4, <2>1 DEF T
<1> QED
  BY <1>5, <1>6, LongestPrefixIs
-----------------------------------------------------------------------------
(* The scanner of read_number                                              *)

ScanState(S) == [tok : Seq(S), hex : BOOLEAN, dot : BOOLEAN, exp : BOOLEAN, digits : Nat, on : BOOLEAN]

\* The scanner has read q.tok, whose mantissa ends at b.
Follows(q, b) ==
    /\ Open(q.tok, q.hex, b)
    /\ q.exp <=> b < Len(q.tok)
    /\ ~q.exp => /\ q.dot <=> \E i \in (Start(q.tok, q.hex) + 1)..b : q.tok[i] = "."
                 /\ q.digits > 0 <=> DigitAt(q.tok, q.hex, b)

LEMMA AcceptsCases ==
    ASSUME NEW q, NEW c
    PROVE  Accepts(q, c) <=>
             \/ c \in Signs /\ (q.tok = <<>> \/ Last(q.tok) = exp_mark(q))
             \/ c = "." /\ ~q.dot /\ ~q.exp
             \/ c = "x" /\ ~q.hex /\ q.tok \in {<<"0">>, <<"-", "0">>, <<"+", "0">>}
             \/ /\ c \notin Signs /\ c # "." /\ ~(c = "x" /\ ~q.hex)
                /\ IsDigit(q, c) \/ (c = exp_mark(q) /\ ~q.exp /\ q.digits > 0)
<1>1. CASE c \in Signs
  BY <1>1 DEF Accepts, Signs
<1>2. CASE c = "."
  BY <1>2 DEF Accepts, Signs
<1>3. CASE c = "x" /\ ~q.hex
  BY <1>3 DEF Accepts, Signs
<1>4. CASE c \notin Signs /\ c # "." /\ ~(c = "x" /\ ~q.hex)
  BY <1>4 DEF Accepts
<1> QED
  BY <1>1, <1>2, <1>3, <1>4

\* A sign may be followed by 0 before x.
LEMMA BeforeHex ==
    ASSUME NEW S, NEW t \in Seq(S)
    PROVE  t \in {<<"0">>, <<"-", "0">>, <<"+", "0">>} <=> Len(t) = SignLen(t) + 1 /\ t[Len(t)] = "0"
<1>1. Len(t) \in Nat /\ (t = <<>> <=> Len(t) = 0)
  BY LenProperties, EmptySeq
<1>2. ASSUME t \in {<<"0">>, <<"-", "0">>, <<"+", "0">>}
      PROVE  Len(t) = SignLen(t) + 1 /\ t[Len(t)] = "0"
  BY <1>2 DEF SignLen, Signs
<1>3. ASSUME Len(t) = SignLen(t) + 1, t[Len(t)] = "0"
      PROVE  t \in {<<"0">>, <<"-", "0">>, <<"+", "0">>}
  <2>1. CASE Len(t) = 1
    <3>1. t = <<t[1]>>
      BY <2>1, LenProperties
    <3> QED
      BY <1>3, <2>1, <3>1
  <2>2. CASE Len(t) = 2
    <3>1. t = <<t[1], t[2]>>
      BY <2>2, LenProperties
    <3>2. t[1] \in Signs
      BY <1>3, <2>2 DEF SignLen
    <3> QED
      BY <1>3, <2>2, <3>1, <3>2 DEF Signs
  <2> QED
    BY <1>1, <1>3, <2>1, <2>2 DEF SignLen
<1> QED
  BY <1>2, <1>3

\* The last byte of a token is the exponent mark when the exponent starts.
LEMMA MarkIsLast ==
    ASSUME NEW S, NEW t \in Seq(S), NEW h, NEW b, Open(t, h, b), t # <<>>
    PROVE  t[Len(t)] = Mark(h) <=> b < Len(t) /\ Len(t) = b + 1
<1> DEFINE n == Len(t)
<1>1. n \in Nat /\ n > 0 /\ SignLen(t) \in {0, 1}
  BY LenProperties, EmptySeq DEF SignLen
<1>2. /\ h \in BOOLEAN /\ Start(t, h) \in Nat /\ b \in Nat /\ Start(t, h) <= b /\ b <= n
      /\ PrefixAt(t, h) /\ MantissaAt(t, h, b) /\ ExponentAt(t, h, b)
  <2>1. Start(t, h) \in Nat
    BY <1>1 DEF Start
  <2> QED
    BY <1>1, <2>1 DEF Open, Shape
<1> HIDE DEF n
<1>3. CASE b = n /\ Start(t, h) < n
  <2>1. n \in (Start(t, h) + 1)..b
    BY <1>1, <1>2, <1>3
  <2>2. t[n] \in Digits(h) \cup {"."}
    BY <1>2, <2>1 DEF MantissaAt
  <2>3. t[n] # Mark(h)
    BY <1>2, <2>2 DEF Digits, Mark, DecDigits, HexDigits
  <2> QED
    BY <1>1, <1>3, <2>3 DEF n
<1>4. CASE b = n /\ Start(t, h) = n
  <2>1. CASE h
    <3>1. n = SignLen(t) + 2
      BY <1>1, <1>4, <2>1 DEF Start
    <3>2. t[n] = "x"
      BY <1>2, <2>1, <3>1 DEF PrefixAt
    <3> QED
      BY <1>1, <1>4, <2>1, <3>2 DEF Mark, n
  <2>2. CASE ~h
    <3>1. n = SignLen(t)
      BY <1>1, <1>4, <2>2 DEF Start
    <3>2. n = 1 /\ t[1] \in Signs
      BY <1>1, <3>1 DEF SignLen
    <3> QED
      BY <1>1, <1>4, <2>2, <3>2 DEF Mark, Signs, n
  <2> QED
    BY <2>1, <2>2
<1>5. CASE b < n
  <2>1. n = b + 1 => t[n] = Mark(h)
    BY <1>2, <1>5 DEF ExponentAt, n
  <2>2. n = b + 2 => t[n] \in Signs \cup DecDigits
    BY <1>2, <1>5 DEF ExponentAt, n
  <2>3. n > b + 2 => t[n] \in DecDigits
    BY <1>1, <1>2, <1>5 DEF ExponentAt, n
  <2>4. n # b + 1 => t[n] # Mark(h)
    BY <1>1, <1>2, <1>5, <2>2, <2>3 DEF Mark, Signs, DecDigits
  <2> QED
    BY <1>5, <2>1, <2>4 DEF n
<1> QED
  BY <1>1, <1>2, <1>3, <1>4, <1>5

LEMMA ScanRejects ==
    ASSUME NEW S, NEW q \in ScanState(S), NEW b, Follows(q, b), NEW c \in S, ~Accepts(q, c)
    PROVE  ~IsNumeralPrefix(Append(q.tok, c))
<1> SUFFICES ASSUME IsNumeralPrefix(Append(q.tok, c)) PROVE FALSE
  OBVIOUS
<1> DEFINE t == q.tok
           n == Len(t)
<1>1. t \in Seq(S) /\ n \in Nat /\ (t = <<>> <=> n = 0) /\ Append(t, c) \in Seq(S)
  BY LenProperties, EmptySeq, AppendProperties DEF ScanState
<1>2. PICK h2, b2 : Open(Append(t, c), h2, b2)
  BY <1>1, PrefixIsOpen
<1>3. PICK h, d : Open(t, h, d) /\ Continues(t, h, d, c, h2, b2)
  BY <1>1, <1>2, OpenAppend
<1>4. h = q.hex /\ d = b
  BY <1>1, <1>3, ShapeUnique DEF Open, Follows
<1>5. /\ Open(t, q.hex, b) /\ q.hex \in BOOLEAN /\ b \in Nat /\ b <= n
      /\ Continues(t, q.hex, b, c, h2, b2)
  <2>1. Start(t, q.hex) \in Nat
    BY <1>1 DEF Start, SignLen
  <2> QED
    BY <1>1, <1>3, <1>4, <2>1 DEF Open, Shape, Follows
<1> HIDE DEF n
<1>6. exp_mark(q) = Mark(q.hex)
  BY DEF exp_mark, Mark
<1>7. ~(t = <<>> /\ c \in Signs)
  BY AcceptsCases
<1>8. ~(n = SignLen(t) + 1 /\ t[n] = "0" /\ c = "x" /\ ~q.hex)
  BY <1>1, AcceptsCases, BeforeHex DEF n
<1>9. ~(c \in Digits(q.hex) /\ b = n)
  <2> SUFFICES ASSUME c \in Digits(q.hex), b = n PROVE FALSE
    OBVIOUS
  <2>1. ~q.exp
    BY <1>1 DEF Follows, n
  <2>2. IsDigit(q, c)
    BY <2>1 DEF IsDigit, Digits
  <2>3. c \notin Signs /\ c # "." /\ c # "x"
    BY DEF Digits, DecDigits, HexDigits, Signs
  <2> QED
    BY <2>2, <2>3, AcceptsCases
<1>10. ~(c = "." /\ (\A i \in (Start(t, q.hex) + 1)..b : t[i] # ".") /\ b = n)
  BY <1>1, AcceptsCases DEF Follows, n
<1>11. ~(c = Mark(q.hex) /\ DigitAt(t, q.hex, b) /\ b = n)
  <2> SUFFICES ASSUME c = Mark(q.hex), DigitAt(t, q.hex, b), b = n PROVE FALSE
    OBVIOUS
  <2>1. ~q.exp /\ q.digits > 0
    BY <1>1 DEF Follows, n
  <2>2. c \notin Signs /\ c # "." /\ c # "x"
    BY DEF Mark, Signs
  <2> QED
    BY <1>6, <2>1, <2>2, AcceptsCases
<1>12. ~(c \in DecDigits /\ b < n)
  <2> SUFFICES ASSUME c \in DecDigits, b < n PROVE FALSE
    OBVIOUS
  <2>1. q.exp
    BY DEF Follows, n
  <2>2. IsDigit(q, c) /\ c \notin Signs /\ c # "." /\ c # "x"
    BY <2>1 DEF IsDigit, DecDigits, Signs
  <2> QED
    BY <2>2, AcceptsCases
<1>13. ~(c \in Signs /\ n = b + 1 /\ b < n)
  <2> SUFFICES ASSUME c \in Signs, n = b + 1, b < n PROVE FALSE
    OBVIOUS
  <2>1. t # <<>>
    BY <1>1, <1>5
  <2>2. t[n] = Mark(q.hex)
    BY <1>1, <1>5, <2>1, MarkIsLast DEF n
  <2> QED
    BY <1>6, <2>2, AcceptsCases DEF Last, n
<1> HIDE DEF t
<1> QED
  BY <1>5, <1>7, <1>8, <1>9, <1>10, <1>11, <1>12, <1>13 DEF Continues, n

\* What the scanner becomes with a byte it accepts.
LEMMA ScanStep ==
    ASSUME NEW S, NEW q \in ScanState(S), q.on, NEW c \in S, Accepts(q, c)
    PROVE  LET r == ScanByte(q, c)
           IN  /\ r \in ScanState(S) /\ r.on /\ r.tok = Append(q.tok, c)
               /\ r.hex = (q.hex \/ c = "x")
               /\ r.dot = (q.dot \/ c = ".")
               /\ r.exp = (q.exp \/ c = exp_mark(q))
               /\ r.digits = IF c = "x" THEN 0 ELSE IF IsDigit(q, c) THEN q.digits + 1 ELSE q.digits
<1> DEFINE tok == Append(q.tok, c)
           hex == q.hex \/ c = "x"
           dot == q.dot \/ c = "."
           exp == q.exp \/ c = exp_mark(q)
           dig == IF c = "x" THEN 0 ELSE IF IsDigit(q, c) THEN q.digits + 1 ELSE q.digits
<1>1. tok \in Seq(S) /\ hex \in BOOLEAN /\ dot \in BOOLEAN /\ exp \in BOOLEAN
  BY AppendProperties DEF ScanState
<1>2. dig \in Nat
  BY DEF ScanState
<1>3. ScanByte(q, c) = [q EXCEPT !.tok = tok, !.hex = hex, !.dot = dot, !.exp = exp, !.digits = dig]
  BY DEF ScanByte
<1> HIDE DEF tok, hex, dot, exp, dig
<1>4. ScanByte(q, c) = [tok |-> tok, hex |-> hex, dot |-> dot, exp |-> exp, digits |-> dig, on |-> q.on]
  BY <1>3 DEF ScanState
<1>5. q.on \in BOOLEAN
  BY DEF ScanState
<1>6. ScanByte(q, c) \in ScanState(S)
  BY <1>1, <1>2, <1>4, <1>5 DEF ScanState
<1> QED
  BY <1>4, <1>6 DEF tok, hex, dot, exp, dig

LEMMA ScanAccepts ==
    ASSUME NEW S, NEW q \in ScanState(S), NEW b, Follows(q, b), q.on, NEW c \in S, Accepts(q, c)
    PROVE  LET r == ScanByte(q, c)
           IN  r \in ScanState(S) /\ r.on /\ r.tok = Append(q.tok, c) /\ \E d : Follows(r, d)
<1> DEFINE t == q.tok
           n == Len(t)
           u == Append(t, c)
           r == ScanByte(q, c)
<1>1. /\ t \in Seq(S) /\ n \in Nat /\ (t = <<>> <=> n = 0)
      /\ u \in Seq(S) /\ Len(u) = n + 1 /\ u # <<>> /\ (\A i \in 1..n : u[i] = t[i]) /\ u[n + 1] = c
  BY LenProperties, EmptySeq, AppendProperties DEF ScanState
<1>2. /\ r.tok = u
      /\ r.hex = (q.hex \/ c = "x")
      /\ r.dot = (q.dot \/ c = ".")
      /\ r.exp = (q.exp \/ c = exp_mark(q))
      /\ r.digits = IF c = "x" THEN 0 ELSE IF IsDigit(q, c) THEN q.digits + 1 ELSE q.digits
      /\ r \in ScanState(S) /\ r.on
  BY ScanStep
<1>3. /\ Open(t, q.hex, b) /\ q.hex \in BOOLEAN /\ q.dot \in BOOLEAN /\ q.exp \in BOOLEAN /\ q.digits \in Nat
      /\ b \in Nat /\ b <= n /\ Start(t, q.hex) \in Nat /\ Start(t, q.hex) <= b
      /\ SignLen(t) \in Nat
      /\ r.hex \in BOOLEAN
  <2>1. Start(t, q.hex) \in Nat /\ SignLen(t) \in Nat
    BY <1>1 DEF Start, SignLen
  <2> QED
    BY <1>1, <1>2, <2>1 DEF Open, Shape, Follows, ScanState
<1>15. q.exp <=> b < n
  BY DEF Follows, n
<1>16. ~q.exp => /\ q.dot <=> \E i \in (Start(t, q.hex) + 1)..b : t[i] = "."
                 /\ q.digits > 0 <=> DigitAt(t, q.hex, b)
  BY DEF Follows
<1>17. ~q.exp => b = n
  BY <1>1, <1>3, <1>15
<1> HIDE DEF r, u, n
<1>4. ASSUME NEW d, Continues(t, q.hex, b, c, r.hex, d)
      PROVE  Open(u, r.hex, d)
  BY <1>1, <1>3, <1>4, OpenAppend DEF u
<1>5. t # <<>> \/ c \notin Signs => SignLen(u) = SignLen(t) /\ Start(u, q.hex) = Start(t, q.hex)
  <2>1. 1 \in 1..n \/ n = 0
    BY <1>1
  <2>2. t # <<>> \/ c \notin Signs => SignLen(u) = SignLen(t)
    BY <1>1, <2>1 DEF SignLen
  <2> QED
    BY <2>2 DEF Start
<1>6. exp_mark(q) = Mark(q.hex) /\ exp_mark(q) \in {"e", "p"}
  BY DEF exp_mark, Mark
<1> SUFFICES \E d : Follows(r, d)
  BY <1>2 DEF r, u
<1>18. ASSUME NEW d, Open(u, r.hex, d), r.exp <=> d < n + 1,
              ~r.exp => /\ r.dot <=> \E i \in (Start(u, r.hex) + 1)..d : u[i] = "."
                        /\ r.digits > 0 <=> DigitAt(u, r.hex, d)
       PROVE  \E e : Follows(r, e)
  BY <1>1, <1>2, <1>18 DEF Follows
<1>7. CASE c \in Signs /\ t = <<>>
  <2>1. n = 0 /\ b = 0 /\ ~q.exp
    BY <1>1, <1>3, <1>7, <1>15
  <2>2. Start(t, q.hex) = 0 /\ ~q.hex
    BY <1>3, <2>1 DEF Start
  <2>3. c # "x" /\ c # "." /\ c \notin {"e", "p"}
    BY <1>7 DEF Signs
  <2>4. ~r.hex /\ ~r.exp /\ r.dot = q.dot /\ r.digits = q.digits
    <3>1. ~IsDigit(q, c)
      BY <1>7 DEF IsDigit, HexDigits, DecDigits, Signs
    <3> QED
      BY <1>2, <1>3, <1>6, <2>1, <2>2, <2>3, <3>1
  <2>5. Continues(t, q.hex, b, c, r.hex, 1)
    BY <1>3, <1>7, <2>1, <2>2, <2>4 DEF Continues
  <2>6. Open(u, r.hex, 1)
    BY <1>4, <2>5
  <2>7. Start(u, r.hex) = 1
    <3>1. u[1] = c
      BY <1>1, <2>1
    <3> QED
      BY <1>1, <1>3, <1>7, <2>4, <3>1 DEF Start, SignLen
  <2>8. ~q.dot /\ ~(q.digits > 0)
    BY <1>16, <2>1, <2>2 DEF DigitAt
  <2>9. ~DigitAt(u, r.hex, 1) /\ ~\E i \in (Start(u, r.hex) + 1)..1 : u[i] = "."
    BY <2>7 DEF DigitAt
  <2> QED
    BY <1>18, <2>1, <2>4, <2>6, <2>8, <2>9
<1>8. CASE c \in Signs /\ t # <<>> /\ Last(t) = exp_mark(q)
  <2>1. b < n /\ n = b + 1
    BY <1>1, <1>3, <1>6, <1>8, MarkIsLast DEF Last, n
  <2>2. r.hex = q.hex /\ r.exp
    BY <1>2, <1>3, <1>8, <1>15, <2>1 DEF Signs
  <2>3. Continues(t, q.hex, b, c, r.hex, b)
    BY <1>8, <2>1, <2>2 DEF Continues, n
  <2>4. Open(u, r.hex, b) /\ b < n + 1
    BY <1>1, <1>3, <1>4, <2>1, <2>3
  <2> QED
    BY <1>18, <2>2, <2>4
<1>9. CASE c = "." /\ ~q.dot /\ ~q.exp
  <2>1. c \notin Signs /\ c # "x" /\ c \notin {"e", "p"} /\ ~IsDigit(q, c)
    BY <1>9 DEF Signs, IsDigit, HexDigits, DecDigits
  <2>2. r.hex = q.hex /\ ~r.exp /\ r.dot /\ r.digits = q.digits
    BY <1>2, <1>3, <1>6, <1>9, <2>1
  <2>3. Continues(t, q.hex, b, c, r.hex, n + 1)
    BY <1>9, <1>16, <1>17, <2>2 DEF Continues, n
  <2>4. Open(u, r.hex, n + 1)
    BY <1>4, <2>3
  <2>5. Start(u, r.hex) = Start(t, q.hex)
    BY <1>5, <2>1, <2>2
  <2>6. n + 1 \in (Start(u, r.hex) + 1)..(n + 1) /\ u[n + 1] = "."
    BY <1>1, <1>3, <1>9, <2>5
  <2>7. DigitAt(u, r.hex, n + 1) <=> DigitAt(t, q.hex, b)
    <3>1. u[n + 1] \notin Digits(q.hex)
      BY <1>1, <1>9 DEF Digits, HexDigits, DecDigits
    <3>2. \A i \in (Start(t, q.hex) + 1)..(n + 1) : i = n + 1 \/ (i \in (Start(t, q.hex) + 1)..n /\ i \in 1..n)
      BY <1>1, <1>3
    <3>3. \A i \in (Start(t, q.hex) + 1)..n : i \in (Start(t, q.hex) + 1)..(n + 1) /\ i \in 1..n
      BY <1>1, <1>3
    <3>4. b = n
      BY <1>9, <1>17
    <3> QED
      BY <1>1, <2>2, <2>5, <3>1, <3>2, <3>3, <3>4 DEF DigitAt
  <2> QED
    BY <1>9, <1>16, <1>18, <2>2, <2>4, <2>6, <2>7
<1>10. CASE c = "x" /\ ~q.hex /\ t \in {<<"0">>, <<"-", "0">>, <<"+", "0">>}
  <2>1. n = SignLen(t) + 1 /\ t[n] = "0" /\ t # <<>>
    BY <1>1, <1>10, BeforeHex DEF n
  <2>2. b = n
    <3> SUFFICES ASSUME b < n PROVE FALSE
      BY <1>1, <1>3
    <3>1. DigitAt(t, q.hex, b)
      BY <1>3 DEF Open, n
    <3>2. Start(t, q.hex) = SignLen(t)
      BY <1>3, <1>10 DEF Start
    <3>3. b <= SignLen(t)
      BY <1>1, <1>3, <2>1
    <3> QED
      BY <1>3, <3>1, <3>2, <3>3 DEF DigitAt
  <2>3. c \notin Signs /\ c # "." /\ c \notin {"e", "p"} /\ ~q.exp
    BY <1>1, <1>10, <1>15, <2>2 DEF Signs
  <2>4. r.hex /\ ~r.exp /\ r.dot = q.dot /\ r.digits = 0
    BY <1>2, <1>3, <1>6, <1>10, <2>3
  <2>5. Continues(t, q.hex, b, c, r.hex, n + 1)
    BY <1>3, <1>10, <2>1, <2>2, <2>4 DEF Continues, n
  <2>6. Open(u, r.hex, n + 1)
    BY <1>4, <2>5
  <2>7. Start(u, r.hex) = n + 1
    BY <1>3, <1>5, <2>1, <2>4 DEF Start
  <2>8. ~DigitAt(u, r.hex, n + 1) /\ ~\E i \in (Start(u, r.hex) + 1)..(n + 1) : u[i] = "."
    BY <1>1, <2>7 DEF DigitAt
  <2>9. ~q.dot
    <3>1. \A i \in (Start(t, q.hex) + 1)..b : i = n
      BY <1>1, <1>3, <1>10, <2>1, <2>2 DEF Start
    <3> QED
      BY <1>16, <2>1, <2>3, <3>1
  <2>10. n + 1 < n + 1 <=> FALSE
    BY <1>1
  <2>11. ~r.dot /\ ~(r.digits > 0)
    BY <2>4, <2>9
  <2>12. n + 1 \in Nat
    BY <1>1
  <2> QED
    BY <1>18, <2>4, <2>6, <2>8, <2>10, <2>11
<1>11. CASE IsDigit(q, c) /\ q.exp /\ c \notin Signs /\ c # "."
  <2>1. c \in DecDigits /\ b < n
    BY <1>11, <1>15 DEF IsDigit
  <2>2. r.hex = q.hex /\ r.exp
    BY <1>2, <1>3, <1>11, <2>1 DEF DecDigits
  <2>3. Continues(t, q.hex, b, c, r.hex, b)
    BY <2>1, <2>2 DEF Continues, n
  <2>4. Open(u, r.hex, b) /\ b < n + 1
    BY <1>1, <1>3, <1>4, <2>1, <2>3
  <2> QED
    BY <1>18, <2>2, <2>4
<1>12. CASE IsDigit(q, c) /\ ~q.exp /\ c \notin Signs /\ c # "."
  <2>1. c \in Digits(q.hex) /\ c # exp_mark(q) /\ c # "x" /\ b = n
    BY <1>12, <1>17 DEF IsDigit, Digits, HexDigits, DecDigits, exp_mark
  <2>2. r.hex = q.hex /\ ~r.exp /\ r.dot = q.dot /\ r.digits = q.digits + 1
    BY <1>2, <1>3, <1>12, <2>1
  <2>3. Continues(t, q.hex, b, c, r.hex, n + 1)
    BY <2>1, <2>2 DEF Continues, n
  <2>4. Open(u, r.hex, n + 1)
    BY <1>4, <2>3
  <2>5. Start(u, r.hex) = Start(t, q.hex)
    BY <1>5, <1>12, <2>2
  <2>6. r.digits > 0
    BY <1>3, <2>2
  <2>7. DigitAt(u, r.hex, n + 1)
    <3>1. n + 1 \in (Start(u, r.hex) + 1)..(n + 1)
      BY <1>1, <1>3, <2>5
    <3> QED
      BY <1>1, <2>1, <2>2, <3>1 DEF DigitAt
  <2>8. r.dot <=> \E i \in (Start(u, r.hex) + 1)..(n + 1) : u[i] = "."
    <3>2. \A i \in (Start(t, q.hex) + 1)..(n + 1) : i = n + 1 \/ (i \in (Start(t, q.hex) + 1)..n /\ i \in 1..n)
      BY <1>1, <1>3
    <3>3. \A i \in (Start(t, q.hex) + 1)..n : i \in (Start(t, q.hex) + 1)..(n + 1) /\ i \in 1..n
      BY <1>1, <1>3
    <3> QED
      BY <1>1, <1>12, <1>16, <2>1, <2>2, <2>5, <3>2, <3>3
  <2>9. r.exp <=> n + 1 < n + 1
    BY <1>1, <2>2
  <2>10. r.digits > 0 <=> DigitAt(u, r.hex, n + 1)
    BY <2>6, <2>7
  <2> QED
    BY <1>18, <2>4, <2>8, <2>9, <2>10
<1>13. CASE c = exp_mark(q) /\ ~q.exp /\ q.digits > 0
  <2>1. c # "x" /\ b = n /\ c = Mark(q.hex) /\ DigitAt(t, q.hex, b)
    BY <1>6, <1>13, <1>16, <1>17
  <2>2. r.hex = q.hex /\ r.exp
    BY <1>2, <1>3, <1>13, <2>1
  <2>3. Continues(t, q.hex, b, c, r.hex, b)
    BY <2>1, <2>2 DEF Continues, n
  <2>4. Open(u, r.hex, b) /\ b < n + 1
    BY <1>1, <1>3, <1>4, <2>1, <2>3
  <2> QED
    BY <1>18, <2>2, <2>4
<1> QED
  BY <1>7, <1>8, <1>9, <1>10, <1>11, <1>12, <1>13, AcceptsCases

\* What the scanner becomes when it has stopped, or stops.
LEMMA ScanStops ==
    ASSUME NEW S, NEW q \in ScanState(S), NEW c \in S, ~q.on \/ ~Accepts(q, c)
    PROVE  LET r == ScanByte(q, c)
           IN  /\ r \in ScanState(S) /\ ~r.on /\ r.tok = q.tok
               /\ \A b : Follows(q, b) => Follows(r, b)
<1>1. ScanByte(q, c) = [q EXCEPT !.on = FALSE]
  BY DEF ScanByte
<1>2. ScanByte(q, c) = [tok |-> q.tok, hex |-> q.hex, dot |-> q.dot, exp |-> q.exp, digits |-> q.digits, on |-> FALSE]
  BY <1>1 DEF ScanState
<1>3. ScanByte(q, c) \in ScanState(S)
  BY <1>2 DEF ScanState
<1> DEFINE r == ScanByte(q, c)
<1>4. r.tok = q.tok /\ r.hex = q.hex /\ r.dot = q.dot /\ r.exp = q.exp /\ r.digits = q.digits /\ ~r.on
  BY <1>2
<1> HIDE DEF r
<1>5. ASSUME NEW b, Follows(q, b) PROVE Follows(r, b)
  BY <1>4, <1>5 DEF Follows
<1> QED
  BY <1>3, <1>4, <1>5 DEF r

\* The states of the scanner, one after the other.
LEMMA ScanRuns ==
    ASSUME NEW S, NEW s \in Seq(S)
    PROVE  \E f \in [0..Len(s) -> ScanState(S)] :
              /\ f[0] = Scan0 /\ scan_number(s) = f[Len(s)].tok
              /\ \A n \in 0..(Len(s) - 1) : f[n + 1] = ScanByte(f[n], s[n + 1])
<1> DEFINE N == Len(s)
           step == [n \in 1..N |-> [q \in ScanState(S) |-> ScanByte(q, s[n])]]
           Row(g, n) == IF n = 0 THEN Scan0 ELSE ScanByte(g[n - 1], s[n])
           scan == CHOOSE g : g = [n \in 0..N |-> Row(g, n)]
<1>1. N \in Nat /\ \A n \in 1..N : s[n] \in S
  BY LenProperties, ElementOfSeq
<1>2. Scan0 \in ScanState(S)
  BY EmptySeq DEF Scan0, ScanState
<1>3. \A n \in 1..N : \A q \in ScanState(S) : step[n][q] \in ScanState(S) /\ step[n][q] = ScanByte(q, s[n])
  BY <1>1, ScanStep, ScanStops
<1> HIDE DEF step, N
<1>4. PICK f \in [0..N -> ScanState(S)] : FollowsFold(f, N, Scan0, step)
  BY <1>1, <1>2, <1>3, FoldRecursion
<1>5. \A n \in 0..N : n # 0 => n \in 1..N /\ n - 1 \in 0..N
  BY <1>1
<1>6. f = [n \in 0..N |-> Row(f, n)]
  <2>1. \A n \in 0..N : (IF n = 0 THEN Scan0 ELSE step[n][f[n - 1]]) = Row(f, n)
    BY <1>3, <1>4, <1>5
  <2> HIDE DEF Row
  <2> QED
    BY <1>4, <2>1 DEF FollowsFold
<1>7. scan = [n \in 0..N |-> Row(scan, n)]
  <2> HIDE DEF Row
  <2> QED
    BY <1>6, Zenon
<1>8. scan_number(s) = scan[N].tok
  BY DEF scan_number, N
<1> HIDE DEF scan
<1>9. /\ scan[0] = Scan0
      /\ \A n \in 0..N : n # 0 => scan[n] = ScanByte(scan[n - 1], s[n])
  <2>1. 0 \in 0..N
    BY <1>1
  <2>2. \A n \in 0..N : scan[n] = Row(scan, n)
    <3> HIDE DEF Row
    <3> QED
      BY <1>7
  <2> QED
    BY <2>1, <2>2
<1> DEFINE T == {n \in Nat : n <= N => scan[n] \in ScanState(S)}
<1>10. 0 \in T
  BY <1>2, <1>9
<1>11. ASSUME NEW n \in Nat, n \in T PROVE n + 1 \in T
  <2> SUFFICES ASSUME n + 1 <= N PROVE scan[n + 1] \in ScanState(S)
    OBVIOUS
  <2>1. n + 1 \in 0..N /\ n + 1 # 0 /\ (n + 1) - 1 = n /\ n + 1 \in 1..N /\ scan[n] \in ScanState(S)
    BY <1>1, <1>11
  <2>2. scan[n + 1] = ScanByte(scan[n], s[n + 1])
    BY <1>9, <2>1
  <2> QED
    BY <1>3, <2>1, <2>2
<1> HIDE DEF T
<1>12. Nat \subseteq T
  BY <1>10, <1>11, SetInduction
<1>13. \A n \in 0..N : scan[n] \in ScanState(S)
  BY <1>12 DEF T
<1>14. scan \in [0..N -> ScanState(S)]
  <2>1. scan = [n \in 0..N |-> scan[n]]
    <3> HIDE DEF Row
    <3> QED
      BY <1>7
  <2> QED
    BY <1>13, <2>1
<1>15. \A n \in 0..(N - 1) : n + 1 \in 0..N /\ n + 1 # 0 /\ (n + 1) - 1 = n
  BY <1>1
<1>16. \A n \in 0..(N - 1) : scan[n + 1] = ScanByte(scan[n], s[n + 1])
  BY <1>9, <1>15
<1> QED
  BY <1>8, <1>9, <1>14, <1>16 DEF N

\* Where the scanner stands after n bytes.
LEMMA ScanFollows ==
    ASSUME NEW S, NEW s \in Seq(S)
    PROVE  \E q \in ScanState(S), k \in 0..Len(s) :
              /\ scan_number(s) = q.tok /\ q.tok = SubSeq(s, 1, k) /\ \E b : Follows(q, b)
              /\ k < Len(s) => ~IsNumeralPrefix(SubSeq(s, 1, k + 1))
<1>1. PICK f \in [0..Len(s) -> ScanState(S)] :
         /\ f[0] = Scan0 /\ scan_number(s) = f[Len(s)].tok
         /\ \A n \in 0..(Len(s) - 1) : f[n + 1] = ScanByte(f[n], s[n + 1])
  BY ScanRuns
<1> DEFINE N == Len(s)
           Stands(n) == \E k \in 0..n :
              /\ f[n].tok = SubSeq(s, 1, k) /\ \E b : Follows(f[n], b)
              /\ f[n].on => k = n
              /\ ~f[n].on => k < n /\ ~IsNumeralPrefix(SubSeq(s, 1, k + 1))
           T == {n \in Nat : n <= N => Stands(n)}
<1>2. N \in Nat /\ \A n \in 1..N : s[n] \in S
  BY LenProperties, ElementOfSeq
<1>3. 0 \in T
  <2>1. Scan0.tok = <<>> /\ ~Scan0.hex /\ ~Scan0.exp /\ ~Scan0.dot /\ Scan0.digits = 0 /\ Scan0.on /\ Scan0.hex \in BOOLEAN
    BY DEF Scan0
  <2>2. SubSeq(s, 1, 0) = <<>> /\ Len(<<>>) = 0
    BY <1>2, PrefixGrows, EmptySeq
  <2>3. Open(Scan0.tok, Scan0.hex, 0)
    BY <2>1, EmptyIsOpen
  <2>4. Start(Scan0.tok, Scan0.hex) = 0
    BY <2>1 DEF Start, SignLen
  <2>5. Follows(Scan0, 0)
    BY <2>1, <2>2, <2>3, <2>4 DEF Follows, DigitAt
  <2>6. 0 \in 0..0
    OBVIOUS
  <2>7. Stands(0)
    BY <1>1, <2>1, <2>2, <2>5, <2>6
  <2> QED
    BY <2>7
<1>4. ASSUME NEW n \in Nat, n \in T PROVE n + 1 \in T
  <2> SUFFICES ASSUME n + 1 <= N PROVE Stands(n + 1)
    OBVIOUS
  <2> DEFINE q == f[n]
             c == s[n + 1]
             r == f[n + 1]
  <2>1. n \in 0..(N - 1) /\ n \in 0..N /\ n + 1 \in 1..N /\ n < N
    BY <1>2
  <2>2. q \in ScanState(S) /\ c \in S /\ r = ScanByte(q, c)
    BY <1>1, <1>2, <2>1
  <2>3. PICK k \in 0..n : /\ q.tok = SubSeq(s, 1, k) /\ \E b : Follows(q, b)
                          /\ q.on => k = n
                          /\ ~q.on => k < n /\ ~IsNumeralPrefix(SubSeq(s, 1, k + 1))
    BY <1>2, <1>4
  <2>b. PICK b : Follows(q, b)
    BY <2>3
  <2>4. k \in 0..(n + 1) /\ k < n + 1 /\ n + 1 \in 0..(n + 1) /\ k \in 0..N
    BY <2>1
  <2>5. SubSeq(s, 1, n + 1) = Append(SubSeq(s, 1, n), c)
    BY <2>1, PrefixGrows
  <2> HIDE DEF q, c, r, N
  <2>6. CASE q.on /\ Accepts(q, c)
    <3>1. r.on /\ r.tok = Append(q.tok, c) /\ \E d : Follows(r, d)
      BY <2>2, <2>3, <2>b, <2>6, ScanAccepts
    <3>2. r.tok = SubSeq(s, 1, n + 1)
      BY <2>3, <2>5, <2>6, <3>1
    <3> QED
      BY <2>4, <3>1, <3>2 DEF r
  <2>7. CASE q.on /\ ~Accepts(q, c)
    <3>1. ~r.on /\ r.tok = q.tok /\ Follows(r, b)
      BY <2>2, <2>3, <2>b, <2>7, ScanStops
    <3>2. ~IsNumeralPrefix(Append(q.tok, c))
      BY <2>2, <2>3, <2>b, <2>7, ScanRejects
    <3>3. k = n /\ ~IsNumeralPrefix(SubSeq(s, 1, k + 1))
      BY <2>3, <2>5, <2>7, <3>2
    <3> QED
      BY <2>3, <2>4, <3>1, <3>3 DEF r
  <2>8. CASE ~q.on
    <3>1. ~r.on /\ r.tok = q.tok /\ Follows(r, b)
      BY <2>2, <2>3, <2>b, <2>8, ScanStops
    <3> QED
      BY <2>3, <2>4, <2>8, <3>1 DEF r
  <2> QED
    BY <2>6, <2>7, <2>8
<1> HIDE DEF T
<1>5. N \in T
  BY <1>2, <1>3, <1>4, SetInduction
<1>6. Stands(N)
  BY <1>2, <1>5 DEF T
<1>7. f[N] \in ScanState(S) /\ f[N].on \in BOOLEAN
  BY <1>2 DEF ScanState
<1>8. PICK k \in 0..N :
              /\ f[N].tok = SubSeq(s, 1, k) /\ \E b : Follows(f[N], b)
              /\ f[N].on => k = N
              /\ ~f[N].on => k < N /\ ~IsNumeralPrefix(SubSeq(s, 1, k + 1))
  BY <1>6
<1>9. k < N => ~f[N].on
  BY <1>2, <1>8
<1> QED
  BY <1>1, <1>7, <1>8, <1>9

\* What read_number scans for the format "n" is the longest prefix that can be
\* continued to a numeral, for every sequence of bytes (io.rs, read_number;
\* lua_manual.of:8807).
THEOREM ScanIsLongestPrefix ==
    ASSUME NEW S, NEW s \in Seq(S)
    PROVE  scan_number(s) = LongestPrefix(s)
<1>1. PICK q \in ScanState(S), k \in 0..Len(s) :
              /\ scan_number(s) = q.tok /\ q.tok = SubSeq(s, 1, k) /\ \E b : Follows(q, b)
              /\ k < Len(s) => ~IsNumeralPrefix(SubSeq(s, 1, k + 1))
  BY ScanFollows
<1>2. q.tok \in Seq(S)
  BY DEF ScanState
<1>3. IsNumeralPrefix(q.tok)
  BY <1>1, <1>2, PrefixIsOpen DEF Follows
<1> QED
  BY <1>1, <1>3, LongestPrefixIs

\* The same for every initial state and after, on the inputs that TLC enumerates.
THEOREM NumeralsAlwaysAgree == Spec => []NumeralsAgree
<1>1. NumeralsAgree
  <2>1. ASSUME NEW s \in BoundedSeq(NumeralBytes, NumeralLen) PROVE scan_number(s) = LongestPrefix(s)
    <3>1. \E n \in 0..NumeralLen : s \in [1..n -> NumeralBytes]
      BY DEF BoundedSeq, SeqOf
    <3>2. s \in Seq(NumeralBytes)
      BY <3>1, IsASeq
    <3> QED
      BY <3>2, ScanIsLongestPrefix
  <2> QED
    BY <2>1 DEF NumeralsAgree
<1> QED
  BY <1>1, PTL

\* A token of the scanner is taken for a number when it is one, but for 0x.
\* with nothing after the point.
LEMMA NumbersAreNumerals ==
    ASSUME NEW S, NEW t \in Seq(S), NEW h, NEW b, Open(t, h, b),
           ~(h /\ Len(t) = Start(t, h) + 1 /\ t[Len(t)] = ".")
    PROVE  str_to_number(t) <=> IsNumeral(t)
<1> DEFINE n == Len(t)
           g == SignLen(t)
           body == IF t # <<>> /\ t[1] \in Signs THEN Tail(t) ELSE t
           hex == Len(body) > 1 /\ body[2] = "x"
<1>1. n \in Nat /\ (t = <<>> <=> n = 0) /\ g \in {0, 1} /\ g <= n /\ (t # <<>> /\ t[1] \in Signs <=> g = 1)
  BY LenProperties, EmptySeq DEF SignLen
<1>2. /\ h \in BOOLEAN /\ Start(t, h) \in Nat /\ b \in Nat /\ Start(t, h) <= b /\ b <= n
      /\ PrefixAt(t, h) /\ MantissaAt(t, h, b) /\ ExponentAt(t, h, b)
      /\ b < n => DigitAt(t, h, b)
      /\ Start(t, h) = g + (IF h THEN 2 ELSE 0)
  <2>1. Start(t, h) \in Nat
    BY <1>1 DEF Start
  <2> QED
    BY <1>1, <2>1 DEF Open, Shape, Start
<1>3. body \in Seq(S) /\ Len(body) = n - g /\ \A i \in 1..(n - g) : body[i] = t[g + i]
  <2>1. CASE g = 1
    BY <1>1, <2>1, HeadTailProperties
  <2>2. CASE g = 0
    BY <1>1, <2>2
  <2> QED
    BY <1>1, <2>1, <2>2
<1>4. IsNumeral(t) <=> DigitAt(t, h, b) /\ (b < n => t[n] \in DecDigits)
  <2>1. IsNumeral(t) <=> \E h1 \in BOOLEAN, b1 \in 0..n :
            Shape(t, h1, b1) /\ DigitAt(t, h1, b1) /\ (b1 < n => t[n] \in DecDigits)
    BY NumeralShape
  <2>2. \A h1, b1 : Shape(t, h1, b1) => h1 = h /\ b1 = b
    BY ShapeUnique DEF Open
  <2>3. Shape(t, h, b) /\ b \in 0..n
    BY <1>1, <1>2 DEF Open
  <2> HIDE DEF n
  <2> QED
    BY <1>2, <2>1, <2>2, <2>3
<1>5. str_to_number(t) <=> /\ body # <<>> /\ Last(body) \notin {"x", "p"} \cup Signs
                           /\ hex \/ (Last(body) # "e" /\ Range(body) \cap DecDigits # {})
  BY DEF str_to_number
<1> HIDE DEF body, n, g
<1>6. body = <<>> <=> n = g
  BY <1>1, <1>3, EmptySeq
<1>7. n > g => Last(body) = t[n]
  <2>1. n > g => n - g \in 1..(n - g) /\ g + (n - g) = n
    BY <1>1
  <2> QED
    BY <1>1, <1>3, <2>1 DEF Last
<1>8. n > g => (hex <=> h)
  <2>1. CASE h
    BY <1>1, <1>2, <1>3, <2>1 DEF PrefixAt, g, n
  <2>2. CASE ~h
    <3> SUFFICES ASSUME n > g, n - g > 1, t[g + 2] = "x" PROVE FALSE
      BY <1>1, <1>3, <2>2
    <3>1. Start(t, h) = g
      BY <1>1, <1>2, <2>2
    <3>2. g + 2 \in (Start(t, h) + 1)..b => FALSE
      BY <1>2, <2>2 DEF MantissaAt, Digits, DecDigits
    <3>3. g + 2 = b + 1 => FALSE
      BY <1>1, <1>2, <2>2 DEF ExponentAt, Mark, n
    <3>4. g + 2 = b + 2 => FALSE
      BY <1>1, <1>2, <2>2 DEF ExponentAt, Signs, DecDigits, n
    <3>5. g + 2 \in (b + 3)..n => FALSE
      BY <1>2 DEF ExponentAt, DecDigits, n
    <3> QED
      BY <1>1, <1>2, <3>1, <3>2, <3>3, <3>4, <3>5
  <2> QED
    BY <1>2, <2>1, <2>2
<1> HIDE DEF hex
<1>9. Range(body) \cap DecDigits # {} <=> \E i \in (g + 1)..n : t[i] \in DecDigits
  <2>1. DOMAIN body = 1..(n - g)
    BY <1>3, LenProperties
  <2>2. ASSUME NEW i \in 1..(n - g), body[i] \in DecDigits PROVE \E j \in (g + 1)..n : t[j] \in DecDigits
    <3>1. g + i \in (g + 1)..n
      BY <1>1
    <3> QED
      BY <1>3, <2>2, <3>1
  <2>3. ASSUME NEW i \in (g + 1)..n, t[i] \in DecDigits PROVE \E j \in 1..(n - g) : body[j] \in DecDigits
    <3>1. i - g \in 1..(n - g) /\ g + (i - g) = i
      BY <1>1
    <3> QED
      BY <1>3, <2>3, <3>1
  <2> QED
    BY <2>1, <2>2, <2>3 DEF Range
<1>10. CASE n = g
  <2>1. ~DigitAt(t, h, b)
    BY <1>1, <1>2, <1>10 DEF DigitAt
  <2> QED
    BY <1>4, <1>5, <1>6, <1>10, <2>1
<1>11. b < n => /\ t[n] \in {Mark(h)} \cup Signs \cup DecDigits
  <2> SUFFICES ASSUME b < n PROVE t[n] \in {Mark(h)} \cup Signs \cup DecDigits
    OBVIOUS
  <2>1. n = b + 1 \/ n = b + 2 \/ n \in (b + 3)..n
    BY <1>1, <1>2
  <2> QED
    BY <1>1, <1>2, <2>1 DEF ExponentAt, n
<1>12. CASE n > g /\ h
  <2>1. str_to_number(t) <=> t[n] \notin {"x", "p"} \cup Signs
    BY <1>1, <1>5, <1>6, <1>7, <1>8, <1>12
  <2>2. CASE n = Start(t, h)
    <3>1. t[n] = "x"
      BY <1>2, <1>12, <2>2 DEF PrefixAt, g
    <3>2. ~DigitAt(t, h, b)
      BY <1>1, <1>2, <2>2 DEF DigitAt
    <3> QED
      BY <1>4, <2>1, <3>1, <3>2
  <2>3. CASE n > Start(t, h) /\ b = n
    <3>1. n \in (Start(t, h) + 1)..b
      BY <1>1, <1>2, <2>3
    <3>2. t[n] \in Digits(h) \cup {"."}
      BY <1>2, <3>1 DEF MantissaAt
    <3>3. t[n] \notin {"x", "p"} \cup Signs
      BY <3>2 DEF Digits, HexDigits, DecDigits, Signs
    <3>4. DigitAt(t, h, b)
      <4>1. CASE t[n] \in Digits(h)
        BY <3>1, <4>1 DEF DigitAt
      <4>2. CASE t[n] = "."
        <5>1. n # Start(t, h) + 1
          BY <1>12, <4>2 DEF n
        <5>2. n - 1 \in (Start(t, h) + 1)..b /\ n - 1 # n
          BY <1>1, <1>2, <2>3, <5>1
        <5>3. t[n - 1] \in Digits(h) \cup {"."} /\ t[n - 1] # "."
          BY <1>2, <3>1, <4>2, <5>2 DEF MantissaAt
        <5> QED
          BY <5>2, <5>3 DEF DigitAt
      <4> QED
        BY <3>2, <4>1, <4>2
    <3> QED
      BY <1>1, <1>4, <2>1, <2>3, <3>3, <3>4
  <2>4. CASE b < n
    <3>1. Mark(h) = "p"
      BY <1>12 DEF Mark
    <3> QED
      BY <1>2, <1>4, <1>11, <2>1, <2>4, <3>1 DEF DecDigits, Signs
  <2> QED
    BY <1>1, <1>2, <2>2, <2>3, <2>4
<1>13. CASE n > g /\ ~h
  <2>1. str_to_number(t) <=> /\ t[n] \notin {"x", "p", "e"} \cup Signs
                             /\ \E i \in (g + 1)..n : t[i] \in DecDigits
    BY <1>1, <1>5, <1>6, <1>7, <1>8, <1>9, <1>13
  <2>2. Start(t, h) = g /\ Digits(h) = DecDigits
    BY <1>1, <1>2, <1>13 DEF Digits
  <2>3. CASE b = n
    <3>1. n \in (Start(t, h) + 1)..b
      BY <1>1, <1>2, <1>13, <2>2, <2>3
    <3>2. t[n] \in DecDigits \cup {"."}
      BY <1>2, <2>2, <3>1 DEF MantissaAt
    <3>3. t[n] \notin {"x", "p", "e"} \cup Signs
      BY <3>2 DEF DecDigits, Signs
    <3>4. DigitAt(t, h, b) <=> \E i \in (g + 1)..n : t[i] \in DecDigits
      BY <2>2, <2>3 DEF DigitAt
    <3> QED
      BY <1>1, <1>4, <2>1, <2>3, <3>3, <3>4
  <2>4. CASE b < n
    <3>1. Mark(h) = "e" /\ DigitAt(t, h, b)
      BY <1>2, <1>13, <2>4 DEF Mark
    <3>2. \E i \in (g + 1)..n : t[i] \in DecDigits
      <4>1. PICK i \in (g + 1)..b : t[i] \in DecDigits
        BY <2>2, <3>1 DEF DigitAt
      <4>2. i \in (g + 1)..n
        BY <1>1, <1>2
      <4> QED
        BY <4>1, <4>2
    <3> QED
      BY <1>4, <1>11, <2>1, <2>4, <3>1, <3>2 DEF DecDigits, Signs
  <2> QED
    BY <1>1, <1>2, <2>3, <2>4
<1> QED
  BY <1>1, <1>2, <1>10, <1>12, <1>13
-----------------------------------------------------------------------------
(* What a format takes                                                     *)

\* The bytes of s after the first a.
LEMMA RestOf ==
    ASSUME NEW S, NEW s \in Seq(S), NEW a \in Nat
    PROVE  LET p == SubSeq(s, a + 1, Len(s))
           IN  /\ p \in Seq(S) /\ Len(p) = IF a <= Len(s) THEN Len(s) - a ELSE 0
               /\ \A i \in 1..Len(p) : p[i] = s[a + i] /\ a + i \in 1..Len(s)
<1> DEFINE p == SubSeq(s, a + 1, Len(s))
<1>1. Len(s) \in Nat
  BY LenProperties
<1>2. /\ p \in Seq(S) /\ Len(p) = IF a + 1 <= Len(s) THEN Len(s) - (a + 1) + 1 ELSE 0
      /\ \A i \in 1..Len(p) : p[i] = s[a + 1 + i - 1]
  BY <1>1, PartOf
<1> HIDE DEF p
<1>3. \A i \in 1..Len(p) : a + 1 + i - 1 = a + i /\ a + i \in 1..Len(s)
  BY <1>1, <1>2
<1>4. Len(p) = IF a <= Len(s) THEN Len(s) - a ELSE 0
  BY <1>1, <1>2
<1> QED
  BY <1>2, <1>3, <1>4 DEF p

LEMMA MinIs ==
    ASSUME NEW T \in SUBSET Nat, T # {}
    PROVE  Min(T) \in T /\ \A y \in T : Min(T) <= y
<1>1. \E x \in T : \A y \in T : x <= y
  BY LeastMember
<1> QED
  BY <1>1 DEF Min

LEMMA MinOfTwo ==
    ASSUME NEW x \in Int, NEW y \in Int
    PROVE  Min({x, y}) = IF x <= y THEN x ELSE y
<1> DEFINE m == IF x <= y THEN x ELSE y
<1>1. m \in {x, y} /\ \A z \in {x, y} : m <= z
  OBVIOUS
<1>2. Min({x, y}) \in {x, y} /\ \A z \in {x, y} : Min({x, y}) <= z
  BY <1>1 DEF Min
<1> QED
  BY <1>2

LEMMA FormatCases ==
    ASSUME NEW fmt \in Format
    PROVE  \/ fmt[1] \in {"l", "L"}
           \/ fmt = <<"a">> /\ fmt[1] = "a"
           \/ fmt = <<"n">> /\ fmt[1] = "n"
           \/ fmt[1] = "bytes" /\ fmt[2] \in Nat
  BY DEF Format

\* A line goes to the first line end, or to the end.
LEMMA LineLenIs ==
    ASSUME NEW S, NEW s \in Seq(S)
    PROVE  LET n == LineLen(s)
           IN  /\ n \in 0..Len(s) /\ (n = 0 <=> s = <<>>)
               /\ \A i \in 1..(n - 1) : s[i] # NL
               /\ n < Len(s) => s[n] = NL
               /\ n = Len(s) \/ s[n] = NL
<1> DEFINE ends == {i \in DOMAIN s : s[i] = NL}
           n == LineLen(s)
<1>1. Len(s) \in Nat /\ DOMAIN s = 1..Len(s) /\ (s = <<>> <=> Len(s) = 0)
  BY LenProperties, EmptySeq
<1>2. CASE ends = {}
  <2>1. n = Len(s)
    BY <1>2 DEF LineLen
  <2> QED
    BY <1>1, <1>2, <2>1
<1>3. CASE ends # {}
  <2>1. n = Min(ends) /\ ends \in SUBSET Nat
    BY <1>1, <1>3 DEF LineLen
  <2>2. n \in ends /\ \A y \in ends : n <= y
    BY <1>3, <2>1, MinIs
  <2>3. ASSUME NEW i \in 1..(n - 1), s[i] = NL PROVE FALSE
    <3>1. i \in ends /\ ~(n <= i)
      BY <1>1, <2>2, <2>3
    <3> QED
      BY <2>2, <3>1
  <2> QED
    BY <1>1, <2>2, <2>3
<1> QED
  BY <1>2, <1>3

\* The blanks of s go to the first other byte, or to the end.
LEMMA BlanksAre ==
    ASSUME NEW S, NEW s \in Seq(S)
    PROVE  LET n == skip_blanks(s)
           IN  /\ n \in 0..Len(s) /\ \A i \in 1..n : s[i] \in Whitespace
               /\ n < Len(s) => s[n + 1] \notin Whitespace
<1> DEFINE other == {i \in DOMAIN s : s[i] \notin Whitespace}
           n == skip_blanks(s)
<1>1. Len(s) \in Nat /\ DOMAIN s = 1..Len(s)
  BY LenProperties
<1>2. CASE other = {}
  <2>1. n = Len(s)
    BY <1>2 DEF skip_blanks
  <2> QED
    BY <1>1, <1>2, <2>1
<1>3. CASE other # {}
  <2>1. n = Min(other) - 1 /\ other \in SUBSET Nat
    BY <1>1, <1>3 DEF skip_blanks
  <2>2. Min(other) \in other /\ \A y \in other : Min(other) <= y
    BY <1>3, <2>1, MinIs
  <2>3. ASSUME NEW i \in 1..n, s[i] \notin Whitespace PROVE FALSE
    <3>1. i \in other /\ ~(Min(other) <= i)
      BY <1>1, <2>1, <2>2, <2>3
    <3> QED
      BY <2>2, <3>1
  <2> QED
    BY <1>1, <2>1, <2>2, <2>3
<1> QED
  BY <1>2, <1>3

\* The token after the blanks.
Token(s) == scan_number(SubSeq(s, skip_blanks(s) + 1, Len(s)))

LEMMA TokenIs ==
    ASSUME NEW S, NEW s \in Seq(S)
    PROVE  LET b == skip_blanks(s)
               p == SubSeq(s, b + 1, Len(s))
           IN  /\ p \in Seq(S) /\ Len(p) = Len(s) - b /\ Token(s) = LongestPrefix(p)
               /\ Token(s) \in Seq(S) /\ b + Len(Token(s)) \in 0..Len(s)
<1> DEFINE b == skip_blanks(s)
           p == SubSeq(s, b + 1, Len(s))
<1>1. b \in 0..Len(s) /\ Len(s) \in Nat
  BY BlanksAre, LenProperties
<1>2. p \in Seq(S) /\ Len(p) = Len(s) - b
  BY <1>1, PartOf
<1>3. Token(s) = LongestPrefix(p)
  BY <1>2, ScanIsLongestPrefix DEF Token
<1> HIDE DEF p, b
<1>4. PICK k \in 0..Len(p) : LongestPrefix(p) = SubSeq(p, 1, k)
  BY <1>2, LongestPrefixExists
<1>5. LongestPrefix(p) \in Seq(S) /\ Len(LongestPrefix(p)) = k
  BY <1>2, <1>4, PrefixGrows
<1> QED
  BY <1>1, <1>2, <1>3, <1>4, <1>5 DEF b, p

LEMMA TakeUsed ==
    ASSUME NEW S, NEW all \in Seq(S), NEW fmt \in Format
    PROVE  /\ fmt[1] \in {"l", "L"} => Take(all, fmt).used = LineLen(all)
           /\ fmt[1] = "a" => Take(all, fmt).used = Len(all)
           /\ fmt[1] = "n" => Take(all, fmt).used = skip_blanks(all) + Len(Token(all))
           /\ fmt[1] = "bytes" => Take(all, fmt).used = IF fmt[2] <= Len(all) THEN fmt[2] ELSE Len(all)
           /\ Take(all, fmt).used \in 0..Len(all)
<1>1. Len(all) \in Nat
  BY LenProperties
<1>2. fmt[1] \in {"l", "L"} => Take(all, fmt).used = LineLen(all) /\ LineLen(all) \in 0..Len(all)
  BY LineLenIs DEF Take
<1>3. fmt[1] = "a" => Take(all, fmt).used = Len(all)
  BY DEF Take
<1>4. fmt[1] = "n" => /\ Take(all, fmt).used = skip_blanks(all) + Len(Token(all))
                      /\ skip_blanks(all) + Len(Token(all)) \in 0..Len(all)
  <2>1. fmt[1] = "n" => Take(all, fmt).used = skip_blanks(all) + Len(Token(all))
    BY DEF Take, Token
  <2> QED
    BY <2>1, TokenIs
<1>5. fmt[1] = "bytes" => /\ fmt[2] \in Nat
                          /\ Take(all, fmt).used = IF fmt[2] <= Len(all) THEN fmt[2] ELSE Len(all)
  <2>1. fmt[1] = "bytes" => fmt[2] \in Nat
    BY FormatCases
  <2>2. fmt[1] = "bytes" => Take(all, fmt).used = Min({fmt[2], Len(all)})
    BY DEF Take
  <2> QED
    BY <1>1, <2>1, <2>2, MinOfTwo
<1>6. fmt[1] \in {"l", "L", "a", "n", "bytes"}
  BY FormatCases
<1>7. Take(all, fmt).used \in 0..Len(all)
  BY <1>1, <1>2, <1>3, <1>4, <1>5, <1>6
<1> QED
  BY <1>2, <1>3, <1>4, <1>5, <1>7

\* The reader refills its buffer exactly when the format takes all of it.
LEMMA LinesOfParts ==
    ASSUME NEW S, NEW buf \in Seq(S), NEW rest \in Seq(S)
    PROVE  /\ NL \in Range(buf) => LineLen(buf \o rest) <= Len(buf)
           /\ NL \notin Range(buf) => LineLen(buf \o rest) >= Len(buf)
<1> DEFINE all == buf \o rest
           n == LineLen(all)
<1>1. /\ all \in Seq(S) /\ Len(all) = Len(buf) + Len(rest) /\ \A i \in 1..Len(buf) : all[i] = buf[i]
      /\ Len(buf) \in Nat /\ Len(rest) \in Nat /\ DOMAIN buf = 1..Len(buf)
  BY ConcatProperties, LenProperties
<1>2. /\ n \in 0..Len(all) /\ (\A i \in 1..(n - 1) : all[i] # NL)
      /\ n < Len(all) => n # 0 /\ all[n] = NL
  <2>1. /\ n \in 0..Len(all) /\ (n = 0 <=> all = <<>>) /\ (\A i \in 1..(n - 1) : all[i] # NL)
        /\ n < Len(all) => all[n] = NL
    <3> HIDE DEF all
    <3> QED
      BY <1>1, LineLenIs
  <2>2. all = <<>> => Len(all) = 0
    BY EmptySeq
  <2> HIDE DEF all, n
  <2> QED
    BY <2>1, <2>2
<1> HIDE DEF all, n
<1>3. ASSUME NL \in Range(buf) PROVE n <= Len(buf)
  <2>1. PICK i \in 1..Len(buf) : buf[i] = NL
    BY <1>1, <1>3 DEF Range
  <2>2. ~(i \in 1..(n - 1))
    BY <1>1, <1>2, <2>1
  <2> QED
    BY <1>1, <1>2, <2>1, <2>2
<1>4. ASSUME NL \notin Range(buf), n < Len(buf) PROVE FALSE
  <2>1. n \in 1..Len(buf) /\ all[n] = NL
    BY <1>1, <1>2, <1>4
  <2>2. buf[n] = NL
    BY <1>1, <2>1
  <2> QED
    BY <1>1, <1>4, <2>1, <2>2 DEF Range
<1> QED
  BY <1>1, <1>2, <1>3, <1>4 DEF all, n

LEMMA NumbersOfParts ==
    ASSUME NEW S, NEW buf \in Seq(S), NEW rest \in Seq(S)
    PROVE  LET all == buf \o rest
               n(s) == skip_blanks(s) + Len(Token(s))
           IN  /\ n(buf) = Len(buf) => n(all) >= Len(buf)
               /\ n(buf) # Len(buf) => n(all) = n(buf) /\ n(buf) <= Len(buf)
<1> DEFINE all == buf \o rest
           n(s) == skip_blanks(s) + Len(Token(s))
           b == skip_blanks(buf)
           a == skip_blanks(all)
           p == SubSeq(buf, b + 1, Len(buf))
           s == SubSeq(all, a + 1, Len(all))
<1>1. /\ all \in Seq(S) /\ Len(all) = Len(buf) + Len(rest) /\ \A i \in 1..Len(buf) : all[i] = buf[i]
      /\ Len(buf) \in Nat /\ Len(rest) \in Nat
  BY ConcatProperties, LenProperties
<1> HIDE DEF all
<1>2. /\ b \in 0..Len(buf) /\ \A i \in 1..b : buf[i] \in Whitespace
      /\ b < Len(buf) => buf[b + 1] \notin Whitespace
  BY BlanksAre
<1>3. /\ a \in 0..Len(all) /\ \A i \in 1..a : all[i] \in Whitespace
      /\ a < Len(all) => all[a + 1] \notin Whitespace
  BY <1>1, BlanksAre
<1>4. /\ p \in Seq(S) /\ Len(p) = Len(buf) - b /\ Token(buf) = LongestPrefix(p)
      /\ Token(buf) \in Seq(S) /\ n(buf) \in 0..Len(buf)
  BY TokenIs
<1>5. /\ s \in Seq(S) /\ Len(s) = Len(all) - a /\ Token(all) = LongestPrefix(s)
      /\ Token(all) \in Seq(S)
  BY <1>1, TokenIs
<1>6. Len(Token(buf)) \in Nat /\ Len(Token(all)) \in Nat
  BY <1>4, <1>5, LenProperties
<1>7. /\ \A i \in 1..Len(p) : p[i] = buf[b + i]
      /\ \A i \in 1..Len(s) : s[i] = all[a + i]
  <2>1. b \in Nat /\ a \in Nat
    BY <1>1, <1>2, <1>3
  <2> QED
    BY <1>1, <2>1, RestOf
<1>8. a >= b
  <2>1. a < b => a + 1 \in 1..b /\ a + 1 \in 1..Len(buf) /\ a < Len(all)
    BY <1>1, <1>2, <1>3
  <2> QED
    BY <1>1, <1>2, <1>3, <2>1
<1>9. b < Len(buf) => a = b
  <2>1. b < Len(buf) /\ b < a => b + 1 \in 1..a /\ b + 1 \in 1..Len(buf)
    BY <1>1, <1>2, <1>3
  <2> QED
    BY <1>1, <1>2, <1>3, <1>8, <2>1
<1> HIDE DEF a, b, p, s
<1>10. CASE b = Len(buf)
  <2>1. n(buf) = Len(buf)
    BY <1>1, <1>2, <1>4, <1>6, <1>10 DEF b
  <2>2. n(all) >= Len(buf)
    BY <1>1, <1>3, <1>6, <1>8, <1>10 DEF a
  <2> QED
    BY <2>1, <2>2 DEF all
<1>11. CASE b < Len(buf)
  <2>1. PICK k \in 0..Len(p) : /\ IsNumeralPrefix(SubSeq(p, 1, k)) /\ LongestPrefix(p) = SubSeq(p, 1, k)
                               /\ k < Len(p) => ~IsNumeralPrefix(SubSeq(p, 1, k + 1))
    BY <1>4, LongestPrefixExists
  <2>2. Len(LongestPrefix(p)) = k /\ k \in Nat /\ Len(p) \in Nat /\ Len(s) \in Nat /\ a = b /\ Len(p) <= Len(s)
    BY <1>1, <1>2, <1>4, <1>5, <1>9, <1>11, <2>1, PrefixGrows, LenProperties
  <2>3. \A j \in 0..Len(p) : SubSeq(s, 1, j) = SubSeq(p, 1, j)
    <3> SUFFICES ASSUME NEW j \in 0..Len(p) PROVE SubSeq(s, 1, j) = SubSeq(p, 1, j)
      OBVIOUS
    <3>1. \A i \in 1..Len(p) : p[i] = s[i]
      <4>1. \A i \in 1..Len(p) : i \in 1..Len(s) /\ b + i \in 1..Len(buf)
        BY <1>1, <1>2, <1>4, <2>2
      <4> QED
        BY <1>1, <1>7, <2>2, <4>1
    <3>2. /\ SubSeq(s, 1, j) \in Seq(S) /\ Len(SubSeq(s, 1, j)) = j /\ \A i \in 1..j : SubSeq(s, 1, j)[i] = s[i]
          /\ SubSeq(p, 1, j) \in Seq(S) /\ Len(SubSeq(p, 1, j)) = j /\ \A i \in 1..j : SubSeq(p, 1, j)[i] = p[i]
      BY <1>4, <1>5, <2>2, PartOf
    <3>3. \A i \in 1..j : i \in 1..Len(p)
      BY <2>2
    <3> QED
      BY <3>1, <3>2, <3>3, SeqEqual
  <2>4. CASE k < Len(p)
    <3>1. k \in 0..Len(s) /\ k < Len(s) /\ k + 1 \in 0..Len(p)
      BY <2>2, <2>4
    <3>2. LongestPrefix(s) = SubSeq(s, 1, k)
      BY <1>5, <2>1, <2>3, <2>4, <3>1, LongestPrefixIs
    <3>3. n(all) = n(buf) /\ n(buf) # Len(buf) /\ n(buf) <= Len(buf)
      BY <1>1, <1>2, <1>4, <1>5, <1>6, <2>1, <2>2, <2>3, <2>4, <3>2 DEF a, b
    <3> QED
      BY <3>3 DEF all
  <2>5. CASE k = Len(p)
    <3>1. PICK m \in 0..Len(s) : /\ LongestPrefix(s) = SubSeq(s, 1, m)
                                 /\ m < Len(s) => ~IsNumeralPrefix(SubSeq(s, 1, m + 1))
      BY <1>5, LongestPrefixExists
    <3>2. m >= k
      <4> SUFFICES ASSUME m < k PROVE FALSE
        BY <2>2
      <4>1. k \in 0..Len(s) /\ m + 1 \in 0..k /\ m < Len(s)
        BY <2>2, <2>5
      <4>2. IsNumeralPrefix(SubSeq(s, 1, k))
        BY <2>1, <2>3
      <4> QED
        BY <1>5, <3>1, <4>1, <4>2, PrefixesAreClosed
    <3>3. Len(LongestPrefix(s)) = m /\ m \in Nat
      BY <1>5, <2>2, <3>1, PrefixGrows
    <3>4. n(all) >= Len(buf) /\ n(buf) = Len(buf)
      BY <1>1, <1>2, <1>4, <1>5, <1>6, <2>2, <2>5, <3>2, <3>3 DEF a, b
    <3> QED
      BY <3>4 DEF all
  <2> QED
    BY <2>2, <2>4, <2>5
<1> QED
  BY <1>1, <1>2, <1>10, <1>11

LEMMA TakeOfParts ==
    ASSUME NEW S, NEW buf \in Seq(S), NEW rest \in Seq(S), NEW fmt \in Format
    PROVE  LET n == Take(buf \o rest, fmt).used
           IN  /\ Refills(buf, fmt) => n >= Len(buf)
               /\ ~Refills(buf, fmt) => n <= Len(buf)
<1> DEFINE all == buf \o rest
<1>1. all \in Seq(S) /\ Len(all) = Len(buf) + Len(rest) /\ Len(buf) \in Nat /\ Len(rest) \in Nat
      /\ (buf = <<>> => Len(buf) = 0)
  BY ConcatProperties, LenProperties, EmptySeq
<1> HIDE DEF all
<1>2. CASE fmt[1] \in {"l", "L"}
  <2>1. Take(all, fmt).used = LineLen(all)
    BY <1>1, <1>2, TakeUsed
  <2>2. Refills(buf, fmt) <=> NL \notin Range(buf)
    BY <1>2 DEF Refills
  <2> QED
    BY <2>1, <2>2, LinesOfParts DEF all
<1>3. CASE fmt[1] = "a"
  <2>1. Take(all, fmt).used = Len(all)
    BY <1>1, <1>3, TakeUsed
  <2>2. Refills(buf, fmt)
    BY <1>3 DEF Refills
  <2> QED
    BY <1>1, <2>1, <2>2 DEF all
<1>4. CASE fmt[1] = "n"
  <2>1. /\ Take(all, fmt).used = skip_blanks(all) + Len(Token(all))
        /\ Take(buf, fmt).used = skip_blanks(buf) + Len(Token(buf))
    BY <1>1, <1>4, TakeUsed
  <2>2. Refills(buf, fmt) <=> Take(buf, fmt).used = Len(buf)
    BY <1>4 DEF Refills
  <2>3. /\ Take(buf, fmt).used = Len(buf) => Take(all, fmt).used >= Len(buf)
        /\ Take(buf, fmt).used # Len(buf) => Take(all, fmt).used = Take(buf, fmt).used /\ Take(buf, fmt).used <= Len(buf)
    BY <2>1, NumbersOfParts DEF all
  <2> QED
    BY <2>2, <2>3 DEF all
<1>5. CASE fmt[1] = "bytes" /\ fmt[2] \in Nat
  <2>1. Take(all, fmt).used = IF fmt[2] <= Len(all) THEN fmt[2] ELSE Len(all)
    BY <1>1, <1>5, TakeUsed
  <2>2. Refills(buf, fmt) <=> buf = <<>> \/ fmt[2] > Len(buf)
    BY <1>5 DEF Refills
  <2> QED
    BY <1>1, <1>5, <2>1, <2>2 DEF all
<1> QED
  BY <1>2, <1>3, <1>4, <1>5, FormatCases
-----------------------------------------------------------------------------
(* Reading one format                                                      *)

Buffered == [pos : Nat, buf : Seq(Byte)]

\* The reader's position.
At(r) == r.pos - Len(r.buf)

\* The buffer holds what the file does.
Sound(d, r) ==
    r.buf = <<>> \/ (At(r) >= 0 /\ r.pos <= Len(d) /\ r.buf = SubSeq(d, At(r) + 1, r.pos))

\* What comes of a reader r that takes t of all it can give.
ReadOutcome(r, x, all, t) ==
    /\ all \in Seq(Byte) /\ t.used \in 0..Len(all)
    /\ \/ /\ t.used <= Len(r.buf)
          /\ x = [r |-> [pos |-> r.pos, buf |-> SubSeq(r.buf, t.used + 1, Len(r.buf))], one |-> t.one, io |-> "ok"]
       \/ /\ t.used >= Len(r.buf)
          /\ \E k \in 0..(Len(all) - t.used) :
               x = [r |-> [pos |-> r.pos + (t.used - Len(r.buf)) + k,
                           buf |-> SubSeq(all, t.used + 1, t.used + k)],
                    one |-> t.one, io |-> "ok"]
       \/ /\ t.used >= Len(r.buf)
          /\ \E k \in 0..(t.used - Len(r.buf)) :
               x = [r |-> [pos |-> r.pos + k, buf |-> <<>>], one |-> Nil, io |-> "error"]

LEMMA ReadOneCases ==
    ASSUME NEW d \in Seq(Byte), NEW r \in Buffered, NEW fmt \in Format, NEW x \in read_one(d, r, fmt)
    PROVE  ReadOutcome(r, x, Avail(d, r), Take(Avail(d, r), fmt))
<1> DEFINE rest == SubSeq(d, r.pos + 1, Len(d))
           all == Avail(d, r)
           t == Take(all, fmt)
           n == t.used
           looks == fmt[1] = "n" \/ fmt = <<"bytes", 0>>
           left == Min({Capacity, Len(all) - n})
           low == IF looks THEN Min({1, left}) ELSE 0
<1>1. /\ r.pos \in Nat /\ r.buf \in Seq(Byte) /\ Len(r.buf) \in Nat
      /\ rest \in Seq(Byte) /\ all = r.buf \o rest /\ all \in Seq(Byte) /\ Len(all) \in Nat
  <2>1. r.pos \in Nat /\ r.buf \in Seq(Byte)
    BY DEF Buffered
  <2>2. rest \in Seq(Byte)
    BY <2>1, RestOf
  <2>3. all = r.buf \o rest
    BY DEF Avail
  <2> HIDE DEF rest, all
  <2> QED
    BY <2>1, <2>2, <2>3, ConcatProperties, LenProperties
<1>2. n \in 0..Len(all)
  <2> HIDE DEF all
  <2> QED
    BY <1>1, TakeUsed
<1>3. (Refills(r.buf, fmt) => n >= Len(r.buf)) /\ (~Refills(r.buf, fmt) => n <= Len(r.buf))
  <2> HIDE DEF rest, all
  <2> QED
    BY <1>1, TakeOfParts
<1>4. r = [pos |-> r.pos, buf |-> r.buf]
  BY DEF Buffered
<1>5. read_one(d, r, fmt) =
        IF ~Refills(r.buf, fmt)
        THEN {[r |-> [r EXCEPT !.buf = SubSeq(@, n + 1, Len(@))], one |-> t.one, io |-> "ok"]}
        ELSE {[r |-> [pos |-> r.pos + (n - Len(r.buf)) + k, buf |-> SubSeq(all, n + 1, n + k)],
               one |-> t.one, io |-> "ok"] : k \in low..left}
             \cup {[r |-> [pos |-> r.pos + k, buf |-> <<>>], one |-> Nil, io |-> "error"] : k \in 0..(n - Len(r.buf))}
  BY DEF read_one
<1> HIDE DEF rest, all, t, n, looks
<1>6. left <= Len(all) - n /\ left \in Nat
  <2>1. Capacity \in Int /\ Capacity >= 0 /\ Len(all) - n \in Int /\ Len(all) - n >= 0
    BY <1>1, <1>2, BoundsAssumption
  <2>2. left = IF Capacity <= Len(all) - n THEN Capacity ELSE Len(all) - n
    BY <2>1, MinOfTwo
  <2> QED
    BY <2>1, <2>2
<1> HIDE DEF left
<1>7. low \in Nat
  BY <1>6, MinOfTwo
<1> HIDE DEF low
<1>8. \A k \in low..left : k \in 0..(Len(all) - n)
  BY <1>1, <1>2, <1>6, <1>7
<1>9. ASSUME ~Refills(r.buf, fmt) PROVE ReadOutcome(r, x, all, t)
  <2>1. \A z : [r EXCEPT !.buf = z] = [pos |-> r.pos, buf |-> z]
    BY DEF Buffered
  <2>2. x = [r |-> [pos |-> r.pos, buf |-> SubSeq(r.buf, n + 1, Len(r.buf))], one |-> t.one, io |-> "ok"]
    BY <1>5, <1>9, <2>1
  <2> QED
    BY <1>1, <1>2, <1>3, <1>9, <2>2 DEF n, ReadOutcome
<1>10. ASSUME Refills(r.buf, fmt) PROVE ReadOutcome(r, x, all, t)
  <2>1. \/ \E k \in low..left :
              x = [r |-> [pos |-> r.pos + (n - Len(r.buf)) + k, buf |-> SubSeq(all, n + 1, n + k)],
                   one |-> t.one, io |-> "ok"]
        \/ \E k \in 0..(n - Len(r.buf)) :
              x = [r |-> [pos |-> r.pos + k, buf |-> <<>>], one |-> Nil, io |-> "error"]
    BY <1>5, <1>10
  <2>2. \/ \E k \in 0..(Len(all) - n) :
              x = [r |-> [pos |-> r.pos + (n - Len(r.buf)) + k, buf |-> SubSeq(all, n + 1, n + k)],
                   one |-> t.one, io |-> "ok"]
        \/ \E k \in 0..(n - Len(r.buf)) :
              x = [r |-> [pos |-> r.pos + k, buf |-> <<>>], one |-> Nil, io |-> "error"]
    BY <1>8, <2>1
  <2>3. n >= Len(r.buf)
    BY <1>3, <1>10
  <2> QED
    BY <1>1, <1>2, <2>2, <2>3, Zenon DEF n, ReadOutcome
<1>11. ReadOutcome(r, x, all, t)
  BY <1>9, <1>10
<1> QED
  BY <1>11 DEF all, t

LEMMA ReadOneTypes ==
    ASSUME NEW d \in Seq(Byte), NEW r \in Buffered, NEW fmt \in Format, NEW x \in read_one(d, r, fmt)
    PROVE  x.r \in Buffered /\ x.io \in {"ok", "error"} /\ x = [r |-> x.r, one |-> x.one, io |-> x.io]
<1> DEFINE all == Avail(d, r)
           t == Take(all, fmt)
           n == t.used
<1>1. /\ r.pos \in Nat /\ r.buf \in Seq(Byte) /\ Len(r.buf) \in Nat
  BY LenProperties DEF Buffered
<1>0. ReadOutcome(r, x, all, t)
  BY ReadOneCases
<1> HIDE DEF all, t
<1>2. /\ all \in Seq(Byte) /\ n \in 0..Len(all)
      /\ \/ /\ n <= Len(r.buf)
            /\ x = [r |-> [pos |-> r.pos, buf |-> SubSeq(r.buf, n + 1, Len(r.buf))],
                    one |-> t.one, io |-> "ok"]
         \/ /\ n >= Len(r.buf)
            /\ \E k \in 0..(Len(all) - n) :
                 x = [r |-> [pos |-> r.pos + (n - Len(r.buf)) + k,
                             buf |-> SubSeq(all, n + 1, n + k)],
                      one |-> t.one, io |-> "ok"]
         \/ /\ n >= Len(r.buf)
            /\ \E k \in 0..(n - Len(r.buf)) :
                 x = [r |-> [pos |-> r.pos + k, buf |-> <<>>], one |-> Nil, io |-> "error"]
  BY <1>0, Zenon DEF ReadOutcome
<1> HIDE DEF n
<1>3. Len(all) \in Nat /\ n \in Nat
  BY <1>2, LenProperties
<1>4. CASE /\ n <= Len(r.buf)
           /\ x = [r |-> [pos |-> r.pos, buf |-> SubSeq(r.buf, n + 1, Len(r.buf))],
                   one |-> t.one, io |-> "ok"]
  <2>1. SubSeq(r.buf, n + 1, Len(r.buf)) \in Seq(Byte)
    BY <1>1, <1>3, RestOf
  <2> QED
    BY <1>1, <1>4, <2>1 DEF Buffered
<1>5. ASSUME n >= Len(r.buf), NEW k \in 0..(Len(all) - n),
             x = [r |-> [pos |-> r.pos + (n - Len(r.buf)) + k, buf |-> SubSeq(all, n + 1, n + k)],
                  one |-> t.one, io |-> "ok"]
      PROVE  x.r \in Buffered /\ x.io = "ok" /\ x = [r |-> x.r, one |-> x.one, io |-> x.io]
  <2>1. SubSeq(all, n + 1, n + k) \in Seq(Byte)
    BY <1>2, <1>3, PartOf
  <2>2. r.pos + (n - Len(r.buf)) + k \in Nat
    BY <1>1, <1>3, <1>5
  <2> QED
    BY <1>5, <2>1, <2>2 DEF Buffered
<1>6. ASSUME n >= Len(r.buf), NEW k \in 0..(n - Len(r.buf)),
             x = [r |-> [pos |-> r.pos + k, buf |-> <<>>], one |-> Nil, io |-> "error"]
      PROVE  x.r \in Buffered /\ x.io = "error" /\ x = [r |-> x.r, one |-> x.one, io |-> x.io]
  <2>1. r.pos + k \in Nat /\ <<>> \in Seq(Byte)
    BY <1>1, <1>3, <1>6, EmptySeq
  <2> QED
    BY <1>6, <2>1 DEF Buffered
<1> QED
  BY <1>2, <1>4, <1>5, <1>6

\* Two parts of s that meet.
LEMMA PartsMeet ==
    ASSUME NEW S, NEW s \in Seq(S), NEW a \in Nat, NEW b \in Nat, a <= b, b <= Len(s)
    PROVE  SubSeq(s, a + 1, b) \o SubSeq(s, b + 1, Len(s)) = SubSeq(s, a + 1, Len(s))
<1>1. Len(s) \in Nat
  BY LenProperties
<1>2. a + 1 \in 1..(Len(s) + 1) /\ b \in ((a + 1) - 1)..Len(s) /\ Len(s) \in b..Len(s)
  BY <1>1
<1> QED
  BY <1>2, ConcatAdjacentSubSeq

\* What a sound reader gives is what the file has at its position.
LEMMA SoundGives ==
    ASSUME NEW d \in Seq(Byte), NEW r \in Buffered, Sound(d, r)
    PROVE  At(r) \in Nat /\ Avail(d, r) = SubSeq(d, At(r) + 1, Len(d))
<1>1. /\ r.pos \in Nat /\ r.buf \in Seq(Byte) /\ Len(r.buf) \in Nat /\ Len(d) \in Nat
      /\ SubSeq(d, r.pos + 1, Len(d)) \in Seq(Byte)
  BY LenProperties, RestOf DEF Buffered
<1>2. CASE r.buf = <<>>
  <2>1. At(r) = r.pos
    BY <1>1, <1>2, EmptySeq DEF At
  <2>2. Avail(d, r) = SubSeq(d, r.pos + 1, Len(d))
    BY <1>1, <1>2, ConcatEmptySeq DEF Avail
  <2> QED
    BY <1>1, <2>1, <2>2
<1>3. CASE r.buf # <<>>
  <2>1. At(r) >= 0 /\ At(r) \in Nat /\ At(r) <= r.pos /\ r.pos <= Len(d) /\ r.buf = SubSeq(d, At(r) + 1, r.pos)
    BY <1>1, <1>3 DEF Sound, At
  <2>3. SubSeq(d, At(r) + 1, r.pos) \o SubSeq(d, r.pos + 1, Len(d)) = SubSeq(d, At(r) + 1, Len(d))
    BY <1>1, <2>1, PartsMeet
  <2> QED
    BY <2>1, <2>3 DEF Avail
<1> QED
  BY <1>2, <1>3

\* A part of a part.
LEMMA PartOfPart ==
    ASSUME NEW S, NEW s \in Seq(S), NEW a \in Nat, NEW b \in Nat, NEW m \in Nat, NEW k \in Nat,
           a + m + k <= b, b <= Len(s)
    PROVE  SubSeq(SubSeq(s, a + 1, b), m + 1, m + k) = SubSeq(s, a + m + 1, a + m + k)
<1> DEFINE p == SubSeq(s, a + 1, b)
           mk == m + k
           lo == a + m
           hi == a + m + k
           u == SubSeq(p, m + 1, mk)
           v == SubSeq(s, lo + 1, hi)
<1>1. Len(s) \in Nat /\ a <= b
  BY LenProperties
<1>0. /\ mk \in Int /\ lo \in Nat /\ hi \in Int /\ hi <= Len(s) /\ m <= mk /\ lo <= hi
      /\ mk - m = k /\ hi - lo = k /\ lo = a + m /\ mk <= b - a
  BY <1>1
<1> HIDE DEF p, mk, lo, hi
<1>2. p \in Seq(S) /\ Len(p) = b - a /\ \A i \in 1..Len(p) : p[i] = s[a + i]
  <2>1. p \in Seq(S) /\ Len(p) = (IF a <= b THEN b - a ELSE 0) /\ \A i \in 1..Len(p) : p[i] = s[a + i]
    BY PartAfter DEF p
  <2> QED
    BY <1>1, <2>1
<1>3. u \in Seq(S) /\ Len(u) = k /\ \A i \in 1..Len(u) : u[i] = p[m + i]
  <2>1. u \in Seq(S) /\ Len(u) = (IF m <= mk THEN mk - m ELSE 0) /\ \A i \in 1..Len(u) : u[i] = p[m + i]
    <3>1. p \in Seq(S) /\ mk \in Int /\ mk <= Len(p)
      BY <1>0, <1>2
    <3> QED
      BY <3>1, PartAfter
  <2> HIDE DEF u
  <2> QED
    BY <1>0, <2>1
<1>4. v \in Seq(S) /\ Len(v) = k /\ \A i \in 1..Len(v) : v[i] = s[lo + i]
  <2>1. v \in Seq(S) /\ Len(v) = (IF lo <= hi THEN hi - lo ELSE 0) /\ \A i \in 1..Len(v) : v[i] = s[lo + i]
    <3>1. lo \in Nat /\ hi \in Int /\ hi <= Len(s)
      BY <1>0
    <3> QED
      BY <3>1, PartAfter
  <2> HIDE DEF v
  <2> QED
    BY <1>0, <2>1
<1> HIDE DEF u, v
<1>6. ASSUME NEW i \in 1..k PROVE u[i] = v[i]
  <2>1. m + i \in 1..Len(p) /\ a + (m + i) = lo + i
    BY <1>0, <1>1, <1>2
  <2> QED
    BY <1>2, <1>3, <1>4, <2>1
<1>7. u = v
  BY <1>3, <1>4, <1>6, SeqEqual
<1> QED
  BY <1>7 DEF u, v, p, mk, lo, hi

\* A sound reader that gives the first n bytes of its buffer.
LEMMA GivesFromBuffer ==
    ASSUME NEW d \in Seq(Byte), NEW r \in Buffered, Sound(d, r), NEW n \in Nat, n <= Len(r.buf)
    PROVE  \A y : y.pos = r.pos /\ y.buf = SubSeq(r.buf, n + 1, Len(r.buf)) => Sound(d, y) /\ At(y) = At(r) + n
<1> DEFINE p == r.pos
           buf == r.buf
           a == At(r)
           b2 == SubSeq(buf, n + 1, Len(buf))
<1>0. p \in Nat /\ buf \in Seq(Byte)
  BY DEF Buffered
<1>1. Len(buf) \in Nat /\ Len(d) \in Nat /\ (buf = <<>> => Len(buf) = 0)
  BY <1>0, LenProperties, EmptySeq
<1>10. a \in Nat
  BY SoundGives
<1>11. a = p - Len(buf)
  BY DEF At
<1>12. buf = <<>> \/ (p <= Len(d) /\ buf = SubSeq(d, a + 1, p))
  BY DEF Sound
<1>13. n <= Len(buf)
  OBVIOUS
<1> HIDE DEF p, buf, a
<1>14. p = a + Len(buf)
  BY <1>0, <1>1, <1>10, <1>11
<1>2. PICK k \in Nat : n + k = Len(buf)
  <2>1. Len(buf) - n \in Nat /\ n + (Len(buf) - n) = Len(buf)
    BY <1>1, <1>13
  <2> QED
    BY <2>1
<1>3. b2 \in Seq(Byte) /\ Len(b2) = k
  <2>1. b2 \in Seq(Byte) /\ Len(b2) = IF n <= Len(buf) THEN Len(buf) - n ELSE 0
    BY <1>0, RestOf
  <2> HIDE DEF b2
  <2> QED
    BY <1>1, <1>2, <2>1
<1>4. p = a + n + k
  BY <1>1, <1>2, <1>10, <1>14
<1>9. p - k = a + n /\ a + n >= 0
  BY <1>0, <1>4, <1>10
<1> SUFFICES ASSUME NEW y, y.pos = p /\ y.buf = b2 PROVE Sound(d, y) /\ At(y) = a + n
  BY DEF b2, p, buf, a
<1> HIDE DEF b2
<1>6. At(y) = a + n
  BY <1>3, <1>9 DEF At
<1>7. CASE buf = <<>>
  <2>1. k = 0
    BY <1>1, <1>2, <1>7
  <2>2. b2 = <<>>
    BY <1>3, <2>1, EmptySeq
  <2> QED
    BY <1>6, <2>2 DEF Sound
<1>8. CASE p <= Len(d) /\ buf = SubSeq(d, a + 1, p)
  <2>1. a + n + k <= p
    BY <1>0, <1>4
  <2>2. SubSeq(SubSeq(d, a + 1, p), n + 1, n + k) = SubSeq(d, a + n + 1, a + n + k)
    BY <1>0, <1>8, <1>10, <2>1, PartOfPart
  <2>3. b2 = SubSeq(d, a + n + 1, p)
    BY <1>2, <1>4, <1>8, <2>2 DEF b2
  <2>5. Sound(d, y)
    BY <1>6, <1>8, <1>9, <2>3 DEF Sound
  <2> QED
    BY <1>6, <2>5
<1> QED
  BY <1>7, <1>8, <1>12

\* A sound reader that gives n bytes, and reads k more ahead.
LEMMA GivesAndRefills ==
    ASSUME NEW d \in Seq(Byte), NEW a \in Nat, NEW n \in Nat, NEW k \in Nat,
           n + k <= Len(SubSeq(d, a + 1, Len(d)))
    PROVE  \A y : y.pos = a + n + k /\ y.buf = SubSeq(SubSeq(d, a + 1, Len(d)), n + 1, n + k)
                => Sound(d, y) /\ At(y) = a + n
<1> DEFINE all == SubSeq(d, a + 1, Len(d))
           b2 == SubSeq(all, n + 1, n + k)
           p == a + n + k
<1>1. Len(d) \in Nat /\ all \in Seq(Byte) /\ Len(all) = IF a <= Len(d) THEN Len(d) - a ELSE 0
  BY LenProperties, RestOf
<1> HIDE DEF all
<1>2. b2 \in Seq(Byte) /\ Len(b2) = k
  <2>1. n + 1 \in Nat /\ 1 <= n + 1 /\ n + k \in Int /\ n + k <= Len(all)
    BY DEF all
  <2>2. b2 \in Seq(Byte) /\ Len(b2) = IF n + 1 <= n + k THEN (n + k) - (n + 1) + 1 ELSE 0
    BY <1>1, <2>1, PartOf
  <2> QED
    BY <2>2
<1> HIDE DEF b2
<1>4. k = 0 => b2 = <<>>
  BY <1>2, EmptySeq
<1>5. k # 0 => p <= Len(d) /\ b2 = SubSeq(d, a + n + 1, p)
  <2> SUFFICES ASSUME k # 0 PROVE p <= Len(d) /\ b2 = SubSeq(d, a + n + 1, p)
    OBVIOUS
  <2>1. n + k <= Len(all)
    BY DEF all
  <2>2. a + n + k <= Len(d)
    BY <1>1, <2>1
  <2>3. SubSeq(SubSeq(d, a + 1, Len(d)), n + 1, n + k) = SubSeq(d, a + n + 1, a + n + k)
    BY <1>1, <2>2, PartOfPart
  <2> QED
    BY <2>2, <2>3 DEF b2, all
<1>6. p - k = a + n /\ a + n >= 0
  OBVIOUS
<1> SUFFICES ASSUME NEW y, y.pos = p /\ y.buf = b2 PROVE Sound(d, y) /\ At(y) = a + n
  BY DEF b2, all
<1> HIDE DEF p
<1>3. At(y) = a + n
  BY <1>2, <1>6 DEF At
<1>7. Sound(d, y)
  BY <1>3, <1>4, <1>5, <1>6 DEF Sound
<1> QED
  BY <1>3, <1>7

\* A sound reader stays sound, and moves by what the format takes.
LEMMA ReadOneMoves ==
    ASSUME NEW d \in Seq(Byte), NEW r \in Buffered, Sound(d, r), NEW fmt \in Format, NEW x \in read_one(d, r, fmt)
    PROVE  LET all == SubSeq(d, At(r) + 1, Len(d))
               t == Take(all, fmt)
           IN  /\ t.used \in 0..Len(all)
               /\ x.io = "ok" => Sound(d, x.r) /\ At(x.r) = At(r) + t.used /\ x.one = t.one
               /\ x.io = "error" => x.r.buf = <<>> /\ At(x.r) \in At(r)..(At(r) + Len(all))
<1> DEFINE a == At(r)
           all == SubSeq(d, a + 1, Len(d))
           t == Take(all, fmt)
           n == t.used
           p == r.pos
           buf == r.buf
           L == Len(buf)
<1>1. /\ p \in Nat /\ buf \in Seq(Byte) /\ L \in Nat /\ Len(d) \in Nat
  BY LenProperties DEF Buffered
<1>10. a \in Nat /\ Avail(d, r) = all
  BY SoundGives
<1>11. buf = <<>> \/ (p <= Len(d) /\ buf = SubSeq(d, a + 1, p))
  BY DEF Sound
<1>12. a = p - L
  BY DEF At
<1>0. ReadOutcome(r, x, all, t)
  BY <1>10, ReadOneCases
<1> HIDE DEF all, t
<1>2. /\ all \in Seq(Byte) /\ n \in 0..Len(all)
      /\ \/ /\ n <= L
            /\ x = [r |-> [pos |-> p, buf |-> SubSeq(buf, n + 1, L)], one |-> t.one, io |-> "ok"]
         \/ /\ n >= L
            /\ \E k \in 0..(Len(all) - n) :
                 x = [r |-> [pos |-> p + (n - L) + k, buf |-> SubSeq(all, n + 1, n + k)],
                      one |-> t.one, io |-> "ok"]
         \/ /\ n >= L
            /\ \E k \in 0..(n - L) :
                 x = [r |-> [pos |-> p + k, buf |-> <<>>], one |-> Nil, io |-> "error"]
  BY <1>0, Zenon DEF ReadOutcome
<1> HIDE DEF a, p, buf, n, L
<1>13. p = a + L
  BY <1>1, <1>10, <1>12
<1>3. all \in Seq(Byte) /\ n \in 0..Len(all)
  BY <1>2
<1>4. n \in Nat /\ Len(all) \in Nat
  BY <1>3, LenProperties
<1>5. ASSUME n <= L,
             x = [r |-> [pos |-> p, buf |-> SubSeq(buf, n + 1, L)], one |-> t.one, io |-> "ok"]
      PROVE  x.io = "ok" /\ Sound(d, x.r) /\ At(x.r) = a + n /\ x.one = t.one
  <2> DEFINE y == x.r
  <2>1. x.io = "ok" /\ y.pos = p /\ y.buf = SubSeq(buf, n + 1, L) /\ x.one = t.one
    BY <1>5
  <2> HIDE DEF y
  <2>2. \A z : z.pos = p /\ z.buf = SubSeq(buf, n + 1, L) => Sound(d, z) /\ At(z) = a + n
    <3>1. n \in Nat /\ n <= Len(r.buf)
      BY <1>4, <1>5 DEF L, buf
    <3> QED
      BY <3>1, GivesFromBuffer, Zenon DEF p, buf, a, L
  <2> QED
    BY <2>1, <2>2 DEF y
<1>6. ASSUME n >= L, NEW k \in 0..(Len(all) - n),
             x = [r |-> [pos |-> p + (n - L) + k, buf |-> SubSeq(all, n + 1, n + k)], one |-> t.one, io |-> "ok"]
      PROVE  x.io = "ok" /\ Sound(d, x.r) /\ At(x.r) = a + n /\ x.one = t.one
  <2> DEFINE y == x.r
  <2>1. p + (n - L) + k = a + n + k /\ k \in Nat /\ n + k <= Len(all)
    BY <1>1, <1>4, <1>10, <1>13
  <2>2. x.io = "ok" /\ y.pos = a + n + k /\ y.buf = SubSeq(all, n + 1, n + k) /\ x.one = t.one
    BY <1>6, <2>1
  <2> HIDE DEF y
  <2>3. \A z : z.pos = a + n + k /\ z.buf = SubSeq(all, n + 1, n + k) => Sound(d, z) /\ At(z) = a + n
    <3>1. a \in Nat /\ n \in Nat /\ k \in Nat /\ n + k <= Len(SubSeq(d, a + 1, Len(d)))
      BY <1>4, <1>10, <2>1 DEF all
    <3> QED
      BY <3>1, GivesAndRefills, Zenon DEF all
  <2> QED
    BY <2>2, <2>3 DEF y
<1>7. ASSUME n >= L, NEW k \in 0..(n - L),
             x = [r |-> [pos |-> p + k, buf |-> <<>>], one |-> Nil, io |-> "error"]
      PROVE  x.io = "error" /\ x.r.buf = <<>> /\ At(x.r) \in a..(a + Len(all))
  <2>1. x.io = "error" /\ x.r.pos = p + k /\ x.r.buf = <<>>
    BY <1>7
  <2>2. At(x.r) = p + k
    BY <1>1, <2>1, EmptySeq DEF At
  <2>3. p + k \in a..(a + Len(all))
    BY <1>1, <1>3, <1>4, <1>7, <1>10, <1>13
  <2> QED
    BY <2>1, <2>2, <2>3
<1> QED
  <2>1. \/ x.io = "ok" /\ Sound(d, x.r) /\ At(x.r) = a + n /\ x.one = t.one
        \/ x.io = "error" /\ x.r.buf = <<>> /\ At(x.r) \in a..(a + Len(all))
    BY <1>2, <1>5, <1>6, <1>7, Zenon
  <2> HIDE DEF t
  <2> QED
    BY <1>3, <2>1, Zenon DEF a, all, n, t
-----------------------------------------------------------------------------
(* What the file promises                                                  *)

\* FileSpec has the numerals of Numerals.
LEMMA AbstractNumerals ==
    /\ \A s : Abstract!LongestPrefix(s) = LongestPrefix(s)
    /\ \A s : Abstract!IsNumeral(s) <=> IsNumeral(s)
    /\ \A s : Abstract!Blanks(s) = skip_blanks(s)
<1>1. /\ Abstract!Signs = Signs /\ Abstract!DecDigits = DecDigits /\ Abstract!HexDigits = HexDigits
      /\ Abstract!NL = NL /\ Abstract!Whitespace = Whitespace
  BY DEF Abstract!Signs, Signs, Abstract!DecDigits, DecDigits, Abstract!HexDigits, HexDigits, Abstract!NL, NL,
         Abstract!Whitespace, Whitespace
<1>2. \A h : Abstract!Digits(h) = Digits(h) /\ Abstract!Mark(h) = Mark(h)
  BY <1>1 DEF Abstract!Digits, Digits, Abstract!Mark, Mark
<1>3. \A s : Abstract!Range(s) = Range(s) /\ Abstract!Last(s) = Last(s)
  BY DEF Abstract!Range, Range, Abstract!Last, Last
<1>4. \A T : Abstract!Max(T) = Max(T) /\ Abstract!Min(T) = Min(T)
  BY DEF Abstract!Max, Max, Abstract!Min, Min
<1>5. \A t, h, b : /\ Abstract!Start(t, h) = Start(t, h) /\ Abstract!SignLen(t) = SignLen(t)
                   /\ Abstract!Mantissa(t, h, b) = Mantissa(t, h, b) /\ Abstract!Exponent(t, b) = Exponent(t, b)
  BY <1>1 DEF Abstract!Start, Start, Abstract!SignLen, SignLen, Abstract!Mantissa, Mantissa,
              Abstract!Exponent, Exponent
<1>6. \A m, h : /\ Abstract!HasDigit(m, h) <=> HasDigit(m, h)
                /\ Abstract!IsMantissa(m, h) <=> IsMantissa(m, h)
                /\ Abstract!IsExponent(m, h) <=> IsExponent(m, h)
                /\ Abstract!IsPrefixPart(m, h) <=> IsPrefixPart(m, h)
  BY <1>1, <1>2, <1>3 DEF Abstract!HasDigit, HasDigit, Abstract!IsMantissa, IsMantissa, Abstract!IsExponent,
              IsExponent, Abstract!IsPrefixPart, IsPrefixPart
<1>7. \A t, h, b : Abstract!IsSplit(t, h, b) <=> IsSplit(t, h, b)
  BY <1>5, <1>6 DEF Abstract!IsSplit, IsSplit
<1>8. \A s : (Abstract!IsNumeral(s) <=> IsNumeral(s)) /\ (Abstract!IsNumeralPrefix(s) <=> IsNumeralPrefix(s))
  BY <1>1, <1>3, <1>5, <1>6, <1>7 DEF Abstract!IsNumeral, IsNumeral, Abstract!IsNumeralPrefix, IsNumeralPrefix
<1>9. \A s : Abstract!LongestPrefix(s) = LongestPrefix(s)
  BY <1>4, <1>8 DEF Abstract!LongestPrefix, LongestPrefix
<1>10. \A s : Abstract!Blanks(s) = skip_blanks(s)
  BY <1>1, <1>4 DEF Abstract!Blanks, skip_blanks
<1> QED
  BY <1>8, <1>9, <1>10

\* Unless a 0x. stands there, a number is read where the manual has one.
LEMMA TokenIsNumeral ==
    ASSUME NEW S, NEW s \in Seq(S), ~BareHex(s)
    PROVE  str_to_number(Token(s)) <=> IsNumeral(Token(s))
<1> DEFINE e == skip_blanks(s)
           p == SubSeq(s, e + 1, Len(s))
           t == Token(s)
<1>1. e \in 0..Len(s) /\ Len(s) \in Nat /\ e \in Nat
  BY BlanksAre, LenProperties
<1>2. p \in Seq(S) /\ Len(p) = Len(s) - e /\ t = LongestPrefix(p)
  BY TokenIs
<1>3. \A i \in 1..Len(p) : p[i] = s[e + i] /\ e + i \in 1..Len(s)
  BY <1>1, RestOf
<1> HIDE DEF p, t, e
<1>4. PICK k \in 0..Len(p) : /\ IsNumeralPrefix(SubSeq(p, 1, k)) /\ t = SubSeq(p, 1, k)
                             /\ k < Len(p) => ~IsNumeralPrefix(SubSeq(p, 1, k + 1))
  BY <1>2, LongestPrefixExists
<1>5. /\ t \in Seq(S) /\ Len(t) = k /\ k \in Nat /\ Len(p) \in Nat
      /\ k < Len(p) => p[k + 1] \in S /\ SubSeq(p, 1, k + 1) = Append(t, p[k + 1])
  BY <1>1, <1>2, <1>4, PrefixGrows
<1>6. \A i \in 1..k : t[i] = p[i]
  BY <1>2, <1>4, <1>5, PartOf
<1>7. PICK h, b : Open(t, h, b)
  BY <1>4, <1>5, PrefixIsOpen
<1>8. ASSUME h, k = Start(t, h) + 1, t[k] = "." PROVE FALSE
  <2>1. /\ h \in BOOLEAN /\ SignLen(t) \in {0, 1} /\ Start(t, h) = SignLen(t) + 2
        /\ b \in Nat /\ Start(t, h) <= b /\ b <= k /\ t[Start(t, h)] = "x"
    <3>1. SignLen(t) \in {0, 1} /\ Start(t, h) = SignLen(t) + 2
      BY <1>8 DEF SignLen, Start
    <3>2. Shape(t, h, b)
      BY <1>7 DEF Open
    <3>3. h \in BOOLEAN /\ b \in Start(t, h)..Len(t) /\ PrefixAt(t, h)
      BY <3>2, Zenon DEF Shape
    <3>4. t[SignLen(t) + 2] = "x"
      BY <1>8, <3>3, Zenon DEF PrefixAt
    <3>5. \A a \in Nat : b \in a..Len(t) => b \in Nat /\ a <= b /\ b <= k
      BY <1>5
    <3>6. Start(t, h) \in Nat
      BY <3>1
    <3>7. b \in Nat /\ Start(t, h) <= b /\ b <= k
      BY <3>3, <3>5, <3>6, Zenon
    <3> QED
      BY <3>1, <3>3, <3>4, <3>7, Zenon
  <2>2. b = k
    <3> SUFFICES ASSUME b < k PROVE FALSE
      BY <1>5, <2>1
    <3>1. DigitAt(t, h, b)
      BY <1>5, <1>7 DEF Open
    <3>2. b < Start(t, h) + 1
      BY <1>8
    <3> QED
      BY <2>1, <3>1, <3>2 DEF DigitAt
  <2>3. k < Len(p) => p[k + 1] \notin HexDigits
    <3> SUFFICES ASSUME k < Len(p), p[k + 1] \in HexDigits PROVE FALSE
      OBVIOUS
    <3>1. p[k + 1] \in Digits(h)
      BY <1>8 DEF Digits
    <3>2. Continues(t, h, b, p[k + 1], h, b + 1)
      BY <1>5, <2>2, <3>1 DEF Continues
    <3>3. Open(Append(t, p[k + 1]), h, b + 1)
      BY <1>5, <1>7, <3>2, OpenAppend
    <3>4. IsNumeralPrefix(Append(t, p[k + 1]))
      BY <1>5, <3>3, PrefixIsOpen, AppendProperties
    <3> QED
      BY <1>4, <1>5, <3>4
  <2> DEFINE i == e + k - 1
  <2>4. k \in 1..Len(p) /\ k - 1 \in 1..Len(p) /\ k - 1 = Start(t, h) /\ k - 1 \in 1..k /\ k \in 1..k /\ k - 1 \in Nat
    <3>1. Start(t, h) \in Nat /\ 2 <= Start(t, h)
      BY <2>1
    <3>2. k <= Len(p)
      BY <1>5
    <3>3. \A a \in Nat : 2 <= a /\ k = a + 1 =>
             k \in 1..Len(p) /\ k - 1 \in 1..Len(p) /\ k - 1 = a /\ k - 1 \in 1..k /\ k \in 1..k /\ k - 1 \in Nat
      BY <1>5, <3>2
    <3> QED
      BY <1>8, <3>1, <3>3, Zenon
  <2>5. s[e + (k - 1)] = "x" /\ s[e + k] = "."
    BY <1>3, <1>6, <1>8, <2>1, <2>4
  <2>6. i \in 1..(Len(s) - 1) /\ i = e + (k - 1) /\ i + 1 = e + k
    BY <1>1, <1>2, <1>5, <2>4
  <2>7. i + 2 <= Len(s) => k < Len(p) /\ k + 1 \in 1..Len(p) /\ e + (k + 1) = i + 2
    BY <1>1, <1>2, <1>5
  <2>8. i + 2 <= Len(s) => s[i + 2] \notin HexDigits
    BY <1>3, <2>3, <2>7
  <2> HIDE DEF i
  <2> QED
    BY <2>5, <2>6, <2>8 DEF BareHex
<1>9. str_to_number(t) <=> IsNumeral(t)
  BY <1>5, <1>7, <1>8, NumbersAreNumerals
<1> QED
  BY <1>9 DEF t

\* What a format takes is the record that it promises.
LEMMA TakesRecord ==
    ASSUME NEW all \in Seq(Byte), ~BareHex(all), NEW fmt \in Format
    PROVE  Abstract!IsRecord(fmt, all, Take(all, fmt).used, Take(all, fmt).one)
<1> DEFINE n == Take(all, fmt).used
           v == Take(all, fmt).one
<1>1. Len(all) \in Nat /\ (all = <<>> <=> Len(all) = 0)
  BY LenProperties, EmptySeq
<1>2. Abstract!Nil = Nil /\ Abstract!NL = NL /\ \A s : Abstract!Front(s) = Front(s)
  BY DEF Abstract!Nil, Nil, Abstract!NL, NL, Abstract!Front, Front
<1>3. CASE fmt[1] = "a"
  <2>1. v = all /\ n = Len(all)
    BY <1>3 DEF Take
  <2> QED
    BY <1>3, <2>1 DEF Abstract!IsRecord
<1>4. CASE fmt[1] = "n"
  <2>1. n = skip_blanks(all) + Len(Token(all)) /\ v = IF str_to_number(Token(all)) THEN Token(all) ELSE Nil
    BY <1>4 DEF Take, Token
  <2>2. Token(all) = LongestPrefix(SubSeq(all, skip_blanks(all) + 1, Len(all)))
    BY TokenIs
  <2>3. v = IF IsNumeral(Token(all)) THEN Token(all) ELSE Nil
    BY <2>1, TokenIsNumeral
  <2> HIDE DEF n, v
  <2>4. Abstract!IsRecord(fmt, all, n, v) <=>
           /\ n = skip_blanks(all) + Len(Token(all))
           /\ v = IF IsNumeral(Token(all)) THEN Token(all) ELSE Nil
    BY <1>2, <1>4, <2>2, AbstractNumerals DEF Abstract!IsRecord
  <2> QED
    BY <2>1, <2>3, <2>4 DEF n, v
<1>5. CASE fmt[1] = "bytes" /\ fmt[2] \in Nat
  <2>1. n = Min({fmt[2], Len(all)}) /\ v = IF all = <<>> THEN Nil ELSE SubSeq(all, 1, n)
    BY <1>5 DEF Take
  <2>2. all = <<>> => n = 0
    BY <1>1, <1>5, <2>1, MinOfTwo
  <2>3. Abstract!Min({fmt[2], Len(all)}) = Min({fmt[2], Len(all)})
    BY DEF Abstract!Min, Min
  <2> HIDE DEF n, v
  <2>4. CASE all = <<>>
    <3>1. v = Abstract!Nil /\ n = 0
      BY <1>2, <2>1, <2>2, <2>4
    <3> QED
      BY <1>5, <2>4, <3>1 DEF Abstract!IsRecord, n, v
  <2>5. CASE all # <<>>
    <3>1. v = SubSeq(all, 1, n) /\ n = Abstract!Min({fmt[2], Len(all)})
      BY <2>1, <2>3, <2>5
    <3> QED
      BY <1>5, <2>5, <3>1 DEF Abstract!IsRecord, n, v
  <2> QED
    BY <2>4, <2>5
<1>6. CASE fmt[1] \in {"l", "L"}
  <2> DEFINE line == SubSeq(all, 1, n)
  <2>1. /\ n \in 0..Len(all) /\ (n = 0 <=> all = <<>>)
        /\ \A i \in 1..(n - 1) : all[i] # NL
        /\ n < Len(all) => all[n] = NL
    <3>1. n = LineLen(all)
      BY <1>6, TakeUsed
    <3> HIDE DEF n
    <3> QED
      BY <3>1, LineLenIs
  <2>2. v = IF n = 0 THEN Nil ELSE IF fmt[1] = "l" /\ Last(line) = NL THEN Front(line) ELSE line
    BY <1>6 DEF Take
  <2> HIDE DEF n, v
  <2>3. CASE all = <<>>
    <3>1. v = Abstract!Nil /\ n = 0
      BY <1>2, <2>1, <2>2, <2>3
    <3> QED
      BY <1>6, <2>3, <3>1 DEF Abstract!IsRecord, n, v
  <2>4. CASE all # <<>>
    <3>1. n > 0 /\ n \in Nat /\ n <= Len(all)
      BY <1>1, <2>1, <2>4
    <3>2. line \in Seq(Byte) /\ Len(line) = n /\ \A i \in 1..n : line[i] = all[i]
      <4>1. line \in Seq(Byte) /\ Len(line) = (IF 1 <= n THEN n - 1 + 1 ELSE 0)
            /\ \A i \in 1..Len(line) : line[i] = all[1 + i - 1]
        BY <3>1, PartOf
      <4>2. \A i \in 1..n : 1 + i - 1 = i
        BY <3>1
      <4> QED
        BY <3>1, <4>1, <4>2
    <3> HIDE DEF line
    <3>3. Last(line) = line[n] /\ line[n] = all[n]
      BY <3>1, <3>2 DEF Last
    <3>4. /\ \A i \in 1..(n - 1) : line[i] # Abstract!NL
          /\ (n > 0 /\ line[n] = Abstract!NL) \/ (n = Len(all) /\ n > 0)
      <4>1. \A i \in 1..(n - 1) : i \in 1..n
        BY <3>1
      <4>2. n < Len(all) \/ n = Len(all)
        BY <1>1, <3>1
      <4> QED
        BY <1>2, <2>1, <3>1, <3>2, <3>3, <4>1, <4>2
    <3>5. v = IF fmt[1] = "l" /\ n > 0 /\ line[n] = Abstract!NL THEN Abstract!Front(line) ELSE line
      BY <1>2, <2>2, <3>1, <3>3
    <3>6. /\ ~(fmt[1] = "a") /\ ~(fmt[1] = "n") /\ ~(fmt[1] \in {"l", "L", "bytes"} /\ all = <<>>)
          /\ ~(fmt[1] = "bytes" /\ all # <<>>) /\ fmt[1] \in {"l", "L"} /\ all # <<>>
      BY <1>6, <2>4
    <3>7. Abstract!IsRecord(fmt, all, n, v) <=>
             /\ \A i \in 1..(n - 1) : line[i] # Abstract!NL
             /\ (n > 0 /\ line[n] = Abstract!NL) \/ (n = Len(all) /\ n > 0)
             /\ v = IF fmt[1] = "l" /\ n > 0 /\ line[n] = Abstract!NL THEN Abstract!Front(line) ELSE line
      BY <3>6 DEF Abstract!IsRecord, line
    <3> QED
      BY <3>4, <3>5, <3>7 DEF n, v
  <2> QED
    BY <2>3, <2>4
<1> QED
  BY <1>3, <1>4, <1>5, <1>6, FormatCases

\* The rest of the rest.
LEMMA RestOfRest ==
    ASSUME NEW S, NEW s \in Seq(S), NEW a \in Nat, NEW m \in Nat
    PROVE  LET p == SubSeq(s, a + 1, Len(s))
           IN  SubSeq(p, m + 1, Len(p)) = SubSeq(s, (a + m) + 1, Len(s))
<1> DEFINE p == SubSeq(s, a + 1, Len(s))
           c == a + m
           u == SubSeq(p, m + 1, Len(p))
           v == SubSeq(s, c + 1, Len(s))
<1>1. Len(s) \in Nat /\ c \in Nat
  BY LenProperties
<1>2. /\ p \in Seq(S) /\ Len(p) = IF a <= Len(s) THEN Len(s) - a ELSE 0
      /\ \A i \in 1..Len(p) : p[i] = s[a + i]
  BY RestOf
<1> HIDE DEF p
<1>3. /\ u \in Seq(S) /\ Len(u) = IF m <= Len(p) THEN Len(p) - m ELSE 0
      /\ \A i \in 1..Len(u) : u[i] = p[m + i] /\ m + i \in 1..Len(p)
  BY <1>2, RestOf
<1>5. c = a + m
  OBVIOUS
<1> HIDE DEF c
<1>4. /\ v \in Seq(S) /\ Len(v) = IF c <= Len(s) THEN Len(s) - c ELSE 0
      /\ \A i \in 1..Len(v) : v[i] = s[c + i]
  BY <1>1, RestOf
<1> HIDE DEF u, v
<1>6. Len(u) = Len(v) /\ Len(u) \in Nat
  BY <1>1, <1>2, <1>3, <1>4, <1>5
<1>7. ASSUME NEW i \in 1..Len(u) PROVE u[i] = v[i]
  <2>1. a + (m + i) = c + i
    BY <1>5, <1>6
  <2> QED
    BY <1>2, <1>3, <1>4, <1>6, <2>1
<1>8. u = v
  BY <1>3, <1>4, <1>6, <1>7, SeqEqual
<1> QED
  BY <1>8 DEF u, v, p, c

\* A part has no 0x. that the whole does not have.
LEMMA RestHasNoBareHex ==
    ASSUME NEW S, NEW s \in Seq(S), NEW a \in Nat, ~BareHex(s)
    PROVE  ~BareHex(SubSeq(s, a + 1, Len(s)))
<1> DEFINE p == SubSeq(s, a + 1, Len(s))
<1>1. Len(s) \in Nat
  BY LenProperties
<1>2. /\ p \in Seq(S) /\ Len(p) = IF a <= Len(s) THEN Len(s) - a ELSE 0
      /\ \A i \in 1..Len(p) : p[i] = s[a + i]
  BY RestOf
<1> HIDE DEF p
<1> SUFFICES ASSUME BareHex(p) PROVE FALSE
  BY DEF p
<1>3. PICK i \in 1..(Len(p) - 1) :
         p[i] = "x" /\ p[i + 1] = "." /\ (i + 2 <= Len(p) => p[i + 2] \notin HexDigits)
  BY DEF BareHex
<1> DEFINE k == a + i
<1>4. /\ i \in 1..Len(p) /\ i + 1 \in 1..Len(p) /\ a + (i + 1) = k + 1
      /\ k \in 1..(Len(s) - 1)
  BY <1>1, <1>2
<1>5. k + 2 <= Len(s) => i + 2 \in 1..Len(p) /\ a + (i + 2) = k + 2 /\ i + 2 <= Len(p)
  BY <1>1, <1>2, <1>4
<1>6. s[k] = "x" /\ s[k + 1] = "."
  BY <1>2, <1>3, <1>4
<1>7. k + 2 <= Len(s) => s[k + 2] \notin HexDigits
  BY <1>2, <1>3, <1>5
<1> HIDE DEF k
<1> QED
  BY <1>4, <1>6, <1>7 DEF BareHex
-----------------------------------------------------------------------------
(* Reading a list of formats                                               *)

\* vals are the records that the first formats of fmts read from m bytes.
Records(fmts, rest, m, vals) ==
    \E ends \in [0..Len(vals) -> 0..m] :
       /\ ends[0] = 0 /\ ends[Len(vals)] = m
       /\ \A i \in 1..Len(vals) :
            /\ ends[i - 1] <= ends[i]
            /\ Abstract!IsRecord(fmts[i], SubSeq(rest, ends[i - 1] + 1, Len(rest)), ends[i] - ends[i - 1], vals[i])

LEMMA NoRecords ==
    ASSUME NEW fmts, NEW rest
    PROVE  Records(fmts, rest, 0, <<>>)
<1> DEFINE ends == [i \in 0..0 |-> 0]
<1>1. Len(<<>>) = 0
  BY EmptySeq
<1>2. ends \in [0..0 -> 0..0] /\ ends[0] = 0
  OBVIOUS
<1> HIDE DEF ends
<1> QED
  BY <1>1, <1>2 DEF Records

\* One more record.
LEMMA RecordsAppend ==
    ASSUME NEW V, NEW vals \in Seq(V), NEW v \in V, NEW fmts, NEW rest, NEW m \in Nat, NEW k \in Nat,
           Records(fmts, rest, m, vals),
           Abstract!IsRecord(fmts[Len(vals) + 1], SubSeq(rest, m + 1, Len(rest)), k, v)
    PROVE  Records(fmts, rest, m + k, Append(vals, v))
<1> DEFINE N == Len(vals)
           w == Append(vals, v)
           c == m + k
<1>1. N \in Nat /\ c \in Nat /\ m <= c /\ c - m = k /\ m \in 0..c
  BY LenProperties
<1>2. Len(w) = N + 1 /\ w[N + 1] = v /\ \A i \in 1..N : w[i] = vals[i]
  BY AppendProperties
<1>3. PICK e \in [0..N -> 0..m] :
         /\ e[0] = 0 /\ e[N] = m
         /\ \A i \in 1..N :
              /\ e[i - 1] <= e[i]
              /\ Abstract!IsRecord(fmts[i], SubSeq(rest, e[i - 1] + 1, Len(rest)), e[i] - e[i - 1], vals[i])
  BY DEF Records
<1>0. Abstract!IsRecord(fmts[N + 1], SubSeq(rest, m + 1, Len(rest)), k, v)
  OBVIOUS
<1> HIDE DEF N, w, c
<1> DEFINE ends == [i \in 0..(N + 1) |-> IF i = N + 1 THEN c ELSE e[i]]
<1>4. ends \in [0..(N + 1) -> 0..c]
  <2>1. ASSUME NEW i \in 0..(N + 1), i # N + 1 PROVE e[i] \in 0..c
    <3>1. i \in 0..N
      BY <1>1, <2>1
    <3>2. e[i] \in 0..m
      BY <1>3, <3>1
    <3> QED
      BY <1>1, <3>2
  <2>2. c \in 0..c
    BY <1>1
  <2> QED
    BY <2>1, <2>2
<1>5. ends[N + 1] = c /\ \A i \in 0..N : ends[i] = e[i]
  BY <1>1
<1> HIDE DEF ends
<1>6. ASSUME NEW i \in 1..(N + 1)
      PROVE  /\ ends[i - 1] <= ends[i]
             /\ Abstract!IsRecord(fmts[i], SubSeq(rest, ends[i - 1] + 1, Len(rest)), ends[i] - ends[i - 1], w[i])
  <2>1. CASE i = N + 1
    <3>1. i - 1 = N /\ N \in 0..N
      BY <1>1, <2>1
    <3>2. ends[i - 1] = m /\ ends[i] = c /\ w[i] = v /\ ends[i] - ends[i - 1] = k
      BY <1>1, <1>2, <1>3, <1>5, <2>1, <3>1
    <3> QED
      BY <1>0, <1>1, <2>1, <3>2
  <2>2. CASE i # N + 1
    <3>1. i \in 1..N /\ i \in 0..N /\ i - 1 \in 0..N
      BY <1>1, <2>2
    <3> QED
      BY <1>2, <1>3, <1>5, <3>1
  <2> QED
    BY <2>1, <2>2
<1>7. ends[0] = 0 /\ ends[N + 1] = c
  <2>1. 0 \in 0..N
    BY <1>1
  <2> QED
    BY <1>3, <1>5, <2>1
<1>8. Records(fmts, rest, c, w)
  BY <1>2, <1>4, <1>6, <1>7, Zenon DEF Records
<1> QED
  BY <1>8 DEF c, w

\* The outcomes of some formats, their values in V.
Outcome(V) == [r : Buffered, vals : Seq(V), io : {"ok", "error"}]

\* One format more.
FormatStep(d, o, fmt) ==
    IF o.io = "error" \/ Nil \in Range(o.vals) THEN {o}
    ELSE {[r |-> x.r, vals |-> Append(o.vals, x.one), io |-> x.io] : x \in read_one(d, o.r, fmt)}

LEMMA FormatStepTypes ==
    ASSUME NEW d \in Seq(Byte), NEW fmt \in Format, NEW V, NEW o \in Outcome(V),
           \A q \in Buffered : \A x \in read_one(d, q, fmt) : x.one \in V
    PROVE  FormatStep(d, o, fmt) \subseteq Outcome(V)
<1>1. o.r \in Buffered /\ o.vals \in Seq(V)
  BY DEF Outcome
<1>2. ASSUME NEW x \in read_one(d, o.r, fmt)
      PROVE  [r |-> x.r, vals |-> Append(o.vals, x.one), io |-> x.io] \in Outcome(V)
  <2>1. x.r \in Buffered /\ x.io \in {"ok", "error"}
    BY <1>1, ReadOneTypes
  <2>2. Append(o.vals, x.one) \in Seq(V)
    BY <1>1, AppendProperties
  <2> QED
    BY <2>1, <2>2 DEF Outcome
<1> QED
  BY <1>2 DEF FormatStep

\* read_formats takes one format after the other.
LEMMA FormatsRun ==
    ASSUME NEW d \in Seq(Byte), NEW r \in Buffered, NEW fmts \in Seq(Format)
    PROVE  \E V, f :
              /\ f[0] = {[r |-> r, vals |-> <<>>, io |-> "ok"]} /\ f[0] \subseteq Outcome(V)
              /\ read_formats(d, r, fmts) = f[Len(fmts)]
              /\ \A n \in 0..(Len(fmts) - 1) :
                   /\ f[n + 1] = UNION {FormatStep(d, o, fmts[n + 1]) : o \in f[n]}
                   /\ f[n] \subseteq Outcome(V) => f[n + 1] \subseteq Outcome(V)
<1> DEFINE N == Len(fmts)
           V == {x.one : x \in UNION {read_one(d, q[1], q[2]) : q \in Buffered \X Format}}
           T == SUBSET Outcome(V)
           z == {[r |-> r, vals |-> <<>>, io |-> "ok"]}
           Go(t, n) == UNION {FormatStep(d, o, fmts[n]) : o \in t}
           step == [n \in 1..N |-> [t \in T |-> Go(t, n)]]
           Row(g, n) == IF n = 0 THEN z ELSE Go(g[n - 1], n)
           outs == CHOOSE g : g = [n \in 0..N |-> Row(g, n)]
<1>1. N \in Nat /\ \A n \in 1..N : fmts[n] \in Format
  BY LenProperties, ElementOfSeq
<1>2. z \in T
  BY EmptySeq DEF Outcome
<1>3. ASSUME NEW q \in Buffered, NEW fmt \in Format, NEW x \in read_one(d, q, fmt) PROVE x.one \in V
  <2>1. <<q, fmt>> \in Buffered \X Format /\ <<q, fmt>>[1] = q /\ <<q, fmt>>[2] = fmt
    OBVIOUS
  <2> QED
    BY <2>1
<1> HIDE DEF V, N
<1>4. \A n \in 1..N : \A t \in T : Go(t, n) \in T
  BY <1>1, <1>3, FormatStepTypes
<1>5. \A n \in 1..N : \A t \in T : step[n][t] \in T /\ step[n][t] = Go(t, n)
  BY <1>4
<1> HIDE DEF step, Go
<1>6. PICK f \in [0..N -> T] : FollowsFold(f, N, z, step)
  <2> HIDE DEF T, z
  <2> QED
    BY <1>1, <1>2, <1>5, FoldRecursion
<1>7. \A n \in 0..N : n # 0 => n \in 1..N /\ n - 1 \in 0..N
  BY <1>1
<1>8. f = [n \in 0..N |-> Row(f, n)]
  <2> HIDE DEF T, z
  <2>1. \A n \in 0..N : (IF n = 0 THEN z ELSE step[n][f[n - 1]]) = Row(f, n)
    BY <1>5, <1>6, <1>7
  <2> HIDE DEF Row
  <2> QED
    BY <1>6, <2>1 DEF FollowsFold
<1>9. outs = [n \in 0..N |-> Row(outs, n)]
  <2> HIDE DEF Row
  <2> QED
    BY <1>8, Zenon
<1>10. read_formats(d, r, fmts) = outs[N]
  BY DEF read_formats, FormatStep, N, Go
<1> HIDE DEF outs
<1>11. /\ outs[0] = z
       /\ \A n \in 0..N : n # 0 => outs[n] = Go(outs[n - 1], n)
  <2> HIDE DEF z
  <2>1. 0 \in 0..N
    BY <1>1
  <2>2. \A n \in 0..N : outs[n] = Row(outs, n)
    <3> HIDE DEF Row
    <3> QED
      BY <1>9
  <2> QED
    BY <2>1, <2>2
<1>12. ASSUME NEW n \in 0..(N - 1)
       PROVE  /\ outs[n + 1] = Go(outs[n], n + 1)
              /\ outs[n] \subseteq Outcome(V) => outs[n + 1] \subseteq Outcome(V)
  <2>1. n + 1 \in 0..N /\ n + 1 # 0 /\ (n + 1) - 1 = n /\ n + 1 \in 1..N
    BY <1>1
  <2>2. outs[n + 1] = Go(outs[n], n + 1)
    BY <1>11, <2>1
  <2> QED
    BY <1>4, <2>1, <2>2
<1> QED
  <2>1. z \subseteq Outcome(V)
    BY <1>2
  <2>2. \A n \in 0..(N - 1) : outs[n + 1] = UNION {FormatStep(d, o, fmts[n + 1]) : o \in outs[n]}
    BY <1>12 DEF Go
  <2> WITNESS V, outs
  <2> HIDE DEF z
  <2> QED
    BY <1>10, <1>11, <1>12, <2>1, <2>2 DEF N, z

\* Where a reader r of a file of d is after n formats.
Reading(d, r, fmts, n, o) ==
    LET rest == SubSeq(d, At(r) + 1, Len(d))
        k == Len(o.vals)
    IN  /\ k <= n /\ \A i \in 1..(k - 1) : o.vals[i] # Nil
        /\ k < n \/ o.io = "error" => k > 0 /\ o.vals[k] = Nil
        /\ o.io = "error" => o.r.buf = <<>> /\ At(o.r) \in At(r)..(At(r) + Len(rest))
        /\ o.io = "ok" => /\ Sound(d, o.r)
                          /\ \E m \in 0..Len(rest) : At(o.r) = At(r) + m /\ Records(fmts, rest, m, o.vals)

\* One format more takes the reader from n formats to n + 1.
LEMMA ReadingStep ==
    ASSUME NEW d \in Seq(Byte), ~BareHex(d), NEW r \in Buffered, Sound(d, r), NEW fmts \in Seq(Format), NEW V,
           NEW n \in Nat, n < Len(fmts), NEW o \in Outcome(V), Reading(d, r, fmts, n, o),
           NEW y \in FormatStep(d, o, fmts[n + 1]), y \in Outcome(V)
    PROVE  Reading(d, r, fmts, n + 1, y)
<1> DEFINE rest == SubSeq(d, At(r) + 1, Len(d))
           N == Len(o.vals)
           fmt == fmts[n + 1]
<1>1. /\ o.r \in Buffered /\ o.vals \in Seq(V) /\ N \in Nat /\ o.io \in {"ok", "error"}
      /\ At(r) \in Nat /\ rest \in Seq(Byte) /\ Len(rest) \in Nat
  <2>1. o.r \in Buffered /\ o.vals \in Seq(V) /\ o.io \in {"ok", "error"}
    BY DEF Outcome
  <2>2. At(r) \in Nat
    BY SoundGives
  <2> QED
    BY <2>1, <2>2, RestOf, LenProperties
<1>2. fmt \in Format
  BY ElementOfSeq, LenProperties
<1> HIDE DEF rest, fmt, N
<1>3. /\ N <= n /\ \A i \in 1..(N - 1) : o.vals[i] # Nil
      /\ N < n \/ o.io = "error" => N > 0 /\ o.vals[N] = Nil
      /\ o.io = "error" => o.r.buf = <<>> /\ At(o.r) \in At(r)..(At(r) + Len(rest))
      /\ o.io = "ok" => /\ Sound(d, o.r)
                        /\ \E m \in 0..Len(rest) : At(o.r) = At(r) + m /\ Records(fmts, rest, m, o.vals)
  BY DEF Reading, rest, N
<1>4. ASSUME o.io = "error" \/ Nil \in Range(o.vals) PROVE Reading(d, r, fmts, n + 1, y)
  <2>1. y = o
    BY <1>4 DEF FormatStep
  <2>2. N > 0 /\ o.vals[N] = Nil
    <3>1. CASE o.io = "error"
      BY <1>3, <3>1
    <3>2. CASE Nil \in Range(o.vals)
      <4>1. PICK i \in 1..N : o.vals[i] = Nil
        BY <1>1, <3>2, LenProperties DEF Range, N
      <4>2. i = N
        BY <1>1, <1>3, <4>1
      <4> QED
        BY <1>1, <4>1, <4>2
    <3> QED
      BY <1>4, <3>1, <3>2
  <2>3. N <= n + 1
    BY <1>1, <1>3
  <2> QED
    BY <1>3, <2>1, <2>2, <2>3 DEF Reading, rest, N
<1>5. ASSUME o.io # "error", Nil \notin Range(o.vals) PROVE Reading(d, r, fmts, n + 1, y)
  <2>1. PICK x \in read_one(d, o.r, fmt) : y = [r |-> x.r, vals |-> Append(o.vals, x.one), io |-> x.io]
    BY <1>5 DEF FormatStep, fmt
  <2>2. PICK m \in 0..Len(rest) : At(o.r) = At(r) + m /\ Records(fmts, rest, m, o.vals)
    BY <1>1, <1>3, <1>5
  <2>3. Sound(d, o.r) /\ m \in Nat
    BY <1>1, <1>3, <1>5
  <2>4. N = n /\ \A i \in 1..N : o.vals[i] # Nil
    <3>1. \A i \in 1..N : o.vals[i] # Nil
      BY <1>1, <1>5, LenProperties DEF Range, N
    <3>2. ~(N < n)
      <4> SUFFICES ASSUME N < n PROVE FALSE
        OBVIOUS
      <4>1. N > 0 /\ o.vals[N] = Nil /\ N \in 1..N
        BY <1>1, <1>3
      <4> QED
        BY <3>1, <4>1
    <3> QED
      BY <1>1, <1>3, <3>1, <3>2
  <2> DEFINE all == SubSeq(d, At(o.r) + 1, Len(d))
             t == Take(all, fmt)
             vals == Append(o.vals, x.one)
  <2>5. all = SubSeq(rest, m + 1, Len(rest)) /\ all \in Seq(Byte) /\ Len(all) = Len(rest) - m
    <3>1. all = SubSeq(d, At(r) + m + 1, Len(d))
      BY <2>2
    <3>2. SubSeq(rest, m + 1, Len(rest)) = SubSeq(d, (At(r) + m) + 1, Len(d))
      BY <1>1, <2>3, RestOfRest DEF rest
    <3>3. SubSeq(rest, m + 1, Len(rest)) \in Seq(Byte)
          /\ Len(SubSeq(rest, m + 1, Len(rest))) = IF m <= Len(rest) THEN Len(rest) - m ELSE 0
      BY <1>1, <2>3, RestOf
    <3> HIDE DEF all
    <3>4. all = SubSeq(rest, m + 1, Len(rest))
      BY <1>1, <2>3, <3>1, <3>2
    <3>5. m \in Nat /\ m <= Len(rest)
      BY <1>1
    <3>6. all \in Seq(Byte) /\ Len(all) = IF m <= Len(rest) THEN Len(rest) - m ELSE 0
      BY <3>3, <3>4, Zenon
    <3>7. Len(all) = Len(rest) - m
      BY <3>5, <3>6, Zenon
    <3> QED
      BY <3>4, <3>6, <3>7, Zenon
  <2>6. ~BareHex(all)
    <3>1. At(o.r) \in Nat
      BY <1>1, <2>2, <2>3
    <3> QED
      BY <3>1, RestHasNoBareHex
  <2>7. /\ t.used \in 0..Len(all)
        /\ x.io = "ok" => Sound(d, x.r) /\ At(x.r) = At(o.r) + t.used /\ x.one = t.one
        /\ x.io = "error" => x.r.buf = <<>> /\ At(x.r) \in At(o.r)..(At(o.r) + Len(all))
    BY <1>1, <1>2, <2>3, ReadOneMoves
  <2>8. Abstract!IsRecord(fmt, all, t.used, t.one)
    BY <1>2, <2>5, <2>6, TakesRecord
  <2>9. y.r = x.r /\ y.vals = vals /\ y.io = x.io /\ x.io \in {"ok", "error"}
    BY <1>1, <1>2, <2>1, ReadOneTypes
  <2>10. x.one \in V
    <3>1. Append(o.vals, x.one) \in Seq(V)
      BY <2>1 DEF Outcome
    <3>2. Len(Append(o.vals, x.one)) = N + 1 /\ Append(o.vals, x.one)[N + 1] = x.one
      BY <1>1, AppendProperties DEF N
    <3> QED
      BY <1>1, <3>1, <3>2, ElementOfSeq
  <2>11. Len(vals) = n + 1 /\ vals[n + 1] = x.one /\ \A i \in 1..n : vals[i] = o.vals[i]
    BY <1>1, <2>4, <2>10, AppendProperties DEF N
  <2> HIDE DEF all, t, vals
  <2>12. x.io = "error" => x.one = Nil
    <3>1. ReadOutcome(o.r, x, Avail(d, o.r), Take(Avail(d, o.r), fmt))
      BY <1>1, <1>2, ReadOneCases
    <3> QED
      BY <3>1 DEF ReadOutcome
  <2>13. ASSUME x.io = "error"
         PROVE  At(x.r) \in At(r)..(At(r) + Len(rest))
    <3>1. At(x.r) \in At(o.r)..(At(o.r) + Len(all))
      BY <2>7, <2>13
    <3>2. \A a \in Nat : \A L \in Nat : \A i \in 0..L : \A z \in (a + i)..(a + i + (L - i)) : z \in a..(a + L)
      OBVIOUS
    <3>3. At(x.r) \in (At(r) + m)..(At(r) + m + (Len(rest) - m))
      BY <2>2, <2>5, <3>1, Zenon
    <3> QED
      BY <1>1, <3>2, <3>3, Zenon
  <2>14. ASSUME x.io = "ok"
         PROVE  \E k \in 0..Len(rest) : At(x.r) = At(r) + k /\ Records(fmts, rest, k, vals)
    <3>1. t.used \in Nat /\ m + t.used \in 0..Len(rest)
      BY <1>1, <2>3, <2>5, <2>7
    <3>2. At(x.r) = At(r) + (m + t.used)
      BY <1>1, <2>2, <2>3, <2>7, <2>14, <3>1
    <3>3. Records(fmts, rest, m + t.used, vals)
      <4>1. Abstract!IsRecord(fmts[Len(o.vals) + 1], SubSeq(rest, m + 1, Len(rest)), t.used, x.one)
        BY <2>4, <2>5, <2>7, <2>8, <2>14 DEF fmt, N
      <4> QED
        BY <1>1, <2>2, <2>3, <2>10, <3>1, <4>1, RecordsAppend DEF vals
    <3> QED
      BY <3>1, <3>2, <3>3
  <2>15. /\ Len(y.vals) <= n + 1 /\ ~(Len(y.vals) < n + 1)
         /\ \A i \in 1..(Len(y.vals) - 1) : y.vals[i] # Nil
    BY <2>4, <2>9, <2>11
  <2>16. y.io = "error" => Len(y.vals) > 0 /\ y.vals[Len(y.vals)] = Nil
    BY <2>9, <2>11, <2>12
  <2>17. y.io = "error" => y.r.buf = <<>> /\ At(y.r) \in At(r)..(At(r) + Len(rest))
    BY <2>7, <2>9, <2>13
  <2>18. y.io = "ok" => /\ Sound(d, y.r)
                        /\ \E k \in 0..Len(rest) : At(y.r) = At(r) + k /\ Records(fmts, rest, k, y.vals)
    BY <2>7, <2>9, <2>14
  <2> QED
    BY <2>15, <2>16, <2>17, <2>18, Zenon DEF Reading, rest
<1> QED
  BY <1>4, <1>5

\* Where the reader is after all formats.
LEMMA FormatsRead ==
    ASSUME NEW d \in Seq(Byte), NEW r \in Buffered, NEW fmts \in Seq(Format), NEW o \in read_formats(d, r, fmts)
    PROVE  /\ o.r \in Buffered /\ o.io \in {"ok", "error"} /\ o = [r |-> o.r, vals |-> o.vals, io |-> o.io]
           /\ \E V : o.vals \in Seq(V)
           /\ Sound(d, r) /\ ~BareHex(d) => Reading(d, r, fmts, Len(fmts), o)
<1> DEFINE N == Len(fmts)
           z == [r |-> r, vals |-> <<>>, io |-> "ok"]
<1>1. N \in Nat
  BY LenProperties
<1>2. PICK V, f :
         /\ f[0] = {z} /\ f[0] \subseteq Outcome(V)
         /\ read_formats(d, r, fmts) = f[N]
         /\ \A n \in 0..(N - 1) :
              /\ f[n + 1] = UNION {FormatStep(d, y, fmts[n + 1]) : y \in f[n]}
              /\ f[n] \subseteq Outcome(V) => f[n + 1] \subseteq Outcome(V)
  BY FormatsRun, Zenon
<1>3. Reading(d, r, fmts, 0, z) \/ ~Sound(d, r)
  <2> SUFFICES ASSUME Sound(d, r) PROVE Reading(d, r, fmts, 0, z)
    OBVIOUS
  <2> DEFINE rest == SubSeq(d, At(r) + 1, Len(d))
  <2>1. z.r = r /\ z.vals = <<>> /\ z.io = "ok" /\ Len(z.vals) = 0
    BY EmptySeq
  <2>2. At(r) \in Nat
    BY SoundGives
  <2>3. Len(rest) \in Nat
    BY <2>2, RestOf, LenProperties
  <2> HIDE DEF rest, z
  <2>4. 0 \in 0..Len(rest) /\ At(z.r) = At(r) + 0
    BY <2>1, <2>2, <2>3
  <2>5. Records(fmts, rest, 0, z.vals)
    BY <2>1, NoRecords
  <2>6. \A i \in 1..(Len(z.vals) - 1) : z.vals[i] # Nil
    BY <2>1
  <2>7. Len(z.vals) <= 0 /\ ~(Len(z.vals) < 0) /\ z.io # "error"
    BY <2>1
  <2> QED
    BY <2>1, <2>4, <2>5, <2>6, <2>7 DEF Reading, rest
<1> HIDE DEF N, z
<1> DEFINE Good(n) == /\ f[n] \subseteq Outcome(V)
                      /\ Sound(d, r) /\ ~BareHex(d) => \A y \in f[n] : Reading(d, r, fmts, n, y)
           T == {n \in Nat : n <= N => Good(n)}
<1>4. 0 \in T
  BY <1>2, <1>3
<1>5. ASSUME NEW n \in Nat, n \in T PROVE n + 1 \in T
  <2> SUFFICES ASSUME n + 1 <= N PROVE Good(n + 1)
    OBVIOUS
  <2>1. n \in 0..(N - 1) /\ n < N /\ n <= N
    BY <1>1
  <2>2. Good(n)
    BY <1>5, <2>1
  <2>3. f[n + 1] \subseteq Outcome(V) /\ f[n + 1] = UNION {FormatStep(d, y, fmts[n + 1]) : y \in f[n]}
    BY <1>2, <2>1, <2>2
  <2>4. ASSUME Sound(d, r), ~BareHex(d), NEW y \in f[n + 1] PROVE Reading(d, r, fmts, n + 1, y)
    <3>1. PICK x \in f[n] : y \in FormatStep(d, x, fmts[n + 1])
      BY <2>3
    <3>2. x \in Outcome(V) /\ y \in Outcome(V) /\ Reading(d, r, fmts, n, x) /\ n < Len(fmts)
      BY <2>1, <2>2, <2>3, <2>4 DEF N
    <3> QED
      BY <2>4, <3>1, <3>2, ReadingStep
  <2> QED
    BY <2>3, <2>4
<1> HIDE DEF Good, T
<1>6. Nat \subseteq T
  BY <1>4, <1>5, SetInduction
<1>7. Good(N)
  <2>1. N <= N
    BY <1>1
  <2> QED
    BY <1>1, <1>6, <2>1 DEF T
<1>8. o \in Outcome(V) /\ (Sound(d, r) /\ ~BareHex(d) => Reading(d, r, fmts, N, o))
  BY <1>2, <1>7 DEF Good
<1>9. o.vals \in Seq(V) /\ o.r \in Buffered /\ o.io \in {"ok", "error"} /\ o = [r |-> o.r, vals |-> o.vals, io |-> o.io]
  BY <1>8 DEF Outcome
<1> QED
  BY <1>8, <1>9 DEF N

\* What read records is what FileSpec wants of it.
LEMMA ReadingRecords ==
    ASSUME NEW d \in Seq(Byte), NEW r \in Buffered, NEW fmts, NEW o, o.io = "ok",
           Reading(d, r, fmts, Len(fmts), o)
    PROVE  \E m \in 0..Len(SubSeq(d, At(r) + 1, Len(d))) :
              At(o.r) = At(r) + m /\ Abstract!AreRecords(fmts, SubSeq(d, At(r) + 1, Len(d)), m, o.vals)
<1> DEFINE rest == SubSeq(d, At(r) + 1, Len(d))
           vals == o.vals
           n == Len(vals)
<1>1. PICK m \in 0..Len(rest) : At(o.r) = At(r) + m /\ Records(fmts, rest, m, vals)
  BY DEF Reading
<1>2. /\ n <= Len(fmts) /\ \A i \in 1..(n - 1) : vals[i] # Abstract!Nil
      /\ n < Len(fmts) => n > 0 /\ vals[n] = Abstract!Nil
  BY DEF Reading, Abstract!Nil, Nil
<1> HIDE DEF rest, vals
<1>3. Abstract!AreRecords(fmts, rest, m, vals)
  BY <1>1, <1>2, Zenon DEF Records, Abstract!AreRecords
<1> QED
  BY <1>1, <1>3 DEF rest, vals
-----------------------------------------------------------------------------
(* Types                                                                   *)

\* The state of a handle.
HandleState == {NoHandle, Closed} \cup FileState

\* The reader of a handle.
ReaderOf(h) == [pos |-> hnd[h].pos, buf |-> hnd[h].buf]

LEMMA OpenHandle ==
    ASSUME TypeOK, NEW h, IsOpen(h)
    PROVE  /\ h \in Handles /\ hnd[h] \in FileState /\ hnd[h].st = "open"
           /\ hnd[h].file \in Files /\ disk[hnd[h].file] \in Seq(Byte)
           /\ hnd[h].pos \in Nat /\ hnd[h].buf \in Seq(Byte) /\ ReaderOf(h) \in Buffered
<1>1. h \in Handles /\ hnd[h].st = "open"
  BY DEF IsOpen
<1>2. hnd[h] \in FileState
  <2>1. hnd[h] \in {NoHandle, Closed} \cup FileState
    BY <1>1 DEF TypeOK
  <2>2. NoHandle.st # "open" /\ Closed.st # "open"
    BY DEF NoHandle, Closed
  <2> QED
    BY <1>1, <2>1, <2>2
<1>3. hnd[h].file \in Files /\ hnd[h].pos \in Nat /\ hnd[h].buf \in Seq(Byte)
  BY <1>2 DEF FileState
<1>4. disk[hnd[h].file] \in Seq(Byte)
  <2>1. disk[hnd[h].file] # Missing
    BY <1>1 DEF TypeOK
  <2>2. disk[hnd[h].file] \in Seq(Byte) \cup {Missing}
    BY <1>3 DEF TypeOK
  <2> QED
    BY <2>1, <2>2
<1> QED
  BY <1>1, <1>2, <1>3, <1>4 DEF ReaderOf, Buffered

\* Not readable, what the formats make of the reader, or an error.
LEMMA DoReadCases ==
    ASSUME TypeOK, NEW h, IsOpen(h), NEW fmts \in Seq(Format), NEW o \in do_read(h, fmts)
    PROVE  /\ o.r \in Buffered /\ o.io \in {"ok", "error", "unreadable"}
           /\ o.io = "unreadable" => o.r = ReaderOf(h) /\ o.vals = <<Nil>>
           /\ o.io # "unreadable" =>
                 /\ hnd[h].readable
                 /\ \E y \in read_formats(disk[hnd[h].file], ReaderOf(h), fmts) :
                      y.r = o.r /\ y.io = o.io /\ o.vals = IF o.io = "error" THEN <<Nil>> ELSE y.vals
<1>1. ReaderOf(h) \in Buffered /\ disk[hnd[h].file] \in Seq(Byte)
  BY OpenHandle
<1>2. CASE ~hnd[h].readable
  <2>1. o = [r |-> ReaderOf(h), vals |-> <<Nil>>, io |-> "unreadable"]
    BY <1>2 DEF do_read, ReaderOf
  <2> QED
    BY <1>1, <2>1
<1>3. CASE hnd[h].readable
  <2>1. PICK y \in read_formats(disk[hnd[h].file], ReaderOf(h), fmts) :
           o = [y EXCEPT !.vals = IF y.io = "error" THEN <<Nil>> ELSE @]
    BY <1>3 DEF do_read, ReaderOf
  <2>2. y.r \in Buffered /\ y.io \in {"ok", "error"} /\ y = [r |-> y.r, vals |-> y.vals, io |-> y.io]
    BY <1>1, FormatsRead
  <2>3. o = [r |-> y.r, vals |-> IF y.io = "error" THEN <<Nil>> ELSE y.vals, io |-> y.io]
    <3>1. \A v : [y EXCEPT !.vals = v] = [r |-> y.r, vals |-> v, io |-> y.io]
      BY <2>2
    <3> QED
      BY <2>1, <3>1
  <2>4. o.r = y.r /\ o.io = y.io /\ o.vals = IF y.io = "error" THEN <<Nil>> ELSE y.vals
    BY <2>3
  <2> QED
    BY <1>3, <2>2, <2>4
<1> QED
  BY <1>2, <1>3

\* A handle that reads.
LEMMA ReaderIs ==
    ASSUME TypeOK, NEW h, IsOpen(h), NEW r \in Buffered
    PROVE  /\ Reader(h, r) = [hnd EXCEPT ![h] = [hnd[h] EXCEPT !.pos = r.pos, !.buf = r.buf]]
           /\ [hnd[h] EXCEPT !.pos = r.pos, !.buf = r.buf] \in FileState
<1>1. h \in Handles /\ hnd[h] \in FileState
  BY OpenHandle
<1>2. Reader(h, r) = [hnd EXCEPT ![h] = [hnd[h] EXCEPT !.pos = r.pos, !.buf = r.buf]]
  BY <1>1 DEF Reader, TypeOK
<1>3. [hnd[h] EXCEPT !.pos = r.pos, !.buf = r.buf] \in FileState
  BY <1>1 DEF FileState, Buffered
<1> QED
  BY <1>2, <1>3

\* One handle changes, and no file vanishes.
LEMMA HandleChanges ==
    ASSUME TypeOK, NEW h \in Handles, NEW x \in HandleState, hnd' = [hnd EXCEPT ![h] = x],
           disk' \in [Files -> Seq(Byte) \cup {Missing}],
           \A f \in Files : disk[f] # Missing => disk'[f] # Missing,
           x.st = "open" => disk'[x.file] # Missing
    PROVE  /\ hnd' \in [Handles -> {NoHandle, Closed} \cup FileState]
           /\ \A g \in Handles : IsOpen(g)' => disk'[hnd'[g].file] # Missing
<1>1. hnd \in [Handles -> {NoHandle, Closed} \cup FileState]
  BY DEF TypeOK
<1>2. hnd' \in [Handles -> {NoHandle, Closed} \cup FileState]
  BY <1>1 DEF HandleState
<1>3. ASSUME NEW g \in Handles, IsOpen(g)' PROVE disk'[hnd'[g].file] # Missing
  <2>1. hnd'[g].st = "open"
    BY <1>3 DEF IsOpen
  <2>2. CASE g = h
    BY <1>1, <2>1, <2>2
  <2>3. CASE g # h
    <3>1. hnd'[g] = hnd[g]
      BY <1>1, <2>3
    <3>2. IsOpen(g)
      BY <2>1, <3>1 DEF IsOpen
    <3>3. hnd[g].file \in Files /\ disk[hnd[g].file] # Missing
      BY <3>2, OpenHandle DEF TypeOK
    <3> QED
      BY <3>1, <3>3
  <2> QED
    BY <2>2, <2>3
<1> QED
  BY <1>2, <1>3

\* Bytes written are bytes of the file.
LEMMA PutTypes ==
    ASSUME NEW d \in Seq(Byte), NEW o \in Nat, NEW data \in Seq(Byte)
    PROVE  put(d, o, data) \in Seq(Byte)
<1>1. Len(d) \in Nat /\ Len(data) \in Nat /\ Zero \in Byte
  <2>1. Zero \in Byte
    BY DEF Byte
  <2> QED
    BY <2>1, LenProperties
<1> DEFINE n == Max({Len(d), o + Len(data)})
<1>2. n \in Nat
  <2>1. \E x \in {Len(d), o + Len(data)} : \A y \in {Len(d), o + Len(data)} : x >= y
    BY <1>1
  <2>2. n \in {Len(d), o + Len(data)}
    BY <2>1 DEF Max
  <2> QED
    BY <1>1, <2>2
<1>3. ASSUME data # <<>> PROVE put(d, o, data) \in Seq(Byte)
  <2>1. put(d, o, data) = [i \in 1..n |-> IF i \in (o + 1)..(o + Len(data)) THEN data[i - o]
                                          ELSE IF i <= Len(d) THEN d[i] ELSE Zero]
    BY <1>3 DEF put
  <2> HIDE DEF n
  <2>2. ASSUME NEW i \in 1..n
        PROVE  (IF i \in (o + 1)..(o + Len(data)) THEN data[i - o]
                ELSE IF i <= Len(d) THEN d[i] ELSE Zero) \in Byte
    <3>1. CASE i \in (o + 1)..(o + Len(data))
      <4>1. i - o \in 1..Len(data)
        BY <1>1, <3>1
      <4>2. data[i - o] \in Byte
        BY <4>1, ElementOfSeq
      <4> QED
        BY <3>1, <4>2
    <3>2. CASE ~(i \in (o + 1)..(o + Len(data))) /\ i <= Len(d)
      <4>1. i \in 1..Len(d)
        BY <1>1, <1>2, <3>2
      <4>2. d[i] \in Byte
        BY <4>1, ElementOfSeq
      <4> QED
        BY <3>2, <4>2
    <3> QED
      BY <1>1, <3>1, <3>2
  <2> QED
    BY <1>2, <2>1, <2>2, IsASeq
<1>4. CASE data = <<>>
  BY <1>4 DEF put
<1> QED
  BY <1>3, <1>4

\* A missing file is no empty one, nor one with bytes.
LEMMA MissingIsNoFile == Missing \notin Seq(Byte)
<1> SUFFICES ASSUME Missing \in Seq(Byte) PROVE FALSE
  OBVIOUS
<1>1. Len(Missing) = 1 /\ Missing[1] = "missing"
  BY DEF Missing
<1>2. Missing[1] \in Byte
  BY <1>1, ElementOfSeq
<1> QED
  BY <1>1, <1>2 DEF Byte, Zero

\* The part of TypeOK about files and their handles.
StoreOK ==
    /\ disk \in [Files -> Seq(Byte) \cup {Missing}]
    /\ hnd \in [Handles -> {NoHandle, Closed} \cup FileState]
    /\ \A h \in Handles : IsOpen(h) => disk[hnd[h].file] # Missing

\* The same files, and one handle that is shut or in another state.
LEMMA StoreKept ==
    ASSUME TypeOK, disk' = disk, NEW h \in Handles, NEW x \in HandleState, hnd' = [hnd EXCEPT ![h] = x],
           x.st = "open" => IsOpen(h) /\ x.file = hnd[h].file
    PROVE  StoreOK'
<1>1. disk' \in [Files -> Seq(Byte) \cup {Missing}] /\ \A f \in Files : disk[f] # Missing => disk'[f] # Missing
  BY DEF TypeOK
<1>2. x.st = "open" => disk'[x.file] # Missing
  BY DEF TypeOK
<1> QED
  BY <1>1, <1>2, HandleChanges DEF StoreOK, IsOpen

LEMMA OpenTypes ==
    ASSUME TypeOK, NEW h \in Handles, NEW f \in Files, NEW mode \in [base : {"r", "w", "a"}, plus : BOOLEAN],
           open_file(h, f, mode)
    PROVE  StoreOK'
<1> DEFINE x == [st |-> "open", file |-> f, pos |-> 0, buf |-> <<>>, append |-> mode.base = "a",
                 readable |-> mode.base = "r" \/ mode.plus,
                 writable |-> mode.base # "r" \/ mode.plus]
           b == IF mode.base = "w" \/ disk[f] = Missing THEN <<>> ELSE disk[f]
<1>1. x \in HandleState /\ x.file = f
  BY EmptySeq DEF HandleState, FileState
<1>2. disk \in [Files -> Seq(Byte) \cup {Missing}]
  BY DEF TypeOK
<1>3. b \in Seq(Byte) /\ b # Missing
  <2>1. b \in Seq(Byte)
    BY <1>2, EmptySeq
  <2> QED
    BY <2>1, MissingIsNoFile
<1>4. disk' = [disk EXCEPT ![f] = b] /\ hnd' = [hnd EXCEPT ![h] = x]
  BY DEF open_file
<1> HIDE DEF x, b
<1>5. /\ disk' \in [Files -> Seq(Byte) \cup {Missing}] /\ disk'[f] = b
      /\ \A g \in Files : disk[g] # Missing => disk'[g] # Missing
  BY <1>2, <1>3, <1>4
<1> QED
  BY <1>1, <1>3, <1>4, <1>5, HandleChanges DEF StoreOK, IsOpen

LEMMA ReadTypes ==
    ASSUME TypeOK, NEW h, IsOpen(h), NEW fmts \in Seq(Format), NEW o \in do_read(h, fmts),
           hnd' = Reader(h, o.r), disk' = disk
    PROVE  StoreOK'
<1> DEFINE x == [hnd[h] EXCEPT !.pos = o.r.pos, !.buf = o.r.buf]
<1>1. o.r \in Buffered
  BY DoReadCases
<1>2. h \in Handles /\ hnd[h] \in FileState /\ hnd' = [hnd EXCEPT ![h] = x] /\ x \in FileState
  BY <1>1, ReaderIs, OpenHandle
<1>3. x.file = hnd[h].file
  BY <1>2 DEF FileState
<1> HIDE DEF x
<1>4. x \in HandleState
  BY <1>2 DEF HandleState
<1> QED
  BY <1>2, <1>3, <1>4, StoreKept

LEMMA WriteTypes ==
    ASSUME TypeOK, NEW h, Writes(h)
    PROVE  StoreOK'
<1> DEFINE f == hnd[h].file
           o == IF hnd[h].append THEN Len(disk[f]) ELSE hnd[h].pos
<1>1. /\ h \in Handles /\ hnd[h] \in FileState /\ f \in Files /\ disk[f] \in Seq(Byte)
      /\ o \in Nat /\ hnd[h].pos \in Nat /\ hnd[h].st = "open"
  <2>1. IsOpen(h)
    BY DEF Writes
  <2> QED
    BY <2>1, OpenHandle, LenProperties
<1>2. PICK data \in Data : \E w \in count_write(data) :
         /\ disk' = [disk EXCEPT ![f] = put(@, o, SubSeq(data, 1, w.n))]
         /\ hnd' = [hnd EXCEPT ![h].pos = IF w.n = 0 THEN @ ELSE o + w.n]
  BY DEF Writes
<1> HIDE DEF f, o
<1>3. data \in Seq(Byte) /\ Len(data) \in Nat
  BY BytesAssumption, LenProperties
<1>4. PICK w \in count_write(data) :
         /\ disk' = [disk EXCEPT ![f] = put(@, o, SubSeq(data, 1, w.n))]
         /\ hnd' = [hnd EXCEPT ![h].pos = IF w.n = 0 THEN @ ELSE o + w.n]
  BY <1>2
<1>5. w.n \in 0..Len(data)
  BY DEF count_write
<1>6. w.n \in Nat /\ SubSeq(data, 1, w.n) \in Seq(Byte)
  <2>1. w.n \in Nat /\ w.n \in Int /\ w.n <= Len(data)
    BY <1>3, <1>5
  <2> QED
    BY <1>3, <2>1, PartOf
<1> DEFINE b == put(disk[f], o, SubSeq(data, 1, w.n))
           p == IF w.n = 0 THEN hnd[h].pos ELSE o + w.n
           x == [hnd[h] EXCEPT !.pos = p]
<1>7. b \in Seq(Byte) /\ b # Missing
  BY <1>1, <1>6, PutTypes, MissingIsNoFile
<1>8. p \in Nat
  BY <1>1, <1>6
<1>9. hnd' = [hnd EXCEPT ![h] = x] /\ disk' = [disk EXCEPT ![f] = b]
  BY <1>1, <1>4 DEF TypeOK
<1> HIDE DEF b, p
<1>10. x \in FileState /\ x.file = f
  BY <1>1, <1>8 DEF FileState, f
<1> HIDE DEF x
<1>11. disk \in [Files -> Seq(Byte) \cup {Missing}]
  BY DEF TypeOK
<1>12. /\ disk' \in [Files -> Seq(Byte) \cup {Missing}] /\ disk'[f] = b
       /\ \A g \in Files : disk[g] # Missing => disk'[g] # Missing
  BY <1>1, <1>7, <1>9, <1>11
<1>13. x \in HandleState
  BY <1>10 DEF HandleState
<1> QED
  BY <1>1, <1>7, <1>9, <1>10, <1>12, <1>13, HandleChanges DEF StoreOK, IsOpen

LEMMA SeekTargetIs ==
    ASSUME TypeOK, NEW h, IsOpen(h), NEW s \in Seeks
    PROVE  /\ seek_target(h, s) \in Int /\ s[1] \in {"set", "cur", "end"}
           /\ s[1] = "set" => seek_target(h, s) = s[2]
           /\ s[1] = "cur" => seek_target(h, s) = At(ReaderOf(h)) + s[2]
           /\ s[1] = "end" => seek_target(h, s) = Len(disk[hnd[h].file]) + s[2]
<1> DEFINE base == CASE s[1] = "set" -> 0
                     [] s[1] = "cur" -> hnd[h].pos - Len(hnd[h].buf)
                     [] s[1] = "end" -> Len(disk[hnd[h].file])
           to == seek_target(h, s)
<1>1. s[2] \in Int /\ s[1] \in {"set", "cur", "end"}
  BY SeeksAssumption
<1>2. hnd[h].pos \in Nat /\ Len(hnd[h].buf) \in Nat /\ Len(disk[hnd[h].file]) \in Nat
  BY OpenHandle, LenProperties
<1>3. At(ReaderOf(h)) = hnd[h].pos - Len(hnd[h].buf)
  BY DEF At, ReaderOf
<1>4. to = s[2] + base
  BY DEF seek_target
<1>5. (s[1] = "set" => base = 0) /\ (s[1] = "cur" => base = At(ReaderOf(h)))
      /\ (s[1] = "end" => base = Len(disk[hnd[h].file]))
  BY <1>3
<1> HIDE DEF base, to
<1>6. CASE s[1] = "set"
  BY <1>1, <1>4, <1>5, <1>6 DEF to
<1>7. CASE s[1] = "cur"
  <2>1. base \in Int
    BY <1>2, <1>3, <1>5, <1>7
  <2> QED
    BY <1>1, <1>4, <1>5, <1>7, <2>1 DEF to
<1>8. CASE s[1] = "end"
  BY <1>1, <1>2, <1>4, <1>5, <1>8 DEF to
<1> QED
  BY <1>1, <1>6, <1>7, <1>8

LEMMA SeekTypes ==
    ASSUME TypeOK, lua_file_seek
    PROVE  StoreOK'
<1>1. PICK h \in Handles, s \in Seeks :
         /\ IsOpen(h)
         /\ IF seek_target(h, s) < 0 THEN UNCHANGED hnd
            ELSE hnd' = [hnd EXCEPT ![h].pos = seek_target(h, s), ![h].buf = <<>>]
         /\ disk' = disk
  BY DEF lua_file_seek
<1> DEFINE to == seek_target(h, s)
<1>2. to \in Int
  BY <1>1, SeekTargetIs
<1> HIDE DEF to
<1>3. CASE to < 0
  BY <1>1, <1>3 DEF to, TypeOK, StoreOK, IsOpen
<1>4. CASE to >= 0
  <2> DEFINE x == [hnd[h] EXCEPT !.pos = to, !.buf = <<>>]
  <2>1. hnd[h] \in FileState
    BY <1>1, OpenHandle
  <2>2. hnd' = [hnd EXCEPT ![h] = x]
    <3>1. hnd' = [hnd EXCEPT ![h].pos = to, ![h].buf = <<>>]
      BY <1>1, <1>2, <1>4 DEF to
    <3> QED
      BY <3>1 DEF TypeOK
  <2>3. x \in FileState /\ x.file = hnd[h].file
    <3>1. to \in Nat /\ <<>> \in Seq(Byte)
      BY <1>2, <1>4, EmptySeq
    <3>2. \A r \in Buffered : /\ [hnd[h] EXCEPT !.pos = r.pos, !.buf = r.buf] \in FileState
                              /\ [hnd[h] EXCEPT !.pos = r.pos, !.buf = r.buf].file = hnd[h].file
      BY <2>1 DEF FileState, Buffered
    <3>3. [pos |-> to, buf |-> <<>>] \in Buffered
      BY <3>1 DEF Buffered
    <3>4. [pos |-> to, buf |-> <<>>].pos = to /\ [pos |-> to, buf |-> <<>>].buf = <<>>
      OBVIOUS
    <3> QED
      BY <3>2, <3>3, <3>4
  <2> HIDE DEF x
  <2>4. x \in HandleState
    BY <2>3 DEF HandleState
  <2> QED
    BY <1>1, <2>2, <2>3, <2>4, StoreKept
<1> QED
  BY <1>2, <1>3, <1>4

\* The part of TypeOK about the uses of handles by the library.
UsesOK ==
    /\ input \in Handles \cup {"stdin"} /\ output \in Handles \cup {"stdout"}
    /\ iter \in {NoIter} \cup [h : Handles \cup {"stdin"}, close_eof : BOOLEAN, fmts : LineFormats]

LEMMA ShutTypes ==
    ASSUME TypeOK, NEW h \in Handles, NEW x \in {NoHandle, Closed}, hnd' = [hnd EXCEPT ![h] = x], disk' = disk
    PROVE  StoreOK'
<1>1. x \in HandleState /\ x.st # "open"
  BY DEF HandleState, NoHandle, Closed
<1> QED
  BY <1>1, StoreKept

LEMMA StoreUnchanged ==
    ASSUME TypeOK, hnd' = hnd, disk' = disk
    PROVE  StoreOK'
  BY DEF TypeOK, StoreOK, IsOpen

\* One round of a loop: the iterator is used, and its file is read or closed.
LEMMA RoundIs ==
    ASSUME TypeOK, lines_iter
    PROVE  /\ IsOpen(iter.h) /\ iter.h \in Handles /\ iter.fmts \in Seq(Format) \ {<<>>}
           /\ iter' \in {NoIter, iter} /\ disk' = disk /\ input' = input /\ output' = output
           /\ \E o \in do_read(iter.h, iter.fmts) :
                \/ /\ o.vals[1] = Nil
                   /\ hnd' = [hnd EXCEPT ![iter.h] = Closed]
                   /\ ret' = [Answer(iter.h, iter.fmts, o) EXCEPT !.op = IF @ = "read" THEN "end" ELSE @]
                \/ hnd' = Reader(iter.h, o.r) /\ ret' = Answer(iter.h, iter.fmts, o)
<1>1. IsOpen(iter.h) /\ iter # NoIter
  BY DEF lines_iter
<1>2. iter \in [h : Handles \cup {"stdin"}, close_eof : BOOLEAN, fmts : LineFormats]
  BY <1>1 DEF TypeOK
<1>3. iter.fmts \in Seq(Format) \ {<<>>}
  BY <1>2, FormatsAssumption
<1>4. \E o \in do_read(iter.h, iter.fmts) :
         \/ /\ o.vals[1] = Nil
            /\ hnd' = [hnd EXCEPT ![iter.h] = Closed]
            /\ ret' = [Answer(iter.h, iter.fmts, o) EXCEPT !.op = IF @ = "read" THEN "end" ELSE @]
         \/ hnd' = Reader(iter.h, o.r) /\ ret' = Answer(iter.h, iter.fmts, o)
  BY DEF lines_iter
<1>5. iter' \in {NoIter, iter} /\ disk' = disk /\ input' = input /\ output' = output
  BY DEF lines_iter
<1> QED
  BY <1>1, <1>3, <1>4, <1>5 DEF IsOpen

LEMMA StepStoreOK ==
    ASSUME TypeOK, Next
    PROVE  StoreOK'
<1>1. CASE lua_open
  BY <1>1, OpenTypes, ModesAssumption DEF lua_open
<1>2. ASSUME NEW h \in Handles, NEW f \in Files, NEW b \in {"r", "w"},
             open_file(h, f, [base |-> b, plus |-> FALSE])
      PROVE  StoreOK'
  <2>1. [base |-> b, plus |-> FALSE] \in [base : {"r", "w", "a"}, plus : BOOLEAN]
    OBVIOUS
  <2> QED
    BY <1>2, <2>1, OpenTypes, Zenon
<1>3. CASE lua_input
  BY <1>2, <1>3, StoreUnchanged DEF lua_input
<1>4. CASE lua_output
  BY <1>2, <1>4, StoreUnchanged DEF lua_output
<1>5. CASE lua_file_close \/ lua_close
  BY <1>5, ShutTypes DEF lua_file_close, lua_close, close_handle, IsOpen
<1>6. CASE collect
  BY <1>6, ShutTypes DEF collect
<1>7. CASE lua_file_read \/ lua_read
  <2>1. PICK h : Reads(h)
    BY <1>7 DEF lua_file_read, lua_read
  <2>2. PICK fmts \in Formats : \E o \in do_read(h, fmts) : hnd' = Reader(h, o.r)
    BY <2>1 DEF Reads
  <2>3. fmts \in Seq(Format)
    BY FormatsAssumption
  <2> QED
    BY <2>1, <2>2, <2>3, ReadTypes DEF Reads
<1>8. CASE lua_file_write \/ lua_write
  BY <1>8, WriteTypes DEF lua_file_write, lua_write
<1>9. CASE lua_file_seek
  BY <1>9, SeekTypes
<1>10. CASE lua_lines
  BY <1>2, <1>10, StoreUnchanged DEF lua_lines
<1>11. CASE lua_file_lines
  BY <1>11, StoreUnchanged DEF lua_file_lines
<1>12. CASE lines_iter
  <2>1. IsOpen(iter.h) /\ iter.h \in Handles /\ iter.fmts \in Seq(Format) /\ disk' = disk
    BY <1>12, RoundIs
  <2>2. PICK o \in do_read(iter.h, iter.fmts) :
           hnd' = [hnd EXCEPT ![iter.h] = Closed] \/ hnd' = Reader(iter.h, o.r)
    BY <1>12, RoundIs
  <2> QED
    BY <2>1, <2>2, ShutTypes, ReadTypes
<1>13. CASE leave_loop
  BY <1>13, StoreUnchanged DEF leave_loop
<1> QED
  BY <1>1, <1>3, <1>4, <1>5, <1>6, <1>7, <1>8, <1>9, <1>10, <1>11, <1>12, <1>13 DEF Next

LEMMA StepUsesOK ==
    ASSUME TypeOK, Next
    PROVE  UsesOK'
<1>1. UsesOK
  BY DEF TypeOK, UsesOK
<1> DEFINE Iters == [h : Handles \cup {"stdin"}, close_eof : BOOLEAN, fmts : LineFormats]
<1>2. ASSUME NEW h \in Handles \cup {"stdin"}, NEW fmts \in LineFormats
      PROVE  Iter(h, TRUE, fmts) \in Iters /\ Iter(h, FALSE, fmts) \in Iters
  <2>1. TRUE \in BOOLEAN /\ FALSE \in BOOLEAN
    OBVIOUS
  <2>2. ASSUME NEW e \in BOOLEAN PROVE Iter(h, e, fmts) \in Iters
    BY DEF Iter
  <2> HIDE DEF Iters
  <2> QED
    BY <2>1, <2>2, Zenon
<1>3. CASE lua_input
  BY <1>1, <1>3 DEF lua_input, UsesOK
<1>4. CASE lua_output
  BY <1>1, <1>4 DEF lua_output, UsesOK
<1>5. CASE lua_lines
  <2>1. PICK fmts \in LineFormats :
           \/ \E h \in Handles : iter' = Iter(h, TRUE, fmts)
           \/ iter' = Iter(input, FALSE, fmts)
    BY <1>5 DEF lua_lines
  <2>2. iter' \in Iters
    <3>1. input \in Handles \cup {"stdin"}
      BY <1>1 DEF UsesOK
    <3> HIDE DEF Iters
    <3> QED
      BY <1>2, <2>1, <3>1, Zenon
  <2>3. input' = input /\ output' = output
    BY <1>5 DEF lua_lines
  <2> QED
    BY <1>1, <2>2, <2>3 DEF UsesOK
<1>6. CASE lua_file_lines
  <2>1. PICK h \in Handles, fmts \in LineFormats : iter' = Iter(h, FALSE, fmts)
    BY <1>6 DEF lua_file_lines
  <2>2. iter' \in Iters
    <3> HIDE DEF Iters
    <3>1. h \in Handles \cup {"stdin"}
      OBVIOUS
    <3> QED
      BY <1>2, <2>1, <3>1, Zenon
  <2>3. input' = input /\ output' = output
    BY <1>6 DEF lua_file_lines
  <2> QED
    BY <1>1, <2>2, <2>3 DEF UsesOK
<1>7. CASE lines_iter
  <2>1. iter' \in {NoIter, iter} /\ input' = input /\ output' = output
    BY <1>7, RoundIs
  <2> QED
    BY <1>1, <2>1 DEF UsesOK
<1>8. CASE leave_loop
  BY <1>1, <1>8 DEF leave_loop, UsesOK
<1>9. CASE UNCHANGED <<input, output, iter>>
  BY <1>1, <1>9 DEF UsesOK
<1>10. CASE lua_open \/ lua_file_close \/ lua_close \/ collect \/ lua_file_read \/ lua_read \/ lua_file_write
            \/ lua_write \/ lua_file_seek
  <2>1. UNCHANGED <<input, output, iter>>
    BY <1>10 DEF lua_open, lua_file_close, lua_close, close_handle, collect, lua_file_read, lua_read, Reads,
                 lua_file_write, lua_write, Writes, lua_file_seek
  <2> QED
    BY <1>9, <2>1
<1> QED
  BY <1>3, <1>4, <1>5, <1>6, <1>7, <1>8, <1>10 DEF Next

LEMMA TypesKept == TypeOK /\ [Next]_vars => TypeOK'
<1>1. ASSUME TypeOK, Next PROVE TypeOK'
  <2>1. StoreOK' /\ UsesOK'
    BY <1>1, StepStoreOK, StepUsesOK
  <2> QED
    BY <2>1 DEF TypeOK, StoreOK, UsesOK
<1>2. ASSUME TypeOK, UNCHANGED vars PROVE TypeOK'
  BY <1>2 DEF TypeOK, vars, IsOpen
<1> QED
  BY <1>1, <1>2

LEMMA TypesAtFirst == Init => TypeOK
<1> SUFFICES ASSUME Init PROVE TypeOK
  OBVIOUS
<1>1. disk \in [Files -> Seq(Byte) \cup {Missing}]
  BY BytesAssumption DEF Init
<1>2. \A h \in Handles : hnd[h] = NoHandle /\ ~IsOpen(h)
  BY DEF Init, IsOpen, NoHandle
<1>3. hnd \in [Handles -> {NoHandle, Closed} \cup FileState]
  BY DEF Init
<1> QED
  BY <1>1, <1>2, <1>3 DEF Init, TypeOK

\* The state of the library keeps its types: a handle holds bytes that it may
\* have read and a position in a file that is there, and the defaults and the
\* iterator of io.lines hold handles (State of builtin/io.rs).
THEOREM IoTypeCorrect == Spec => []TypeOK
<1> QED
  BY TypesAtFirst, TypesKept, PTL DEF Spec
-----------------------------------------------------------------------------
(* The view of handles                                                     *)

\* What the program sees of an open handle of state x, on a file of d.
Shows(d, x) ==
    [st |-> "open", file |-> x.file, at |-> At(x), ahead |-> x.buf # <<>>, torn |-> ~Sound(d, x),
     append |-> x.append, readable |-> x.readable, writable |-> x.writable]

ShutView == [st |-> "shut"]

LEMMA ViewIs ==
    ASSUME NEW h
    PROVE  /\ IsOpen(h) => View(h) = Shows(disk[hnd[h].file], hnd[h])
           /\ ~IsOpen(h) => View(h) = ShutView
           /\ IsOpen(h)' => View(h)' = Shows(disk'[hnd'[h].file], hnd'[h])
           /\ ~IsOpen(h)' => View(h)' = ShutView
  BY DEF View, Shows, ShutView, Sound, At

LEMMA ShowsNotShut ==
    ASSUME NEW d, NEW x
    PROVE  Shows(d, x) # ShutView
<1>1. Shows(d, x).st = "open" /\ ShutView.st = "shut"
  BY DEF Shows, ShutView
<1> QED
  BY <1>1

\* The definitions of FileSpec, said of View.
LEMMA AbstractOpen ==
    ASSUME NEW h \in Handles
    PROVE  (Abstract!IsOpen(h) <=> View(h) # ShutView) /\ Abstract!Bytes(h) = disk[View(h).file]
  BY DEF Abstract!IsOpen, Abstract!Shut, ShutView, Abstract!Bytes

LEMMA AbstractRest ==
    ASSUME NEW h \in Handles
    PROVE  Abstract!Rest(h) = SubSeq(disk[View(h).file], View(h).at + 1, Len(disk[View(h).file]))
  BY AbstractOpen DEF Abstract!Rest

\* A view that has moved.
Moved(v, at, ahead, torn) == [v EXCEPT !.at = at, !.ahead = ahead, !.torn = torn]

LEMMA AbstractKeeps ==
    ASSUME NEW h \in Handles
    PROVE  Abstract!Keeps(h) <=>
              /\ View(h) # ShutView /\ View(h)' # ShutView
              /\ View(h)' = Moved(View(h), View(h)'.at, View(h)'.ahead, View(h)'.torn)
  BY AbstractOpen DEF Abstract!Keeps, Abstract!Shut, ShutView, Moved

LEMMA AbstractOthers ==
    ASSUME NEW h \in Handles
    PROVE  Abstract!Others(h) <=> \A g \in Handles \ {h} : View(g)' = View(g)
  BY DEF Abstract!Others

LEMMA AbstractSeen ==
    ASSUME NEW g \in Handles, NEW f
    PROVE  Abstract!Seen(g, f) =
              IF View(g) # ShutView /\ View(g).file = f /\ View(g).ahead
              THEN {[View(g) EXCEPT !.torn = t] : t \in BOOLEAN} ELSE {View(g)}
  BY AbstractOpen DEF Abstract!Seen

\* Nothing changes for a handle that looks at a file that does not change.
LEMMA ViewKept ==
    ASSUME NEW g, hnd'[g] = hnd[g], IsOpen(g) => disk'[hnd[g].file] = disk[hnd[g].file]
    PROVE  View(g)' = View(g)
<1>1. IsOpen(g)' <=> IsOpen(g)
  BY DEF IsOpen
<1> QED
  BY <1>1, ViewIs, Zenon

\* One that looks at a file that changes may be torn when it is ahead.
LEMMA ViewSeen ==
    ASSUME TypeOK, NEW g \in Handles, NEW f, hnd'[g] = hnd[g], \A k \in Files \ {f} : disk'[k] = disk[k]
    PROVE  View(g)' \in Abstract!Seen(g, f)
<1>1. CASE IsOpen(g) /\ hnd[g].file = f
  <2> DEFINE x == hnd[g]
  <2>1. View(g) = Shows(disk[f], x) /\ View(g)' = Shows(disk'[f], x)
    <3>1. IsOpen(g)'
      BY <1>1 DEF IsOpen
    <3> QED
      BY <1>1, <3>1, ViewIs
  <2>2. View(g) # ShutView /\ View(g).file = f /\ (View(g).ahead <=> x.buf # <<>>)
    <3>1. \A d : Shows(d, x).file = x.file /\ (Shows(d, x).ahead <=> x.buf # <<>>)
      BY DEF Shows
    <3> QED
      BY <1>1, <2>1, <3>1, ShowsNotShut
  <2>3. \A d : Shows(d, x) = [Shows(disk[f], x) EXCEPT !.torn = ~Sound(d, x)]
    BY DEF Shows
  <2>4. x.buf = <<>> => Shows(disk'[f], x) = Shows(disk[f], x)
    BY DEF Shows, Sound
  <2>5. (~Sound(disk'[f], x)) \in BOOLEAN
    BY DEF Sound
  <2> HIDE DEF x
  <2>6. CASE x.buf = <<>>
    BY <2>1, <2>2, <2>4, <2>6, AbstractSeen, Zenon
  <2>7. CASE x.buf # <<>>
    <3>1. View(g)' \in {[View(g) EXCEPT !.torn = t] : t \in BOOLEAN}
      BY <2>1, <2>3, <2>5
    <3> QED
      BY <2>2, <2>7, <3>1, AbstractSeen, Zenon
  <2> QED
    BY <2>6, <2>7
<1>2. CASE ~(IsOpen(g) /\ hnd[g].file = f)
  <2>1. View(g)' = View(g)
    <3>1. IsOpen(g) => hnd[g].file \in Files \ {f}
      BY <1>2, OpenHandle
    <3> QED
      BY <3>1, ViewKept
  <2>2. ~(View(g) # ShutView /\ View(g).file = f)
    <3>1. IsOpen(g) => View(g).file = hnd[g].file
      BY ViewIs DEF Shows
    <3> QED
      BY <1>2, <3>1, ViewIs
  <2> QED
    BY <2>1, <2>2, AbstractSeen, Zenon
<1> QED
  BY <1>1, <1>2
-----------------------------------------------------------------------------
(* The calls                                                               *)

LEMMA CallIs ==
    ASSUME NEW r
    PROVE  /\ r.op = "open" /\ Abstract!Open(r.h, r.file, r.mode) => Abstract!Call(r)
           /\ r.op = "read" /\ Abstract!Read(r.h, r.fmts, r.vals) => Abstract!Call(r)
           /\ r.op = "read" /\ r.h \in Handles /\ View(r.h).torn /\ Abstract!ReadBadly(r.h) => Abstract!Call(r)
           /\ r.op = "end" /\ r.h \in Handles /\ Abstract!Close(r.h)
                /\ (View(r.h).torn \/ \E m \in 0..Len(Abstract!Rest(r.h)) :
                                         Abstract!AreRecords(r.fmts, Abstract!Rest(r.h), m, <<Nil>>))
              => Abstract!Call(r)
           /\ r.op = "fault" /\ (Abstract!ReadBadly(r.h) \/ Abstract!Close(r.h)) => Abstract!Call(r)
           /\ r.op = "write" /\ Abstract!Write(r.h, r.data, r.n) => Abstract!Call(r)
           /\ r.op = "seek" /\ Abstract!Seek(r.h, r.whence, r.offset, r.to) => Abstract!Call(r)
           /\ r.op = "close" /\ Abstract!Close(r.h) => Abstract!Call(r)
<1>1. r.op = "open" /\ Abstract!Open(r.h, r.file, r.mode) => Abstract!Call(r)
  BY DEF Abstract!Call
<1>2. r.op = "read" /\ Abstract!Read(r.h, r.fmts, r.vals) => Abstract!Call(r)
  BY DEF Abstract!Call
<1>3. r.op = "read" /\ r.h \in Handles /\ View(r.h).torn /\ Abstract!ReadBadly(r.h) => Abstract!Call(r)
  BY DEF Abstract!Call
<1>4. r.op = "end" /\ r.h \in Handles /\ Abstract!Close(r.h)
                /\ (View(r.h).torn \/ \E m \in 0..Len(Abstract!Rest(r.h)) :
                                         Abstract!AreRecords(r.fmts, Abstract!Rest(r.h), m, <<Nil>>))
              => Abstract!Call(r)
  BY DEF Abstract!Call, Abstract!Nil, Nil
<1>5. r.op = "fault" /\ (Abstract!ReadBadly(r.h) \/ Abstract!Close(r.h)) => Abstract!Call(r)
  BY DEF Abstract!Call
<1>6. r.op = "write" /\ Abstract!Write(r.h, r.data, r.n) => Abstract!Call(r)
  BY DEF Abstract!Call
<1>7. r.op = "seek" /\ Abstract!Seek(r.h, r.whence, r.offset, r.to) => Abstract!Call(r)
  BY DEF Abstract!Call
<1>8. r.op = "close" /\ Abstract!Close(r.h) => Abstract!Call(r)
  BY DEF Abstract!Call
<1> QED
  BY <1>1, <1>2, <1>3, <1>4, <1>5, <1>6, <1>7, <1>8, Zenon

\* A call that changes no file and no view.
LEMMA NoneShows ==
    ASSUME ret' = [op |-> "none"], disk' = disk, \A h \in Handles : View(h)' = View(h)
    PROVE  Abstract!Call(ret')
<1>1. ret'.op = "none"
  OBVIOUS
<1>2. [h \in Handles |-> View(h)]' = [h \in Handles |-> View(h)]
  OBVIOUS
<1> QED
  BY <1>1, <1>2 DEF Abstract!Call

LEMMA NothingShows ==
    ASSUME ret' = [op |-> "none"], UNCHANGED <<disk, hnd>>
    PROVE  Abstract!Call(ret')
<1>1. \A h \in Handles : View(h)' = View(h)
  BY ViewKept
<1> QED
  BY <1>1, NoneShows

\* A handle is opened, at the beginning of its file.
LEMMA OpenShows ==
    ASSUME TypeOK, NEW h \in Handles, NEW f \in Files, NEW mode, open_file(h, f, mode)
    PROVE  Abstract!Call(ret')
<1> DEFINE x == [st |-> "open", file |-> f, pos |-> 0, buf |-> <<>>, append |-> mode.base = "a",
                 readable |-> mode.base = "r" \/ mode.plus,
                 writable |-> mode.base # "r" \/ mode.plus]
<1>1. /\ hnd[h] = NoHandle /\ (mode.base = "r" => disk[f] # Missing)
      /\ disk' = [disk EXCEPT ![f] = IF mode.base = "w" \/ @ = Missing THEN <<>> ELSE @]
      /\ hnd' = [hnd EXCEPT ![h] = x]
      /\ ret' = [op |-> "open", h |-> h, file |-> f, mode |-> mode]
  BY DEF open_file
<1>2. disk \in [Files -> Seq(Byte) \cup {Missing}] /\ hnd \in [Handles -> {NoHandle, Closed} \cup FileState]
  BY DEF TypeOK
<1>3. ~IsOpen(h) /\ View(h) = ShutView
  <2>1. ~IsOpen(h)
    BY <1>1 DEF IsOpen, NoHandle
  <2> QED
    BY <2>1, ViewIs
<1>4. disk' = IF mode.base = "w" \/ disk[f] = Missing THEN [disk EXCEPT ![f] = <<>>] ELSE disk
  BY <1>1, <1>2
<1>5. View(h)' = [file |-> f, at |-> 0, ahead |-> FALSE, torn |-> FALSE, st |-> "open",
                  append |-> mode.base = "a",
                  readable |-> mode.base = "r" \/ mode.plus,
                  writable |-> mode.base # "r" \/ mode.plus]
  <2>1. hnd'[h] = x /\ IsOpen(h)'
    BY <1>1, <1>2 DEF IsOpen
  <2>2. View(h)' = Shows(disk'[f], x)
    BY <2>1, ViewIs
  <2>3. At(x) = 0 /\ Sound(disk'[f], x)
    BY EmptySeq DEF At, Sound
  <2>4. Shows(disk'[f], x) = [st |-> "open", file |-> f, at |-> 0, ahead |-> FALSE, torn |-> FALSE,
                              append |-> mode.base = "a",
                              readable |-> mode.base = "r" \/ mode.plus,
                              writable |-> mode.base # "r" \/ mode.plus]
    BY <2>3 DEF Shows
  <2> HIDE DEF x
  <2> QED
    BY <2>2, <2>4
<1>6. ASSUME NEW g \in Handles \ {h} PROVE View(g)' \in Abstract!Seen(g, f)
  <2>1. hnd'[g] = hnd[g]
    BY <1>1, <1>2
  <2>2. \A k \in Files \ {f} : disk'[k] = disk[k]
    BY <1>1, <1>2
  <2> QED
    BY <2>1, <2>2, ViewSeen
<1> HIDE DEF x
<1>7. Abstract!Open(h, f, mode)
  <2>1. ~Abstract!IsOpen(h)
    BY <1>3, AbstractOpen
  <2>2. mode.base = "r" => disk[f] # Abstract!Missing
    BY <1>1 DEF Abstract!Missing, Missing
  <2>3. disk' = IF mode.base = "w" \/ disk[f] = Abstract!Missing THEN [disk EXCEPT ![f] = <<>>] ELSE disk
    BY <1>4 DEF Abstract!Missing, Missing
  <2> QED
    BY <1>5, <1>6, <2>1, <2>2, <2>3 DEF Abstract!Open
<1>8. ret'.op = "open" /\ ret'.h = h /\ ret'.file = f /\ ret'.mode = mode
  BY <1>1
<1> QED
  BY <1>7, <1>8, CallIs

\* A handle is closed, or dropped.
LEMMA CloseShows ==
    ASSUME TypeOK, NEW h, IsOpen(h), NEW x \in {NoHandle, Closed}, hnd' = [hnd EXCEPT ![h] = x], disk' = disk
    PROVE  Abstract!Close(h)
<1>1. h \in Handles /\ hnd \in [Handles -> {NoHandle, Closed} \cup FileState]
  BY DEF TypeOK, IsOpen
<1>2. View(h)' = ShutView
  <2>1. ~IsOpen(h)'
    BY <1>1 DEF IsOpen, NoHandle, Closed
  <2> QED
    BY <2>1, ViewIs
<1>3. ASSUME NEW g \in Handles \ {h} PROVE View(g)' = View(g)
  <2>1. hnd'[g] = hnd[g]
    BY <1>1
  <2> QED
    BY <2>1, ViewKept
<1>4. [g \in Handles |-> View(g)]' = [[g \in Handles |-> View(g)] EXCEPT ![h] = ShutView]
  BY <1>1, <1>2, <1>3
<1>5. Abstract!IsOpen(h)
  BY <1>1, ViewIs, ShowsNotShut, AbstractOpen
<1> QED
  BY <1>4, <1>5 DEF Abstract!Close, Abstract!Shut, ShutView

\* An open handle sees what its reader does.
LEMMA ViewOfReader ==
    ASSUME TypeOK, NEW h, IsOpen(h)
    PROVE  LET d == disk[hnd[h].file]
               v == View(h)
           IN  /\ v = Shows(d, hnd[h]) /\ v # ShutView
               /\ v.file = hnd[h].file /\ v.at = At(ReaderOf(h))
               /\ (v.ahead <=> ReaderOf(h).buf # <<>>) /\ (v.torn <=> ~Sound(d, ReaderOf(h)))
               /\ v.append = hnd[h].append /\ v.readable = hnd[h].readable /\ v.writable = hnd[h].writable
               /\ Abstract!Bytes(h) = d /\ Abstract!Rest(h) = SubSeq(d, At(ReaderOf(h)) + 1, Len(d))
<1> DEFINE d == disk[hnd[h].file]
           v == View(h)
<1>1. h \in Handles
  BY DEF IsOpen
<1>2. v = Shows(d, hnd[h]) /\ v # ShutView
  BY ViewIs, ShowsNotShut
<1>3. /\ v.file = hnd[h].file /\ v.at = At(hnd[h])
      /\ (v.ahead <=> hnd[h].buf # <<>>) /\ (v.torn <=> ~Sound(d, hnd[h]))
      /\ v.append = hnd[h].append /\ v.readable = hnd[h].readable /\ v.writable = hnd[h].writable
  <2> HIDE DEF d, v
  <2> QED
    BY <1>2 DEF Shows
<1>4. ReaderOf(h).pos = hnd[h].pos /\ ReaderOf(h).buf = hnd[h].buf
  BY DEF ReaderOf
<1>5. At(ReaderOf(h)) = At(hnd[h])
  BY <1>4 DEF At
<1>6. Sound(d, ReaderOf(h)) <=> Sound(d, hnd[h])
  BY <1>4, <1>5 DEF Sound
<1>7. Abstract!Bytes(h) = d
  BY <1>1, <1>3, AbstractOpen
<1>8. Abstract!Rest(h) = SubSeq(d, At(ReaderOf(h)) + 1, Len(d))
  BY <1>1, <1>3, <1>5, AbstractRest
<1> HIDE DEF d, v
<1> QED
  BY <1>2, <1>3, <1>4, <1>5, <1>6, <1>7, <1>8, Zenon DEF d, v

\* Two views of a file opened once differ in where they are.
LEMMA ShowsLike ==
    ASSUME NEW d, NEW e, NEW x, NEW y, x.file = y.file, x.append = y.append, x.readable = y.readable,
           x.writable = y.writable
    PROVE  Shows(e, x) = Moved(Shows(d, y), Shows(e, x).at, Shows(e, x).ahead, Shows(e, x).torn)
<1> DEFINE R(a, b, c) == [st |-> "open", file |-> y.file, at |-> a, ahead |-> b, torn |-> c,
                          append |-> y.append, readable |-> y.readable, writable |-> y.writable]
<1>1. ASSUME NEW a, NEW b, NEW c, NEW a2, NEW b2, NEW c2
      PROVE  Moved(R(a, b, c), a2, b2, c2) = R(a2, b2, c2)
  <2>1. [R(a, b, c) EXCEPT !.at = a2] = R(a2, b, c)
    OBVIOUS
  <2>2. [R(a2, b, c) EXCEPT !.ahead = b2] = R(a2, b2, c)
    OBVIOUS
  <2>3. [R(a2, b2, c) EXCEPT !.torn = c2] = R(a2, b2, c2)
    OBVIOUS
  <2>4. [R(a, b, c) EXCEPT !.at = a2, !.ahead = b2, !.torn = c2] = R(a2, b2, c2)
    <3> HIDE DEF R
    <3> QED
      BY <2>1, <2>2, <2>3
  <2> HIDE DEF R
  <2> QED
    BY <2>4 DEF Moved
<1>2. \A a, b, c : R(a, b, c).at = a /\ R(a, b, c).ahead = b /\ R(a, b, c).torn = c
  OBVIOUS
<1>3. Shows(d, y) = R(At(y), y.buf # <<>>, ~Sound(d, y)) /\ Shows(e, x) = R(At(x), x.buf # <<>>, ~Sound(e, x))
  BY DEF Shows
<1> HIDE DEF R
<1>4. PICK a, b, c, a2, b2, c2 : Shows(d, y) = R(a, b, c) /\ Shows(e, x) = R(a2, b2, c2)
  BY <1>3, Zenon
<1>5. Moved(R(a, b, c), a2, b2, c2) = R(a2, b2, c2)
  BY <1>1
<1>6. Shows(e, x).at = a2 /\ Shows(e, x).ahead = b2 /\ Shows(e, x).torn = c2
  BY <1>2, <1>4
<1> QED
  BY <1>4, <1>5, <1>6

\* The reader of an open handle moves to r.
LEMMA ReaderMoves ==
    ASSUME TypeOK, NEW h, IsOpen(h), NEW r \in Buffered,
           hnd' = [hnd EXCEPT ![h] = [hnd[h] EXCEPT !.pos = r.pos, !.buf = r.buf]]
    PROVE  /\ Abstract!Keeps(h) /\ \A g \in Handles \ {h} : hnd'[g] = hnd[g]
           /\ View(h)' # ShutView /\ View(h)'.at = At(r) /\ (View(h)'.ahead <=> r.buf # <<>>)
           /\ (View(h)'.torn <=> ~Sound(disk'[hnd[h].file], r))
           /\ View(h)' = Moved(View(h), View(h)'.at, View(h)'.ahead, View(h)'.torn)
<1> DEFINE x == [hnd[h] EXCEPT !.pos = r.pos, !.buf = r.buf]
           d == disk[hnd[h].file]
           e == disk'[hnd[h].file]
<1>1. h \in Handles /\ hnd[h] \in FileState /\ hnd \in [Handles -> {NoHandle, Closed} \cup FileState]
  BY OpenHandle DEF TypeOK
<1>2. hnd'[h] = x /\ \A g \in Handles \ {h} : hnd'[g] = hnd[g]
  BY <1>1
<1>3. /\ x.st = "open" /\ x.file = hnd[h].file /\ x.pos = r.pos /\ x.buf = r.buf /\ x.append = hnd[h].append
      /\ x.readable = hnd[h].readable /\ x.writable = hnd[h].writable
  BY <1>1 DEF FileState
<1> HIDE DEF x, d, e
<1>4. IsOpen(h)'
  BY <1>1, <1>2, <1>3 DEF IsOpen
<1>5. View(h)' = Shows(e, x) /\ View(h)' # ShutView
  <2>1. View(h)' = Shows(disk'[hnd'[h].file], hnd'[h])
    BY <1>4, ViewIs, Zenon
  <2>2. View(h)' = Shows(disk'[hnd[h].file], x)
    BY <1>2, <1>3, <2>1
  <2> QED
    BY <2>2, ShowsNotShut, Zenon DEF e
<1>6. View(h) = Shows(d, hnd[h]) /\ View(h) # ShutView
  BY ViewOfReader DEF d
<1>7. At(x) = At(r)
  BY <1>3 DEF At
<1>8. Sound(e, x) <=> Sound(e, r)
  BY <1>3, <1>7 DEF Sound
<1>10. /\ Shows(e, x).at = At(r) /\ (Shows(e, x).ahead <=> r.buf # <<>>)
       /\ (Shows(e, x).torn <=> ~Sound(e, r))
  BY <1>3, <1>7, <1>8 DEF Shows
<1>11. Shows(e, x) = Moved(Shows(d, hnd[h]), Shows(e, x).at, Shows(e, x).ahead, Shows(e, x).torn)
  <2>1. /\ x.file = hnd[h].file /\ x.append = hnd[h].append
        /\ x.readable = hnd[h].readable /\ x.writable = hnd[h].writable
    BY <1>3
  <2> QED
    BY <2>1, ShowsLike
<1>12. Abstract!Keeps(h)
  BY <1>1, <1>5, <1>6, <1>11, AbstractKeeps
<1> QED
  BY <1>2, <1>5, <1>6, <1>10, <1>11, <1>12, Zenon DEF e

\* A read gives records, or fails, unless the handle is torn.
LEMMA ReadShows ==
    ASSUME TypeOK, NEW h, IsOpen(h), ~BareHex(disk[hnd[h].file]),
           NEW fmts \in Seq(Format), NEW o \in do_read(h, fmts),
           hnd' = Reader(h, o.r), disk' = disk, ret' = Answer(h, fmts, o)
    PROVE  Abstract!Call(ret')
<1> DEFINE d == disk[hnd[h].file]
           r == ReaderOf(h)
           rest == SubSeq(d, At(r) + 1, Len(d))
<1>1. /\ h \in Handles /\ d \in Seq(Byte) /\ r \in Buffered
      /\ hnd[h].file \in Files
  BY OpenHandle
<1>2. o.r \in Buffered /\ o.io \in {"ok", "error", "unreadable"}
  BY DoReadCases
<1>3. hnd' = [hnd EXCEPT ![h] = [hnd[h] EXCEPT !.pos = o.r.pos, !.buf = o.r.buf]]
  BY <1>2, ReaderIs
<1>4. disk'[hnd[h].file] = d
  OBVIOUS
<1>5. /\ Abstract!Keeps(h) /\ View(h)'.at = At(o.r) /\ (View(h)'.torn <=> ~Sound(d, o.r))
      /\ \A g \in Handles \ {h} : hnd'[g] = hnd[g]
  BY <1>2, <1>3, <1>4, ReaderMoves
<1>6. Abstract!Others(h)
  BY <1>1, <1>5, ViewKept, AbstractOthers
<1>7. /\ View(h).at = At(r) /\ (View(h).torn <=> ~Sound(d, r)) /\ View(h).readable = hnd[h].readable
      /\ View(h) # ShutView /\ Abstract!Rest(h) = rest
  BY ViewOfReader
<1>8. /\ ret'.h = h /\ ret'.op = (IF o.io = "ok" THEN "read" ELSE "fault")
      /\ o.io = "ok" => ret'.fmts = fmts /\ ret'.vals = o.vals
  BY DEF Answer
<1> HIDE DEF d, r, rest
<1>9. CASE ~Sound(d, r)
  <2>1. Abstract!ReadBadly(h)
    BY <1>1, <1>5, <1>6, <1>7, <1>9 DEF Abstract!ReadBadly
  <2> QED
    BY <1>1, <1>7, <1>8, <1>9, <2>1, CallIs
<1>10. ASSUME Sound(d, r), o.io = "unreadable" PROVE Abstract!Call(ret')
  <2>1. o.r = r
    BY <1>10, DoReadCases DEF r
  <2>2. At(r) \in Nat /\ Len(rest) \in Nat
    BY <1>1, <1>10, SoundGives, RestOf, LenProperties DEF rest
  <2>3. At(r) \in At(r)..(At(r) + Len(rest))
    BY <2>2
  <2>4. Abstract!ReadBadly(h)
    BY <1>1, <1>5, <1>6, <1>7, <1>10, <2>1, <2>3 DEF Abstract!ReadBadly
  <2> QED
    BY <1>8, <1>10, <2>4, CallIs
<1>11. ASSUME Sound(d, r), o.io # "unreadable" PROVE Abstract!Call(ret')
  <2>1. PICK y \in read_formats(d, r, fmts) :
           y.r = o.r /\ y.io = o.io /\ o.vals = IF o.io = "error" THEN <<Nil>> ELSE y.vals
    BY <1>11, DoReadCases DEF d, r
  <2>2. hnd[h].readable
    BY <1>11, DoReadCases
  <2>3. Reading(d, r, fmts, Len(fmts), y)
    BY <1>1, <1>11, FormatsRead DEF d
  <2>4. CASE o.io = "error"
    <3>1. y.io = "error" /\ y.r.buf = <<>> /\ At(y.r) \in At(r)..(At(r) + Len(rest))
      BY <2>1, <2>3, <2>4 DEF Reading, rest
    <3>2. Sound(d, o.r) /\ At(o.r) \in At(r)..(At(r) + Len(rest))
      BY <2>1, <3>1 DEF Sound
    <3>3. Abstract!ReadBadly(h)
      BY <1>1, <1>5, <1>6, <1>7, <3>2 DEF Abstract!ReadBadly
    <3> QED
      BY <1>8, <2>4, <3>3, CallIs
  <2>5. CASE o.io = "ok"
    <3>1. Sound(d, o.r) /\ o.vals = y.vals
      BY <2>1, <2>3, <2>5 DEF Reading
    <3>2. PICK m \in 0..Len(rest) : At(y.r) = At(r) + m /\ Abstract!AreRecords(fmts, rest, m, y.vals)
      BY <1>1, <2>1, <2>3, <2>5, ReadingRecords DEF rest
    <3>3. At(o.r) - At(r) = m
      <4>1. At(r) \in Nat /\ Len(rest) \in Nat
        BY <1>1, <1>11, SoundGives, RestOf, LenProperties DEF rest
      <4> QED
        BY <2>1, <3>2, <4>1
    <3>4. Abstract!AreRecords(fmts, Abstract!Rest(h), View(h)'.at - View(h).at, o.vals)
      BY <1>5, <1>7, <3>1, <3>2, <3>3
    <3>5. Abstract!IsOpen(h)
      BY <1>1, <1>7, AbstractOpen
    <3>6. Abstract!Read(h, fmts, o.vals)
      BY <1>1, <1>5, <1>6, <1>7, <1>11, <2>2, <3>1, <3>4, <3>5 DEF Abstract!Read
    <3> QED
      BY <1>8, <2>5, <3>6, CallIs
  <2> QED
    BY <1>2, <1>11, <2>4, <2>5
<1> QED
  BY <1>9, <1>10, <1>11

\* Records that begin with Nil are Nil alone.
LEMMA NilAlone ==
    ASSUME NEW V, NEW vals \in Seq(V), NEW fmts \in Seq(Format), fmts # <<>>, vals[1] = Nil,
           NEW rest, NEW m, Abstract!AreRecords(fmts, rest, m, vals)
    PROVE  vals = <<Nil>>
<1>1. Len(vals) \in Nat /\ Len(fmts) \in Nat /\ Len(fmts) # 0
  BY LenProperties, EmptySeq
<1>2. /\ \A i \in 1..(Len(vals) - 1) : vals[i] # Nil
      /\ Len(vals) < Len(fmts) => Len(vals) > 0
      /\ Len(vals) <= Len(fmts)
  BY DEF Abstract!AreRecords, Abstract!Nil, Nil
<1>3. Len(vals) = 1
  <2>1. Len(vals) > 0
    BY <1>1, <1>2
  <2>2. ~(Len(vals) > 1)
    <3>1. Len(vals) > 1 => 1 \in 1..(Len(vals) - 1)
      BY <1>1
    <3> QED
      BY <1>2, <3>1
  <2>3. \A n \in Nat : n > 0 /\ ~(n > 1) => n = 1
    OBVIOUS
  <2> QED
    BY <1>1, <2>1, <2>2, <2>3, Zenon
<1> QED
  BY <1>3

\* The end of a loop over the lines of a file, which closes it.
LEMMA EndShows ==
    ASSUME TypeOK, NEW h, IsOpen(h), ~BareHex(disk[hnd[h].file]),
           NEW fmts \in Seq(Format), fmts # <<>>, NEW o \in do_read(h, fmts), o.vals[1] = Nil,
           hnd' = [hnd EXCEPT ![h] = Closed], disk' = disk,
           ret' = [Answer(h, fmts, o) EXCEPT !.op = IF @ = "read" THEN "end" ELSE @]
    PROVE  Abstract!Call(ret')
<1> DEFINE d == disk[hnd[h].file]
           r == ReaderOf(h)
           rest == SubSeq(d, At(r) + 1, Len(d))
<1>1. h \in Handles /\ d \in Seq(Byte) /\ r \in Buffered
  BY OpenHandle
<1>2. Abstract!Close(h)
  <2>1. Closed \in {NoHandle, Closed}
    OBVIOUS
  <2> QED
    BY <2>1, CloseShows
<1>3. (View(h).torn <=> ~Sound(d, r)) /\ Abstract!Rest(h) = rest
  BY ViewOfReader
<1>4. CASE o.io # "ok"
  <2>1. ret'.op = "fault" /\ ret'.h = h
    BY <1>4 DEF Answer
  <2> QED
    BY <1>2, <2>1, CallIs
<1>5. CASE o.io = "ok"
  <2>1. ret'.op = "end" /\ ret'.h = h /\ ret'.fmts = fmts
    BY <1>5 DEF Answer
  <2>2. ASSUME Sound(d, r)
        PROVE  \E m \in 0..Len(rest) : Abstract!AreRecords(fmts, rest, m, <<Nil>>)
    <3>1. PICK y \in read_formats(d, r, fmts) : y.io = "ok" /\ o.vals = y.vals
      BY <1>5, DoReadCases
    <3>2. PICK V : y.vals \in Seq(V)
      BY <1>1, <3>1, FormatsRead
    <3>3. Reading(d, r, fmts, Len(fmts), y)
      BY <1>1, <2>2, <3>1, FormatsRead
    <3>4. PICK m \in 0..Len(rest) : Abstract!AreRecords(fmts, rest, m, y.vals)
      BY <1>1, <3>1, <3>3, ReadingRecords
    <3>5. y.vals = <<Nil>>
      BY <3>1, <3>2, <3>4, NilAlone
    <3> QED
      BY <3>4, <3>5
  <2> HIDE DEF d, r, rest
  <2>3. View(h).torn \/ \E m \in 0..Len(Abstract!Rest(h)) : Abstract!AreRecords(fmts, Abstract!Rest(h), m, <<Nil>>)
    BY <1>3, <2>2
  <2> QED
    BY <1>1, <1>2, <2>1, <2>3, CallIs
<1> QED
  BY <1>4, <1>5

\* A seek goes from where the reader is.
LEMMA SeekShows ==
    ASSUME TypeOK, lua_file_seek
    PROVE  Abstract!Call(ret')
<1>1. PICK h \in Handles, s \in Seeks :
         /\ IsOpen(h)
         /\ IF seek_target(h, s) < 0 THEN UNCHANGED hnd /\ ret' = [op |-> "none"]
            ELSE /\ hnd' = [hnd EXCEPT ![h].pos = seek_target(h, s), ![h].buf = <<>>]
                 /\ ret' = [op |-> "seek", h |-> h, whence |-> s[1], offset |-> s[2], to |-> seek_target(h, s)]
         /\ disk' = disk
  BY DEF lua_file_seek
<1> DEFINE to == seek_target(h, s)
<1>2. to \in Int
  BY <1>1, SeekTargetIs
<1>3. /\ s[1] = "set" => to = s[2]
      /\ s[1] = "cur" => to = At(ReaderOf(h)) + s[2]
      /\ s[1] = "end" => to = Len(disk[hnd[h].file]) + s[2]
      /\ s[1] \in {"set", "cur", "end"}
  BY <1>1, SeekTargetIs
<1> HIDE DEF to
<1>4. CASE to < 0
  BY <1>1, <1>4, NothingShows DEF to
<1>5. CASE to >= 0
  <2> DEFINE r == [pos |-> to, buf |-> <<>>]
  <2>1. r \in Buffered /\ r.pos = to /\ r.buf = <<>>
    BY <1>2, <1>5, EmptySeq DEF Buffered
  <2>2. At(r) = to
    BY <1>2, <2>1, EmptySeq DEF At
  <2>3. Sound(disk'[hnd[h].file], r)
    BY <2>1 DEF Sound
  <2> HIDE DEF r
  <2>4. /\ hnd' = [hnd EXCEPT ![h] = [hnd[h] EXCEPT !.pos = r.pos, !.buf = r.buf]]
        /\ ret' = [op |-> "seek", h |-> h, whence |-> s[1], offset |-> s[2], to |-> to]
    <3>1. /\ hnd' = [hnd EXCEPT ![h].pos = r.pos, ![h].buf = r.buf]
          /\ ret' = [op |-> "seek", h |-> h, whence |-> s[1], offset |-> s[2], to |-> to]
      BY <1>1, <1>2, <1>5, <2>1 DEF to
    <3> QED
      BY <3>1 DEF TypeOK
  <2>5. /\ Abstract!Keeps(h) /\ \A g \in Handles \ {h} : hnd'[g] = hnd[g]
        /\ View(h)'.at = to /\ ~View(h)'.ahead /\ ~View(h)'.torn
    BY <1>1, <2>1, <2>2, <2>3, <2>4, ReaderMoves
  <2>6. Abstract!Others(h)
    BY <1>1, <2>5, ViewKept, AbstractOthers
  <2>7. View(h).at = At(ReaderOf(h)) /\ Abstract!Bytes(h) = disk[hnd[h].file]
    BY <1>1, ViewOfReader
  <2>8. to = (CASE s[1] = "set" -> 0 [] s[1] = "cur" -> View(h).at [] s[1] = "end" -> Len(Abstract!Bytes(h))) + s[2]
    <3>1. s[2] \in Int
      BY SeeksAssumption
    <3>2. CASE s[1] = "set"
      BY <1>3, <3>1, <3>2
    <3>3. CASE s[1] = "cur"
      BY <1>3, <2>7, <3>3
    <3>4. CASE s[1] = "end"
      BY <1>3, <2>7, <3>4
    <3> QED
      BY <1>3, <3>2, <3>3, <3>4
  <2>9. Abstract!Seek(h, s[1], s[2], to)
    BY <1>1, <2>5, <2>6, <2>8 DEF Abstract!Seek
  <2>10. ret'.op = "seek" /\ ret'.h = h /\ ret'.whence = s[1] /\ ret'.offset = s[2] /\ ret'.to = to
    BY <2>4
  <2> QED
    BY <2>9, <2>10, CallIs
<1> QED
  BY <1>2, <1>4, <1>5

\* A handle that is not ahead has only its position.
LEMMA ShowsAtFile ==
    ASSUME NEW d, NEW e, NEW x, NEW y, x.buf = <<>>, y.buf = <<>>, x.pos \in Nat, y.pos \in Nat,
           x.file = y.file, x.append = y.append, x.readable = y.readable, x.writable = y.writable
    PROVE  /\ Shows(e, x) = [Shows(d, y) EXCEPT !.at = x.pos] /\ Shows(d, y).at = y.pos
<1>1. At(x) = x.pos /\ At(y) = y.pos /\ Sound(e, x) /\ Sound(d, y)
  BY EmptySeq DEF At, Sound
<1> DEFINE R(a, u) == [st |-> "open", file |-> y.file, at |-> a, ahead |-> u, torn |-> u,
                       append |-> y.append, readable |-> y.readable, writable |-> y.writable]
<1>2. Shows(d, y) = R(y.pos, FALSE) /\ Shows(e, x) = R(x.pos, FALSE)
  BY <1>1 DEF Shows
<1>3. ASSUME NEW a, NEW b, NEW u PROVE [R(a, u) EXCEPT !.at = b] = R(b, u) /\ R(a, u).at = a
  OBVIOUS
<1> HIDE DEF R
<1>4. PICK u : Shows(d, y) = R(y.pos, u) /\ Shows(e, x) = R(x.pos, u)
  BY <1>2, Zenon
<1>5. [R(y.pos, u) EXCEPT !.at = x.pos] = R(x.pos, u) /\ R(y.pos, u).at = y.pos
  BY <1>3
<1> QED
  BY <1>4, <1>5

\* FileSpec overwrites bytes as put does.
LEMMA AbstractOverwrite ==
    ASSUME NEW b, NEW o, NEW data
    PROVE  Abstract!Overwrite(b, o, data) = put(b, o, data)
<1>1. \A T : Abstract!Max(T) = Max(T)
  BY DEF Abstract!Max, Max
<1> QED
  BY <1>1 DEF Abstract!Overwrite, put, Abstract!Zero, Zero

\* A write goes to the file, and what it tells is what is there.
LEMMA WriteShows ==
    ASSUME TypeOK, NEW h, Writes(h)
    PROVE  Abstract!Call(ret')
<1> DEFINE x == hnd[h]
           f == x.file
           o == IF x.append THEN Len(disk[f]) ELSE x.pos
<1>0. IsOpen(h)
  BY DEF Writes
<1>1. /\ h \in Handles /\ x \in FileState /\ f \in Files /\ disk[f] \in Seq(Byte) /\ Len(disk[f]) \in Nat
      /\ x.pos \in Nat /\ x.buf \in Seq(Byte) /\ o \in Nat
  BY <1>0, OpenHandle, LenProperties
<1> DEFINE W(data, w) ==
         /\ o + Len(data) <= MaxLen
         /\ disk' = [disk EXCEPT ![f] = put(@, o, SubSeq(data, 1, w.n))]
         /\ hnd' = [hnd EXCEPT ![h].pos = IF w.n = 0 THEN @ ELSE o + w.n]
         /\ ret' = [op |-> "write", h |-> h, data |-> data, n |-> w.n]
<1>16. PICK data \in Data : \E w \in count_write(data) : W(data, w)
  BY DEF Writes
<1>2. PICK w \in count_write(data) : W(data, w)
  BY <1>16
<1>3. x.writable
  BY DEF Writes
<1>4. Len(data) \in Nat /\ w.n \in 0..Len(data)
  BY BytesAssumption, LenProperties DEF count_write
<1> DEFINE p == IF w.n = 0 THEN x.pos ELSE o + w.n
           r == [pos |-> p, buf |-> x.buf]
<1>5. p \in Nat /\ r \in Buffered /\ r.pos = p /\ r.buf = x.buf
  <2>1. p \in Nat
    BY <1>1, <1>4
  <2> HIDE DEF p
  <2> QED
    BY <1>1, <2>1 DEF Buffered
<1>6. hnd' = [hnd EXCEPT ![h] = [hnd[h] EXCEPT !.pos = r.pos, !.buf = r.buf]]
  <2>1. hnd' = [hnd EXCEPT ![h] = [hnd[h] EXCEPT !.pos = p]]
    BY <1>1, <1>2 DEF TypeOK
  <2> HIDE DEF p
  <2>2. [hnd[h] EXCEPT !.pos = p] = [hnd[h] EXCEPT !.pos = p, !.buf = hnd[h].buf]
    BY <1>1 DEF FileState
  <2> QED
    BY <2>1, <2>2
<1> HIDE DEF o, p, r
<1>7. /\ Abstract!Keeps(h) /\ \A g \in Handles \ {h} : hnd'[g] = hnd[g]
  BY <1>0, <1>5, <1>6, ReaderMoves
<1>8. /\ View(h) = Shows(disk[f], x) /\ View(h).file = f /\ (View(h).ahead <=> x.buf # <<>>)
      /\ View(h).append = x.append /\ View(h).writable = x.writable /\ Abstract!Bytes(h) = disk[f]
  BY <1>0, ViewOfReader DEF ReaderOf
<1>9. ASSUME NEW g \in Handles \ {h} PROVE View(g)' \in Abstract!Seen(g, f)
  <2>1. \A k \in Files \ {f} : disk'[k] = disk[k]
    BY <1>1, <1>2 DEF TypeOK
  <2>2. hnd'[g] = hnd[g]
    BY <1>7
  <2> QED
    BY <2>1, <2>2, ViewSeen
<1>10. ASSUME ~View(h).ahead PROVE View(h)' = [View(h) EXCEPT !.at = IF w.n = 0 THEN @ ELSE o + w.n]
  <2> DEFINE y == [hnd[h] EXCEPT !.pos = r.pos, !.buf = r.buf]
  <2>1. /\ hnd'[h] = y /\ y.st = "open" /\ y.file = f /\ y.pos = p /\ y.buf = <<>>
        /\ y.append = x.append /\ y.readable = x.readable /\ y.writable = x.writable
    <3>1. /\ y.st = "open" /\ y.file = f /\ y.pos = r.pos /\ y.buf = r.buf
          /\ y.append = x.append /\ y.readable = x.readable /\ y.writable = x.writable
      BY <1>1 DEF FileState
    <3>2. hnd'[h] = y
      BY <1>1, <1>6 DEF TypeOK
    <3> HIDE DEF y
    <3> QED
      BY <1>5, <1>8, <1>10, <3>1, <3>2
  <2> HIDE DEF y
  <2>2. IsOpen(h)'
    BY <1>1, <2>1 DEF IsOpen
  <2>3. View(h)' = Shows(disk'[f], y)
    BY <2>1, <2>2, ViewIs
  <2>4. Shows(disk'[f], y) = [Shows(disk[f], x) EXCEPT !.at = p] /\ Shows(disk[f], x).at = x.pos
    BY <1>1, <1>5, <1>8, <1>10, <2>1, ShowsAtFile
  <2>5. View(h)' = [View(h) EXCEPT !.at = p] /\ View(h).at = x.pos
    BY <1>8, <2>3, <2>4
  <2> QED
    BY <2>5 DEF p
<1>11. o \in IF View(h).append THEN {Len(Abstract!Bytes(h))}
             ELSE IF View(h).ahead THEN 0..(Len(Abstract!Bytes(h)) + MaxLen) ELSE {View(h).at}
  <2>1. CASE View(h).append
    BY <1>8, <2>1 DEF o
  <2>2. CASE ~View(h).append /\ View(h).ahead
    <3>1. o <= MaxLen /\ MaxLen \in Nat
      BY <1>1, <1>2, <1>4, BoundsAssumption
    <3>2. o \in 0..(Len(disk[f]) + MaxLen)
      BY <1>1, <3>1
    <3> QED
      BY <1>8, <2>2, <3>2
  <2>3. CASE ~View(h).append /\ ~View(h).ahead
    <3>1. View(h).at = x.pos
      BY <1>0, <1>1, <1>8, <2>3, ShowsAtFile
    <3> QED
      BY <1>8, <2>3, <3>1 DEF o
  <2> QED
    BY <2>1, <2>2, <2>3
<1>12. disk' = [disk EXCEPT ![View(h).file] = Abstract!Overwrite(@, o, SubSeq(data, 1, w.n))]
  BY <1>2, <1>8, AbstractOverwrite
<1>13. w.n <= Len(data)
  BY <1>4
<1>14. Abstract!Write(h, data, w.n)
  BY <1>1, <1>3, <1>7, <1>8, <1>9, <1>10, <1>11, <1>12, <1>13 DEF Abstract!Write
<1>15. ret'.op = "write" /\ ret'.h = h /\ ret'.data = data /\ ret'.n = w.n
  BY <1>2
<1> QED
  BY <1>14, <1>15, CallIs

\* One round of a loop is a read, or the end that closes the file.
LEMMA RoundShows ==
    ASSUME TypeOK, NoBareHex, lines_iter
    PROVE  Abstract!Call(ret')
<1>1. /\ IsOpen(iter.h) /\ iter.h \in Handles /\ iter.fmts \in Seq(Format) /\ iter.fmts # <<>>
      /\ disk' = disk
  BY RoundIs
<1>2. PICK o \in do_read(iter.h, iter.fmts) :
         \/ /\ o.vals[1] = Nil
            /\ hnd' = [hnd EXCEPT ![iter.h] = Closed]
            /\ ret' = [Answer(iter.h, iter.fmts, o) EXCEPT !.op = IF @ = "read" THEN "end" ELSE @]
         \/ hnd' = Reader(iter.h, o.r) /\ ret' = Answer(iter.h, iter.fmts, o)
  BY RoundIs
<1>3. ~BareHex(disk[hnd[iter.h].file])
  BY <1>1, OpenHandle DEF NoBareHex
<1>4. CASE /\ o.vals[1] = Nil
           /\ hnd' = [hnd EXCEPT ![iter.h] = Closed]
           /\ ret' = [Answer(iter.h, iter.fmts, o) EXCEPT !.op = IF @ = "read" THEN "end" ELSE @]
  BY <1>1, <1>3, <1>4, EndShows
<1>5. CASE hnd' = Reader(iter.h, o.r) /\ ret' = Answer(iter.h, iter.fmts, o)
  BY <1>1, <1>3, <1>5, ReadShows
<1> QED
  BY <1>2, <1>4, <1>5

\* Every step of the library is a call of FileSpec.
LEMMA StepShows ==
    ASSUME TypeOK, NoBareHex, Next
    PROVE  Abstract!Call(ret')
<1>1. ASSUME NEW h, close_handle(h) PROVE Abstract!Call(ret')
  <2>1. IsOpen(h) /\ hnd' = [hnd EXCEPT ![h] = Closed] /\ disk' = disk /\ ret'.op = "close" /\ ret'.h = h
    BY <1>1 DEF close_handle
  <2>2. Abstract!Close(h)
    BY <2>1, CloseShows
  <2> QED
    BY <2>1, <2>2, CallIs
<1>2. ASSUME NEW h, Reads(h) PROVE Abstract!Call(ret')
  <2>1. PICK fmts \in Formats : \E o \in do_read(h, fmts) : hnd' = Reader(h, o.r) /\ ret' = Answer(h, fmts, o)
    BY <1>2 DEF Reads
  <2>2. IsOpen(h) /\ disk' = disk /\ fmts \in Seq(Format)
    BY <1>2, FormatsAssumption DEF Reads
  <2>3. ~BareHex(disk[hnd[h].file])
    BY <2>2, OpenHandle DEF NoBareHex
  <2> QED
    BY <2>1, <2>2, <2>3, ReadShows
<1>3. CASE lua_open
  BY <1>3, OpenShows DEF lua_open
<1>4. CASE lua_input
  BY <1>4, OpenShows, NothingShows DEF lua_input
<1>5. CASE lua_output
  BY <1>5, OpenShows, NothingShows DEF lua_output
<1>6. CASE lua_file_close \/ lua_close
  BY <1>1, <1>6 DEF lua_file_close, lua_close
<1>7. CASE collect
  <2>1. PICK h \in Handles :
           /\ hnd' = [hnd EXCEPT ![h] = NoHandle] /\ disk' = disk
           /\ ret' = IF IsOpen(h) THEN [op |-> "close", h |-> h] ELSE [op |-> "none"]
    BY <1>7 DEF collect
  <2>2. CASE IsOpen(h)
    <3>1. Abstract!Close(h)
      BY <2>1, <2>2, CloseShows
    <3>2. ret'.op = "close" /\ ret'.h = h
      BY <2>1, <2>2
    <3> QED
      BY <3>1, <3>2, CallIs
  <2>3. CASE ~IsOpen(h)
    <3>1. ret' = [op |-> "none"]
      BY <2>1, <2>3
    <3>2. \A g \in Handles : View(g)' = View(g)
      <4>1. \A g \in Handles \ {h} : hnd'[g] = hnd[g]
        BY <2>1 DEF TypeOK
      <4>2. \A g \in Handles \ {h} : View(g)' = View(g)
        BY <2>1, <4>1, ViewKept
      <4>3. ~IsOpen(h)'
        BY <2>1 DEF TypeOK, IsOpen, NoHandle
      <4>4. View(h)' = View(h)
        BY <2>3, <4>3, ViewIs
      <4> QED
        BY <4>2, <4>4
    <3> QED
      BY <2>1, <3>1, <3>2, NoneShows
  <2> QED
    BY <2>2, <2>3
<1>8. CASE lua_file_read \/ lua_read
  BY <1>2, <1>8 DEF lua_file_read, lua_read
<1>9. CASE lua_file_write \/ lua_write
  BY <1>9, WriteShows DEF lua_file_write, lua_write
<1>10. CASE lua_file_seek
  BY <1>10, SeekShows
<1>11. CASE lua_lines
  BY <1>11, OpenShows, NothingShows DEF lua_lines
<1>12. CASE lua_file_lines
  BY <1>12, NothingShows DEF lua_file_lines
<1>13. CASE lines_iter
  BY <1>13, RoundShows
<1>14. CASE leave_loop
  BY <1>14, NothingShows DEF leave_loop
<1> QED
  BY <1>3, <1>4, <1>5, <1>6, <1>7, <1>8, <1>9, <1>10, <1>11, <1>12, <1>13, <1>14 DEF Next

LEMMA InitShows == Init => Abstract!Init
<1> SUFFICES ASSUME Init PROVE Abstract!Init
  OBVIOUS
<1>1. \A h \in Handles : View(h) = ShutView
  <2>1. \A h \in Handles : ~IsOpen(h)
    BY DEF Init, IsOpen, NoHandle
  <2> QED
    BY <2>1, ViewIs
<1> QED
  BY <1>1 DEF Abstract!Init, Abstract!Shut, ShutView

LEMMA StutterShows ==
    ASSUME UNCHANGED vars
    PROVE  UNCHANGED Abstract!vars
<1>1. \A h \in Handles : View(h)' = View(h)
  BY ViewKept DEF vars
<1> QED
  BY <1>1 DEF vars, Abstract!vars

\* A file handle is a file and one position in it, although the library reads
\* ahead and writes below what it has read: every call opens, reads, writes,
\* seeks and closes as FileSpec says, whatever the OS makes of it, as long as
\* no file has a 0x. that the scanner takes for a number (do_read, write_bytes,
\* lua_file_seek and lines_iter of builtin/io.rs).
THEOREM FilesAlwaysBehave == Spec /\ []NoBareHex => FilesBehave
<1>1. Init => Abstract!Init
  BY InitShows
<1>2. TypeOK /\ NoBareHex /\ [Next]_vars => [Abstract!Next]_Abstract!vars
  BY StepShows, StutterShows DEF Abstract!Next
<1>3. Spec => []TypeOK
  BY IoTypeCorrect
<1> QED
  BY <1>1, <1>2, <1>3, PTL DEF Spec, FilesBehave, Abstract!Spec
=============================================================================

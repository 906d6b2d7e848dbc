------------------------------ MODULE Numerals ------------------------------
(***************************************************************************)
(* The lexical conventions of numerals, as the manual states them for the  *)
(* read format "n" (lua_manual.of:8803).  A numeral is a sign, a prefix,   *)
(* a mantissa and an exponent; all but the mantissa may be missing.  Each  *)
(* class of characters is represented by a few of its members.             *)
(***************************************************************************)
EXTENDS Integers, SequencesExt, FiniteSetsExt

NL == "\n"
Whitespace == {NL, " "}
Signs == {"+", "-"}
DecDigits == {"0", "1"}
HexDigits == DecDigits \cup {"e"}

Digits(hex) == IF hex THEN HexDigits ELSE DecDigits
Mark(hex) == IF hex THEN "p" ELSE "e"

IsPrefixPart(x, hex) == IF hex THEN x = <<"0", "x">> ELSE x = <<>>

IsMantissa(m, hex) ==
    /\ Range(m) \subseteq Digits(hex) \cup {"."}
    /\ \A i, j \in DOMAIN m : m[i] = "." /\ m[j] = "." => i = j

HasDigit(m, hex) == Range(m) \cap Digits(hex) # {}

IsExponent(e, hex) ==
    e # <<>> => /\ e[1] = Mark(hex)
                /\ Len(e) > 1 => e[2] \in Signs \cup DecDigits
                /\ \A i \in 3..Len(e) : e[i] \in DecDigits

\* tok is a sign, a prefix, a mantissa that ends at b, and an exponent.
SignLen(tok) == IF tok # <<>> /\ tok[1] \in Signs THEN 1 ELSE 0
Start(tok, hex) == SignLen(tok) + IF hex THEN 2 ELSE 0
Mantissa(tok, hex, b) == SubSeq(tok, Start(tok, hex) + 1, b)
Exponent(tok, b) == SubSeq(tok, b + 1, Len(tok))

IsSplit(tok, hex, b) ==
    /\ Start(tok, hex) <= b
    /\ IsPrefixPart(SubSeq(tok, SignLen(tok) + 1, Start(tok, hex)), hex)
    /\ IsMantissa(Mantissa(tok, hex, b), hex) /\ IsExponent(Exponent(tok, b), hex)

IsNumeral(tok) == \E hex \in BOOLEAN, b \in 0..Len(tok) :
    /\ IsSplit(tok, hex, b) /\ HasDigit(Mantissa(tok, hex, b), hex)
    /\ LET e == Exponent(tok, b) IN e = <<>> \/ Last(e) \in DecDigits

\* What can be continued to a numeral.
IsNumeralPrefix(tok) == \E hex \in BOOLEAN, b \in 0..Len(tok) :
    /\ IsSplit(tok, hex, b)
    /\ Exponent(tok, b) = <<>> \/ HasDigit(Mantissa(tok, hex, b), hex)

\* The bytes of `rest` that format "n" reads, and the numeral among them.
Blanks(rest) == LET c == {i \in DOMAIN rest : rest[i] \notin Whitespace}
                IN  IF c = {} THEN Len(rest) ELSE Min(c) - 1
LongestPrefix(s) ==
    SubSeq(s, 1, Max({k \in 0..Len(s) : IsNumeralPrefix(SubSeq(s, 1, k))}))
=============================================================================

-------------------------- MODULE PatternSemantics --------------------------
(***************************************************************************)
(* The meaning of patterns (lua_manual.of, section "Patterns").  A pattern *)
(* is a sequence of items, and an item with a suffix matches in several    *)
(* ways, of which it prefers the longest or the shortest.  Matches lists   *)
(* all the ways a pattern matches, the preferred ones first: there is no   *)
(* backtracking and nothing to undo.                                       *)
(***************************************************************************)
EXTENDS Integers, SequencesExt, FiniteSetsExt

NUL == "nul"

\* Items.  A class is written as `bytes` and matches the characters `is`.
Class(bytes, is, suffix) == [k |-> "class", bytes |-> bytes \o suffix, is |-> is, suffix |-> suffix]
Open == [k |-> "open", bytes |-> <<"(">>]
Close == [k |-> "close", bytes |-> <<")">>]
Pos == [k |-> "position", bytes |-> <<"(", ")">>]
End == [k |-> "end", bytes |-> <<"$">>]
Back(n, digit) == [k |-> "back", n |-> n, bytes |-> <<"%", digit>>]
Balance(b, e) == [k |-> "balance", b |-> b, e |-> e, bytes |-> <<"%", "b", b, e>>]
Frontier(bytes, is) == [k |-> "frontier", is |-> is, bytes |-> <<"%", "f">> \o bytes]

\* A pattern is anchored or not, and has items.
Written(p) == (IF p.anchor THEN <<"^">> ELSE <<>>) \o FlattenSeq([i \in DOMAIN p.items |-> p.items[i].bytes])

Opens(items) == {i \in DOMAIN items : items[i].k = "open"}
Closes(items) == {i \in DOMAIN items : items[i].k = "close"}

\* The item that closes the capture opened at i.
ClosedBy(items, i) ==
    LET within(j) == SubSeq(items, i, j)
        at == {j \in Closes(items) : /\ j > i
                                     /\ Cardinality(Opens(within(j))) = Cardinality(Closes(within(j)))}
    IN  IF at = {} THEN Len(items) + 1 ELSE Min(at)

\* Item i begins capture n, in the order of the parentheses.
Begins(items, i, n) ==
    LET starts == {j \in 1..i : items[j].k \in {"open", "position"}}
    IN  i \in starts /\ Cardinality(starts) = n

\* Parentheses are paired, and a back-reference follows the capture it names.
WellFormed(items) ==
    /\ \A i \in Opens(items) : ClosedBy(items, i) <= Len(items)
    /\ \A j \in Closes(items) : \E i \in Opens(items) : ClosedBy(items, i) = j
    /\ \A i \in DOMAIN items : items[i].k = "back" =>
          \E j \in 1..(i - 1) :
             /\ Begins(items, j, items[i].n)
             /\ items[j].k = "open" => ClosedBy(items, j) < i

\* How many characters a class item may take from offset s, preferred first.
Repeats(src, item, s) ==
    LET most == Max({n \in 0..(Len(src) - s) : \A k \in 1..n : src[s + k] \in item.is})
    IN  CASE item.suffix = <<>>    -> IF most > 0 THEN <<1>> ELSE <<>>
          [] item.suffix = <<"?">> -> IF most > 0 THEN <<1, 0>> ELSE <<0>>
          [] item.suffix = <<"*">> -> [i \in 1..(most + 1) |-> most + 1 - i]
          [] item.suffix = <<"+">> -> [i \in 1..most |-> most + 1 - i]
          [] item.suffix = <<"-">> -> [i \in 1..(most + 1) |-> i - 1]

\* The balanced strings at s begin and end with the brackets, and every
\* beginning of them has more b than e.
BalancedTo(src, s, b, e) ==
    LET n(c, k) == Cardinality({i \in (s + 1)..k : src[i] = c})
        ends == {k \in (s + 1)..Len(src) : n(b, k) = n(e, k)}
    IN  IF s < Len(src) /\ src[s + 1] = b /\ ends # {} THEN <<Min(ends) - s>> ELSE <<>>

At(src, s) == IF s \in DOMAIN src THEN src[s] ELSE NUL

Text(src, c) == SubSeq(src, c[2] + 1, c[3])

\* The lengths an item other than a parenthesis may take at s.
Lengths(src, item, s, caps) ==
    CASE item.k = "class" -> Repeats(src, item, s)
      [] item.k = "end" -> IF s = Len(src) THEN <<0>> ELSE <<>>
      [] item.k = "balance" -> BalancedTo(src, s, item.b, item.e)
      [] item.k = "frontier" ->
           IF At(src, s) \notin item.is /\ At(src, s + 1) \in item.is THEN <<0>> ELSE <<>>
      [] item.k = "back" ->
           LET c == caps[item.n]
           IN  IF c[1] = "str" /\ IsPrefix(Text(src, c), SubSeq(src, s + 1, Len(src)))
               THEN <<c[3] - c[2]>> ELSE <<>>

\* The captures once a parenthesis is passed at s.
Captured(item, s, caps) ==
    CASE item.k = "open" -> Append(caps, <<"open", s>>)
      [] item.k = "position" -> Append(caps, <<"pos", s + 1>>)
      [] item.k = "close" ->
           LET l == Max({i \in DOMAIN caps : caps[i][1] = "open"})
           IN  [caps EXCEPT ![l] = <<"str", caps[l][2], s>>]

\* The ways items i, i + 1, ... match at s: where they end, with the captures.
RECURSIVE Matches(_, _, _, _, _)
RECURSIVE InEachWay(_, _, _, _, _, _)
Matches(src, items, i, s, caps) ==
    IF i > Len(items) THEN <<[e |-> s, caps |-> caps]>>
    ELSE IF items[i].k \in {"open", "position", "close"}
    THEN Matches(src, items, i + 1, s, Captured(items[i], s, caps))
    ELSE InEachWay(src, items, i, s, caps, Lengths(src, items[i], s, caps))

\* The ways that begin with item i taking one of the lengths given.
InEachWay(src, items, i, s, caps, lengths) ==
    IF lengths = <<>> THEN <<>>
    ELSE Matches(src, items, i + 1, s + Head(lengths), caps)
         \o InEachWay(src, items, i, s, caps, Tail(lengths))

NoMatch == [s |-> -1, e |-> -1, caps |-> <<>>]

\* The preferred match at s.
MatchAt(src, p, s) ==
    LET ways == Matches(src, p.items, 1, s, <<>>)
    IN  IF ways = <<>> THEN NoMatch ELSE [s |-> s, e |-> ways[1].e, caps |-> ways[1].caps]

\* The first match at or after s that ends beyond `last`.
FirstFrom(src, p, s, last) ==
    LET starts == {k \in s..(IF p.anchor THEN Min({s, Len(src)}) ELSE Len(src)) :
                      MatchAt(src, p, k).e > last}
    IN  IF starts = {} THEN NoMatch ELSE MatchAt(src, p, Min(starts))

\* The matches a loop over the subject finds, the first at or after s: each is
\* the first after the one before it, and an empty one does not follow it
\* at once.
RECURSIVE AllMatches(_, _, _, _)
AllMatches(src, p, s, last) ==
    LET m == FirstFrom(src, p, s, last)
    IN  IF m.s = -1 THEN <<>>
        ELSE <<m>> \o IF p.anchor THEN <<>> ELSE AllMatches(src, p, m.e, m.e)

\* The subject with each match replaced by the string given for it.
Replaced(src, ms, with) ==
    LET from(i) == IF i = 1 THEN 0 ELSE ms[i - 1].e
        upto == IF ms = <<>> THEN 0 ELSE Last(ms).e
    IN  FlattenSeq([i \in DOMAIN ms |-> SubSeq(src, from(i) + 1, ms[i].s) \o with[i]])
        \o SubSeq(src, upto + 1, Len(src))

\* The captures a function sees: the whole match if the pattern has none.
Whole(m) == IF m.caps = <<>> THEN <<<<"str", m.s, m.e>>>> ELSE m.caps

\* A replacement string has parts: the character `is`, or the whole match or
\* a capture, n.
TemplateBytes(t) == FlattenSeq([i \in DOMAIN t |-> t[i].bytes])
Expanded(src, m, t) ==
    FlattenSeq([i \in DOMAIN t |->
        CASE t[i].n = -1 -> <<t[i].is>>
          [] t[i].n = 0 -> SubSeq(src, m.s + 1, m.e)
          [] t[i].n > 0 -> LET c == Whole(m)[t[i].n]
                           IN  IF c[1] = "str" THEN Text(src, c) ELSE <<ToString(c[2])>>])
=============================================================================

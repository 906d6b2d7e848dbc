----------------------------- MODULE MCPatterns -----------------------------
(* Patterns of up to three items, and longer ones with captures.           *)
EXTENDS Patterns

OrderValue == <<"(", ")", "a", "b">>
Bytes == Range(OrderValue)
MembersValue == [c \in {"a", "A"} |-> IF c = "a" THEN {"a", "b"} ELSE (Bytes \cup {NUL}) \ {"a", "b"}]

Marks == {<<>>, <<"*">>, <<"+">>, <<"-">>, <<"?">>}
Letter(q) == Class(<<"a">>, {"a"}, q)
Dot(q) == Class(<<".">>, Bytes, q)
NotA(q) == Class(<<"[", "^", "a", "]">>, (Bytes \cup {NUL}) \ {"a"}, q)
Interval(q) == Class(<<"[", "a", "-", "b", "]">>, {"a", "b"}, q)
Escape(q) == Class(<<"%", "A">>, (Bytes \cup {NUL}) \ {"a", "b"}, q)
Mixed(q) == Class(<<"[", "%", "A", "b", "]">>, (Bytes \cup {NUL}) \ {"a"}, q)
Paren(q) == Class(<<"%", "(">>, {"("}, q)

Starred == {Letter(q) : q \in Marks} \cup {Dot(<<"*">>), Dot(<<"-">>)}
Classes == Starred \cup {NotA(<<"*">>), NotA(<<>>), Interval(<<"-">>), Escape(<<"?">>), Mixed(<<"+">>), Paren(<<>>)}
Others == {Open, Close, Pos, Back(1, "1"), Balance("(", ")"),
           Frontier(<<"[", "a", "]">>, {"a"}), Frontier(<<"[", "^", "a", "]">>, (Bytes \cup {NUL}) \ {"a"})}

\* "()" is one item.
IsWritten(items) == \A i \in 1..(Len(items) - 1) : ~(items[i] = Open /\ items[i + 1] = Close)

Pattern(anchor, items) == [anchor |-> anchor, items |-> items]
Short == {items \in BoundedSeq(Classes \cup Others, 2) : IsWritten(items)}
Long == {<<Open, x, Close, y>> : x \in Starred, y \in {End, Back(1, "1"), Letter(<<>>), Back(2, "2")}}
        \cup {<<x, Open, y, Close, z>> : x, y \in Starred, z \in {End, Letter(<<>>), Back(1, "1")}}
        \cup {<<Open, x, Open, y, Close, Close, z>> : x, y \in Starred, z \in {Back(2, "2"), Letter(<<>>)}}
        \cup {<<Pos, x, Pos, y>> : x, y \in Starred}
        \cup {<<Pos, x, Pos, y, Pos>> : x, y \in {Letter(<<"*">>)}}
        \cup {<<x, y, z>> : x, y \in Starred, z \in {End, Letter(<<>>)}}

PatternsValue == {Pattern(a, items) : a \in BOOLEAN, items \in Short} \cup {Pattern(FALSE, items) : items \in Long}
LoopItems == {Letter(q) : q \in Marks} \cup {Dot(<<"-">>)}
LoopsValue == {Pattern(a, items) : a \in BOOLEAN, items \in
                 {<<x>> : x \in LoopItems} \cup {<<Open, x, Close>> : x \in LoopItems}
                 \cup {<<>>, <<Pos>>, <<Letter(<<"*">>), Pos>>, <<Letter(<<"?">>), Dot(<<>>)>>, <<Dot(<<"-">>), End>>,
                       <<Frontier(<<"[", "a", "]">>, {"a"})>>}}

SubjectsValue == BoundedSeq({"a", "b"}, 3) \cup {<<"(", "(", ")">>, <<"a", "(", ")", ")">>}
Lit(c) == [bytes |-> <<c>>, is |-> c, n |-> -1]
TemplatesValue == {<<>>, <<Lit("x"), [bytes |-> <<"%", "1">>, n |-> 1]>>,
                   <<[bytes |-> <<"%", "0">>, n |-> 0], [bytes |-> <<"%", "%">>, is |-> "%", n |-> -1]>>}
=============================================================================

----------------------------- MODULE MCMachine -----------------------------
(* Families of small programs for Machine.                                 *)
EXTENDS Machine

MCGlobals == [g |-> Num(5), echo |-> Native, obj |-> <<"tab", 1>>]

a == Id("a")
b == Id("b")
f == Id("f")
N(n) == Lit(Num(n))
echo(args) == Call(Id("echo"), args)
Log(args) == CallStmt(echo(args))

\* Conditions over a truthy local, a falsy one, a global, constants and calls.
Atoms == {a, b, Id("g"), N(3), Lit(False), Bin("<", a, N(2)), Bin("~=", a, b)}
Small == Atoms \cup {Not(x) : x \in {a, b, Bin("<", a, N(2))}}
Logic(ls, rs) == {Bin(op, l, r) : op \in {"and", "or"}, l \in ls, r \in rs}
Deep == LET two == Logic({a, b, N(3), Bin("<", a, N(2))}, {b, Not(a), Bin("~=", a, b), echo(<<a>>)})
        IN  Logic(two, {a, Lit(False), Bin("==", a, b)}) \cup Logic({b, N(3), Bin("~=", a, b)}, two)
            \cup {Not(x) : x \in two} \cup {Paren(x) : x \in two}
Conditions == Small \cup Logic(Small, Small) \cup Deep

Where(c) == {
    <<Local(<<"x">>, <<c>>), Log(<<Id("x"), a>>)>>,
    <<Assign(<<Id("g")>>, <<c>>), Log(<<Id("g"), b>>)>>,
    <<If(c, <<Log(<<N(1)>>)>>, <<Log(<<N(2)>>)>>), Log(<<a, b>>)>>,
    <<While(c, <<Log(<<a>>), Break>>), Log(<<b>>)>>,
    <<Return(<<c>>)>>,
    <<If(c, <<Return(<<a>>)>>, <<>>)>>,
    <<Log(<<c, c>>)>>
}
ConditionPrograms == {<<Local(<<"a", "b">>, <<N(1), Lit(False)>>)>> \o s : s \in UNION {Where(c) : c \in Conditions}}
-----------------------------------------------------------------------------
(* Lists of values: what calls and ... give where one or more are wanted.  *)

two == Id("two")   \* function(p) return p, 2 end
va == Id("va")     \* function(p, ...) return ..., p end
Prelude == <<
    LocalFn("two", Fn(<<"p">>, FALSE, <<Return(<<Id("p"), N(2)>>)>>)),
    LocalFn("va", Fn(<<"p">>, TRUE, <<Local(<<"x", "y">>, <<Dots>>), Return(<<Id("y"), Id("p"), Dots>>)>>)),
    Local(<<"a", "b", "t", "c", "d">>, <<N(1), Lit(False), Id("obj")>>)>>

Singles == {N(7), a, Id("g"), Paren(Call(two, <<a>>)), Bin("+", a, N(1)), Bin("and", a, b), Not(b)}
Multis == {Call(two, <<a>>), Call(va, <<>>), Call(va, <<a, b, N(8)>>), echo(<<>>), echo(<<a, b, a>>)}
Spread == Multis \cup {Method(Id("t"), <<b>>), Call(va, <<Call(two, <<b>>)>>)}
Lists == {<<x>> : x \in Singles \cup Spread} \cup {<<x, y>> : x \in Singles \cup Multis, y \in Spread \cup {N(7), b}}
         \cup {<<x, y, z>> : x \in {a, Call(two, <<a>>)}, y \in {b, N(7)}, z \in Spread}

\* Known exception: return f(), g() (see ReturnPrograms).
IsCall(e) == e.t \in {"call", "method"} \/ (e.t = "paren" /\ e.e.t \in {"call", "method"})
Returnable(es) == ~(IsCall(Last(es)) /\ \E i \in 1..(Len(es) - 1) : IsCall(es[i]))

Targets(n) == SubSeq(<<Id("c"), Id("g"), Id("d")>>, 1, n)
Uses(es) == {
    <<Local(<<"x">>, es), Log(<<Id("x"), a>>)>>,
    <<Local(<<"x", "y", "z">>, es), Log(<<Id("z"), Id("y"), Id("x"), b>>)>>,
    <<Log(es), Log(<<a, b>>)>>,
    <<Return(IF Returnable(es) THEN es ELSE <<a>>)>>,
    <<CallStmt(Call(va, es)), Log(<<a, b>>)>>,
    <<Local(<<"x">>, <<TableOf([i \in DOMAIN es |-> Pos(es[i])])>>),
      Log([i \in 1..4 |-> Index(Id("x"), N(i))])>>
} \cup {<<Assign(Targets(n), es), Log(<<Id("c"), Id("g"), Id("d")>>)>> :
            n \in Len(es)..(IF Last(es).t = "method" THEN Len(es) ELSE 3)}

ListPrograms == {Prelude \o s : s \in UNION {Uses(es) : es \in Lists}}
-----------------------------------------------------------------------------
(* Closures, loops, tables and assignments.                                *)

c == Id("c")
t == Id("t")
n == Id("n")
Inc(x, k) == Assign(<<x>>, <<Bin("+", x, N(k))>>)
Counter == Fn(<<>>, FALSE, <<Inc(n, 1), Return(<<n>>)>>)
CallOf(x, args) == CallStmt(Call(x, args))

ClosurePrograms == {
    \* two closures and their function share a variable
    <<Local(<<"n">>, <<N(1)>>), LocalFn("f", Counter), LocalFn("c", Fn(<<"n">>, FALSE, <<CallOf(f, <<>>), Return(<<n>>)>>)),
      Log(<<Call(f, <<>>), Call(c, <<n>>), n>>), Inc(n, 3), Log(<<Call(f, <<>>), n>>)>>,
    \* each call has variables of its own, that outlive it
    <<LocalFn("mk", Fn(<<"n">>, FALSE, <<Return(<<Counter, Fn(<<>>, FALSE, <<Return(<<n>>)>>)>>)>>)),
      Local(<<"a", "b">>, <<Call(Id("mk"), <<N(1)>>)>>), Local(<<"c">>, <<Call(Id("mk"), <<N(7)>>)>>),
      Log(<<Call(a, <<>>), Call(c, <<>>), Call(b, <<>>), Call(a, <<>>), Call(b, <<>>)>>)>>,
    \* a variable two functions up, and a constant
    <<Local(<<"n">>, <<N(1)>>), LocalConst("k", N(2)),
      LocalFn("f", Fn(<<>>, FALSE, <<LocalFn("h", Fn(<<"b">>, FALSE,
          <<Assign(<<n>>, <<Bin("+", n, Id("k"))>>), Return(<<Bin("..", n, b)>>)>>)), Return(<<Call(Id("h"), <<n>>)>>)>>)),
      Log(<<Call(f, <<>>), n>>), Return(<<f, Bin("==", f, f), n>>)>>,
    \* recursion, and extra arguments of a closure
    <<LocalFn("f", Fn(<<"n">>, TRUE, <<If(Bin("<", n, N(1)), <<Return(<<Dots>>)>>, <<>>),
                                       Return(<<Call(f, <<Bin("+", n, N(-1)), n, Dots>>)>>)>>)),
      Log(<<Call(f, <<N(2), N(9)>>)>>), Return(<<N(0), Call(f, <<N(2)>>)>>)>>,
    <<LocalFn("f", Fn(<<"n">>, FALSE, <<If(Bin("<", n, N(1)), <<Return(<<N(0)>>)>>, <<>>),
                                        Return(<<Bin("+", n, Call(f, <<Bin("+", n, N(-1))>>))>>)>>)),
      Return(<<Call(f, <<N(3)>>)>>)>>,
    \* a parameter captured and then passed on by a tail call
    <<LocalFn("id", Fn(<<"x">>, TRUE, <<Return(<<Id("x"), Dots>>)>>)),
      LocalFn("f", Fn(<<"n">>, TRUE, <<LocalFn("c", Counter), CallOf(c, <<>>), Return(<<Call(Id("id"), <<c, n, Dots>>)>>)>>)),
      Local(<<"c", "a", "b">>, <<Call(f, <<N(4), N(5)>>)>>), Log(<<Call(c, <<>>), a, b>>)>>,
    \* assignments to an upvalue and to a field through one
    <<Local(<<"t">>, <<TableOf(<<Field("x", N(1)), Pos(N(2))>>)>>),
      LocalFn("f", Fn(<<>>, FALSE, <<Assign(<<Prop(t, "x"), Index(t, N(1))>>, <<Index(t, N(1)), Prop(t, "x")>>)>>)),
      CallOf(f, <<>>), Log(<<Prop(t, "x"), Index(t, N(1))>>)>>
}

Bodies == {<<Log(<<Id("i")>>)>>, <<If(Bin("==", Id("i"), N(2)), <<Break>>, <<>>), Log(<<Id("i"), n>>)>>,
           <<Local(<<"x">>, <<Bin("+", Id("i"), n)>>), If(Bin("<", Id("x"), N(3)), <<Inc(n, 1)>>, <<Do(<<Log(<<Id("x")>>), Break>>)>>)>>}
LoopPrograms ==
    {<<Local(<<"n">>, <<N(0)>>), ForNum("i", N(x), N(y), N(z), body), Log(<<n>>)>> :
        x \in 1..2, y \in 0..3, z \in {-1, 1, 2}, body \in Bodies}
    \cup {<<Local(<<"n", "i">>, <<N(0), N(0)>>), loop, Log(<<n, Id("i")>>)>> : loop \in
            {While(Bin("<", Id("i"), N(3)), <<Inc(Id("i"), 1)>> \o body) : body \in Bodies}
            \cup {Repeat(<<Inc(Id("i"), 1), Local(<<"z">>, <<Id("i")>>)>> \o body,
                         Bin(op, Bin(">", Id("z"), N(2)), Bin("==", Id("z"), N(k)))) :
                    body \in Bodies, op \in {"and", "or"}, k \in {3}}
            \cup {ForNum("i", n, Call(Id("echo"), <<N(2)>>), N(1),
                         <<While(Lit(True), <<ForNum("j", N(1), Id("i"), N(1), <<Log(<<Id("i"), Id("j")>>)>>), Break>>)>>)}}
    \cup {<<Local(<<"n">>, <<N(k)>>),
            ElseIf(Bin("<", n, N(1)), <<Log(<<N(1)>>)>>, ElseIf(Bin("<", n, N(2)), <<Return(<<n>>)>>,
                If(Bin("==", n, N(2)), <<Log(<<N(2)>>)>>, else))), Log(<<n>>)>> :
            k \in 0..3, else \in {<<>>, <<Log(<<N(3)>>)>>, <<Return(<<>>)>>}}

Entries == {Pos(N(1)), Pos(Id("g")), Pos(Bin("or", b, a)), Field("x", a), Pair(N(2), Call(f, <<a>>)), Pair(Id("g"), N(4))}
TablePrograms ==
    {<<Local(<<"a", "b">>, <<N(1), Lit(False)>>), LocalFn("f", Fn(<<"p">>, FALSE, <<Return(<<Id("p"), N(6)>>)>>)),
       Local(<<"t">>, <<TableOf(es)>>),
       Log(<<Index(t, N(1)), Index(t, N(2)), Index(t, N(3)), Index(t, N(4)), Index(t, N(5)), Prop(t, "x")>>)>> :
        es \in {<<>>} \cup {<<x, y>> : x, y \in Entries}
               \cup {<<Pos(N(7)), x, Pos(N(8)), y, last>> : x, y \in {Pos(Id("g")), Field("x", a)},
                        last \in {Pos(a), Pos(Call(f, <<a>>)), Pos(Paren(Call(f, <<a>>))), Field("x", Call(f, <<b>>))}}}

Places == {a, b, Id("g"), Index(t, a), Prop(t, "x")}
SwapPrograms ==
    {<<Local(<<"a", "b", "t">>, <<N(1), N(2), TableOf(<<Pos(N(3)), Field("x", N(4))>>)>>),
       Assign(<<p, q>>, <<x, y>>), Log(<<a, b, Id("g"), Index(t, N(1)), Index(t, N(2)), Prop(t, "x")>>)>> :
        <<p, q>> \in {pq \in Places \X Places : pq[1] # pq[2]}, x \in {a, b, Id("g"), Prop(t, "x")}, y \in {a, b}}

\* Known exception: a last method call on a receiver that is no local.
i == Id("i")
s_ == Id("s")
UpTo == Fn(<<"s", "i">>, FALSE, <<If(Bin("<", i, s_), <<Return(<<Bin("+", i, N(1)), s_>>)>>, <<>>)>>)
Iterators == {
    UpTo,
    Fn(<<"s", "i">>, TRUE, <<Log(<<s_, Dots>>), Return(<<Call(Id("upto"), <<s_, i>>)>>)>>),
    Fn(<<"s">>, TRUE, <<Local(<<"i">>, <<Dots>>), If(Bin("<", i, s_), <<Return(<<echo(<<Bin("+", i, N(1)), Dots>>)>>)>>, <<>>)>>)}
Triple == Fn(<<"f", "n">>, TRUE, <<Return(<<Id("f"), n, Dots>>)>>)
Generators == {<<f, N(2), N(0)>>, <<f, N(1), N(0), echo(<<N(9)>>)>>, <<Call(Id("tri"), <<f, N(2), N(0), N(7)>>)>>,
               <<f, echo(<<N(2), N(1)>>)>>, <<Bin("and", n, f), N(0), n>>, <<Paren(f), n, n>>, <<Dots>>, <<f, Dots>>}
EndingGenerators == {<<Id("echo")>>, <<Id("echo"), n>>, <<Id("echo"), Method(t, <<N(3)>>)>>}
GenericBodies == {<<Log(<<i, Id("j")>>)>>, <<If(Bin("==", i, N(2)), <<Break>>, <<>>), Inc(n, 1), Log(<<i, n>>)>>,
                  <<LocalFn("h", Fn(<<>>, FALSE, <<Return(<<i>>)>>)), Log(<<Call(Id("h"), <<>>), Id("j")>>)>>,
                  <<ForNum("k", N(1), i, N(1), <<Log(<<Id("k"), i>>)>>), Return(<<i, Id("j")>>)>>}

GenericPrograms ==
    {<<LocalFn("main", Fn(<<>>, TRUE,
          <<LocalFn("upto", UpTo), LocalFn("f", it), LocalFn("tri", Triple), Local(<<"n">>, <<N(0)>>),
            ForGen(<<"i", "j">>, es, body), Log(<<n>>)>>)),
       CallOf(Id("main"), <<UpTo, N(2), N(0)>>)>> :
        it \in Iterators, es \in Generators \ {<<f, Dots>>}, body \in GenericBodies}
    \cup {<<LocalFn("main", Fn(<<>>, TRUE, <<LocalFn("f", UpTo), ForGen(<<"i", "j", "k">>, <<f, Dots>>,
                <<ForGen(<<"k">>, <<f, i, N(0)>>, <<Log(<<i, Id("k")>>)>>), Log(<<Id("k")>>)>>)>>)),
             CallOf(Id("main"), <<N(2), N(0)>>)>>}
    \cup {<<Local(<<"n", "t">>, <<N(0), Id("obj")>>), ForGen(names, es, <<Log(<<i, n>>), Break>>), Log(<<n>>)>> :
             es \in EndingGenerators, names \in {<<"i">>, <<"i", "j", "k">>}}

\* Known exception: a local declared in the same block after a function
\* statement.
FunctionTargets == {Id("g"), Id("c"), Prop(t, "x"), Prop(Prop(t, "y"), "x"), n}
FunctionPrograms ==
    {<<Local(<<"t", "n", "c">>, <<TableOf(<<Field("y", TableOf(<<>>))>>), N(0)>>),
       LocalFn("f", Fn(<<"a">>, FALSE, <<FuncStmt(target, Fn(<<"p">>, TRUE, <<Return(<<Id("p"), a, Dots>>)>>)),
                                         Log(<<Call(target, <<N(1), N(2)>>), Bin("..", a, a)>>)>>)),
       CallOf(f, <<N(5)>>), Do(<<FuncStmt(target, Counter)>>),
       Local(<<"x">>, <<IF target = n THEN N(0) ELSE Call(target, <<>>)>>), Log(<<Id("x"), Bin("==", n, n)>>)>> :
        target \in FunctionTargets}

MCPrograms ==
    LET sources == ConditionPrograms \cup ListPrograms \cup ClosurePrograms \cup LoopPrograms \cup TablePrograms
                   \cup SwapPrograms \cup GenericPrograms \cup FunctionPrograms
    IN  {Loaded(p, MCGlobals) : p \in sources}
-----------------------------------------------------------------------------
(* Programs that the code does not treat as the manual or its comments say.*)

AssignPrograms ==
    LET source == <<Local(<<"a", "b">>, <<N(1), N(2)>>), Assign(<<a, b>>, <<b, Bin("+", a, b)>>), Log(<<a, b>>)>>
    IN  {Loaded(source, MCGlobals)}

ReturnPrograms ==
    LET source == <<LocalFn("f", Fn(<<"p">>, FALSE, <<Return(<<Id("p")>>)>>)),
                    Return(<<Call(f, <<N(1)>>), Call(f, <<N(2)>>)>>)>>
    IN  {Loaded(source, MCGlobals)}

BlockPrograms ==
    LET source == <<Local(<<"a">>, <<TableOf(<<>>)>>),
                    ForNum("i", N(1), N(2), N(1),
                           <<Local(<<"n">>, <<N(0)>>), Assign(<<Index(a, Id("i"))>>, <<Counter>>)>>),
                    Log(<<Call(Index(a, N(1)), <<>>), Call(Index(a, N(2)), <<>>)>>)>>
    IN  {Loaded(source, MCGlobals)}

WindowPrograms ==
    LET source == <<LocalFn("f", Fn(<<>>, FALSE, <<>>)), CallOf(f, <<echo(<<>>)>>),
                    Local(<<"a", "b", "c">>, <<N(1), N(2), N(3)>>), Log(<<a, b, c>>)>>
    IN  {Loaded(source, MCGlobals)}
FunctionStatementPrograms ==
    LET source == <<FuncStmt(Id("g"), Fn(<<>>, FALSE, <<>>)), Local(<<"a">>, <<N(1)>>),
                    Local(<<"b">>, <<Bin("+", a, N(1))>>), Log(<<a, b>>)>>
    IN  {Loaded(source, MCGlobals)}
=============================================================================

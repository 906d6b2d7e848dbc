---------------------------- MODULE LuaSemantics ----------------------------
(***************************************************************************)
(* A reference interpreter for a core of Lua: what the manual in the       *)
(* repository (lua_manual.of) says a program does.  Codegen compiles the   *)
(* same syntax trees and Machine runs the result; Machine compares.        *)
(*                                                                         *)
(* Syntax trees are records with a field t.  Values are tuples that begin  *)
(* with their kind.  There is one native function: it writes its arguments *)
(* to the log and returns them; and one object, table 1, whose method m it *)
(* is.  Errors are left out: programs add and order integers only, index   *)
(* tables only and call functions only.                                    *)
(***************************************************************************)
EXTENDS Integers, Sequences, TLC

Nil == <<"nil">>
False == <<"false">>
True == <<"true">>
Num(n) == <<"int", n>>
Native == <<"native">>
Bool(b) == IF b THEN True ELSE False

MethodName == <<"name", "m">>
Object == MethodName :> Native

Truthy(v) == v # Nil /\ v # False

\* Binary operators that compute a value from two values; a concatenation is
\* a term.
Operate(op, v, w) == IF op = "+" THEN Num(v[2] + w[2]) ELSE <<op, v, w>>
Compare(op, v, w) ==
    CASE op = "==" -> v = w [] op = "~=" -> v # w
      [] op = "<" -> v[2] < w[2] [] op = ">" -> v[2] > w[2]
      [] op = "<=" -> v[2] <= w[2] [] op = ">=" -> v[2] >= w[2]
Comparisons == {"==", "~=", "<", ">", "<=", ">="}

\* What a log or a result shows of a value: functions have no contents.
View(v) == IF v[1] \in {"closure", "function"} THEN <<"fn">> ELSE v
ViewAll(vs) == [i \in DOMAIN vs |-> View(vs[i])]
-----------------------------------------------------------------------------
(* Syntax                                                                  *)

Lit(v) == [t |-> "lit", v |-> v]
Id(n) == [t |-> "id", n |-> n]
Dots == [t |-> "dots"]
Paren(e) == [t |-> "paren", e |-> e]
Not(e) == [t |-> "not", e |-> e]
Bin(op, l, r) == [t |-> "bin", op |-> op, l |-> l, r |-> r]
Call(f, args) == [t |-> "call", f |-> f, args |-> args]
Method(obj, args) == [t |-> "method", obj |-> obj, args |-> args]
Index(tab, key) == [t |-> "index", tab |-> tab, key |-> key]
Prop(tab, name) == [t |-> "prop", tab |-> tab, name |-> name]
TableOf(entries) == [t |-> "table", entries |-> entries]
Pos(v) == [t |-> "pos", v |-> v]
Field(name, v) == [t |-> "field", name |-> name, v |-> v]
Pair(k, v) == [t |-> "pair", k |-> k, v |-> v]
Fn(params, va, body) == [t |-> "fn", params |-> params, va |-> va, body |-> body]

Local(names, es) == [t |-> "local", names |-> names, es |-> es, const |-> {}]
LocalConst(n, e) == [t |-> "local", names |-> <<n>>, es |-> <<e>>, const |-> {1}]
LocalFn(n, f) == [t |-> "localfn", n |-> n, f |-> f]
Assign(ts, es) == [t |-> "assign", ts |-> ts, es |-> es]
CallStmt(e) == [t |-> "do_call", e |-> e]
If(c, then, else) == [t |-> "if", c |-> c, then |-> then, else |-> else, elseif |-> FALSE]
ElseIf(c, then, if) == [t |-> "if", c |-> c, then |-> then, else |-> <<if>>, elseif |-> TRUE]
While(c, body) == [t |-> "while", c |-> c, body |-> body]
Repeat(body, c) == [t |-> "repeat", c |-> c, body |-> body]
ForNum(n, from, to, step, body) ==
    [t |-> "fornum", n |-> n, from |-> from, to |-> to, step |-> step, body |-> body]
ForGen(names, es, body) == [t |-> "forgen", names |-> names, es |-> es, body |-> body]
FuncStmt(target, f) == [t |-> "func", ts |-> <<target>>, es |-> <<f>>]
Do(body) == [t |-> "do", body |-> body]
Break == [t |-> "break"]
Return(es) == [t |-> "return", es |-> es]

IsMulti(e) == e.t \in {"call", "method", "dots"}
-----------------------------------------------------------------------------
(* Evaluation.  A state has the variables by location, the globals, the    *)
(* tables by identity and the log; an environment has the locations of the *)
(* names in scope and the extra arguments.                                 *)

First(vs) == IF vs = <<>> THEN Nil ELSE vs[1]
Nth(vs, i) == IF i \in DOMAIN vs THEN vs[i] ELSE Nil
Lookup(f, k) == IF k \in DOMAIN f THEN f[k] ELSE Nil

Bind(env, names, st) ==
    [env EXCEPT !.vars = [i \in {names[j] : j \in DOMAIN names} |->
                             Len(st.mem) + (CHOOSE j \in DOMAIN names : names[j] = i)] @@ @]
Store(st, vs, n) == [st EXCEPT !.mem = @ \o [i \in 1..n |-> Nth(vs, i)]]

RECURSIVE Eval(_, _, _), EvalList(_, _, _), Exec(_, _, _), Apply(_, _, _)
RECURSIVE Fill(_, _, _, _, _), AssignAll(_, _, _), Loop(_, _, _), Count(_, _, _, _, _, _), Iterate(_, _, _, _)

One(e, env, st) == LET r == Eval(e, env, st) IN [v |-> First(r.vs), st |-> r.st]

\* The last expression of a list gives all its values, the others one each.
EvalList(es, env, st) ==
    IF es = <<>> THEN [vs |-> <<>>, st |-> st]
    ELSE IF Len(es) = 1 THEN Eval(es[1], env, st)
    ELSE LET a == One(es[1], env, st)
             b == EvalList(Tail(es), env, a.st)
         IN  [vs |-> <<a.v>> \o b.vs, st |-> b.st]

Apply(f, args, st) ==
    IF f = Native THEN [vs |-> args, st |-> [st EXCEPT !.log = Append(@, ViewAll(args))]]
    ELSE LET ps == f[2].params
             env == [Bind(f[3], ps, st) EXCEPT
                        !.va = IF f[2].va THEN SubSeq(args, Len(ps) + 1, Len(args)) ELSE <<>>]
             r == Exec(f[2].body, env, Store(st, args, Len(ps)))
         IN  [vs |-> IF r.sig = "return" THEN r.vs ELSE <<>>, st |-> r.st]

\* The entries of a table constructor from number i on; pos counts the
\* positional ones.
Fill(entries, i, pos, env, r) ==
    IF i > Len(entries) THEN r
    ELSE LET x == entries[i]
             k == IF x.t = "pair" THEN One(x.k, env, r.st)
                  ELSE [v |-> IF x.t = "field" THEN <<"name", x.name>> ELSE Num(pos + 1), st |-> r.st]
             all == Eval(x.v, env, k.st)
             vs == IF i = Len(entries) /\ x.t = "pos" THEN all.vs ELSE <<First(all.vs)>>
             put == [key \in {IF x.t = "pos" THEN Num(pos + j) ELSE k.v : j \in DOMAIN vs} |->
                        IF x.t = "pos" THEN vs[key[2] - pos] ELSE vs[1]]
         IN  Fill(entries, i + 1, IF x.t = "pos" THEN pos + Len(vs) ELSE pos, env,
                  [r EXCEPT !.st = [all.st EXCEPT !.tabs[r.vs[1][2]] = put @@ @]])

Eval(e, env, st) ==
    CASE e.t = "lit" -> [vs |-> <<e.v>>, st |-> st]
      [] e.t = "id" -> [vs |-> <<IF e.n \in DOMAIN env.vars THEN st.mem[env.vars[e.n]]
                                 ELSE Lookup(st.glob, e.n)>>, st |-> st]
      [] e.t = "dots" -> [vs |-> env.va, st |-> st]
      [] e.t = "fn" -> [vs |-> <<(<<"function", e, env>>)>>, st |-> st]
      [] e.t = "paren" -> LET r == One(e.e, env, st) IN [vs |-> <<r.v>>, st |-> r.st]
      [] e.t = "not" -> LET r == One(e.e, env, st) IN [vs |-> <<Bool(~Truthy(r.v))>>, st |-> r.st]
      [] e.t = "bin" /\ e.op \in {"and", "or"} ->
            LET l == One(e.l, env, st)
                r == One(e.r, env, l.st)
            IN  IF Truthy(l.v) = (e.op = "or") THEN [vs |-> <<l.v>>, st |-> l.st]
                ELSE [vs |-> <<r.v>>, st |-> r.st]
      [] e.t = "bin" /\ e.op \notin {"and", "or"} ->
            LET l == One(e.l, env, st)
                r == One(e.r, env, l.st)
            IN  [vs |-> <<IF e.op \in Comparisons THEN Bool(Compare(e.op, l.v, r.v))
                          ELSE Operate(e.op, l.v, r.v)>>, st |-> r.st]
      [] e.t = "call" -> LET f == One(e.f, env, st)
                             a == EvalList(e.args, env, f.st)
                         IN  Apply(f.v, a.vs, a.st)
      [] e.t = "method" -> LET o == One(e.obj, env, st)
                               a == EvalList(e.args, env, o.st)
                           IN  Apply(Lookup(o.st.tabs[o.v[2]], MethodName), <<o.v>> \o a.vs, a.st)
      [] e.t \in {"index", "prop"} ->
            LET o == One(e.tab, env, st)
                k == IF e.t = "index" THEN One(e.key, env, o.st)
                     ELSE [v |-> <<"name", e.name>>, st |-> o.st]
            IN  [vs |-> <<Lookup(k.st.tabs[o.v[2]], k.v)>>, st |-> k.st]
      [] e.t = "table" ->
            Fill(e.entries, 1, 0, env,
                 [vs |-> <<(<<"tab", Len(st.tabs) + 1>>)>>,
                  st |-> [st EXCEPT !.tabs = Append(@, [k \in {} |-> Nil])]])

\* The places that a list of targets stands for; their parts are evaluated
\* before the values are.
AssignAll(ts, env, st) ==
    IF ts = <<>> THEN [ps |-> <<>>, st |-> st]
    ELSE LET x == ts[1]
             o == IF x.t = "id" THEN [v |-> Nil, st |-> st] ELSE One(x.tab, env, st)
             k == IF x.t = "index" THEN One(x.key, env, o.st)
                  ELSE [v |-> <<"name", IF x.t = "id" THEN x.n ELSE x.name>>, st |-> o.st]
             rest == AssignAll(Tail(ts), env, k.st)
         IN  [ps |-> <<[tab |-> o.v, key |-> k.v]>> \o rest.ps, st |-> rest.st]

SetPlace(p, v, env, st) ==
    IF p.tab # Nil THEN [st EXCEPT !.tabs[p.tab[2]] = (p.key :> v) @@ @]
    ELSE IF p.key[2] \in DOMAIN env.vars THEN [st EXCEPT !.mem[env.vars[p.key[2]]] = v]
    ELSE [st EXCEPT !.glob = (p.key[2] :> v) @@ @]

Outcome(sig, vs, env, st) == [sig |-> sig, vs |-> vs, env |-> env, st |-> st]

\* A block runs its statements in a scope of its own.
Block(body, env, st) == [Exec(body, env, st) EXCEPT !.env = env]

Loop(s, env, st) ==
    LET c == One(s.c, env, st)
        b == Exec(s.body, env, IF s.t = "while" THEN c.st ELSE st)
        u == One(s.c, b.env, b.st)
    IN  CASE s.t = "while" /\ ~Truthy(c.v) -> Outcome("next", <<>>, env, c.st)
          [] s.t = "while" /\ Truthy(c.v) /\ b.sig = "next" -> Loop(s, env, b.st)
          [] s.t = "repeat" /\ b.sig = "next" ->
                IF Truthy(u.v) THEN Outcome("next", <<>>, env, u.st) ELSE Loop(s, env, u.st)
          [] OTHER -> Outcome(IF b.sig = "break" THEN "next" ELSE b.sig, b.vs, env, b.st)

\* Each iteration of a numeric loop has a control variable of its own.
Count(s, i, to, step, env, st) ==
    IF (step > 0 /\ i > to) \/ (step < 0 /\ i < to) THEN Outcome("next", <<>>, env, st)
    ELSE LET b == Exec(s.body, Bind(env, <<s.n>>, st), Store(st, <<Num(i)>>, 1))
         IN  IF b.sig = "next" THEN Count(s, i + step, to, step, env, b.st)
             ELSE Outcome(IF b.sig = "break" THEN "next" ELSE b.sig, b.vs, env, b.st)

\* A generic loop calls its iterator with the state and the last control
\* value until it gives nil; ctl holds the three.
Iterate(s, ctl, env, st) ==
    LET r == Apply(ctl[1], <<ctl[2], ctl[3]>>, st)
        b == Exec(s.body, Bind(env, s.names, r.st), Store(r.st, r.vs, Len(s.names)))
    IN  IF First(r.vs) = Nil THEN Outcome("next", <<>>, env, r.st)
        ELSE IF b.sig = "next" THEN Iterate(s, <<ctl[1], ctl[2], First(r.vs)>>, env, b.st)
        ELSE Outcome(IF b.sig = "break" THEN "next" ELSE b.sig, b.vs, env, b.st)

Statement(s, env, st) ==
    CASE s.t = "local" ->
            LET r == EvalList(s.es, env, st)
            IN  Outcome("next", <<>>, Bind(env, s.names, r.st), Store(r.st, r.vs, Len(s.names)))
      [] s.t = "localfn" ->
            LET inner == Bind(env, <<s.n>>, st)
            IN  Outcome("next", <<>>, inner, Store(st, <<(<<"function", s.f, inner>>)>>, 1))
      [] s.t \in {"assign", "func"} ->
            LET p == AssignAll(s.ts, env, st)
                r == EvalList(s.es, env, p.st)
                Set[i \in 0..Len(s.ts)] ==
                    IF i = 0 THEN r.st ELSE SetPlace(p.ps[i], Nth(r.vs, i), env, Set[i - 1])
            IN  Outcome("next", <<>>, env, Set[Len(s.ts)])
      [] s.t = "do_call" -> Outcome("next", <<>>, env, Eval(s.e, env, st).st)
      [] s.t = "if" -> LET c == One(s.c, env, st)
                       IN  Block(IF Truthy(c.v) THEN s.then ELSE s.else, env, c.st)
      [] s.t \in {"while", "repeat"} -> Loop(s, env, st)
      [] s.t = "fornum" ->
            LET a == One(s.from, env, st)
                b == One(s.to, env, a.st)
                c == One(s.step, env, b.st)
            IN  Count(s, a.v[2], b.v[2], c.v[2], env, c.st)
      [] s.t = "forgen" ->
            LET r == EvalList(s.es, env, st)
            IN  Iterate(s, [i \in 1..3 |-> Nth(r.vs, i)], env, r.st)
      [] s.t = "do" -> Block(s.body, env, st)
      [] s.t = "break" -> Outcome("break", <<>>, env, st)
      [] s.t = "return" -> LET r == EvalList(s.es, env, st) IN Outcome("return", r.vs, env, r.st)

Exec(ss, env, st) ==
    IF ss = <<>> THEN Outcome("next", <<>>, env, st)
    ELSE LET r == Statement(ss[1], env, st)
         IN  IF r.sig = "next" THEN Exec(Tail(ss), r.env, r.st) ELSE r

\* What a whole program logs and returns.
Meaning(program, globals) ==
    LET r == Exec(program, [vars |-> [n \in {} |-> 0], va |-> <<>>],
                  [mem |-> <<>>, glob |-> globals, tabs |-> <<Object>>, log |-> <<>>])
    IN  [log |-> r.st.log, results |-> ViewAll(r.vs)]
=============================================================================

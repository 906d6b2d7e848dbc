------------------------------ MODULE Codegen ------------------------------
(***************************************************************************)
(* The code generator (compiler/rules.rs and compiler/defs.rs): from the   *)
(* syntax trees of LuaSemantics to bytecode, with the register discipline, *)
(* the jump lists of conditions and the capture of upvalues.               *)
(*                                                                         *)
(* Operators have the names of the code's functions; each takes the        *)
(* context (Ctx with its Chunk) and returns it, alone or in the field c of *)
(* a record with its results.  Tape positions are counted from 0, as in    *)
(* the code, and a jump holds its target instead of an offset.  LOAD holds *)
(* its constant.  Where the code asserts, ok becomes FALSE.  Labels and    *)
(* goto, <close>, global declarations and named varargs are left out, and  *)
(* so is the limit of 255 registers.                                       *)
(***************************************************************************)
EXTENDS LuaSemantics, SequencesExt

CONSTANT SETLIST_BATCH  \* array items per SETLIST: 50

ASSUME BatchAssumption == SETLIST_BATCH \in Nat \ {0}

NO_REG == 255
NoHint == -1
NoJump == -1

At(c, i) == c.tape[i + 1]
Put(c, i, instr) == [c EXCEPT !.tape[i + 1] = instr]
Check(c, p) == [c EXCEPT !.ok = @ /\ p]

Chunk_new ==
    [tape |-> <<>>, prototypes |-> <<>>, freereg |-> 0, nactvar |-> 0, max_stack |-> 0,
     labels |-> <<>>, jump_patches |-> <<>>, last_target |-> 0,
     control_end_label |-> <<>>, scope |-> <<>>, upvalues |-> <<>>, ok |-> TRUE]

emit(c, instr) == [c EXCEPT !.tape = Append(@, instr)]
next_offset(c) == Len(c.tape)
-----------------------------------------------------------------------------
(* Registers                                                               *)

AtLeast(c, n) == IF n > c.max_stack THEN [c EXCEPT !.max_stack = n] ELSE c

\* The registers reserved are the n from the old freereg on.
reserve_regs(c, n) ==
    AtLeast([Check(c, c.nactvar <= c.freereg) EXCEPT !.freereg = @ + n], c.freereg + n)
reserve_reg(c) == reserve_regs(c, 1)

free_reg(c, reg) ==
    IF reg >= c.nactvar THEN [Check(c, reg + 1 = c.freereg) EXCEPT !.freereg = @ - 1] ELSE c

free_regs(c, r1, r2) ==
    IF r1 > r2 THEN free_reg(free_reg(c, r1), r2) ELSE free_reg(free_reg(c, r2), r1)

adjust_locals(c, n) == [Check(c, c.nactvar + n <= c.freereg) EXCEPT !.nactvar = @ + n]

\* The register that dst_or_alloc gives.
Dst(c, hint) == IF hint = NoHint THEN c.freereg ELSE hint

\* Mutant of dst_or_alloc: a hint above the cursor does not count towards the
\* frame.
dst_or_alloc_uncounted(c, hint) ==
    IF hint = NoHint THEN reserve_reg(c)
    ELSE IF c.freereg <= hint THEN [c EXCEPT !.freereg = hint + 1]
    ELSE c

dst_or_alloc(c, hint) ==
    IF hint = NoHint THEN reserve_reg(c)
    ELSE IF c.freereg <= hint THEN AtLeast([c EXCEPT !.freereg = hint + 1], hint + 1)
    ELSE c

\* while freereg <= reg { alloc_register() }
AllocThrough(c, reg) == IF c.freereg <= reg THEN reserve_regs(c, reg + 1 - c.freereg) ELSE c

Move(c, dst, src) == emit(c, [op |-> "MOVE", dst |-> dst, src |-> src])
MoveUnless(c, dst, src) == IF dst = src THEN c ELSE Move(c, dst, src)
Load(c, dst, v) == emit(c, [op |-> "LOAD", dst |-> dst, v |-> v])
-----------------------------------------------------------------------------
(* Labels and jumps                                                        *)

new_label(c) == [c EXCEPT !.labels = Append(@, 0)]

Targeted(c, pos) == IF pos > c.last_target THEN [c EXCEPT !.last_target = pos] ELSE c

set_label(c, label) == Targeted([c EXCEPT !.labels[label] = next_offset(c)], next_offset(c))

emit_jump_instr(c, label, instr) ==
    emit([c EXCEPT !.jump_patches = Append(@, <<next_offset(c), label>>)], instr)

\* An unfilled jump goes to the next instruction; its index is the old offset.
Jmp(c) == [op |-> "JMP", to |-> next_offset(c) + 1]
emit_jump(c, label) == emit_jump_instr(c, label, Jmp(c))
emit_unfilled_jmp(c) == emit(c, Jmp(c))

Controls == {"EQ", "LT", "LE", "TEST", "TESTSET"}
IsTestSet(i) == i.op = "TESTSET" /\ i.dst = NO_REG
Test(i) == [op |-> "TEST", src |-> i.src, inverted |-> ~i.inverted]

assert_ctrl_predecessor(c, jmp) == Check(c, jmp = 0 \/ At(c, jmp - 1).op \in Controls)

downgrade_testsets(c, list) ==
    LET One_(d, jmp) ==
            LET a == assert_ctrl_predecessor(d, jmp)
            IN  IF jmp # 0 /\ IsTestSet(At(d, jmp - 1)) THEN Put(a, jmp - 1, Test(At(d, jmp - 1))) ELSE a
    IN  FoldLeft(One_, c, list)

JumpTo(c, jmp, target) == Put(Check(c, At(c, jmp).op = "JMP"), jmp, [op |-> "JMP", to |-> target])

patch_to(c, list, target) ==
    LET One_(d, jmp) == JumpTo(d, jmp, target)
    IN  Targeted(FoldLeft(One_, downgrade_testsets(c, list), list), target)

\* A jump of the list that ends the tape, under a test without effect, would
\* jump to its own successor: both are removed.
RECURSIVE patch_to_here(_, _)
patch_to_here(c, list) ==
    LET end == next_offset(c)
        tail == {j \in ToSet(list) : j + 1 = end /\ j # 0
                                     /\ (At(c, j - 1).op = "TEST" \/ IsTestSet(At(c, j - 1)))}
    IN  IF tail = {} THEN patch_to(c, list, end)
        ELSE LET j == CHOOSE k \in tail : TRUE
                 used == {c.labels[c.jump_patches[i][2]] : i \in DOMAIN c.jump_patches}
             IN  patch_to_here([Check(c, /\ \A i \in DOMAIN c.jump_patches : c.jump_patches[i][1] < j - 1
                                         /\ \A l \in used : l <= j - 1)
                                    EXCEPT !.tape = SubSeq(@, 1, j - 1)],
                               SelectSeq(list, LAMBDA x : x # j))

need_value(c, list) == \E i \in DOMAIN list : list[i] = 0 \/ ~IsTestSet(At(c, list[i] - 1))

patch_list_aux(c, list, vtarget, reg, dtarget) ==
    LET One_(d, jmp) ==
            LET i == At(d, jmp - 1)
                a == assert_ctrl_predecessor(d, jmp)
            IN  IF jmp # 0 /\ IsTestSet(i)
                THEN JumpTo(Put(a, jmp - 1, IF i.src = reg THEN Test(i) ELSE [i EXCEPT !.dst = reg]),
                            jmp, vtarget)
                ELSE JumpTo(a, jmp, dtarget)
    IN  FoldLeft(One_, c, list)

emit_test_jump(c, src, jump_if_truthy) ==
    emit_unfilled_jmp(emit(c, [op |-> "TESTSET", dst |-> NO_REG, src |-> src, inverted |-> ~jump_if_truthy]))

flip_control_polarity(c, jmp) ==
    IF jmp = 0 THEN c
    ELSE IF At(c, jmp - 1).op \notin Controls THEN Check(c, FALSE)
    ELSE Put(c, jmp - 1, [At(c, jmp - 1) EXCEPT !.inverted = ~@])
-----------------------------------------------------------------------------
(* Expression descriptors                                                  *)

Desc(kind, x) == [kind |-> kind, x |-> x, true_list |-> <<>>, false_list |-> <<>>]
from_reg(reg) == Desc("Reg", reg)

\* Numeral, Bool and Nil: constants that have no register yet.
Constant(v) == Desc("Const", v)
IsConst(e) == e.kind = "Const"
IsNumeral(e) == IsConst(e) /\ e.x[1] = "int"

has_jumps(e) ==
    e.true_list # <<>> \/ e.false_list # <<>> \/ (e.kind = "Jump" /\ e.x # NoJump)

\* Where a value and a context are passed on together.
With(c, e) == [c |-> c, e |-> e]

codenot(c, operand, kind, x) ==
    With(downgrade_testsets(downgrade_testsets(c, operand.true_list), operand.false_list),
         [kind |-> kind, x |-> x, true_list |-> operand.false_list, false_list |-> operand.true_list])

negate_cond(c, e) ==
    With(FoldLeft(flip_control_polarity, Check(c, e.kind # "Jump" \/ e.x = NoJump),
                  e.true_list \o e.false_list),
         [e EXCEPT !.true_list = e.false_list, !.false_list = e.true_list])

\* The register a descriptor's value goes to: its own, unless that is a hint
\* to honour or a local to protect.
Home(c, e, hint) ==
    IF e.kind = "Jump" THEN Dst(c, hint)
    ELSE IF hint # NoHint /\ hint # e.x THEN hint
    ELSE IF hint = NoHint /\ e.x < c.nactvar THEN c.freereg
    ELSE e.x

\* The tail that makes the lists of e join in dst: LFALSESKIP and LOAD true
\* when some jump carries no value, with the value in dst jumping over them.
Join(c, e, dst, is_jump) ==
    LET need_tail == need_value(c, e.false_list) \/ need_value(c, e.true_list)
        skip == ~is_jump /\ need_tail
        s == IF skip THEN emit_unfilled_jmp(c) ELSE c
        ft == next_offset(s)
        t == IF need_tail THEN Load(emit(s, [op |-> "LFALSESKIP", src |-> dst]), dst, True) ELSE s
        final == next_offset(t)
        p == patch_list_aux(patch_list_aux(t, e.false_list, final, dst, ft), e.true_list, final, dst, ft + 1)
    IN  IF skip THEN JumpTo(p, next_offset(c), final) ELSE p

discharge_to_reg_mut(c, e, hint) ==
    IF e.kind = "Reg" /\ ~has_jumps(e) THEN [c |-> c, e |-> e, r |-> e.x]
    ELSE
    LET loaded == IF IsConst(e) THEN Load(dst_or_alloc(c, hint), Dst(c, hint), e.x) ELSE c
        e1 == IF IsConst(e) THEN [e EXCEPT !.kind = "Reg", !.x = Dst(c, hint)] ELSE e
        is_jump == e1.kind = "Jump"
        dst == Home(loaded, e1, hint)
        placed == IF is_jump THEN dst_or_alloc(loaded, hint)
                  ELSE IF dst = e1.x THEN loaded
                  ELSE Move(dst_or_alloc(loaded, hint), dst, e1.x)
        e2 == IF is_jump /\ e1.x # NoJump THEN [e1 EXCEPT !.true_list = Append(@, e1.x)] ELSE e1
    IN  IF IsConst(e) /\ ~has_jumps(e1) THEN [c |-> loaded, e |-> from_reg(dst), r |-> e1.x]
        ELSE [c |-> IF e2.true_list = <<>> /\ e2.false_list = <<>> THEN placed
                    ELSE Join(placed, e2, dst, is_jump),
              e |-> from_reg(dst), r |-> dst]

\* Fall through when e is truthy (sense TRUE) or falsy, else jump: goiftrue
\* and goiffalse with the lists exchanged.
GoIf(c, e, sense) ==
    LET always == IsConst(e) /\ Truthy(e.x) = sense
        d == IF IsConst(e) THEN discharge_to_reg_mut(c, e, NoHint) ELSE With(c, e)
        into == IF sense THEN "false_list" ELSE "true_list"
        out == IF sense THEN "true_list" ELSE "false_list"
        Push(x, j) == [x EXCEPT ![into] = Append(@, j)]
    IN  CASE always -> With(c, e)
          [] ~always /\ d.e.kind = "Jump" /\ d.e.x # NoJump ->
                With(IF sense THEN flip_control_polarity(d.c, d.e.x) ELSE d.c,
                     Push([d.e EXCEPT !.x = NoJump], d.e.x))
          [] ~always /\ d.e.kind = "Jump" /\ d.e.x = NoJump ->
                IF d.e[into] = <<>> /\ d.e[out] # <<>> THEN negate_cond(d.c, d.e) ELSE d
          [] ~always /\ d.e.kind = "Reg" ->
                LET j == emit_test_jump(free_reg(d.c, d.e.x), d.e.x, ~sense)
                IN  With(j, Push(d.e, next_offset(j) - 1))

goiftrue(c, e) == GoIf(c, e, TRUE)
goiffalse(c, e) == GoIf(c, e, FALSE)
-----------------------------------------------------------------------------
(* Scopes and names                                                        *)

push_scope(c) ==
    [c EXCEPT !.scope = Append(@, [vars |-> [n \in {} |-> 0], freereg |-> c.freereg, nactvar |-> c.nactvar])]

pop_scope(c) ==
    [c EXCEPT !.scope = Front(@), !.freereg = Last(c.scope).freereg, !.nactvar = Last(c.scope).nactvar]

\* value is a compile-time constant, or Unknown.
Unknown == <<"unknown">>
VariableData(reg, const, value) == [register |-> reg, const |-> const, value |-> value]

define(c, name, data) == [c EXCEPT !.scope[Len(c.scope)].vars = (name :> data) @@ @]

ScopesWith(c, name) == {i \in DOMAIN c.scope : name \in DOMAIN c.scope[i].vars}
IsLocal(c, name) == ScopesWith(c, name) # {}
resolve_local(c, name) == c.scope[Max(ScopesWith(c, name))].vars[name]

ParentLocal(reg) == [from |-> "local", i |-> reg]
ParentUpvalue(i) == [from |-> "upvalue", i |-> i]

\* The capture of a name from the enclosing functions: [c, k, x] with k one of
\* "none", "const" (x its value) and "up" (x its index in this function's list).
\* resolve_for_child answers a child with a descriptor instead of an index.
RECURSIVE resolve_for_child(_, _)
resolve_or_capture(c, name) ==
    LET own == {i \in DOMAIN c.upvalues : c.upvalues[i].name = name}
    IN  IF own # {} THEN [c |-> c, k |-> "up", x |-> Min(own)]
        ELSE IF "capture" \notin DOMAIN c THEN [c |-> c, k |-> "none", x |-> 0]
        ELSE LET r == resolve_for_child(c.capture, name)
                 d == [c EXCEPT !.capture = r.c]
             IN  IF r.k # "up" THEN [r EXCEPT !.c = d]
                 ELSE [c |-> [d EXCEPT !.upvalues = Append(@, [name |-> name, desc |-> r.x])],
                       k |-> "up", x |-> Len(c.upvalues) + 1]

resolve_for_child(c, name) ==
    IF IsLocal(c, name)
    THEN LET v == resolve_local(c, name)
         IN  IF v.value # Unknown THEN [c |-> c, k |-> "const", x |-> v.value]
             ELSE [c |-> c, k |-> "up", x |-> ParentLocal(v.register)]
    ELSE LET r == resolve_or_capture(c, name)
         IN  IF r.k = "up" THEN [r EXCEPT !.x = ParentUpvalue(r.x)] ELSE r
-----------------------------------------------------------------------------
(* Expressions                                                             *)

RECURSIVE compile_expr(_, _, _), compile_stmt(_, _)
compile_block(c, ss) == FoldLeft(compile_stmt, c, ss)

compile_expr_to_reg(c, e, dst) ==
    LET d == compile_expr(c, e, dst) IN discharge_to_reg_mut(d.c, d.e, dst)

InReg(c, reg) == With(c, from_reg(reg))

\* Emits an instruction whose destination is the hint or a new register.
EmitTo(c, instr, dst) ==
    InReg(emit(dst_or_alloc(c, dst), [instr EXCEPT !.dst = Dst(c, dst)]), Dst(c, dst))

compile_expr_ident(c, name, dst) ==
    IF IsLocal(c, name)
    THEN LET v == resolve_local(c, name)
         IN  With(c, IF v.value # Unknown THEN Constant(v.value) ELSE from_reg(v.register))
    ELSE LET r == resolve_or_capture(c, name)
             env == resolve_or_capture(dst_or_alloc(r.c, dst), "_ENV")
         IN  CASE r.k = "const" -> With(r.c, Constant(r.x))
               [] r.k = "up" -> EmitTo(r.c, [op |-> "GETUPVAL", dst |-> 0, idx |-> r.x], dst)
               [] r.k = "none" ->
                     InReg(emit(env.c, [op |-> "GETTABUP", dst |-> Dst(r.c, dst), idx |-> env.x, key |-> name]),
                           Dst(r.c, dst))

compile_expr_literal(c, v, dst) ==
    IF v[1] = "name" THEN EmitTo(c, [op |-> "LOAD", dst |-> 0, v |-> v], dst)
    ELSE With(c, Constant(v))

\* not: the other unary operators behave like one-sided arithmetic.
compile_expr_prefix_op(c, operand, dst) ==
    LET inner == compile_expr(c, operand, NoHint)
        e == inner.e
    IN  CASE IsConst(e) /\ ~has_jumps(e) -> With(inner.c, Constant(Bool(~Truthy(e.x))))
          [] IsConst(e) /\ has_jumps(e) -> codenot(inner.c, e, "Const", Bool(~Truthy(e.x)))
          [] e.kind = "Jump" ->
                codenot(flip_control_polarity(Check(inner.c, e.x # NoJump), e.x), e, "Jump", e.x)
          [] e.kind = "Reg" ->
                LET n == EmitTo(free_reg(inner.c, e.x), [op |-> "NOT", dst |-> 0, src |-> e.x], dst)
                IN  codenot(n.c, e, "Reg", n.e.x)

\* Arithmetic, bitwise operators and concatenation; ".." is the concatenation.
compile_expr_binary_op(c, e, dst) ==
    LET lhs == compile_expr(c, e.l, NoHint)
        early == e.op = ".." \/ ~IsNumeral(lhs.e) \/ has_jumps(lhs.e)
        settled == IF early THEN discharge_to_reg_mut(lhs.c, lhs.e, NoHint) ELSE lhs
        rhs == compile_expr(settled.c, e.r, NoHint)
        fold == ~early /\ IsNumeral(rhs.e) /\ ~has_jumps(rhs.e)
        rhs_first == ~early /\ has_jumps(rhs.e)
        a == discharge_to_reg_mut(rhs.c, IF rhs_first THEN rhs.e ELSE settled.e, NoHint)
        b == discharge_to_reg_mut(a.c, IF rhs_first THEN settled.e ELSE rhs.e, NoHint)
        l == IF rhs_first THEN b.r ELSE a.r
        r == IF rhs_first THEN a.r ELSE b.r
    IN  IF fold THEN With(rhs.c, Constant(Operate(e.op, settled.e.x, rhs.e.x)))
        ELSE EmitTo(free_regs(b.c, l, r), [op |-> "ARITH", dst |-> 0, f |-> e.op, lhs |-> l, rhs |-> r], dst)

compile_comparison_desc(c, e) ==
    LET l == compile_expr_to_reg(c, e.l, NoHint)
        r == compile_expr_to_reg(l.c, e.r, NoHint)
        swap == e.op \in {">", ">="}
        cmp == [op |-> CASE e.op \in {"==", "~="} -> "EQ" [] e.op \in {"<", ">"} -> "LT" [] OTHER -> "LE",
                lhs |-> IF swap THEN r.r ELSE l.r, rhs |-> IF swap THEN l.r ELSE r.r,
                inverted |-> e.op # "~="]
        j == emit_unfilled_jmp(emit(r.c, cmp))
    IN  With(free_regs(j, l.r, r.r), Desc("Jump", next_offset(j) - 1))

compile_logical_and_desc(c, e, dst) ==
    LET lhs == compile_expr(c, e.l, dst)
        g == goiftrue(lhs.c, lhs.e)
        rhs == compile_expr(patch_to_here(g.c, g.e.true_list), e.r, dst)
    IN  With(rhs.c, [rhs.e EXCEPT !.false_list = @ \o g.e.false_list])

compile_logical_or_desc(c, e, dst) ==
    LET lhs == compile_expr(c, e.l, dst)
        g == goiffalse(lhs.c, lhs.e)
        rhs == compile_expr(patch_to_here(g.c, g.e.false_list), e.r, dst)
    IN  With(rhs.c, [rhs.e EXCEPT !.true_list = @ \o g.e.true_list])

compile_expr_index(c, e, dst) ==
    LET tab == compile_expr_to_reg(c, e.tab, NoHint)
        key == compile_expr_to_reg(tab.c, e.key, NoHint)
    IN  EmitTo(free_regs(key.c, tab.r, key.r), [op |-> "GETTABLE", dst |-> 0, table |-> tab.r, key |-> key.r], dst)

compile_expr_property(c, e, dst) ==
    LET tab == compile_expr_to_reg(c, e.tab, NoHint)
    IN  EmitTo(free_reg(tab.c, tab.r), [op |-> "GETFIELD", dst |-> 0, table |-> tab.r, key |-> e.name], dst)
-----------------------------------------------------------------------------
(* Calls.  An operand of 0 stands for all values up to the top.            *)

RECURSIVE compile_expr_func_call(_, _, _)

\* A last expression, from register target on; multi says that the number of
\* its values is known at run time only.
compile_trailing_multires(c, e, target) ==
    IF e.t \in {"call", "method"}
    THEN [c |-> compile_expr_func_call(AllocThrough(c, target - 1), e, 0).c, multi |-> TRUE]
    ELSE IF e.t = "dots"
    THEN [c |-> emit(AllocThrough(c, target), [op |-> "VARARG", dst |-> target, count |-> 0]), multi |-> TRUE]
    ELSE LET d == compile_expr_to_reg(c, e, target)
         IN  [c |-> IF d.r = target THEN d.c ELSE Move(AllocThrough(d.c, target), target, d.r), multi |-> FALSE]

compile_call_args(c, args, func, offset) ==
    LET n == Len(args)
        Arg(a, i) ==
            LET expected == func + offset + i - 1
                d == compile_expr_to_reg(a.c, args[i], expected)
            IN  IF i = n THEN compile_trailing_multires(a.c, args[i], expected)
                ELSE [a EXCEPT !.c = IF d.r = expected THEN d.c
                                     ELSE Move(AllocThrough(d.c, expected), expected, d.r)]
        r == FoldLeft(Arg, [c |-> c, multi |-> FALSE], [i \in 1..n |-> i])
    IN  [c |-> r.c, wire |-> IF r.multi THEN 0 ELSE n + offset]

emit_func_call_setup(c, e) ==
    LET f == compile_expr_to_reg(c, e.f, NoHint)
        needs_copy == f.r + 1 # f.c.freereg \/ f.r < f.c.nactvar
        func == IF needs_copy THEN f.c.freereg ELSE f.r
        args == compile_call_args(IF needs_copy THEN Move(reserve_reg(f.c), func, f.r) ELSE f.c, e.args, func, 1)
    IN  [c |-> args.c, func |-> func, wire |-> args.wire]

emit_method_call_setup(c, e) ==
    LET object == compile_expr_to_reg(c, e.obj, NoHint)
        func == object.c.freereg
        self == emit(reserve_reg(object.c), [op |-> "SELF", dst |-> func, object |-> object.r])
        args == compile_call_args(AllocThrough(self, func + 1), e.args, func, 2)
    IN  [c |-> args.c, func |-> func, wire |-> args.wire]

CallSetup(c, e) == IF e.t = "method" THEN emit_method_call_setup(c, e) ELSE emit_func_call_setup(c, e)

\* compile_expr_func_call and compile_expr_method_call: returns is the wanted
\* number of results plus one, or 0 for all of them.
compile_expr_func_call(c, e, returns) ==
    LET s == CallSetup(c, e)
        d == emit(s.c, [op |-> "CALL", func |-> s.func, args |-> s.wire, returns |-> returns])
    IN  [c |-> IF returns = 0 THEN d ELSE [d EXCEPT !.freereg = s.func + returns - 1], r |-> s.func]

\* Also the tail call of a method.
compile_tail_func_call(c, e) ==
    LET s == CallSetup(c, e)
    IN  [emit(s.c, [op |-> "TAILCALL", func |-> s.func, args |-> s.wire]) EXCEPT !.freereg = s.func]
-----------------------------------------------------------------------------
(* Table constructors and functions                                        *)

compile_expr_table(c, e) ==
    LET dst == c.freereg
        base == dst + 1
        SetList(a, n) == [c |-> [emit(a.c, [op |-> "SETLIST", table |-> dst, count |-> n,
                                            offset |-> a.count - a.pending]) EXCEPT !.freereg = base],
                          count |-> a.count, pending |-> 0]
        Flush(a) == IF a.pending > 0 THEN SetList(a, a.pending) ELSE a
        Entry(a, i) ==
            LET x == e.entries[i]
                slot == base + a.pending
                v == compile_expr_to_reg(a.c, x.v, slot)
                added == [c |-> IF v.r = slot THEN v.c
                                ELSE free_reg(Move(AllocThrough(v.c, slot), slot, v.r), v.r),
                          count |-> a.count + 1, pending |-> a.pending + 1]
                f == Flush(a)
                k == compile_expr_to_reg(f.c, IF x.t = "pair" THEN x.k ELSE x.v, NoHint)
                kv == compile_expr_to_reg(k.c, x.v, NoHint)
            IN  CASE x.t = "pos" /\ i = Len(e.entries) /\ IsMulti(x.v) ->
                        SetList([a EXCEPT !.c = compile_trailing_multires(a.c, x.v, slot).c], 0)
                  [] x.t = "pos" /\ ~(i = Len(e.entries) /\ IsMulti(x.v)) ->
                        IF added.pending >= SETLIST_BATCH THEN Flush(added) ELSE added
                  [] x.t = "field" ->
                        [f EXCEPT !.c = free_reg(emit(k.c, [op |-> "SETFIELD", src |-> k.r, table |-> dst,
                                                            key |-> x.name]), k.r)]
                  [] x.t = "pair" ->
                        [f EXCEPT !.c = free_regs(emit(kv.c, [op |-> "SETTABLE", src |-> kv.r, table |-> dst,
                                                              key |-> k.r]), kv.r, k.r)]
        new == emit(reserve_reg(c), [op |-> "NEWTABLE", dst |-> dst])
    IN  InReg(Flush(FoldLeft(Entry, [c |-> new, count |-> 0, pending |-> 0],
                             [i \in DOMAIN e.entries |-> i])).c, dst)

\* Resolves the jumps to labels.
assemble(c, num_params, is_vararg) ==
    LET Patch(t, p) == [t EXCEPT ![p[1] + 1].to = c.labels[p[2]]]
    IN  [code |-> FoldLeft(Patch, c.tape, c.jump_patches), prototypes |-> c.prototypes,
         upvalue_desc |-> [i \in DOMAIN c.upvalues |-> c.upvalues[i].desc],
         num_params |-> num_params, is_vararg |-> is_vararg, max_stack_size |-> c.max_stack]

NeedsReturn(c) ==
    next_offset(c) <= c.last_target \/ c.tape = <<>> \/ Last(c.tape).op \notin {"RETURN", "TAILCALL"}

compile_function_to_chunk(chunk, params, is_vararg, body) ==
    LET Param(c, name) == define(reserve_reg(c), name, VariableData(c.freereg, FALSE, Unknown))
        start == IF is_vararg THEN emit(push_scope(chunk), [op |-> "VARARGPREP"]) ELSE push_scope(chunk)
        b == compile_block(adjust_locals(FoldLeft(Param, start, params), Len(params)), body)
    IN  pop_scope(IF NeedsReturn(b) THEN emit(b, [op |-> "RETURN", values |-> 0, count |-> 1]) ELSE b)

compile_nested(c, f, dst) ==
    LET child == compile_function_to_chunk(("capture" :> c) @@ Chunk_new, f.params, f.va, f.body)
        proto == assemble(child, Len(f.params), f.va)
        parent == [Check(child.capture, child.ok) EXCEPT !.prototypes = Append(@, proto)]
    IN  EmitTo(parent, [op |-> "CLOSURE", dst |-> 0, proto |-> Len(parent.prototypes)], dst)

compile_expr(c, e, dst) ==
    CASE e.t = "lit" -> compile_expr_literal(c, e.v, dst)
      [] e.t = "id" -> compile_expr_ident(c, e.n, dst)
      [] e.t = "paren" -> compile_expr(c, e.e, dst)
      [] e.t = "not" -> compile_expr_prefix_op(c, e.e, dst)
      [] e.t = "bin" /\ e.op \in Comparisons -> compile_comparison_desc(c, e)
      [] e.t = "bin" /\ e.op = "and" -> compile_logical_and_desc(c, e, dst)
      [] e.t = "bin" /\ e.op = "or" -> compile_logical_or_desc(c, e, dst)
      [] e.t = "bin" /\ e.op \notin Comparisons \cup {"and", "or"} -> compile_expr_binary_op(c, e, dst)
      [] e.t \in {"call", "method"} -> LET d == compile_expr_func_call(c, e, 2) IN InReg(d.c, d.r)
      [] e.t = "index" -> compile_expr_index(c, e, dst)
      [] e.t = "prop" -> compile_expr_property(c, e, dst)
      [] e.t = "dots" -> EmitTo(c, [op |-> "VARARG", dst |-> 0, count |-> 2], dst)
      [] e.t = "table" -> compile_expr_table(c, e)
      [] e.t = "fn" -> compile_nested(c, e, dst)
-----------------------------------------------------------------------------
(* Declarations and assignments                                            *)

\* The n results of a method call, moved down to base when the receiver is
\* in the way.
expand_method_call(c, e, base, n) ==
    LET call == compile_expr_func_call(c, e, n + 1)
        Down(d, k) == Move(d, base + k - 1, call.r + k - 1)
    IN  IF call.r = base THEN call.c
        ELSE [FoldLeft(Down, call.c, [k \in 1..n |-> k]) EXCEPT !.freereg = base + n]

\* A last value that stands for the n values still wanted from base on.
ExpandLast(c, e, base, n) ==
    CASE e.t = "call" -> LET call == compile_expr_func_call(c, e, n + 1) IN Check(call.c, call.r = base)
      [] e.t = "method" -> expand_method_call(c, e, base, n)
      [] e.t = "dots" -> emit(Check(reserve_regs(c, n), c.freereg = base),
                              [op |-> "VARARG", dst |-> base, count |-> n + 1])

\* A value found in register r is made to end at expected, and what was
\* leaked above is released.
Settle(r, expected) ==
    IF r.r # expected THEN Move(reserve_reg([r.c EXCEPT !.freereg = expected]), expected, r.r)
    ELSE IF r.c.freereg > expected + 1 THEN [r.c EXCEPT !.freereg = expected + 1]
    ELSE r.c

\* while freereg < to { reserve_reg(); emit(LOAD nil) }
PadNil(c, to) ==
    LET Pad(d, r) == Load(reserve_reg(d), r, Nil)
    IN  FoldLeft(Pad, c, [k \in 1..(to - c.freereg) |-> c.freereg + k - 1])

compile_decl(c, s) ==
    LET base == c.freereg
        nt == Len(s.names)
        nv == Len(s.es)
        Value(a, i) ==
            LET expected == base + i - 1
                d == compile_expr(a.c, s.es[i], NoHint)
                r == discharge_to_reg_mut(d.c, d.e, NoHint)
                known == IF IsConst(d.e) /\ ~has_jumps(d.e) THEN d.e.x ELSE Unknown
            IN  IF i = nv /\ nt > nv /\ IsMulti(s.es[i])
                THEN [a EXCEPT !.c = ExpandLast(a.c, s.es[i], expected, nt - i + 1)]
                ELSE [c |-> Settle(r, expected), known |-> Append(a.known, known)]
        v == FoldLeft(Value, [c |-> c, known |-> <<>>], [i \in 1..nv |-> i])
        p == PadNil(v.c, base + nt)
        Known(i) == IF base + i - 1 >= v.c.freereg THEN Nil
                    ELSE IF i \in DOMAIN v.known THEN v.known[i] ELSE Unknown
        Bound(d, i) == define(d, s.names[i], VariableData(base + i - 1, i \in s.const,
                                                          IF i \in s.const THEN Known(i) ELSE Unknown))
    IN  adjust_locals(FoldLeft(Bound, p, [i \in 1..nt |-> i]), nt)

compile_local_function(c, s) ==
    LET reg == c.freereg
    IN  compile_nested(adjust_locals(define(reserve_reg(c), s.n, VariableData(reg, FALSE, Unknown)), 1), s.f, reg).c

compile_indexed_subexpr(c, e, locals) ==
    LET r == compile_expr_to_reg(c, e, NoHint)
    IN  IF r.r \notin locals THEN [c |-> r.c, r |-> r.r]
        ELSE [c |-> Move(reserve_reg(r.c), r.c.freereg, r.r), r |-> r.c.freereg]

compile_lvalue(c, x, locals) ==
    CASE x.t = "id" /\ IsLocal(c, x.n) -> [c |-> c, lv |-> [k |-> "Local", dst |-> resolve_local(c, x.n).register]]
      [] x.t = "id" /\ ~IsLocal(c, x.n) ->
            LET r == resolve_or_capture(c, x.n)
                env == resolve_or_capture(r.c, "_ENV")
            IN  IF r.k = "up" THEN [c |-> r.c, lv |-> [k |-> "Upvalue", idx |-> r.x]]
                ELSE [c |-> env.c, lv |-> [k |-> "Global", idx |-> env.x, key |-> x.n]]
      [] x.t = "index" ->
            LET tab == compile_indexed_subexpr(c, x.tab, locals)
                key == compile_indexed_subexpr(tab.c, x.key, locals)
            IN  [c |-> key.c, lv |-> [k |-> "Indexed", table |-> tab.r, key |-> key.r]]
      [] x.t = "prop" ->
            LET tab == compile_indexed_subexpr(c, x.tab, locals)
            IN  [c |-> tab.c, lv |-> [k |-> "Field", table |-> tab.r, key |-> x.name]]

RECURSIVE expr_reads(_, _, _)
expr_reads(c, e, reg) ==
    CASE e.t \in {"lit", "dots", "fn"} -> FALSE
      [] e.t = "id" -> IsLocal(c, e.n) /\ resolve_local(c, e.n).register = reg
      [] e.t \in {"paren", "not"} -> expr_reads(c, e.e, reg)
      [] e.t = "bin" -> expr_reads(c, e.l, reg) \/ expr_reads(c, e.r, reg)
      [] e.t = "index" -> expr_reads(c, e.tab, reg) \/ expr_reads(c, e.key, reg)
      [] e.t = "prop" -> expr_reads(c, e.tab, reg)
      [] e.t = "call" -> expr_reads(c, e.f, reg) \/ \E i \in DOMAIN e.args : expr_reads(c, e.args[i], reg)
      [] e.t = "method" -> expr_reads(c, e.obj, reg) \/ \E i \in DOMAIN e.args : expr_reads(c, e.args[i], reg)
      [] e.t = "table" -> \E i \in DOMAIN e.entries :
                             \/ expr_reads(c, e.entries[i].v, reg)
                             \/ e.entries[i].t = "pair" /\ expr_reads(c, e.entries[i].k, reg)

any_reads(c, es, reg) == \E i \in DOMAIN es : expr_reads(c, es[i], reg)

local_dst(lv) == IF lv.k = "Local" THEN lv.dst ELSE NoHint

emit_store(c, lv, src) ==
    CASE lv.k = "Local" -> MoveUnless(c, lv.dst, src)
      [] lv.k = "Upvalue" -> emit(c, [op |-> "SETUPVAL", src |-> src, idx |-> lv.idx])
      [] lv.k = "Global" -> emit(c, [op |-> "SETTABUP", src |-> src, idx |-> lv.idx, key |-> lv.key])
      [] lv.k = "Indexed" -> emit(c, [op |-> "SETTABLE", src |-> src, table |-> lv.table, key |-> lv.key])
      [] lv.k = "Field" -> emit(c, [op |-> "SETFIELD", src |-> src, table |-> lv.table, key |-> lv.key])

\* Mutant of SaveSource: no source is copied.
SaveSource_never(a, j, lvs) == a

\* Pass 3 for slot j: a source that an earlier store overwrites is copied.
SaveSource(a, j, lvs) ==
    IF a.pending[j] = NoHint \/ \A i \in 1..(j - 1) : local_dst(lvs[i]) # a.pending[j] THEN a
    ELSE [c |-> Move(reserve_reg(a.c), a.c.freereg, a.pending[j]), pending |-> [a.pending EXCEPT ![j] = a.c.freereg]]

\* pending holds the register to store from, or NoHint where the value was
\* computed in its target.
compile_assign(c, s) ==
    LET nt == Len(s.ts)
        nv == Len(s.es)
        locals == {resolve_local(c, s.ts[i].n).register :
                      i \in {j \in 1..nt : s.ts[j].t = "id" /\ IsLocal(c, s.ts[j].n)}}
        Target(a, x) == LET l == compile_lvalue(a.c, x, locals) IN [c |-> l.c, lvs |-> Append(a.lvs, l.lv)]
        left == FoldLeft(Target, [c |-> c, lvs |-> <<>>], s.ts)
        Slot(i) == local_dst(left.lvs[i])
        Hint(i) == IF Slot(i) # NoHint /\ ~any_reads(c, SubSeq(s.es, i + 1, nv), Slot(i)) THEN Slot(i) ELSE NoHint
        Pending(a, d, r, hint) == [c |-> d, pending |-> Append(a.pending, IF r = hint THEN NoHint ELSE r)]
        Value(a, i) ==
            LET call == compile_expr_func_call(a.c, s.es[i], nt - i + 2)
                r == compile_expr_to_reg(a.c, s.es[i], Hint(i))
            IN  IF i = nv /\ nt > nv /\ s.es[i].t = "call"
                THEN [c |-> call.c, pending |-> a.pending \o [k \in 1..(nt - i + 1) |-> call.r + k - 1]]
                ELSE Pending(a, r.c, r.r, Hint(i))
        Pad(a, i) == LET r == Dst(a.c, Slot(i))
                     IN  IF i <= Len(a.pending) THEN a
                         ELSE Pending(a, Load(dst_or_alloc(a.c, Slot(i)), r, Nil), r, Slot(i))
        Save(a, j) == SaveSource(a, j, left.lvs)
        slots == [i \in 1..nt |-> i]
        values == FoldLeft(Value, [c |-> left.c, pending |-> <<>>], [i \in 1..nv |-> i])
        saved == FoldLeft(Save, FoldLeft(Pad, values, slots), slots)
        Put_(d, i) == IF saved.pending[i] = NoHint THEN d ELSE emit_store(d, left.lvs[i], saved.pending[i])
    IN  IF nv > nt THEN Check(left.c, FALSE)
        ELSE [Check(FoldLeft(Put_, saved.c, slots), saved.c.freereg >= c.freereg) EXCEPT !.freereg = c.freereg]
-----------------------------------------------------------------------------
(* Statements                                                              *)

compile_stmt_expr(c, e) ==
    LET s == CallSetup(c, e)
    IN  [emit(s.c, [op |-> "CALL", func |-> s.func, args |-> s.wire, returns |-> 1]) EXCEPT !.freereg = s.func]

ReturnFrom(c, values, count) == emit(c, [op |-> "RETURN", values |-> values, count |-> count])

compile_return_single(c, e) ==
    LET d == compile_expr(c, e, NoHint)
        first == d.c.freereg
        r == discharge_to_reg_mut(reserve_reg(d.c), d.e, first)
    IN  IF e.t = "dots"
        THEN ReturnFrom(emit(reserve_reg(c), [op |-> "VARARG", dst |-> c.freereg, count |-> 0]), c.freereg, 0)
        ELSE IF d.e.kind = "Reg" /\ ~has_jumps(d.e) THEN ReturnFrom(d.c, d.e.x, 2)
        ELSE ReturnFrom(MoveUnless(r.c, first, r.r), first, 2)

compile_return_generic(c, es) ==
    LET n == Len(es)
        first == c.freereg
        Value(d, i) ==
            LET target == first + i - 1
                r == compile_expr_to_reg(d, es[i], target)
            IN  IF r.r = target THEN r.c ELSE Move(AllocThrough(r.c, target), target, r.r)
        last == compile_trailing_multires(FoldLeft(Value, reserve_reg(c), [i \in 1..(n - 1) |-> i]),
                                          es[n], first + n - 1)
    IN  CASE n = 0 -> ReturnFrom(c, 0, 1)
          [] n = 1 -> compile_return_single(c, es[1])
          [] n > 1 -> ReturnFrom(last.c, first, IF last.multi THEN 0 ELSE n + 1)

compile_return(c, es) ==
    IF Len(es) = 1 /\ es[1].t \in {"call", "method"} THEN compile_tail_func_call(c, es[1])
    ELSE compile_return_generic(c, es)

compile_do(c, body) == pop_scope(compile_block(push_scope(c), body))

\* The jumps taken when the condition is falsy are in list.
compile_branch_cond_false(c, e) ==
    LET d == compile_expr(c, e, NoHint)
        g == goiftrue(d.c, d.e)
    IN  [c |-> patch_to_here(g.c, g.e.true_list), list |-> g.e.false_list]

\* scope_break: the label of the loop's end is the last one of the list.
push_break(c) == LET d == new_label(c) IN [d EXCEPT !.control_end_label = Append(@, Len(d.labels))]
pop_break(c) == [set_label(c, Last(c.control_end_label)) EXCEPT !.control_end_label = Front(@)]

compile_break(c) == emit_jump(c, Last(c.control_end_label))

compile_while(c, s) ==
    LET in == new_label(push_break(push_scope(c)))
        start == Len(in.labels)
        cond == compile_branch_cond_false(set_label(in, start), s.c)
        b == emit_jump(compile_block(cond.c, s.body), start)
        end == Last(b.control_end_label)
        d == downgrade_testsets(b, cond.list)
    IN  pop_scope(pop_break([d EXCEPT !.jump_patches = @ \o [i \in DOMAIN cond.list |-> <<cond.list[i], end>>]]))

\* Mutant of compile_repeat: the loop goes back to its condition only.
compile_repeat_condition(c, s) ==
    LET b == compile_block(push_scope(push_break(c)), s.body)
        cond == compile_branch_cond_false(b, s.c)
    IN  pop_break(pop_scope(patch_to(cond.c, cond.list, next_offset(b))))

\* The condition sees the locals of the body.
compile_repeat(c, s) ==
    LET in == push_scope(push_break(c))
        cond == compile_branch_cond_false(compile_block(in, s.body), s.c)
    IN  pop_break(pop_scope(patch_to(cond.c, cond.list, next_offset(in))))

RECURSIVE compile_if_chain(_, _, _)
compile_if_chain(c, s, end) ==
    LET cond == compile_branch_cond_false(c, s.c)
        then == compile_do(cond.c, s.then)
        else == patch_to_here(IF s.else = <<>> THEN then ELSE emit_jump(then, end), cond.list)
    IN  CASE s.else = <<>> -> else
          [] s.else # <<>> /\ s.elseif -> compile_if_chain(else, s.else[1], end)
          [] s.else # <<>> /\ ~s.elseif -> compile_do(else, s.else)

compile_if(c, s) ==
    LET d == new_label(c) IN set_label(compile_if_chain(d, s, Len(d.labels)), Len(d.labels))

compile_for_num(c, s) ==
    LET in == push_break(push_scope(c))
        base == in.freereg
        Control(d, x) ==
            LET r == compile_expr_to_reg(d, x.e, base + x.i)
            IN  IF r.r = base + x.i THEN r.c ELSE free_reg(Move(r.c, base + x.i, r.r), r.r)
        triple == FoldLeft(Control, reserve_regs(in, 3),
                           <<[e |-> s.from, i |-> 0], [e |-> s.to, i |-> 1], [e |-> s.step, i |-> 2]>>)
        var == reserve_reg(adjust_locals(Check(triple, triple.freereg = base + 3), 3))
        named == adjust_locals(define(var, s.n, VariableData(base + 3, TRUE, Unknown)), 1)
        l == new_label(new_label(named))
        end == Len(l.labels)
        body == end - 1
        For(op) == [op |-> op, base |-> base, to |-> 0]
        b == compile_block(set_label(emit_jump_instr(l, end, For("FORPREP")), body), s.body)
    IN  pop_scope(pop_break(set_label(emit_jump_instr(b, body, For("FORLOOP")), end)))

\* The values are adjusted to three; a call or ... at the end stands for what
\* is missing.
compile_for_gen(c, s) ==
    LET in == push_break(push_scope(c))
        base == in.freereg
        nv == Len(s.es)
        Value(d, i) ==
            LET expected == base + i - 1
                want == 3 - i + 1
                e == s.es[i]
                call == compile_expr_func_call(d, e, want + 1)
            IN  IF ~(i = nv /\ 3 > nv /\ IsMulti(e)) THEN Settle(compile_expr_to_reg(d, e, NoHint), expected)
                ELSE IF e.t = "dots" THEN ExpandLast(d, e, expected, want)
                ELSE Check(call.c, call.r = expected)
        control == PadNil(FoldLeft(Value, in, [i \in 1..nv |-> i]), base + 3)
        Var(d, i) == define(reserve_reg(Check(d, d.freereg = base + 2 + i)), s.names[i],
                            VariableData(base + 2 + i, TRUE, Unknown))
        n == Len(s.names)
        named == adjust_locals(FoldLeft(Var, adjust_locals([control EXCEPT !.freereg = base + 3], 3),
                                        [i \in 1..n |-> i]), n)
        l == new_label(new_label(named))
        test == Len(l.labels)
        body == test - 1
        For(op) == [op |-> op, base |-> base, to |-> 0]
        b == compile_block(set_label(emit_jump_instr(l, test, For("TFORPREP")), body), s.body)
        called == emit(set_label(b, test), [op |-> "TFORCALL", base |-> base, count |-> n])
    IN  pop_scope(pop_break(emit_jump_instr(called, body, For("TFORLOOP"))))

compile_assign_lhs(c, target, reg) ==
    LET l == compile_lvalue(c, target, {}) IN [emit_store(l.c, l.lv, reg) EXCEPT !.freereg = c.freereg]

\* function target() ... end
compile_func(c, s) ==
    LET f == compile_nested(c, s.es[1], NoHint) IN compile_assign_lhs(f.c, s.ts[1], f.e.x)

\* A failed assertion ends the compilation.
compile_stmt(c, s) ==
    IF ~c.ok THEN c
    ELSE CASE s.t = "local" -> compile_decl(c, s)
           [] s.t = "localfn" -> compile_local_function(c, s)
           [] s.t = "assign" -> compile_assign(c, s)
           [] s.t = "do_call" -> compile_stmt_expr(c, s.e)
           [] s.t = "if" -> compile_if(c, s)
           [] s.t = "while" -> compile_while(c, s)
           [] s.t = "repeat" -> compile_repeat(c, s)
           [] s.t = "fornum" -> compile_for_num(c, s)
           [] s.t = "forgen" -> compile_for_gen(c, s)
           [] s.t = "func" -> compile_func(c, s)
           [] s.t = "do" -> compile_do(c, s.body)
           [] s.t = "break" -> compile_break(c)
           [] s.t = "return" -> compile_return(c, s.es)

\* The main function: its first upvalue is _ENV, its prototype in proto.
compile(program) ==
    LET chunk == [Chunk_new EXCEPT !.upvalues = <<[name |-> "_ENV", desc |-> ParentLocal(0)]>>]
        c == compile_function_to_chunk(chunk, <<>>, TRUE, program)
    IN  [ok |-> c.ok, proto |-> assemble(c, 0, TRUE)]
=============================================================================

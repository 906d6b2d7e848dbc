------------------------------ MODULE Machine ------------------------------
(***************************************************************************)
(* The bytecode interpreter (vm/interp.rs) running what Codegen compiles,  *)
(* on one thread.  One action per instruction handler.                     *)
(*                                                                         *)
(* thread is the ThreadState.  Its stack is the allocation of the Vec:     *)
(* registers are reached through a raw pointer, whatever the length of the *)
(* Vec, while thread.stack[i] panics beyond len; slots are counted from 0. *)
(* A frame's pc is always up to date and counts from 0.  The upvalues of   *)
(* all closures are cells, open on a slot or closed with a value.          *)
(* Metamethods, errors, suspension by natives and inline caches are left   *)
(* out; so are reallocations of the stack.                                 *)
(***************************************************************************)
EXTENDS Codegen

CONSTANTS Programs,       \* compiled programs: Loaded syntax trees
          Globals,        \* the global environment a program starts in
          StackCapacity   \* slots of the stack's allocation

VARIABLES program,   \* the program, its code and what it should do
          thread,    \* ThreadState: stack, len, top, frames, status
          cells,     \* upvalues
          closures,  \* function values by identity: [proto, upvalues]
          tables,    \* tables by identity
          globals,   \* the contents of _ENV
          log        \* what the native function was called with

vars == <<program, thread, cells, closures, tables, globals, log>>

Junk == <<"junk">>

-----------------------------------------------------------------------------
(* The stack                                                               *)

Slot(t, i) == t.stack[i + 1]
Panic(t) == [t EXCEPT !.status = "panic"]
Indexed(t, i) == i < t.len

Max2(a, b) == IF a > b THEN a ELSE b
Min2(a, b) == IF a < b THEN a ELSE b

\* Slots from..(to - 1) are set to nil.
NilFill(t, from, to) ==
    IF from < to /\ to > t.len THEN Panic(t)
    ELSE [t EXCEPT !.stack = [i \in DOMAIN @ |-> IF i - 1 \in from..(to - 1) THEN Nil ELSE @[i]]]

\* if stack.len() < needed { stack.resize(needed, nil) }
Grow(t, needed) ==
    IF t.len < needed THEN NilFill([t EXCEPT !.len = needed], t.len, needed) ELSE t

CopyDown(t, dst, src, n) ==
    IF n > 0 /\ (dst + n > t.len \/ src + n > t.len) THEN Panic(t)
    ELSE [t EXCEPT !.stack = [i \in DOMAIN @ |-> IF i - 1 \in dst..(dst + n - 1) THEN @[i - dst + src] ELSE @[i]]]

TopFrame(t) == Last(t.frames)
Proto(f) == closures[f.closure].proto
Window(f) == f.base + Proto(f).max_stack_size
SetTop(t, f) == [t EXCEPT !.frames[Len(t.frames)] = f]

\* The number of values an operand stands for: 0 means up to the top.
Values(t, operand, start) == IF operand = 0 THEN t.top - start ELSE operand - 1

\* continuation: where a generic loop takes the results of its iterator, the
\* payload TForCall, or NoCont.
NoCont == [count |-> 0]
LuaFrame(closure, base, num_results, num_extras, continuation) ==
    [closure |-> closure, base |-> base, pc |-> 0, num_results |-> num_results, num_extras |-> num_extras,
     continuation |-> continuation]

Extras(closure, provided) ==
    LET p == closures[closure].proto
    IN  IF p.is_vararg THEN Max2(0, provided - p.num_params) ELSE 0

close_upvalues(t, start) ==
    [i \in DOMAIN cells |-> IF cells[i].open /\ cells[i].index >= start
                            THEN [open |-> FALSE, v |-> Slot(t, cells[i].index)] ELSE cells[i]]

\* The n values from slot from on become the variables of a loop of the top
\* frame; the registers are written through the raw pointer.
apply_cont_payload(t, cont, from, n) ==
    LET dst == TopFrame(t).base + cont.base + 3
        k == Min2(n, cont.count)
    IN  IF k > 0 /\ from + k > t.len THEN Panic(t)
        ELSE [t EXCEPT !.stack = [i \in DOMAIN @ |->
                 IF i - 1 \notin dst..(dst + cont.count - 1) THEN @[i]
                 ELSE IF i - 1 < dst + k THEN @[i - dst + from] ELSE Nil]]

\* The top frame returns the n values from slot from on.  Its function is
\* below the extra arguments that VARARGPREP put under the base.
frame_return(t, from, n) ==
    LET f == TopFrame(t)
        dst == f.base - 1 - f.num_extras
        popped == [t EXCEPT !.frames = Front(@)]
        wanted == f.num_results - 1
        all == CopyDown(popped, dst, from, n)
        some == NilFill(CopyDown(popped, dst, from, Min2(n, wanted)), dst + Min2(n, wanted), dst + wanted)
    IN  IF f.continuation # NoCont THEN apply_cont_payload(popped, f.continuation, from, n)
        ELSE IF popped.frames = <<>>
        THEN [all EXCEPT !.len = dst + n, !.status = IF @ = "panic" THEN @ ELSE "result"]
        ELSE IF f.num_results = 0 THEN [all EXCEPT !.top = dst + n]
        ELSE some
-----------------------------------------------------------------------------
\* A program with its code and with what it should do.
Loaded(source, env) ==
    LET c == compile(source)
    IN  [source |-> source, ok |-> c.ok, proto |-> c.proto, meaning |-> Meaning(source, env)]

\* A compiled program is called: the first frame of schedule_call_at.
Init ==
    /\ program \in Programs
    /\ closures = <<[proto |-> program.proto, upvalues |-> <<1>>]>>
    /\ thread = Grow([stack |-> [i \in 1..StackCapacity |-> Junk], len |-> 1, top |-> 0,
                      frames |-> <<LuaFrame(1, 1, 0, 0, NoCont)>>, status |-> IF program.ok THEN "running" ELSE "rejected"],
                     1 + program.proto.max_stack_size)
    /\ cells = <<[open |-> FALSE, v |-> <<"env">>]>>
    /\ tables = <<Object>>
    /\ globals = Globals
    /\ log = <<>>
-----------------------------------------------------------------------------
(* Instructions on registers                                               *)

Frame == TopFrame(thread)
I == Proto(Frame).code[Frame.pc + 1]
At_(op) == thread.status = "running" /\ I.op = op
Base == Frame.base
Reg(r) == Slot(thread, Base + r)
WithReg(t, r, v) == [t EXCEPT !.stack[TopFrame(t).base + r + 1] = v]
Skipping(t, n) == [t EXCEPT !.frames[Len(t.frames)].pc = @ + 1 + n]
Next_(t) == Skipping(t, 0)
Goto(t, to) == [t EXCEPT !.frames[Len(t.frames)].pc = to]

\* A handler that only sets a register.
Sets(r, v) == thread' = Next_(WithReg(thread, r, v))
Heap == <<cells, closures, tables, globals, log>>

op_move == At_("MOVE") /\ Sets(I.dst, Reg(I.src)) /\ UNCHANGED <<program, Heap>>
op_load == At_("LOAD") /\ Sets(I.dst, I.v) /\ UNCHANGED <<program, Heap>>
op_not == At_("NOT") /\ Sets(I.dst, Bool(~Truthy(Reg(I.src)))) /\ UNCHANGED <<program, Heap>>
op_arith == At_("ARITH") /\ Sets(I.dst, Operate(I.f, Reg(I.lhs), Reg(I.rhs))) /\ UNCHANGED <<program, Heap>>

op_lfalseskip ==
    /\ At_("LFALSESKIP")
    /\ thread' = Skipping(WithReg(thread, I.src, False), 1)
    /\ UNCHANGED <<program, Heap>>

op_jmp == At_("JMP") /\ thread' = Goto(thread, I.to) /\ UNCHANGED <<program, Heap>>

\* EQ, LT and LE: skip the next instruction unless the outcome is inverted.
op_compare ==
    /\ \E op \in {"EQ", "LT", "LE"} : At_(op)
    /\ LET holds == Compare(CASE I.op = "EQ" -> "==" [] I.op = "LT" -> "<" [] I.op = "LE" -> "<=",
                            Reg(I.lhs), Reg(I.rhs))
       IN  thread' = Skipping(thread, IF holds # I.inverted THEN 1 ELSE 0)
    /\ UNCHANGED <<program, Heap>>

op_test ==
    /\ At_("TEST")
    /\ thread' = Skipping(thread, IF Truthy(Reg(I.src)) # I.inverted THEN 1 ELSE 0)
    /\ UNCHANGED <<program, Heap>>

op_testset ==
    /\ At_("TESTSET")
    /\ thread' = IF Truthy(Reg(I.src)) = I.inverted THEN Skipping(thread, 1)
                 ELSE Next_(WithReg(thread, I.dst, Reg(I.src)))
    /\ UNCHANGED <<program, Heap>>
-----------------------------------------------------------------------------
(* Upvalues, tables and closures                                           *)

upvalue(idx) == closures[Frame.closure].upvalues[idx]
read_upvalue(u) == IF cells[u].open THEN Slot(thread, cells[u].index) ELSE cells[u].v

op_getupval == At_("GETUPVAL") /\ Sets(I.dst, read_upvalue(upvalue(I.idx))) /\ UNCHANGED <<program, Heap>>

op_setupval ==
    LET u == upvalue(I.idx)
    IN  /\ At_("SETUPVAL")
        /\ IF cells[u].open
           THEN /\ thread' = Next_([thread EXCEPT !.stack[cells[u].index + 1] = Reg(I.src)])
                /\ UNCHANGED cells
           ELSE /\ thread' = Next_(thread)
                /\ cells' = [cells EXCEPT ![u].v = Reg(I.src)]
        /\ UNCHANGED <<program, closures, tables, globals, log>>

\* The upvalue is _ENV, whose value is always the globals table.
op_gettabup ==
    /\ At_("GETTABUP") /\ read_upvalue(upvalue(I.idx)) = <<"env">>
    /\ Sets(I.dst, Lookup(globals, I.key))
    /\ UNCHANGED <<program, Heap>>

op_settabup ==
    /\ At_("SETTABUP") /\ read_upvalue(upvalue(I.idx)) = <<"env">>
    /\ globals' = (I.key :> Reg(I.src)) @@ globals
    /\ thread' = Next_(thread)
    /\ UNCHANGED <<program, cells, closures, tables, log>>

\* GETTABLE with a key register, GETFIELD with a constant name.
Key == IF I.op \in {"GETTABLE", "SETTABLE"} THEN Reg(I.key) ELSE <<"name", I.key>>
Table == Reg(I.table)[2]

op_gettable ==
    /\ \E op \in {"GETTABLE", "GETFIELD"} : At_(op)
    /\ Sets(I.dst, Lookup(tables[Table], Key))
    /\ UNCHANGED <<program, Heap>>

op_settable ==
    /\ \E op \in {"SETTABLE", "SETFIELD"} : At_(op)
    /\ tables' = [tables EXCEPT ![Table] = (Key :> Reg(I.src)) @@ @]
    /\ thread' = Next_(thread)
    /\ UNCHANGED <<program, cells, closures, globals, log>>

op_self ==
    /\ At_("SELF")
    /\ thread' = Next_(WithReg(WithReg(thread, I.dst, Lookup(tables[Reg(I.object)[2]], MethodName)),
                               I.dst + 1, Reg(I.object)))
    /\ UNCHANGED <<program, Heap>>

op_newtable ==
    /\ At_("NEWTABLE")
    /\ tables' = Append(tables, [k \in {} |-> Nil])
    /\ Sets(I.dst, <<"tab", Len(tables) + 1>>)
    /\ UNCHANGED <<program, cells, closures, globals, log>>

op_setlist ==
    LET start == Base + I.table + 1
        n == IF I.count = 0 THEN thread.top - start ELSE I.count
        items == [k \in {Num(I.offset + i) : i \in 1..n} |-> Slot(thread, start + k[2] - I.offset - 1)]
    IN  /\ At_("SETLIST")
        /\ tables' = [tables EXCEPT ![Table] = items @@ @]
        /\ thread' = IF n > 0 /\ start + n > thread.len THEN Panic(thread)
                     ELSE Next_(IF I.count = 0 THEN Grow(thread, Window(Frame)) ELSE thread)
        /\ UNCHANGED <<program, cells, closures, globals, log>>

\* Mutant of OpenOn: the list of open upvalues is not searched.
OpenOn_none(cs, slot) == {}

\* The open upvalue of a slot: a local captured twice has one cell.
OpenOn(cs, slot) == {i \in DOMAIN cs : cs[i].open /\ cs[i].index = slot}

op_closure ==
    LET p == Proto(Frame).prototypes[I.proto]
        Capture(a, d) ==
            LET slot == Base + d.i
                same == OpenOn(a.cells, slot)
            IN  IF d.from = "upvalue" THEN [a EXCEPT !.ups = Append(@, upvalue(d.i))]
                ELSE IF same # {} THEN [a EXCEPT !.ups = Append(@, Min(same))]
                ELSE [cells |-> Append(a.cells, [open |-> TRUE, index |-> slot]),
                      ups |-> Append(a.ups, Len(a.cells) + 1)]
        captured == FoldLeft(Capture, [cells |-> cells, ups |-> <<>>], p.upvalue_desc)
    IN  /\ At_("CLOSURE")
        /\ cells' = captured.cells
        /\ closures' = Append(closures, [proto |-> p, upvalues |-> captured.ups])
        /\ Sets(I.dst, <<"closure", Len(closures) + 1>>)
        /\ UNCHANGED <<program, tables, globals, log>>
-----------------------------------------------------------------------------
(* Calls                                                                   *)

Callee == Slot(thread, Base + I.func)
Arguments == Base + I.func + 1
Argc == Values(thread, I.args, Arguments)
Called(t) == IF Indexed(thread, Arguments - 1) THEN t ELSE Panic(thread)

\* invoke_native clips the stack to the arguments; this native leaves them
\* there as its results.
invoke_native(t, args_base, argc) == [Grow(t, args_base + argc) EXCEPT !.len = args_base + argc]
Logged(t) == [i \in 1..Argc |-> Slot(t, Arguments + i - 1)]

\* Mutant of op_call_native: the caller's window is not restored.
op_call_native_clipped ==
    LET ran == invoke_native(thread, Arguments, Argc)
        to == Arguments - 1
        wanted == IF I.returns = 0 THEN Argc ELSE I.returns - 1
        n == Min2(Argc, wanted)
        t == NilFill(CopyDown(ran, to, Arguments, n), to + n, to + wanted)
    IN  /\ At_("CALL") /\ Callee = Native
        /\ thread' = Called(Next_(IF I.returns = 0 THEN [t EXCEPT !.len = to + Argc, !.top = to + Argc] ELSE t))
        /\ log' = Append(log, ViewAll(Logged(ran)))
        /\ UNCHANGED <<program, cells, closures, tables, globals>>

\* The caller of a native function with a fixed number of results gets its
\* window back.
op_call_native ==
    LET ran == invoke_native(thread, Arguments, Argc)
        to == Arguments - 1
        wanted == IF I.returns = 0 THEN Argc ELSE I.returns - 1
        room == IF I.returns = 0 THEN ran ELSE Grow(ran, Window(Frame))
        n == Min2(Argc, wanted)
        t == NilFill(CopyDown(room, to, Arguments, n), to + n, to + wanted)
    IN  /\ At_("CALL") /\ Callee = Native
        /\ thread' = Called(Next_(IF I.returns = 0 THEN [t EXCEPT !.len = to + Argc, !.top = to + Argc] ELSE t))
        /\ log' = Append(log, ViewAll(Logged(ran)))
        /\ UNCHANGED <<program, cells, closures, tables, globals>>

\* A frame for a closure whose argc arguments are in place from slot base on.
push_lua(t, closure, base, argc, num_results, continuation) ==
    LET p == closures[closure].proto
        grown == NilFill(Grow(t, base + p.max_stack_size), base + argc, base + p.num_params)
    IN  [grown EXCEPT !.frames =
             Append(@, LuaFrame(closure, base, num_results, Extras(closure, argc), continuation))]

op_call_lua ==
    /\ At_("CALL") /\ Callee[1] = "closure"
    /\ thread' = Called(push_lua(Next_(thread), Callee[2], Arguments, Argc, I.returns, NoCont))
    /\ UNCHANGED <<program, Heap>>

op_tailcall_native ==
    LET ran == invoke_native(thread, Arguments, Argc)
    IN  /\ At_("TAILCALL") /\ Callee = Native
        /\ thread' = Called(frame_return(ran, Arguments, Argc))
        /\ cells' = close_upvalues(ran, Base)
        /\ log' = Append(log, ViewAll(Logged(ran)))
        /\ UNCHANGED <<program, closures, tables, globals>>

\* The frame is reused, from the slot of its own function on.
op_tailcall_lua ==
    LET closure == Callee[2]
        p == closures[closure].proto
        base == Base - Frame.num_extras
        moved == CopyDown(thread, base, Arguments, Argc)
        t == SetTop(moved, LuaFrame(closure, base, Frame.num_results, Extras(closure, Argc), Frame.continuation))
    IN  /\ At_("TAILCALL") /\ Callee[1] = "closure"
        /\ cells' = close_upvalues(thread, base)
        /\ thread' = Called(NilFill(Grow(t, base + p.max_stack_size), base + Argc, base + p.num_params))
        /\ UNCHANGED <<program, closures, tables, globals, log>>

op_return ==
    LET from == Base + I.values
    IN  /\ At_("RETURN")
        /\ thread' = frame_return(thread, from, Values(thread, I.count, from))
        /\ cells' = close_upvalues(thread, Base)
        /\ UNCHANGED <<program, closures, tables, globals, log>>

op_vararg ==
    LET target == Base + I.dst
        from == Base - Frame.num_extras
        wanted == I.count - 1
        n == Min2(Frame.num_extras, wanted)
        all == [CopyDown(Grow(thread, target + Frame.num_extras), target, from, Frame.num_extras)
                   EXCEPT !.top = target + Frame.num_extras]
        Pad(t, i) == IF i > n THEN WithReg(t, I.dst + i - 1, Nil) ELSE t
        some == FoldLeft(Pad, CopyDown(thread, target, from, n), [i \in 1..wanted |-> i])
    IN  /\ At_("VARARG")
        /\ thread' = Next_(IF I.count = 0 THEN all ELSE some)
        /\ UNCHANGED <<program, Heap>>

\* The parameters move above the extra arguments, and so does the base.
op_varargprep ==
    LET n == Frame.num_extras
        k == Proto(Frame).num_params
        rotated == [thread EXCEPT !.stack = [i \in DOMAIN @ |->
                       CASE i - 1 \in Base..(Base + n - 1) -> @[i + k]
                         [] i - 1 \in (Base + n)..(Base + n + k - 1) -> @[i - n]
                         [] OTHER -> @[i]]]
        t == [Grow(rotated, Base + n + Proto(Frame).max_stack_size) EXCEPT
                 !.frames[Len(thread.frames)].base = Base + n]
    IN  /\ At_("VARARGPREP")
        /\ thread' = IF n = 0 THEN Next_(thread) ELSE IF Base + n + k > thread.len THEN Panic(thread) ELSE Next_(t)
        /\ UNCHANGED <<program, Heap>>
-----------------------------------------------------------------------------
(* Numeric loops                                                           *)

InRange(i, limit, step) == IF step > 0 THEN i <= limit ELSE i >= limit

op_forprep ==
    LET i == Reg(I.base)
        t == WithReg(thread, I.base + 3, i)
    IN  /\ At_("FORPREP")
        /\ thread' = IF InRange(i[2], Reg(I.base + 1)[2], Reg(I.base + 2)[2]) THEN Next_(t) ELSE Goto(t, I.to)
        /\ UNCHANGED <<program, Heap>>

op_forloop ==
    LET next == Reg(I.base)[2] + Reg(I.base + 2)[2]
        t == WithReg(WithReg(thread, I.base, Num(next)), I.base + 3, Num(next))
    IN  /\ At_("FORLOOP")
        /\ thread' = IF InRange(next, Reg(I.base + 1)[2], Reg(I.base + 2)[2]) THEN Goto(t, I.to) ELSE Next_(thread)
        /\ UNCHANGED <<program, Heap>>
-----------------------------------------------------------------------------
(* Generic loops                                                           *)

op_tforprep == At_("TFORPREP") /\ thread' = Goto(thread, I.to) /\ UNCHANGED <<program, Heap>>

\* schedule_meta_call: the iterator and its two arguments are put above the
\* caller's window.
Staged ==
    LET at == Window(Frame)
    IN  [Grow(thread, at + 3) EXCEPT !.stack[at + 1] = Reg(I.base),
            !.stack[at + 2] = Reg(I.base + 1), !.stack[at + 3] = Reg(I.base + 2)]
TForCall == [base |-> I.base, count |-> I.count]

op_tforcall_native ==
    LET base == Window(Frame) + 1
        ran == invoke_native(Staged, base, 2)
    IN  /\ At_("TFORCALL") /\ Reg(I.base) = Native
        /\ thread' = Next_(apply_cont_payload(ran, TForCall, base, 2))
        /\ log' = Append(log, ViewAll(<<Reg(I.base + 1), Reg(I.base + 2)>>))
        /\ UNCHANGED <<program, cells, closures, tables, globals>>

op_tforcall_lua ==
    /\ At_("TFORCALL") /\ Reg(I.base)[1] = "closure"
    /\ thread' = push_lua(Next_(Staged), Reg(I.base)[2], Window(Frame) + 1, 2, 0, TForCall)
    /\ UNCHANGED <<program, Heap>>

op_tforloop ==
    /\ At_("TFORLOOP")
    /\ thread' = IF Reg(I.base + 3) = Nil THEN Next_(thread)
                 ELSE Goto(WithReg(thread, I.base + 2, Reg(I.base + 3)), I.to)
    /\ UNCHANGED <<program, Heap>>
-----------------------------------------------------------------------------
Halted == thread.status \in {"result", "panic", "rejected"} /\ UNCHANGED vars

Next ==
    \/ op_move \/ op_load \/ op_not \/ op_arith \/ op_lfalseskip \/ op_jmp
    \/ op_compare \/ op_test \/ op_testset
    \/ op_getupval \/ op_setupval \/ op_gettabup \/ op_settabup \/ op_gettable \/ op_settable
    \/ op_self \/ op_newtable \/ op_setlist \/ op_closure
    \/ op_call_native \/ op_call_lua \/ op_tailcall_native \/ op_tailcall_lua \/ op_return
    \/ op_vararg \/ op_varargprep \/ op_forprep \/ op_forloop
    \/ op_tforprep \/ op_tforcall_native \/ op_tforcall_lua \/ op_tforloop
    \/ Halted

\* The interpreter never stops by itself before its thread has a result.
Spec == Init /\ [][Next]_vars /\ WF_vars(Next)
-----------------------------------------------------------------------------
(* Properties                                                              *)

\* The stack never outgrows its allocation, frames are stacked in order and
\* every value in scope is a value: the state of a ThreadState.
TypeOK ==
    /\ thread.len \in 0..StackCapacity /\ thread.top \in 0..StackCapacity
    /\ thread.status \in {"running", "result", "panic", "rejected"}
    /\ thread.status = "running" => thread.frames # <<>>
    /\ \A i \in DOMAIN thread.frames :
          LET f == thread.frames[i]
              below == IF f.pc = 0 THEN 0 ELSE f.num_extras
          IN  /\ f.closure \in DOMAIN closures /\ f.base - below > 0
              /\ f.pc \in 0..(Len(Proto(f).code) - 1)
              /\ i > 1 => f.base - below > thread.frames[i - 1].base
    /\ \A i \in DOMAIN closures : \A j \in DOMAIN closures[i].upvalues : closures[i].upvalues[j] \in DOMAIN cells
    /\ Len(log) <= Len(program.meaning.log)

\* The registers an instruction reads or writes.
Operands(i) ==
    {i[f] : f \in DOMAIN i \cap {"dst", "src", "lhs", "rhs", "table", "object", "func", "base"}}
    \cup (IF i.op \in {"GETTABLE", "SETTABLE"} THEN {i.key} ELSE {})
    \cup (IF i.op = "SELF" THEN {i.dst + 1} ELSE {})
    \cup (IF i.op = "TFORCALL" THEN i.base..(i.base + 2 + i.count) ELSE {})
    \cup (IF i.op \in {"FORPREP", "FORLOOP", "TFORLOOP"} THEN {i.base + k : k \in 1..3} ELSE {})
    \cup (IF i.op = "VARARG" THEN i.dst..(i.dst + i.count - 2) ELSE {})
    \cup (IF i.op = "CALL" THEN (i.func..(i.func + i.args - 1)) \cup (i.func..(i.func + i.returns - 2)) ELSE {})
    \cup (IF i.op = "SETLIST" THEN i.table..(i.table + i.count) ELSE {})
    \cup (IF i.op = "RETURN" THEN i.values..(i.values + i.count - 2) ELSE {})

\* compiler/rules.rs, the register and jump bookkeeping: every function that
\* exists has code whose registers fit the frame it declares, whose jumps
\* stay in the code, that cannot run off its end, and in which no TESTSET
\* still waits for its destination; and compiling made none of its asserts fail
\* (free_reg, adjust_locals, the jump-list checks of assert_ctrl_predecessor,
\* the placement checks of declarations and loops).
CodeIsClosed ==
  /\ program.ok
  /\ \A k \in DOMAIN closures :
        LET p == closures[k].proto
            n == Len(p.code)
        IN  /\ p.code[n].op \in {"RETURN", "TAILCALL"}
            /\ \A j \in 1..n : /\ \A r \in Operands(p.code[j]) : r < p.max_stack_size
                               /\ "to" \in DOMAIN p.code[j] => p.code[j].to \in 0..(n - 1)

\* lua_manual.of: compiled code logs what the program logs, in that order,
\* and returns what the program returns; the interpreter never panics.
BehavesLikeLua ==
    /\ thread.status # "panic"
    /\ IsPrefix(log, program.meaning.log)
    /\ thread.status = "result" =>
          /\ log = program.meaning.log
          /\ ViewAll(SubSeq(thread.stack, 1, thread.len)) = program.meaning.results

\* interp.rs, "subsequent register accesses (through the raw registers
\* pointer) stay within Vec::len()": whatever calls have clipped the stack,
\* the registers of the next instruction are in it, and the frames are
\* stacked in order with their program counters in their code.
RegistersInBounds ==
    /\ TypeOK
    /\ thread.status = "running" /\ I.op \notin {"CALL", "TAILCALL", "RETURN"} =>
        \A r \in Operands(I) : Base + r < thread.len

\* close_upvalues and op_closure: an open upvalue is a slot of a frame that
\* is still active, and a slot has one upvalue.
OpenUpvaluesAreLive ==
    \A i \in DOMAIN cells : cells[i].open =>
        /\ \E k \in DOMAIN thread.frames :
              cells[i].index \in thread.frames[k].base..(Window(thread.frames[k]) - 1)
        /\ \A j \in DOMAIN cells : cells[j].open /\ cells[j].index = cells[i].index => j = i

\* Every program here ends, so the interpreter must reach a result: no jump
\* of the compiled code may loop for ever or fall out of the machine.
Terminates == <>(thread.status = "result")
=============================================================================

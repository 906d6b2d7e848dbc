------------------------------ MODULE Executor ------------------------------
(***************************************************************************)
(* The cooperative driver that runs Lua programs (src/src/lua/executor.rs), *)
(* with the parts of the interpreter that create, suspend and retire       *)
(* frames (src/src/vm/interp.rs) and the coroutine library                 *)
(* (src/src/builtin/coroutine.rs).                                         *)
(*                                                                         *)
(* What is kept is the control state: the frame stack and the status of    *)
(* every thread, the stashed pending_action and yield_bottom, the stack of *)
(* active threads and the executor's mode.  Values, registers and the      *)
(* layout of stack windows are left out; a CallSite keeps only which       *)
(* landing it asks for (a plain CALL or a metamethod's continuation).  The *)
(* program is the environment: at each Lua frame it may do anything an     *)
(* instruction can do to this state, and a native callback may return any  *)
(* CallbackAction.                                                         *)
(***************************************************************************)
EXTENDS Naturals, FiniteSets, SequencesExt

CONSTANTS
    Main,        \* ctx.main_thread()
    Coroutines,  \* the other threads the program may create
    Wrapped,     \* those of them that coroutine.wrap creates
    Natives,     \* which native callbacks the program may call
    Polls,       \* which results a host-written Sequence may give to a poll
    MaxFrames,   \* bound: a thread this deep makes no further call
    Admit        \* program and host behaviours to admit although the code
                 \* mishandles them (each one has a run of its own)

ASSUME ThreadsAssumption == Main \notin Coroutines /\ Wrapped \subseteq Coroutines
ASSUME MaxFramesAssumption == MaxFrames \in Nat \ {0}

\* coroutine.rs, the plain outcomes of any callback, and those of a host's.
NativeKinds == {"return", "error", "create", "resume", "wrap", "close", "yield", "sequence",
                "call", "call_then", "yield_then", "host_resume"}
ASSUME NativesAssumption == Natives \subseteq NativeKinds

Threads == Coroutines \cup {Main}
Fns == {"Lua", "Native"}

NoThread == "no thread"
NoSeq == "no sequence"
NoAction == [a |-> "None"]

(***************************************************************************)
(* CallSite: "call" when cont is None (the results land in the caller's    *)
(* CALL window), "meta" when cont is Some (they feed the continuation of a *)
(* metamethod or iterator).                                                *)
(***************************************************************************)
Sites == {"call", "meta"}
NoSite == "none"

(***************************************************************************)
(* Frame.  A Lua frame records what it is owed: the kind of landing that   *)
(* its current instruction still waits for; and whether it carries a       *)
(* continuation for its caller.  A WaitThread frame records in .of the     *)
(* thread it was pushed for, which the code does not store.                *)
(***************************************************************************)
SeqKinds == {"PCall", "Unwrap", "Host"}
LuaFrame(cont) == [k |-> "Lua", owed |-> NoSite, cont |-> cont]
SeqFrame(seq, site) == [k |-> "Sequence", seq |-> seq, site |-> site, err |-> FALSE]
StartFrame(fn) == [k |-> "Start", fn |-> fn]
WaitFrame(site, of) == [k |-> "WaitThread", site |-> site, of |-> of]
ErrorFrame == [k |-> "Error"]

Frames == [k : {"Lua"}, owed : Sites \cup {NoSite}, cont : BOOLEAN]
     \cup [k : {"Sequence"}, seq : SeqKinds, site : Sites, err : BOOLEAN]
     \cup [k : {"Start"}, fn : Fns]
     \cup [k : {"WaitThread"}, site : Sites, of : Threads]
     \cup [k : {"Error"}]

(***************************************************************************)
(* CallbackAction, what a native callback asks of the executor.            *)
(***************************************************************************)
Return == [a |-> "Return"]
Err == [a |-> "Err"]
Sequence(seq) == [a |-> "Sequence", then |-> seq]
Call(fn, then) == [a |-> "Call", fn |-> fn, then |-> then]
Yield(then) == [a |-> "Yield", then |-> then]
Resume(co, then) == [a |-> "Resume", co |-> co, then |-> then]
Actions == [a : {"Sequence"}, then : SeqKinds]
      \cup [a : {"Call"}, fn : Fns, then : SeqKinds \cup {NoSeq}]
      \cup [a : {"Yield"}, then : SeqKinds \cup {NoSeq}]
      \cup [a : {"Resume"}, co : Threads, then : SeqKinds \cup {NoSeq}]

VARIABLES
    thread,       \* ThreadState of every thread
    thread_stack, \* ExecutorInner.thread_stack; empty before the first start
    mode,         \* ExecutorMode
    driving,      \* the host is inside Executor::step
    result,       \* what the last call of step returned
    panicked      \* an unreachable!, expect or unwrap of the driver failed

vars == <<thread, thread_stack, mode, driving, result, panicked>>

Modes == {"Stopped", "Normal", "Result", "Yielded"}
Statuses == {"Stopped", "Suspended", "Normal", "Result"}
Results == {"None", "Done", "Yielded", "Pending", "Err"}
-----------------------------------------------------------------------------
(* Helpers on one thread's state and on the frame stack                    *)

Top(r) == Last(r.frames)
TopIs(r, k) == r.frames # <<>> /\ Top(r).k = k
Push(r, f) == [r EXCEPT !.frames = Append(@, f)]
Pop(r) == [r EXCEPT !.frames = Front(@)]
PushThen(r, then, site) == IF then = NoSeq THEN r ELSE Push(r, SeqFrame(then, site))

\* The instruction of the top Lua frame waits for a landing of kind `site`.
Owe(r, site) == [r EXCEPT !.frames[Len(r.frames)].owed = site]

\* Results of kind `site` arrive at the top frame, if it is a Lua frame.
Deliver(r, site) ==
    IF TopIs(r, "Lua") /\ Top(r).owed = site THEN Owe(r, NoSite) ELSE r

\* mutant: lands every result in the CALL window, continuations included
land_call_results_no_cont(r, site) ==
    LET s == Deliver(r, "call")
    IN  IF s.frames = <<>> THEN [s EXCEPT !.status = "Result"] ELSE s

\* land_call_results, apply_native_continuation
land_call_results(r, site) ==
    LET s == Deliver(r, site)
    IN  IF site = "call" /\ s.frames = <<>> THEN [s EXCEPT !.status = "Result"] ELSE s

\* apply_native_continuation: "must resume into a caller Lua frame"
LandPanics(r, site) == site = "meta" /\ ~TopIs(r, "Lua")

\* mutant: the return of a thread's outermost function leaves it running
frame_return_no_result(r) == Deliver(Pop(r), IF Top(r).cont THEN "meta" ELSE "call")

\* frame_return and cont_resume, for the Lua frame on top of r
frame_return(r) ==
    LET s == Pop(r)
    IN  IF Top(r).cont THEN Deliver(s, "meta")
        ELSE IF s.frames = <<>> THEN [s EXCEPT !.status = "Result"]
        ELSE Deliver(s, "call")
-----------------------------------------------------------------------------
(* The coroutine library, and the callbacks a host may register            *)

Fresh(fn) == [made |-> TRUE, frames |-> <<StartFrame(fn)>>, status |-> "Suspended",
              pending |-> NoAction, site |-> NoSite, yield_bottom |-> NoSite]

Cleared(r) == [r EXCEPT !.frames = <<>>, !.status = "Stopped",
                        !.pending = NoAction, !.yield_bottom = NoSite]

\* mutant: compares handles only, and forgets the status
Resumable_any_status(th, t, co) == co \notin {Main, t}

\* unresumable_reason(co) is None
Resumable(th, t, co) == co \notin {Main, t} /\ th[co].status = "Suspended"

(***************************************************************************)
(* invoke_native: the outcomes of calling a native callback on thread t. *)
(* Each is the requested action with the thread states the callback left.  *)
(***************************************************************************)
lua_create(th) ==
    {[act |-> Return, th |-> [th EXCEPT ![co] = Fresh(fn)]] :
        co \in {c \in Coroutines : ~th[c].made}, fn \in Fns}

lua_resume(th, t) ==
    {[act |-> IF Resumable(th, t, co) THEN Resume(co, "PCall") ELSE Return, th |-> th] :
        co \in {c \in Threads : th[c].made}}

\* wrap_callback asks for the resume without looking at the coroutine.
wrap_callback(th, t) ==
    {[act |-> Resume(co, "Unwrap"), th |-> th] :
        co \in {c \in Wrapped : /\ th[c].made
                                /\ Resumable(th, t, c) \/ "resume_unresumable" \in Admit}}

lua_close(th, t) ==
    {[act |-> Return, th |-> IF co # t /\ th[co].status # "Normal"
                             THEN [th EXCEPT ![co] = Cleared(@)] ELSE th] :
        co \in {c \in Threads : th[c].made}}

\* Callbacks the host registers: any CallbackAction of the public interface.
host_resume(th, t) ==
    {[act |-> Resume(co, NoSeq), th |-> th] :
        co \in {c \in Coroutines : /\ th[c].made
                                   /\ Resumable(th, t, c) \/ "resume_unresumable" \in Admit}}

\* A thread at the bound calls only natives that push no frame.
Callable(r) == IF Len(r.frames) < MaxFrames THEN Natives
               ELSE Natives \cap {"return", "error", "create", "close", "yield"}

invoke_native(th, t) ==
    LET plain(acts) == {[act |-> a, th |-> th] : a \in acts}
    IN  UNION { CASE n = "return"     -> plain({Return})
                  [] n = "error"      -> plain({Err})
                  [] n = "create"     -> lua_create(th)
                  [] n = "resume"     -> lua_resume(th, t)
                  [] n = "wrap"       -> wrap_callback(th, t)
                  [] n = "close"      -> lua_close(th, t)
                  [] n = "yield"      -> plain({Yield(NoSeq)})
                  [] n = "sequence"   -> plain({Sequence("Host")})
                  [] n = "call"       -> plain({Call(fn, NoSeq) : fn \in Fns})
                  [] n = "call_then"  -> plain({Call(fn, "Host") : fn \in Fns})
                  [] n = "yield_then" -> plain({Yield("Host")})
                  [] n = "host_resume" -> host_resume(th, t) : n \in Callable(th[t]) }

Stash(r, act, site) == [r EXCEPT !.pending = act, !.site = site]

(***************************************************************************)
(* schedule_call_at: the thread states after calling `fn` on thread t.   *)
(* A native that returns at once has its results moved to the function's   *)
(* slot, which is not a landing in a CALL window: the caller of            *)
(* schedule_call_at must be a Sequence (or Frame::Start) to pick them up.  *)
(***************************************************************************)
ReturnsInPlace(th, t, starting) ==
    starting \/ TopIs(th[t], "Sequence") \/ "native_in_place" \in Admit

schedule_call_at(th, t, fn, starting) ==
    IF fn = "Lua" THEN {[th EXCEPT ![t] = Push(@, LuaFrame(FALSE))]}
    ELSE {CASE o.act.a = "Return" -> o.th
            [] o.act.a = "Err" -> [o.th EXCEPT ![t] = Push(@, ErrorFrame)]
            [] OTHER -> [o.th EXCEPT ![t] = Stash(@, o.act, "call")] :
          o \in {p \in invoke_native(th, t) :
                   /\ p.act = Return => ReturnsInPlace(th, t, starting)
                   /\ p.act = Yield(NoSeq) =>
                        th[t].frames # <<>> \/ "yield_without_frame" \in Admit}}
-----------------------------------------------------------------------------
(* One iteration of the loop in Executor::step                             *)

cur == Last(thread_stack)

Running == driving /\ ~panicked
Continue == UNCHANGED <<mode, driving, result, panicked>>
Panic == panicked' = TRUE /\ UNCHANGED <<thread, thread_stack, mode, driving, result>>

\* step returns r to the host.
Leave(r) == driving' = FALSE /\ result' = r /\ UNCHANGED panicked

\* (1) propagate_inner_to_resumer
PropagateTo(r, site) ==
    LET s == Pop(r)
        t == IF TopIs(s, "Sequence") THEN s ELSE land_call_results(s, site)
    IN  IF t.status = "Result" THEN t ELSE [t EXCEPT !.status = "Normal"]

propagate_inner_to_resumer ==
    /\ Running /\ Len(thread_stack) > 1
    /\ thread[cur].status \in {"Result", "Suspended"}
    /\ LET rest == Front(thread_stack)
           rs == thread[Last(rest)]
           wt == Top(rs)
       IN  IF \/ ~TopIs(rs, "WaitThread")
              \/ ~TopIs(Pop(rs), "Sequence") /\ LandPanics(Pop(rs), wt.site)
           THEN Panic
           ELSE /\ thread_stack' = rest
                /\ thread' = [thread EXCEPT ![Last(rest)] = PropagateTo(rs, wt.site)]
                /\ Continue

\* (2) the main thread finished (or was never seeded: BadMode)
StepEnds ==
    /\ Running
    /\ \/ Len(thread_stack) = 1 /\ thread[cur].status = "Result"
       \/ thread[cur].status = "Stopped"
    /\ IF thread[cur].status = "Result" THEN mode' = "Result" /\ Leave("Done")
       ELSE UNCHANGED mode /\ Leave("Err")
    /\ UNCHANGED <<thread, thread_stack>>

\* (2) the main thread yielded to the host
StepYielded ==
    /\ Running /\ Len(thread_stack) = 1
    /\ thread[cur].status = "Suspended" /\ thread[cur].yield_bottom # NoSite
    /\ mode' = "Yielded" /\ Leave("Yielded")
    /\ UNCHANGED <<thread, thread_stack>>

\* No arm of (1) or (2) applies.
Pumping ==
    /\ Running
    /\ \/ thread[cur].status = "Normal"
       \/ /\ thread[cur].status = "Suspended" /\ Len(thread_stack) = 1
          /\ thread[cur].yield_bottom = NoSite

\* The resume arguments of a thread that yielded: left for the Sequence on
\* top, or landed in the window of the CALL that yielded.
ResumePanics(r) == ~TopIs(r, "Sequence") /\ LandPanics(r, r.yield_bottom)
LandResumeArgs(r) ==
    LET s == [r EXCEPT !.yield_bottom = NoSite]
        t == IF TopIs(s, "Sequence") THEN s ELSE land_call_results(s, r.yield_bottom)
    IN  [t EXCEPT !.status = "Normal"]

\* schedule_thread_resume(resumer = cur, target, site), from thread states th
Reseated(r) ==
    IF TopIs(r, "Start") THEN [r EXCEPT !.status = "Normal"] ELSE LandResumeArgs(r)

schedule_thread_resume(th, target, site) ==
    LET th1 == [th EXCEPT ![cur] = [Push(@, WaitFrame(site, target)) EXCEPT !.status = "Normal"]]
        r == th1[target]
    IN  IF r.status = "Suspended" /\ (TopIs(r, "Start") \/ r.yield_bottom # NoSite)
        THEN IF ~TopIs(r, "Start") /\ ResumePanics(r)
             THEN Panic
             ELSE /\ thread' = [th1 EXCEPT ![target] = Reseated(@)]
                  /\ thread_stack' = Append(thread_stack, target)
                  /\ Continue
        ELSE /\ thread' = th1
             /\ Leave("Err") /\ UNCHANGED <<thread_stack, mode>>

\* (3) apply_pending_action
Suspend(r, site) == [r EXCEPT !.yield_bottom = site, !.status = "Suspended"]

apply_pending_action ==
    /\ Pumping /\ thread[cur].pending # NoAction
    /\ LET p == thread[cur].pending
           site == thread[cur].site
           ready == [thread EXCEPT ![cur] = PushThen(Stash(@, NoAction, NoSite), p.then, site)]
       IN  CASE p.a = "Sequence" ->
                  thread' = ready /\ UNCHANGED thread_stack /\ Continue
             [] p.a = "Call" ->
                  /\ thread' \in schedule_call_at(ready, cur, p.fn, FALSE)
                  /\ UNCHANGED thread_stack /\ Continue
             [] p.a = "Yield" ->
                  /\ thread' = [ready EXCEPT ![cur] = Suspend(@, site)]
                  /\ UNCHANGED thread_stack /\ Continue
             [] p.a = "Resume" -> schedule_thread_resume(ready, p.co, site)

\* (4) pump the top frame
AtFrame(k) == Pumping /\ thread[cur].pending = NoAction /\ TopIs(thread[cur], k)

PumpStart ==
    /\ AtFrame("Start")
    /\ \E th \in schedule_call_at([thread EXCEPT ![cur] = Pop(@)], cur, Top(thread[cur]).fn, TRUE) :
          thread' = [th EXCEPT ![cur].status =
                        IF th[cur].frames = <<>> /\ th[cur].pending = NoAction
                        THEN "Result" ELSE "Normal"]
    /\ UNCHANGED thread_stack /\ Continue

(***************************************************************************)
(* pump_sequence.  PCallSequence and UnwrapResumeSequence                  *)
(* (coroutine.rs) finish at the first poll; their error methods turn the   *)
(* error into a result and rethrow it.  A host's Sequence does as it likes.*)
(***************************************************************************)
PollResults(f) ==
    CASE f.seq = "PCall"  -> {"Return"}
      [] f.seq = "Unwrap" -> {IF f.err THEN "Err" ELSE "Return"}
      [] f.seq = "Host"   -> Polls

SeqTargets == {c \in Coroutines : /\ thread[c].made
                                  /\ \/ Resumable(thread, cur, c)
                                     \/ "resume_unresumable" \in Admit}

pump_sequence ==
    /\ AtFrame("Sequence")
    /\ LET f == Top(thread[cur])
           popped == [thread EXCEPT ![cur] = Pop(@)]
           again == [popped EXCEPT ![cur] = Push(@, [f EXCEPT !.err = FALSE])]
           room == Len(thread[cur].frames) < MaxFrames
           Set(th) == thread' = th /\ UNCHANGED thread_stack /\ Continue
       IN  \E poll \in PollResults(f) :
           \/ /\ poll = "Pending"
              /\ thread' = again /\ Leave("Pending") /\ UNCHANGED <<thread_stack, mode>>
           \/ /\ poll = "Return"
              /\ IF LandPanics(popped[cur], f.site) THEN Panic
                 ELSE Set([popped EXCEPT ![cur] = land_call_results(@, f.site)])
           \/ /\ poll = "Call" /\ room
              /\ \E fn \in Fns : \E th \in schedule_call_at(again, cur, fn, FALSE) : Set(th)
           \/ /\ poll = "TailCall"
              /\ f.site = "call" \/ "tailcall_in_metamethod" \in Admit
              /\ \E fn \in Fns : \E th \in schedule_call_at(popped, cur, fn, FALSE) : Set(th)
           \/ /\ poll = "Yield"
              /\ Set([again EXCEPT ![cur] = Suspend(@, f.site)])
           \/ /\ poll = "TailYield"
              /\ popped[cur].frames # <<>> \/ "yield_without_frame" \in Admit
              /\ Set([popped EXCEPT ![cur] = Suspend(@, f.site)])
           \/ /\ poll = "Resume" /\ room
              /\ \E co \in SeqTargets : schedule_thread_resume(again, co, f.site)
           \/ /\ poll = "TailResume"
              /\ \E co \in SeqTargets : schedule_thread_resume(popped, co, f.site)
           \/ /\ poll = "Err"
              /\ Set([popped EXCEPT ![cur] = Push(@, ErrorFrame)])

(***************************************************************************)
(* unwind_error: pop Lua and WaitThread frames down to the first Sequence, *)
(* which catches; with none left, hand the error to the resumer's frame    *)
(* stack, or to the host from the bottom thread.                           *)
(***************************************************************************)
Catchers(fs) == {i \in DOMAIN fs : fs[i].k = "Sequence"}

\* mutant: the Error frame stays on top of its catcher
Catch_keeps_error(fs, i) == Append([SubSeq(fs, 1, i) EXCEPT ![i].err = TRUE], ErrorFrame)

\* The frames left when frame i catches: the error is parked on it.
Catch(fs, i) == [SubSeq(fs, 1, i) EXCEPT ![i].err = TRUE]

\* mutant: an error that leaves a coroutine goes straight to the host
ErrorToResumer_surfaces ==
    /\ thread' = [thread EXCEPT ![cur].frames = <<>>]
    /\ Leave("Err") /\ UNCHANGED <<thread_stack, mode>>

\* mutant: an error that leaves a coroutine goes to the main thread
ErrorToResumer_skips ==
    /\ thread_stack' = <<Main>>
    /\ thread' = [thread EXCEPT
          ![cur].frames = <<>>,
          ![Main] = [Push(Pop(@), ErrorFrame) EXCEPT !.status = "Normal"]]
    /\ Continue

\* No catcher on cur: its resumer fails in its stead.
ErrorToResumer ==
    LET rest == Front(thread_stack)
        rs == thread[Last(rest)]
    IN  IF ~TopIs(rs, "WaitThread") THEN Panic
        ELSE /\ thread_stack' = rest
             /\ thread' = [thread EXCEPT
                   ![cur].frames = <<>>,
                   ![Last(rest)] = [Push(Pop(rs), ErrorFrame) EXCEPT !.status = "Normal"]]
             /\ Continue

ErrorToHost ==
    /\ thread' = [thread EXCEPT ![cur].frames = <<>>]
    /\ Leave("Err") /\ UNCHANGED <<thread_stack, mode>>

unwind_error ==
    LET fs == Front(thread[cur].frames)
        low == IF Catchers(fs) = {} THEN 0 ELSE Max(Catchers(fs))
    IN  IF \E i \in (low + 1)..Len(fs) : fs[i].k \in {"Start", "Error"} THEN Panic
        ELSE IF low > 0
        THEN /\ thread' = [thread EXCEPT ![cur].frames = Catch(fs, low)]
             /\ UNCHANGED thread_stack /\ Continue
        ELSE IF Len(thread_stack) > 1 THEN ErrorToResumer ELSE ErrorToHost

\* An Error frame on top; unreachable! for no frame or a WaitThread frame.
PumpError ==
    /\ Pumping /\ thread[cur].pending = NoAction
    /\ \A k \in {"Lua", "Sequence", "Start"} : ~TopIs(thread[cur], k)
    /\ IF TopIs(thread[cur], "Error") THEN unwind_error ELSE Panic
-----------------------------------------------------------------------------
(* run_thread: what an instruction of the top Lua frame does to the frames *)

AtLua == AtFrame("Lua")
Room == Len(thread[cur].frames) < MaxFrames
Step(th) == thread' = th /\ UNCHANGED thread_stack /\ Continue

op_call_lua ==
    /\ AtLua /\ Room
    /\ Step([thread EXCEPT ![cur] = Push(Owe(@, "call"), LuaFrame(FALSE))])

op_call_native ==
    /\ AtLua
    /\ \E o \in invoke_native(thread, cur) :
          Step(CASE o.act.a = "Return" -> o.th
                 [] o.act.a = "Err" -> [o.th EXCEPT ![cur] = Push(@, ErrorFrame)]
                 [] OTHER -> [o.th EXCEPT ![cur] = Stash(Owe(@, "call"), o.act, "call")])

\* A tail call of a Lua function reuses the frame: no change at this level.
op_tailcall_native ==
    /\ AtLua
    /\ \E o \in invoke_native(thread, cur) :
          CASE o.act.a = "Return" ->
                 Step([o.th EXCEPT ![cur] = frame_return(@)])
            [] o.act.a = "Err" ->
                 Step([o.th EXCEPT ![cur] = Push(Pop(@), ErrorFrame)])
            [] OTHER ->
                 /\ ~Top(thread[cur]).cont \/ "tailcall_in_metamethod" \in Admit
                 /\ o.act = Yield(NoSeq) =>
                       Len(thread[cur].frames) > 1 \/ "yield_without_frame" \in Admit
                 /\ Step([o.th EXCEPT ![cur] = Stash(Pop(@), o.act, "call")])

op_return ==
    /\ AtLua
    /\ Step([thread EXCEPT ![cur] = frame_return(@)])

\* schedule_meta_call, schedule_native_meta_call
schedule_meta_call_lua ==
    /\ AtLua /\ Room
    /\ Step([thread EXCEPT ![cur] = Push(Owe(@, "meta"), LuaFrame(TRUE))])

schedule_native_meta_call ==
    /\ AtLua
    /\ \E o \in invoke_native(thread, cur) :
          Step(CASE o.act.a = "Return" -> o.th
                 [] o.act.a \in {"Err", "Call"} -> [o.th EXCEPT ![cur] = Push(@, ErrorFrame)]
                 [] OTHER -> [o.th EXCEPT ![cur] = Stash(Owe(@, "meta"), o.act, "meta")])

\* impl_error: an instruction fails; run_thread returns Err, and so does step.
SomeCatcher == \E i \in DOMAIN thread_stack : Catchers(thread[thread_stack[i]].frames) # {}

impl_error ==
    /\ AtLua
    /\ \/ ~SomeCatcher /\ Len(thread_stack) = 1
       \/ "raise_in_coroutine" \in Admit
    /\ Leave("Err") /\ UNCHANGED <<thread, thread_stack, mode>>

run_thread == \/ op_call_lua \/ op_call_native \/ op_tailcall_native \/ op_return
              \/ schedule_meta_call_lua \/ schedule_native_meta_call \/ impl_error

iterate == \/ propagate_inner_to_resumer \/ StepEnds \/ StepYielded
           \/ apply_pending_action \/ PumpStart \/ pump_sequence \/ PumpError
-----------------------------------------------------------------------------
(* The host                                                                *)

Idle == ~driving /\ ~panicked

\* Executor::start replaces the executor; the main thread is reused.
start ==
    /\ Idle
    /\ mode = "Stopped" \/ result = "Err"
    /\ \E fn \in Fns :
          thread' = [thread EXCEPT ![Main].frames = <<StartFrame(fn)>>,
                                   ![Main].status = "Suspended"]
    /\ thread_stack' = <<Main>> /\ mode' = "Normal" /\ result' = "None"
    /\ UNCHANGED <<driving, panicked>>

step ==
    /\ Idle /\ mode = "Normal"
    /\ result # "Err"
    /\ driving' = TRUE /\ result' = "None"
    /\ UNCHANGED <<thread, thread_stack, mode, panicked>>

resume ==
    /\ Idle /\ mode = "Yielded"
    /\ IF thread[cur].yield_bottom = NoSite \/ ResumePanics(thread[cur]) THEN Panic
       ELSE /\ thread' = [thread EXCEPT ![cur] = LandResumeArgs(@)]
            /\ mode' = "Normal"
            /\ UNCHANGED <<thread_stack, driving, result, panicked>>

take_result ==
    /\ Idle /\ mode = "Result"
    /\ thread' = [thread EXCEPT ![Main].frames = <<>>, ![Main].status = "Stopped"]
    /\ mode' = "Stopped"
    /\ UNCHANGED <<thread_stack, driving, result, panicked>>
-----------------------------------------------------------------------------
Init ==
    /\ thread = [t \in Threads |->
                   [made |-> t = Main, frames |-> <<>>, status |-> "Stopped",
                    pending |-> NoAction, site |-> NoSite, yield_bottom |-> NoSite]]
    /\ thread_stack = <<>>
    /\ mode = "Stopped" /\ driving = FALSE /\ result = "None" /\ panicked = FALSE

Next == \/ start \/ step \/ resume \/ take_result
        \/ iterate \/ run_thread

Spec == Init /\ [][Next]_vars

\* The host stays inside step until it returns: the loop keeps iterating.
FairSpec == Spec /\ WF_vars(iterate)
-----------------------------------------------------------------------------
(* Properties                                                              *)

ThreadState == [made : BOOLEAN, frames : Seq(Frames), status : Statuses,
                pending : Actions \cup {NoAction}, site : Sites \cup {NoSite},
                yield_bottom : Sites \cup {NoSite}]

\* Every field of the driver's state holds a value of its Rust type.
TypeOK ==
    /\ thread \in [Threads -> ThreadState]
    /\ thread_stack \in Seq(Threads)
    /\ mode \in Modes /\ driving \in BOOLEAN
    /\ result \in Results /\ panicked \in BOOLEAN

\* No unreachable!, expect or unwrap of the driver is ever reached: "active
\* thread with empty frames", "WaitThread on top of the active thread",
\* "resumer top is not WaitThread" and their like (executor.rs).
NoPanic == ~panicked

OnStack == {thread_stack[i] : i \in DOMAIN thread_stack}
Waits(t) == {i \in DOMAIN thread[t].frames : thread[t].frames[i].k = "WaitThread"}

\* The stack of active threads is a chain of resumers: no thread is on it
\* twice, each one below the top waits for exactly the one above it, and no
\* thread anywhere waits for anything else (ExecutorInner.thread_stack); and a
\* coroutine off the stack is fresh, parked at a yield, or finished, with no
\* frames left behind on a thread nobody can resume.
ResumeChain ==
    /\ TypeOK
    /\ IsInjective(thread_stack)
    /\ thread_stack # <<>> => thread_stack[1] = Main
    /\ \A i \in 1..(Len(thread_stack) - 1) :
          LET t == thread_stack[i]
          IN  /\ thread[t].status = "Normal" /\ thread[t].pending = NoAction
              /\ Waits(t) = {Len(thread[t].frames)}
              /\ Top(thread[t]).of = thread_stack[i + 1]
    /\ \A t \in Threads :
          (t \notin OnStack \/ t = cur) => Waits(t) = {}
    /\ \A t \in Coroutines \ OnStack :
          thread[t].frames # <<>> =>
              /\ thread[t].status = "Suspended"
              /\ (thread[t].yield_bottom = NoSite) <=> TopIs(thread[t], "Start")

\* An instruction resumes only after the results of its call have landed the
\* way it asked for, and every Lua frame that has something above it is still
\* waiting for them: no CALL or metamethod is answered twice, or never.
CallsAnswered ==
    ~panicked => \A t \in Threads : \A i \in DOMAIN thread[t].frames :
        LET f == thread[t].frames[i]
            suspended == thread[t].pending # NoAction \/ thread[t].yield_bottom # NoSite
        IN  (f.k = "Lua" /\ ~(i < Len(thread[t].frames) /\ thread[t].frames[i + 1].k = "Error")) =>
                (f.owed = NoSite <=> i = Len(thread[t].frames) /\ ~suspended)

\* step hands an error to the host only when no Sequence that could have
\* caught it is left on any active thread.
CatchersCatch == [][driving /\ result' = "Err" => ~SomeCatcher]_vars

AtProgram == AtLua \/ AtFrame("Sequence")

\* The driver never spins: between two steps of program code it propagates,
\* drains and unwinds only finitely often before it runs the program again or
\* returns to the host.
DriverProgresses == driving ~> (~driving \/ AtProgram)
-----------------------------------------------------------------------------
(* The driver implements the coroutine discipline of CoroutineSpec: a      *)
(* thread is active while the executor's stack holds it, and off the stack *)
(* its status says whether it can be resumed.                              *)
Parked == {t \in Coroutines \ OnStack : thread[t].made /\ thread[t].status = "Suspended"}
Dead == {t \in Coroutines \ OnStack : thread[t].made /\ thread[t].status # "Suspended"}

Discipline == INSTANCE CoroutineSpec
                  WITH active <- thread_stack, parked <- Parked, dead <- Dead

\* Resume, yield, return, failure and close move threads exactly as the
\* abstract coroutines do, whatever the frames and stashes go through.
CoroutineDiscipline == Discipline!Spec
=============================================================================

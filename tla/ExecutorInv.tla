---------------------------- MODULE ExecutorInv -----------------------------
(***************************************************************************)
(* The inductive invariant of Executor: why the driver, whatever its       *)
(* program does, always finds on the frame stacks what its unreachable!,   *)
(* expect and unwrap take for granted, and why every result finds the      *)
(* instruction that waits for it.                                          *)
(***************************************************************************)
EXTENDS Executor

\* The frame under frame i + 1 of fs, or the bottom of the stack, takes a
\* result of kind site: a Lua frame one that its instruction waits for, a
\* Sequence and the end of a thread the plain results of a call.
Takes(fs, i, site) ==
    \/ i = 0 /\ site = "call"
    \/ i # 0 /\ fs[i].k = "Lua" /\ fs[i].owed = site
    \/ i # 0 /\ fs[i].k = "Sequence" /\ site = "call"

\* A Sequence also takes what a resumed thread sends, whatever the site.
TakesResume(fs, i, site) ==
    \/ Takes(fs, i, site)
    \/ i # 0 /\ fs[i].k = "Sequence"

\* What frame i may stand on.
FrameFits(fs, i) ==
    /\ fs[i].k = "Lua" => Takes(fs, i - 1, IF fs[i].cont THEN "meta" ELSE "call")
    /\ fs[i].k = "Sequence" => Takes(fs, i - 1, fs[i].site)
    /\ fs[i].k = "WaitThread" => i = Len(fs) /\ TakesResume(fs, i - 1, fs[i].site)
    /\ fs[i].k = "Start" => i = 1 /\ Len(fs) = 1
    /\ fs[i].k = "Error" => i = Len(fs)

Structured(fs) == \A i \in DOMAIN fs : FrameFits(fs, i)

\* Nothing is stashed, and the top frame waits for no result.
Quiet(r) ==
    /\ r.pending = NoAction /\ r.yield_bottom = NoSite
    /\ ~TopIs(r, "WaitThread")
    /\ TopIs(r, "Lua") => Top(r).owed = NoSite

Finished(r) == Quiet(r) /\ r.frames = <<>>
Unstarted(r) == Quiet(r) /\ TopIs(r, "Start") /\ r.status = "Suspended"

\* A callback's action is stashed: the frame below it waits for its results.
Requesting(r) ==
    /\ r.pending # NoAction /\ r.yield_bottom = NoSite
    /\ r.site \in Sites
    /\ Takes(r.frames, Len(r.frames), r.site)
    /\ r.pending.a = "Call" => r.site = "call"
    /\ r.pending = Yield(NoSeq) => r.frames # <<>>

\* Parked at a yield: the frame that yielded waits for the resume arguments.
Yielding(r) ==
    /\ r.pending = NoAction /\ r.yield_bottom # NoSite
    /\ r.status = "Suspended" /\ r.frames # <<>>
    /\ TakesResume(r.frames, Len(r.frames), r.yield_bottom)

\* A resumer waits for the thread of.
Waiting(r, of) ==
    /\ r.status = "Normal" /\ r.pending = NoAction /\ r.yield_bottom = NoSite
    /\ TopIs(r, "WaitThread") /\ Top(r).of = of

\* The running thread, the last of depth, between two iterations of step.
Active(r, depth) ==
    \/ r.status = "Normal" /\ Quiet(r) /\ r.frames # <<>>
    \/ r.status = "Normal" /\ Requesting(r)
    \/ r.status = "Result" /\ Finished(r)
    \/ Yielding(r)
    \/ Unstarted(r) /\ depth = 1

\* Off the stack a coroutine can be resumed, or has no frames.
Resting(r) ==
    \/ r.made /\ (Unstarted(r) \/ Yielding(r))
    \/ Finished(r) /\ r.status # "Suspended"

\* The coroutine that r asks for, if it asks for one, can be resumed.
ResumesParked(th, r, active) ==
    r.pending # NoAction /\ r.pending.a = "Resume" =>
        /\ r.pending.co \in Coroutines \ active
        /\ th[r.pending.co].made /\ th[r.pending.co].status = "Suspended"
-----------------------------------------------------------------------------
FramesInv == \A t \in Threads : Structured(thread[t].frames)

\* The stack of active threads is a chain of resumers.
StackInv ==
    /\ IsInjective(thread_stack)
    /\ thread_stack # <<>> => thread_stack[1] = Main
    /\ \A i \in 1..(Len(thread_stack) - 1) : Waiting(thread[thread_stack[i]], thread_stack[i + 1])
    /\ thread[Main].made /\ \A i \in DOMAIN thread_stack : thread[thread_stack[i]].made

OffStackInv == \A t \in Coroutines \ OnStack : Resting(thread[t])

\* What the host finds between two calls, and the loop of step in a call.
HostInv ==
    /\ driving => mode = "Normal" /\ result = "None"
    /\ thread_stack = <<>> => mode = "Stopped" /\ Finished(thread[Main])
    /\ mode = "Normal" /\ result # "Err" =>
          /\ Active(thread[cur], Len(thread_stack))
          /\ ResumesParked(thread, thread[cur], OnStack)
    /\ result = "Err" => mode = "Normal" /\ Len(thread_stack) = 1 /\ Quiet(thread[cur])
    /\ mode # "Normal" => Len(thread_stack) <= 1
    /\ mode = "Yielded" => thread_stack # <<>> /\ Yielding(thread[cur])
    /\ mode = "Result" => thread_stack # <<>> /\ thread[cur].status = "Result"
    /\ mode \in {"Stopped", "Result"} => Finished(thread[Main])

IInv == TypeOK /\ ~panicked /\ FramesInv /\ StackInv /\ OffStackInv /\ HostInv
=============================================================================

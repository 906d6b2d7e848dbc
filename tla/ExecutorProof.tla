--------------------------- MODULE ExecutorProof ----------------------------
(***************************************************************************)
(* Proofs for Executor, for any number of coroutines, any natives, any     *)
(* polls and any depth of calls: the driver never panics, the stack of     *)
(* active threads is a chain of resumers, every call is answered once, and *)
(* threads follow the discipline of CoroutineSpec.                         *)
(***************************************************************************)
EXTENDS ExecutorInv, Induction, SequenceTheorems, TLAPS

\* A frame may be pushed on the top frame of fs.
Steady(fs) == fs # <<>> => Last(fs).k \in {"Lua", "Sequence"}

\* Frame f may be pushed on fs.
PushFits(fs, f) ==
    /\ f.k = "Lua" => Takes(fs, Len(fs), IF f.cont THEN "meta" ELSE "call")
    /\ f.k = "Sequence" => Takes(fs, Len(fs), f.site)
    /\ f.k = "WaitThread" => TakesResume(fs, Len(fs), f.site)
    /\ f.k = "Start" => fs = <<>>
    /\ f.k = "Error" => Steady(fs)

\* Two states of a thread differ in their frames only.
SameRest(r, s) ==
    /\ s.made = r.made /\ s.status = r.status /\ s.pending = r.pending
    /\ s.site = r.site /\ s.yield_bottom = r.yield_bottom

Unstashed(r) == r.pending = NoAction /\ r.yield_bottom = NoSite

\* Results of kind site can land on r.
TopTakes(r, site) == Takes(r.frames, Len(r.frames), site)

\* The results have landed: the frame on top runs on, or the thread is done.
Landed(r, s) ==
    /\ s \in ThreadState /\ Structured(s.frames) /\ s.made = r.made /\ Quiet(s)
    /\ \/ s.frames # <<>> /\ s.status = r.status
       \/ s.frames = <<>> /\ s.status = "Result"
-----------------------------------------------------------------------------
(* Frames and stacks of frames                                             *)

\* What the frames of each kind have.
LEMMA FrameKinds ==
    /\ \A f \in Frames :
          /\ f.k \in {"Lua", "Sequence", "Start", "WaitThread", "Error"}
          /\ f.k = "Lua" => /\ f.owed \in Sites \cup {NoSite} /\ f.cont \in BOOLEAN
                            /\ \A s \in Sites \cup {NoSite} :
                                  /\ [f EXCEPT !.owed = s] \in Frames
                                  /\ [f EXCEPT !.owed = s].k = "Lua"
                                  /\ [f EXCEPT !.owed = s].owed = s
                                  /\ [f EXCEPT !.owed = s].cont = f.cont
          /\ f.k = "Sequence" => /\ f.site \in Sites /\ f.seq \in SeqKinds /\ f.err \in BOOLEAN
                                 /\ \A e \in BOOLEAN :
                                       /\ [f EXCEPT !.err = e] \in Frames
                                       /\ [f EXCEPT !.err = e].k = "Sequence"
                                       /\ [f EXCEPT !.err = e].site = f.site
          /\ f.k = "Start" => f.fn \in Fns
          /\ f.k = "WaitThread" => f.site \in Sites /\ f.of \in Threads
    /\ \A c \in BOOLEAN : /\ LuaFrame(c) \in Frames /\ LuaFrame(c).k = "Lua"
                          /\ LuaFrame(c).owed = NoSite /\ LuaFrame(c).cont = c
    /\ \A q \in SeqKinds, s \in Sites : /\ SeqFrame(q, s) \in Frames
                                        /\ SeqFrame(q, s).k = "Sequence"
                                        /\ SeqFrame(q, s).site = s
    /\ \A fn \in Fns : StartFrame(fn) \in Frames /\ StartFrame(fn).k = "Start"
    /\ \A s \in Sites, t \in Threads : /\ WaitFrame(s, t) \in Frames
                                       /\ WaitFrame(s, t).k = "WaitThread"
                                       /\ WaitFrame(s, t).site = s /\ WaitFrame(s, t).of = t
    /\ ErrorFrame \in Frames /\ ErrorFrame.k = "Error"
BY DEF Frames, LuaFrame, SeqFrame, StartFrame, WaitFrame, ErrorFrame, Sites, NoSite

\* The two ends of a sequence.
LEMMA Ends ==
    ASSUME NEW S, NEW s \in Seq(S), s # <<>>
    PROVE  /\ Len(s) \in Nat \ {0} /\ DOMAIN s = 1..Len(s) /\ Len(s) \in DOMAIN s
           /\ Last(s) = s[Len(s)] /\ Last(s) \in S
           /\ Front(s) \in Seq(S) /\ Len(Front(s)) = Len(s) - 1
           /\ DOMAIN Front(s) = 1..(Len(s) - 1)
           /\ \A i \in 1..(Len(s) - 1) : Front(s)[i] = s[i]
           /\ Front(s) = <<>> <=> Len(s) = 1
<1>1. Len(s) \in Nat \ {0} /\ DOMAIN s = 1..Len(s) /\ \A i \in 1..Len(s) : s[i] \in S
  BY EmptySeq, LenProperties, ElementOfSeq
<1>2. Last(s) = s[Len(s)] /\ Len(s) \in 1..Len(s)
  BY <1>1 DEF Last
<1>3. /\ Front(s) \in Seq(S) /\ Len(Front(s)) = Len(s) - 1
      /\ \A i \in 1..(Len(s) - 1) : Front(s)[i] = s[i]
  <2>1. \A i \in 1..(Len(s) - 1) : s[i] \in S
    BY <1>1
  <2>2. /\ SubSeq(s, 1, Len(s) - 1) \in Seq(S)
        /\ Len(SubSeq(s, 1, Len(s) - 1)) = IF 1 <= Len(s) - 1 THEN (Len(s) - 1) - 1 + 1 ELSE 0
        /\ \A i \in 1 .. (Len(s) - 1) - 1 + 1 : SubSeq(s, 1, Len(s) - 1)[i] = s[1 + i - 1]
    BY <1>1, <2>1, SubSeqProperties
  <2> QED
    BY <1>1, <2>2 DEF Front
<1>4. DOMAIN Front(s) = 1..(Len(s) - 1)
  BY <1>3, LenProperties
<1>5. Front(s) = <<>> <=> Len(s) = 1
  BY <1>1, <1>3, EmptySeq
<1> QED
  BY <1>1, <1>2, <1>3, <1>4, <1>5

\* Appending to a sequence.
LEMMA Appended ==
    ASSUME NEW S, NEW s \in Seq(S), NEW e \in S
    PROVE  /\ Append(s, e) \in Seq(S) /\ Append(s, e) # <<>>
           /\ Len(s) \in Nat /\ DOMAIN s = 1..Len(s)
           /\ Len(Append(s, e)) = Len(s) + 1 /\ DOMAIN Append(s, e) = 1..(Len(s) + 1)
           /\ \A i \in 1..Len(s) : Append(s, e)[i] = s[i]
           /\ Append(s, e)[Len(s) + 1] = e /\ Last(Append(s, e)) = e
<1>1. Append(s, e) \in Seq(S) /\ Append(s, e) # <<>> /\ Len(Append(s, e)) = Len(s) + 1
      /\ (\A i \in 1..Len(s) : Append(s, e)[i] = s[i]) /\ Append(s, e)[Len(s) + 1] = e
  BY AppendProperties
<1>2. DOMAIN Append(s, e) = 1..Len(Append(s, e)) /\ DOMAIN s = 1..Len(s) /\ Len(s) \in Nat
  BY <1>1, LenProperties
<1> QED
  BY <1>1, <1>2 DEF Last

\* What a result finds depends on the frame it meets only.
LEMMA SameTakes ==
    ASSUME NEW fs, NEW gs, NEW i \in Nat, i # 0 => gs[i] = fs[i]
    PROVE  \A site : /\ Takes(gs, i, site) <=> Takes(fs, i, site)
                     /\ TakesResume(gs, i, site) <=> TakesResume(fs, i, site)
BY DEF Takes, TakesResume

\* A frame that fits the one below may be pushed on a stack of frames.
LEMMA FramesPush ==
    ASSUME NEW fs \in Seq(Frames), NEW f \in Frames, Structured(fs), PushFits(fs, f)
    PROVE  Structured(Append(fs, f))
<1> DEFINE gs == Append(fs, f)
           n == Len(fs)
<1>1. /\ n \in Nat /\ DOMAIN fs = 1..n /\ Len(gs) = n + 1 /\ DOMAIN gs = 1..(n + 1)
      /\ \A i \in 1..n : gs[i] = fs[i]
      /\ gs[n + 1] = f /\ (fs = <<>> <=> n = 0)
  BY Appended, EmptySeq
<1>2. n # 0 => fs[n].k \in {"Lua", "Sequence"}
  <2>1. f.k \in {"Lua", "Sequence", "WaitThread", "Start", "Error"}
    BY FrameKinds
  <2> QED
    BY <1>1, <2>1 DEF PushFits, Takes, TakesResume, Steady, Last
<1> HIDE DEF gs
<1>3. ASSUME NEW i \in 1..n PROVE FrameFits(gs, i)
  <2>1. FrameFits(fs, i)
    BY <1>1 DEF Structured
  <2>2. i - 1 \in Nat /\ (i - 1 # 0 => gs[i - 1] = fs[i - 1]) /\ gs[i] = fs[i]
    BY <1>1
  <2>3. \A site : Takes(gs, i - 1, site) <=> Takes(fs, i - 1, site)
    BY <2>2, SameTakes
  <2>4. fs[i].k \notin {"WaitThread", "Start", "Error"}
    <3>1. fs[i].k \in {"WaitThread", "Start", "Error"} => i = n
      BY <2>1 DEF FrameFits
    <3>2. i = n => fs[i].k \in {"Lua", "Sequence"}
      BY <1>1, <1>2
    <3> QED
      BY <3>1, <3>2
  <2> QED
    BY <2>1, <2>2, <2>3, <2>4 DEF FrameFits
<1>4. FrameFits(gs, n + 1)
  <2>1. \A site : /\ Takes(gs, n, site) <=> Takes(fs, n, site)
                  /\ TakesResume(gs, n, site) <=> TakesResume(fs, n, site)
    <3>1. n # 0 => gs[n] = fs[n]
      BY <1>1
    <3> QED
      BY <1>1, <3>1, SameTakes
  <2>2. (n + 1) - 1 = n
    BY <1>1
  <2> QED
    BY <1>1, <2>1, <2>2 DEF FrameFits, PushFits
<1>5. \A i \in DOMAIN gs : i \in 1..n \/ i = n + 1
  BY <1>1
<1> QED
  BY <1>3, <1>4, <1>5 DEF Structured, gs

\* What is below the top frame is a stack of frames that the top frame fitted on.
LEMMA FramesPop ==
    ASSUME NEW fs \in Seq(Frames), Structured(fs), fs # <<>>
    PROVE  /\ Front(fs) \in Seq(Frames) /\ Structured(Front(fs)) /\ Steady(Front(fs))
           /\ PushFits(Front(fs), Last(fs))
<1> DEFINE gs == Front(fs)
           n == Len(gs)
<1>1. /\ n \in Nat /\ gs \in Seq(Frames) /\ Len(fs) = n + 1
      /\ DOMAIN fs = 1..(n + 1) /\ DOMAIN gs = 1..n
      /\ \A i \in 1..n : gs[i] = fs[i] /\ fs[i] \in Frames
      /\ Last(fs) = fs[n + 1] /\ (gs = <<>> <=> n = 0)
  <2>1. \A i \in DOMAIN fs : fs[i] \in Frames
    BY Ends, ElementOfSeq
  <2> QED
    BY <2>1, Ends
<1>2. gs # <<>> => Last(gs) = fs[n] /\ n \in 1..n
  BY <1>1 DEF Last
<1> HIDE DEF gs
<1>3. ASSUME NEW i \in 1..(n + 1)
      PROVE  /\ FrameFits(fs, i) /\ i - 1 \in 0..n
             /\ \A site : /\ Takes(gs, i - 1, site) <=> Takes(fs, i - 1, site)
                          /\ TakesResume(gs, i - 1, site) <=> TakesResume(fs, i - 1, site)
  <2>1. i - 1 \in 0..n /\ i - 1 \in Nat /\ (i - 1 # 0 => gs[i - 1] = fs[i - 1])
    BY <1>1
  <2>2. FrameFits(fs, i)
    BY <1>1 DEF Structured
  <2>3. \A site : /\ Takes(gs, i - 1, site) <=> Takes(fs, i - 1, site)
                  /\ TakesResume(gs, i - 1, site) <=> TakesResume(fs, i - 1, site)
    <3> PICK j \in Nat : j = i - 1 /\ (j # 0 => gs[j] = fs[j])
      BY <2>1
    <3>1. \A site : /\ Takes(gs, j, site) <=> Takes(fs, j, site)
                    /\ TakesResume(gs, j, site) <=> TakesResume(fs, j, site)
      BY SameTakes
    <3> QED BY <3>1
  <2> QED
    BY <2>1, <2>2, <2>3
<1>4. ASSUME NEW i \in 1..n PROVE fs[i].k \in {"Lua", "Sequence"} /\ FrameFits(gs, i)
  <2>1. i \in 1..(n + 1) /\ i # n + 1 /\ gs[i] = fs[i] /\ fs[i] \in Frames
    BY <1>1
  <2>2. fs[i].k \notin {"WaitThread", "Error", "Start"}
    BY <1>1, <1>3, <2>1 DEF FrameFits
  <2> QED
    BY <1>3, <2>1, <2>2, FrameKinds DEF FrameFits
<1>5. PushFits(gs, Last(fs))
  <2>1. FrameFits(fs, n + 1) /\ (n + 1) - 1 = n /\ n + 1 \in 1..(n + 1)
    BY <1>1, <1>3
  <2>2. Steady(gs)
    BY <1>2, <1>4 DEF Steady
  <2> QED
    BY <1>1, <1>3, <2>1, <2>2 DEF FrameFits, PushFits
<1>6. Structured(gs) /\ Steady(gs)
  BY <1>1, <1>2, <1>4 DEF Structured, Steady
<1> QED
  BY <1>1, <1>5, <1>6 DEF gs

\* A beginning of a well-formed stack is well-formed.
LEMMA FramesPrefix ==
    ASSUME NEW fs \in Seq(Frames), Structured(fs), NEW n \in 1..Len(fs)
    PROVE  /\ SubSeq(fs, 1, n) \in Seq(Frames) /\ Len(SubSeq(fs, 1, n)) = n
           /\ \A i \in 1..n : SubSeq(fs, 1, n)[i] = fs[i]
           /\ Structured(SubSeq(fs, 1, n))
<1> DEFINE gs == SubSeq(fs, 1, n)
<1>1. /\ Len(fs) \in Nat /\ DOMAIN fs = 1..Len(fs) /\ \A i \in 1..Len(fs) : fs[i] \in Frames
      /\ n \in Nat /\ n <= Len(fs) /\ 1 <= n
  BY LenProperties, ElementOfSeq
<1>2. gs \in Seq(Frames) /\ Len(gs) = n /\ \A i \in 1..n : gs[i] = fs[i]
  <2>1. 1 \in Int /\ n \in Int /\ \A i \in 1..n : fs[i] \in Frames
    BY <1>1
  <2>2. /\ gs \in Seq(Frames) /\ Len(gs) = IF 1 <= n THEN n - 1 + 1 ELSE 0
        /\ \A i \in 1 .. n - 1 + 1 : gs[i] = fs[1 + i - 1]
    BY <2>1, SubSeqProperties
  <2> QED
    BY <1>1, <2>2
<1>3. DOMAIN gs = 1..n
  BY <1>2, LenProperties
<1> HIDE DEF gs
<1>4. ASSUME NEW i \in 1..n PROVE FrameFits(gs, i)
  <2>1. FrameFits(fs, i) /\ gs[i] = fs[i]
    BY <1>1, <1>2 DEF Structured
  <2>2. PICK j \in Nat : j = i - 1 /\ (j # 0 => gs[j] = fs[j])
    BY <1>2
  <2>3. \A site : /\ Takes(gs, j, site) <=> Takes(fs, j, site)
                  /\ TakesResume(gs, j, site) <=> TakesResume(fs, j, site)
    BY <2>2, SameTakes
  <2>4. ASSUME i = Len(fs) PROVE i = n
    <3>1. i \in Nat /\ i <= n /\ n \in Nat /\ n <= i
      BY <1>1, <2>4
    <3> QED BY <3>1
  <2>5. ASSUME Len(fs) = 1 PROVE n = 1
    BY <1>1, <2>5
  <2> QED
    BY <1>2, <2>1, <2>2, <2>3, <2>4, <2>5 DEF FrameFits
<1> QED
  BY <1>2, <1>3, <1>4 DEF Structured, gs

\* Replacing the top frame.
LEMMA FramesRetop ==
    ASSUME NEW fs \in Seq(Frames), fs # <<>>, NEW f \in Frames
    PROVE  /\ [fs EXCEPT ![Len(fs)] = f] = Append(Front(fs), f)
           /\ Len(Append(Front(fs), f)) = Len(fs)
           /\ \A i \in 1..(Len(fs) - 1) : Append(Front(fs), f)[i] = fs[i]
<1> DEFINE gs == [fs EXCEPT ![Len(fs)] = f]
           hs == Append(Front(fs), f)
           n == Len(fs) - 1
<1>1. /\ Len(fs) \in Nat \ {0} /\ n \in Nat /\ Front(fs) \in Seq(Frames) /\ Len(Front(fs)) = n
      /\ Len(fs) = n + 1 /\ \A i \in 1..n : Front(fs)[i] = fs[i]
  BY Ends
<1>2. /\ gs \in Seq(Frames) /\ Len(gs) = Len(fs)
      /\ \A j \in 1..Len(fs) : gs[j] = IF j = Len(fs) THEN f ELSE fs[j]
  BY <1>1, ExceptSeq
<1>3. /\ hs \in Seq(Frames) /\ Len(hs) = n + 1 /\ hs[n + 1] = f
      /\ \A i \in 1..n : hs[i] = fs[i]
  BY <1>1, Appended
<1> HIDE DEF gs, hs
<1>4. \A i \in 1..Len(gs) : gs[i] = hs[i]
  BY <1>1, <1>2, <1>3
<1>5. gs = hs
  BY <1>1, <1>2, <1>3, <1>4, SeqEqual
<1> QED
  BY <1>1, <1>3, <1>5 DEF gs, hs

\* The catching Sequence is the top frame, and takes what it took before.
LEMMA FramesCatch ==
    ASSUME NEW fs \in Seq(Frames), Structured(fs), NEW i \in DOMAIN fs, fs[i].k = "Sequence"
    PROVE  /\ Catch(fs, i) \in Seq(Frames) /\ Catch(fs, i) # <<>>
           /\ Structured(Catch(fs, i)) /\ Last(Catch(fs, i)).k = "Sequence"
<1>1. DOMAIN fs = 1..Len(fs) /\ i \in 1..Len(fs) /\ fs[i] \in Frames
  BY LenProperties, ElementOfSeq
<1> DEFINE gs == SubSeq(fs, 1, i)
           f == [fs[i] EXCEPT !.err = TRUE]
<1>2. /\ gs \in Seq(Frames) /\ Len(gs) = i /\ gs[i] = fs[i] /\ Structured(gs) /\ gs # <<>>
      /\ Last(gs) = fs[i]
  BY <1>1, FramesPrefix, EmptySeq DEF Last
<1>3. f \in Frames /\ f.k = "Sequence" /\ f.site = fs[i].site
  BY <1>1, FrameKinds
<1>4. Catch(fs, i) = [gs EXCEPT ![Len(gs)] = f]
  BY <1>2 DEF Catch
<1> HIDE DEF gs, f
<1>5. Front(gs) \in Seq(Frames) /\ Structured(Front(gs)) /\ PushFits(Front(gs), fs[i])
  BY <1>2, FramesPop
<1>6. PushFits(Front(gs), f)
  BY <1>1, <1>3, <1>5 DEF PushFits
<1>7. Catch(fs, i) = Append(Front(gs), f)
  BY <1>2, <1>3, <1>4, FramesRetop
<1> QED
  BY <1>3, <1>5, <1>6, <1>7, Appended, FramesPush

\* What a result finds, told of the top frame.
LEMMA TakesTop ==
    ASSUME NEW fs \in Seq(Frames), NEW site
    PROVE  /\ Takes(fs, Len(fs), site) <=>
                 \/ fs = <<>> /\ site = "call"
                 \/ fs # <<>> /\ Last(fs).k = "Lua" /\ Last(fs).owed = site
                 \/ fs # <<>> /\ Last(fs).k = "Sequence" /\ site = "call"
           /\ TakesResume(fs, Len(fs), site) <=>
                 \/ Takes(fs, Len(fs), site)
                 \/ fs # <<>> /\ Last(fs).k = "Sequence"
<1>1. fs = <<>> <=> Len(fs) = 0
  BY EmptySeq
<1> QED
  BY <1>1 DEF Takes, TakesResume, Last
-----------------------------------------------------------------------------
(* The helpers on one thread's state                                       *)

\* A state of a thread with other frames.
LEMMA WithFrames ==
    ASSUME NEW r \in ThreadState, NEW fs \in Seq(Frames)
    PROVE  LET s == [r EXCEPT !.frames = fs] IN
           s \in ThreadState /\ SameRest(r, s) /\ s.frames = fs
BY DEF ThreadState, SameRest

\* The top frame of a thread.
LEMMA TopFrame ==
    ASSUME NEW r \in ThreadState
    PROVE  /\ r.frames \in Seq(Frames)
           /\ r.frames # <<>> => Top(r) \in Frames
           /\ \A k : TopIs(r, k) <=> r.frames # <<>> /\ Top(r).k = k
<1>1. r.frames \in Seq(Frames)
  BY DEF ThreadState
<1> QED
  BY <1>1, Ends DEF Top, TopIs

\* Push changes the frames of a thread and nothing else.
LEMMA PushState ==
    ASSUME NEW r \in ThreadState, NEW f \in Frames
    PROVE  LET s == Push(r, f) IN
           /\ s \in ThreadState /\ SameRest(r, s) /\ s.frames = Append(r.frames, f)
           /\ s.frames # <<>> /\ Top(s) = f /\ \A k : TopIs(s, k) <=> f.k = k
           /\ Structured(r.frames) /\ PushFits(r.frames, f) => Structured(s.frames)
<1> DEFINE s == Push(r, f)
<1>1. r.frames \in Seq(Frames)
  BY TopFrame
<1>2. Append(r.frames, f) \in Seq(Frames) /\ Append(r.frames, f) # <<>>
      /\ Last(Append(r.frames, f)) = f
  BY <1>1, Appended
<1>3. s \in ThreadState /\ SameRest(r, s) /\ s.frames = Append(r.frames, f)
  BY <1>2, WithFrames DEF Push
<1> HIDE DEF s
<1>4. s.frames # <<>> /\ Top(s) = f /\ \A k : TopIs(s, k) <=> f.k = k
  BY <1>2, <1>3 DEF Top, TopIs
<1>5. Structured(r.frames) /\ PushFits(r.frames, f) => Structured(s.frames)
  BY <1>1, <1>3, FramesPush
<1> QED
  BY <1>3, <1>4, <1>5 DEF s

\* Pop changes the frames of a thread and nothing else.
LEMMA PopState ==
    ASSUME NEW r \in ThreadState, r.frames # <<>>, Structured(r.frames)
    PROVE  LET s == Pop(r) IN
           /\ s \in ThreadState /\ SameRest(r, s) /\ s.frames = Front(r.frames)
           /\ Structured(s.frames) /\ Steady(s.frames) /\ PushFits(s.frames, Top(r))
           /\ Top(r) \in Frames
           /\ s.frames = <<>> <=> Len(r.frames) = 1
<1> DEFINE s == Pop(r)
<1>1. r.frames \in Seq(Frames) /\ Top(r) \in Frames
  BY TopFrame
<1>2. Front(r.frames) \in Seq(Frames) /\ Structured(Front(r.frames)) /\ Steady(Front(r.frames))
      /\ PushFits(Front(r.frames), Last(r.frames))
  BY <1>1, FramesPop
<1>3. s \in ThreadState /\ SameRest(r, s) /\ s.frames = Front(r.frames)
  BY <1>2, WithFrames DEF Pop
<1>4. Front(r.frames) = <<>> <=> Len(r.frames) = 1
  BY <1>1, Ends
<1> HIDE DEF s
<1> QED
  BY <1>1, <1>2, <1>3, <1>4 DEF s, Top

\* The top Lua frame waits for results, or got them.
LEMMA OweState ==
    ASSUME NEW r \in ThreadState, TopIs(r, "Lua"), Structured(r.frames),
           NEW site \in Sites \cup {NoSite}
    PROVE  LET s == Owe(r, site) IN
           /\ s \in ThreadState /\ SameRest(r, s) /\ Structured(s.frames)
           /\ s.frames # <<>> /\ TopIs(s, "Lua") /\ ~TopIs(s, "WaitThread")
           /\ Top(s).owed = site
           /\ site # NoSite => TopTakes(s, site)
<1> DEFINE f == [Top(r) EXCEPT !.owed = site]
           fs == r.frames
           s == Owe(r, site)
<1>1. fs \in Seq(Frames) /\ fs # <<>> /\ Top(r) \in Frames /\ Top(r).k = "Lua" /\ Top(r) = fs[Len(fs)]
  BY TopFrame DEF Top, Last
<1>2. f \in Frames /\ f.k = "Lua" /\ f.owed = site /\ f.cont = Top(r).cont
  <2>1. PICK g \in Frames : g = Top(r) /\ g.k = "Lua"
    BY <1>1
  <2>2. /\ [g EXCEPT !.owed = site] \in Frames /\ [g EXCEPT !.owed = site].k = "Lua"
        /\ [g EXCEPT !.owed = site].owed = site /\ [g EXCEPT !.owed = site].cont = g.cont
    BY <2>1, FrameKinds
  <2> QED
    BY <2>1, <2>2
<1>3. s = [r EXCEPT !.frames = [fs EXCEPT ![Len(fs)] = f]]
  BY <1>1 DEF Owe
<1>4. Front(fs) \in Seq(Frames) /\ Structured(Front(fs)) /\ PushFits(Front(fs), Top(r))
  BY <1>1, FramesPop DEF Top
<1>5. [fs EXCEPT ![Len(fs)] = f] = Append(Front(fs), f)
  BY <1>1, <1>2, FramesRetop
<1> HIDE DEF f, s
<1>6. PushFits(Front(fs), f)
  BY <1>1, <1>2, <1>4 DEF PushFits
<1>7. Structured(Append(Front(fs), f))
  BY <1>2, <1>4, <1>6, FramesPush
<1>8. Append(Front(fs), f) \in Seq(Frames) /\ Append(Front(fs), f) # <<>>
      /\ Last(Append(Front(fs), f)) = f
  BY <1>2, <1>4, Appended
<1>9. s \in ThreadState /\ SameRest(r, s) /\ s.frames = Append(Front(fs), f)
  BY <1>3, <1>5, <1>8, WithFrames
<1>10. s.frames # <<>> /\ Top(s) = f
  BY <1>8, <1>9 DEF Top
<1>11. TopTakes(s, site)
  BY <1>2, <1>8, <1>9, TakesTop DEF TopTakes
<1> QED
  BY <1>2, <1>7, <1>9, <1>10, <1>11 DEF s, TopIs

\* Delivering results to the call site that waits for them leaves a thread that runs.
LEMMA DeliverState ==
    ASSUME NEW r \in ThreadState, Structured(r.frames), NEW site \in Sites
    PROVE  LET s == Deliver(r, site) IN
           /\ s \in ThreadState /\ SameRest(r, s) /\ Structured(s.frames)
           /\ s.frames = <<>> <=> r.frames = <<>>
           /\ Unstashed(r) /\ (r.frames = <<>> \/ TopTakes(r, site)) => Quiet(s)
<1> DEFINE s == Deliver(r, site)
<1>1. CASE TopIs(r, "Lua") /\ Top(r).owed = site
  <2>1. s = Owe(r, NoSite)
    BY <1>1 DEF Deliver
  <2>2. NoSite \in Sites \cup {NoSite}
    OBVIOUS
  <2>3. r.frames # <<>>
    BY <1>1 DEF TopIs
  <2> HIDE DEF s
  <2> QED
    BY <1>1, <2>1, <2>2, <2>3, OweState DEF Quiet, s, SameRest, Unstashed
<1>2. CASE ~(TopIs(r, "Lua") /\ Top(r).owed = site)
  <2>1. s = r
    BY <1>2 DEF Deliver
  <2>2. r.frames # <<>> /\ TopTakes(r, site) => Top(r).k = "Sequence"
    BY <1>2, TopFrame, TakesTop DEF TopTakes, TopIs, Top
  <2> HIDE DEF s
  <2> QED
    BY <2>1, <2>2 DEF Quiet, s, SameRest, Unstashed, TopIs
<1> QED BY <1>1, <1>2

\* Results that find who waits for them land.
LEMMA Landing ==
    ASSUME NEW r \in ThreadState, Structured(r.frames), NEW site \in Sites, Unstashed(r),
           TopTakes(r, site)
    PROVE  Landed(r, land_call_results(r, site))
<1> DEFINE s == Deliver(r, site)
           d == [s EXCEPT !.status = "Result"]
<1>1. /\ s \in ThreadState /\ SameRest(r, s) /\ Structured(s.frames) /\ Quiet(s)
      /\ s.frames = <<>> <=> r.frames = <<>>
  BY DeliverState
<1>2. r.frames = <<>> => site = "call"
  BY TopFrame, TakesTop DEF TopTakes
<1> HIDE DEF s
<1>3. d \in ThreadState /\ d.made = s.made /\ d.status = "Result" /\ d.frames = s.frames
      /\ d.pending = s.pending /\ d.yield_bottom = s.yield_bottom
  BY <1>1 DEF ThreadState, Statuses
<1>4. Quiet(d)
  BY <1>1, <1>3 DEF Quiet, TopIs, Top
<1>5. land_call_results(r, site) = IF site = "call" /\ s.frames = <<>> THEN d ELSE s
  BY DEF land_call_results, s
<1> HIDE DEF d
<1> QED
  BY <1>1, <1>2, <1>3, <1>4, <1>5 DEF Landed, SameRest

\* The results of a Lua function land where its frame says.
LEMMA Returning ==
    ASSUME NEW r \in ThreadState, Structured(r.frames), Unstashed(r), TopIs(r, "Lua")
    PROVE  Landed(r, frame_return(r))
<1> DEFINE p == Pop(r)
           site == IF Top(r).cont THEN "meta" ELSE "call"
           s == Deliver(p, site)
           d == [p EXCEPT !.status = "Result"]
<1>1. /\ p \in ThreadState /\ SameRest(r, p) /\ Structured(p.frames)
      /\ PushFits(p.frames, Top(r)) /\ Top(r) \in Frames /\ Top(r).k = "Lua"
  BY PopState DEF TopIs
<1> HIDE DEF p
<1>2. Top(r).cont \in BOOLEAN /\ site \in Sites /\ TopTakes(p, site)
  BY <1>1, FrameKinds DEF PushFits, TopTakes, Sites
<1>3. p.frames = <<>> => site = "call"
  BY <1>1, <1>2, TopFrame, TakesTop DEF TopTakes
<1>4. /\ s \in ThreadState /\ SameRest(p, s) /\ Structured(s.frames) /\ Quiet(s)
      /\ s.frames = <<>> <=> p.frames = <<>>
  <2>1. Unstashed(p)
    BY <1>1 DEF Unstashed, SameRest
  <2> HIDE DEF site
  <2> QED
    BY <1>1, <1>2, <2>1, DeliverState
<1>5. d \in ThreadState /\ d.made = p.made /\ d.status = "Result" /\ d.frames = p.frames
      /\ d.pending = p.pending /\ d.yield_bottom = p.yield_bottom
  BY <1>1 DEF ThreadState, Statuses
<1>6. p.frames = <<>> => Quiet(d)
  BY <1>1, <1>5 DEF Quiet, TopIs, Top, Unstashed, SameRest
<1>7. frame_return(r) = IF p.frames = <<>> /\ ~Top(r).cont THEN d ELSE s
  BY <1>2 DEF frame_return, p
<1> HIDE DEF s, d
<1>8. p.frames = <<>> => ~Top(r).cont
  BY <1>3
<1> QED
  BY <1>1, <1>4, <1>5, <1>6, <1>7, <1>8 DEF Landed, SameRest
-----------------------------------------------------------------------------
(* Calling native callbacks                                                *)

\* What the running thread is.
LEMMA Current ==
    ASSUME IInv, thread_stack # <<>>
    PROVE  /\ thread \in [Threads -> ThreadState] /\ thread_stack \in Seq(Threads)
           /\ Len(thread_stack) \in Nat \ {0} /\ DOMAIN thread_stack = 1..Len(thread_stack)
           /\ cur = thread_stack[Len(thread_stack)] /\ cur \in Threads /\ cur \in OnStack
           /\ Main \in OnStack /\ OnStack \subseteq Threads
           /\ thread[cur] \in ThreadState /\ Structured(thread[cur].frames) /\ thread[cur].made
           /\ Coroutines \subseteq Threads
           /\ \A q \in Threads : q \in OnStack \/ q \in Coroutines \ OnStack
<1>1. thread \in [Threads -> ThreadState] /\ thread_stack \in Seq(Threads)
  BY DEF IInv, TypeOK
<1>2. /\ Len(thread_stack) \in Nat \ {0} /\ DOMAIN thread_stack = 1..Len(thread_stack)
      /\ cur = thread_stack[Len(thread_stack)] /\ cur \in Threads
      /\ Len(thread_stack) \in DOMAIN thread_stack
  BY <1>1, Ends DEF cur
<1>3. \A i \in DOMAIN thread_stack : thread_stack[i] \in Threads
  BY <1>1, <1>2, ElementOfSeq
<1>4. cur \in OnStack /\ OnStack \subseteq Threads /\ Main \in OnStack
  BY <1>2, <1>3 DEF OnStack, IInv, StackInv
<1>5. thread[cur] \in ThreadState /\ Structured(thread[cur].frames) /\ thread[cur].made
  BY <1>1, <1>2 DEF IInv, FramesInv, StackInv
<1> QED
  BY <1>1, <1>2, <1>4, <1>5 DEF Threads

\* In th, every thread but the running one is what the invariant says.
Others(th) ==
    /\ th \in [Threads -> ThreadState] /\ th[cur].made
    /\ \A q \in OnStack \ {cur} : th[q] = thread[q]
    /\ \A q \in Coroutines \ OnStack : Resting(th[q]) /\ Structured(th[q].frames)

\* Before a step, the threads but the current one are as the invariant says.
LEMMA OthersNow ==
    ASSUME IInv, thread_stack # <<>>
    PROVE  Others(thread)
BY Current DEF Others, IInv, OffStackInv, FramesInv

\* Changing the current thread leaves the others as they are.
LEMMA OthersSet ==
    ASSUME IInv, thread_stack # <<>>, NEW th, Others(th), NEW r \in ThreadState, r.made
    PROVE  LET th2 == [th EXCEPT ![cur] = r] IN
           Others(th2) /\ th2[cur] = r /\ \A q \in Threads \ {cur} : th2[q] = th[q]
<1> DEFINE th2 == [th EXCEPT ![cur] = r]
<1>1. th2 \in [Threads -> ThreadState] /\ th2[cur] = r /\ \A q \in Threads \ {cur} : th2[q] = th[q]
  BY Current DEF Others
<1> HIDE DEF th2
<1> QED
  BY <1>1, Current DEF Others, th2

\* Below the running thread everyone waits, so only resting threads can be
\* resumed.
LEMMA ResumableRests ==
    ASSUME IInv, thread_stack # <<>>, NEW th, Others(th), NEW co \in Threads,
           Resumable(th, cur, co)
    PROVE  co \in Coroutines \ OnStack /\ th[co].status = "Suspended"
<1>1. co # Main /\ co # cur /\ th[co].status = "Suspended" /\ co \in Coroutines
  BY DEF Resumable, Threads
<1>2. ASSUME co \in OnStack PROVE FALSE
  <2>1. PICK i \in DOMAIN thread_stack : thread_stack[i] = co
    BY <1>2 DEF OnStack
  <2>2. i \in 1..(Len(thread_stack) - 1)
    BY <1>1, <2>1, Current
  <2>3. thread[co].status = "Normal"
    BY <2>1, <2>2 DEF IInv, StackInv, Waiting
  <2> QED
    BY <1>1, <1>2, <2>3 DEF Others
<1> QED
  BY <1>1, <1>2

\* What the actions are.
LEMMA ActionKinds ==
    /\ Return \notin Actions /\ Err \notin Actions /\ NoAction \notin Actions
    /\ Return.a = "Return" /\ Err.a = "Err" /\ Return # Err
    /\ \A a \in Actions :
          /\ a.a \in {"Sequence", "Call", "Yield", "Resume"} /\ a # NoAction
          /\ a.then \in SeqKinds \cup {NoSeq}
          /\ a.a = "Sequence" => a.then \in SeqKinds
          /\ a.a = "Call" => a.fn \in Fns
          /\ a.a = "Resume" => a.co \in Threads
          /\ a.a = "Yield" /\ a.then = NoSeq <=> a = Yield(NoSeq)
    /\ \A q \in SeqKinds : Sequence(q) \in Actions /\ Sequence(q).a = "Sequence"
    /\ \A fn \in Fns, t \in SeqKinds \cup {NoSeq} : Call(fn, t) \in Actions /\ Call(fn, t).a = "Call"
    /\ \A t \in SeqKinds \cup {NoSeq} : Yield(t) \in Actions /\ Yield(t).a = "Yield"
    /\ \A co \in Threads, t \in SeqKinds \cup {NoSeq} :
          /\ Resume(co, t) \in Actions /\ Resume(co, t).a = "Resume" /\ Resume(co, t).co = co
BY DEF Actions, Return, Err, NoAction, Sequence, Call, Yield, Resume

\* A fresh coroutine, and one that was closed.
LEMMA CoroutineStates ==
    /\ \A fn \in Fns : LET r == Fresh(fn) IN
          r \in ThreadState /\ r.made /\ Unstarted(r) /\ Resting(r) /\ Structured(r.frames)
    /\ \A r \in ThreadState : LET s == Cleared(r) IN
          s \in ThreadState /\ s.made = r.made /\ Resting(s) /\ Structured(s.frames) /\ Finished(s)
          /\ s.status = "Stopped"
<1>0. <<>> \in Seq(Frames) /\ DOMAIN <<>> = {} /\ Structured(<<>>)
  <2>1. <<>> \in Seq(Frames) /\ DOMAIN <<>> = {}
    BY EmptySeq, LenProperties
  <2> QED
    BY <2>1 DEF Structured
<1>1. ASSUME NEW fn \in Fns
      PROVE  LET r == Fresh(fn) IN
             r \in ThreadState /\ r.made /\ Unstarted(r) /\ Resting(r) /\ Structured(r.frames)
  <2> DEFINE r == Fresh(fn)
             f == StartFrame(fn)
  <2>1. f \in Frames /\ f.k = "Start"
    BY FrameKinds
  <2>2. /\ r.made = TRUE /\ r.frames = <<f>> /\ r.status = "Suspended"
        /\ r.pending = NoAction /\ r.site = NoSite /\ r.yield_bottom = NoSite
    BY DEF Fresh
  <2> HIDE DEF f
  <2>3. <<f>> \in Seq(Frames) /\ Append(<<>>, f) = <<f>>
    BY <1>0, <2>1, AppendIsConcat, ConcatEmptySeq
  <2>4. r \in ThreadState
    BY <2>3 DEF Fresh, ThreadState, Statuses, f
  <2> HIDE DEF r
  <2>5. PushFits(<<>>, f)
    BY <2>1 DEF PushFits
  <2>6. Structured(<<f>>) /\ <<f>> # <<>> /\ Last(<<f>>) = f
    <3>1. Structured(Append(<<>>, f))
      BY <1>0, <2>1, <2>5, FramesPush
    <3>2. Append(<<>>, f) # <<>> /\ Last(Append(<<>>, f)) = f
      <4>1. \A e \in Seq(Frames) : Append(e, f) # <<>> /\ Last(Append(e, f)) = f
        BY <2>1, Appended
      <4> QED
        BY <1>0, <4>1, Zenon
    <3> QED
      BY <2>3, <3>1, <3>2, Zenon
  <2>7. \A k : TopIs(r, k) <=> k = "Start"
    BY <2>1, <2>2, <2>6 DEF TopIs, Top
  <2>8. Unstarted(r)
    BY <2>2, <2>7 DEF Unstarted, Quiet
  <2> QED
    BY <2>2, <2>4, <2>6, <2>8 DEF Resting, r
<1>2. ASSUME NEW r \in ThreadState
      PROVE  LET s == Cleared(r) IN
             s \in ThreadState /\ s.made = r.made /\ Resting(s) /\ Structured(s.frames) /\ Finished(s)
             /\ s.status = "Stopped"
  <2> DEFINE s == Cleared(r)
  <2>1. /\ s \in ThreadState /\ s.made = r.made /\ s.frames = <<>> /\ s.status = "Stopped"
        /\ s.pending = NoAction /\ s.yield_bottom = NoSite
    BY <1>0 DEF Cleared, ThreadState, Statuses
  <2> HIDE DEF s
  <2> QED
    BY <1>0, <2>1 DEF Resting, Finished, Quiet, TopIs, s
<1> QED
  BY <1>1, <1>2

\* What a native callback leaves behind: its thread untouched, the others as
\* they may be, and an action that can be carried out.
Called(th, o) ==
    /\ Others(o.th) /\ o.th[cur] = th[cur]
    /\ o.act \in Actions \cup {Return, Err}
    /\ o.act.a = "Resume" =>
          /\ o.act.co \in Coroutines \ OnStack
          /\ o.th[o.act.co].made /\ o.th[o.act.co].status = "Suspended"

\* The coroutine library may change a coroutine that is not active.
LEMMA TouchResting ==
    ASSUME IInv, thread_stack # <<>>, NEW th, Others(th), NEW co \in Coroutines \ OnStack,
           NEW r \in ThreadState, Resting(r), Structured(r.frames)
    PROVE  LET th2 == [th EXCEPT ![co] = r] IN Others(th2) /\ th2[cur] = th[cur]
<1> DEFINE th2 == [th EXCEPT ![co] = r]
<1>1. co # cur /\ co \in Threads /\ cur \in Threads
  BY Current
<1>2. /\ th2 \in [Threads -> ThreadState]
      /\ \A q \in Threads : th2[q] = IF q = co THEN r ELSE th[q]
  BY <1>1 DEF Others
<1> HIDE DEF th2
<1>3. \A q \in OnStack : q # co /\ q \in Threads
  BY Current
<1>4. \A q \in Coroutines \ OnStack : q \in Threads
  BY Current
<1> QED
  BY <1>1, <1>2, <1>3, <1>4 DEF Others, th2

\* A native keeps its thread and the invariant of the others, whatever it answers.
LEMMA NativeCalls ==
    ASSUME IInv, thread_stack # <<>>, Admit = {}, NEW th, Others(th),
           NEW o \in invoke_native(th, cur)
    PROVE  Called(th, o)
<1>0. /\ th \in [Threads -> ThreadState] /\ cur \in Threads /\ Coroutines \subseteq Threads
      /\ NoSeq \in SeqKinds \cup {NoSeq} /\ "Host" \in SeqKinds /\ "PCall" \in SeqKinds
      /\ "Unwrap" \in SeqKinds
  BY Current DEF Others, SeqKinds
<1> DEFINE plain(acts) == {[act |-> a, th |-> th] : a \in acts}
           outcomes(n) == CASE n = "return"     -> plain({Return})
                            [] n = "error"      -> plain({Err})
                            [] n = "create"     -> lua_create(th)
                            [] n = "resume"     -> lua_resume(th, cur)
                            [] n = "wrap"       -> wrap_callback(th, cur)
                            [] n = "close"      -> lua_close(th, cur)
                            [] n = "yield"      -> plain({Yield(NoSeq)})
                            [] n = "sequence"   -> plain({Sequence("Host")})
                            [] n = "call"       -> plain({Call(fn, NoSeq) : fn \in Fns})
                            [] n = "call_then"  -> plain({Call(fn, "Host") : fn \in Fns})
                            [] n = "yield_then" -> plain({Yield("Host")})
                            [] n = "host_resume" -> host_resume(th, cur)
<1>1. PICK n \in Callable(th[cur]) : o \in outcomes(n)
  <2>1. invoke_native(th, cur) = UNION {outcomes(n) : n \in Callable(th[cur])}
    BY DEF invoke_native
  <2> HIDE DEF outcomes
  <2> QED
    BY <2>1
<1>2. n \in NativeKinds
  BY NativesAssumption DEF Callable
<1>3. ASSUME NEW a \in Actions \cup {Return, Err}, a.a # "Resume", o = [act |-> a, th |-> th]
      PROVE  Called(th, o)
  BY <1>3 DEF Called
<1>5. ASSUME NEW co \in Threads, th[co].made, Resumable(th, cur, co),
             NEW seq \in SeqKinds \cup {NoSeq}, o = [act |-> Resume(co, seq), th |-> th]
      PROVE  Called(th, o)
  <2>1. co \in Coroutines \ OnStack /\ th[co].status = "Suspended"
    BY <1>5, ResumableRests
  <2>2. /\ Resume(co, seq) \in Actions /\ Resume(co, seq).a = "Resume"
        /\ Resume(co, seq).co = co
    BY <1>5, ActionKinds
  <2> QED
    BY <1>5, <2>1, <2>2 DEF Called
<1>6. CASE n = "return"
  <2>1. o = [act |-> Return, th |-> th]
    BY <1>1, <1>6
  <2> QED BY <1>3, <2>1, ActionKinds
<1>7. CASE n = "error"
  <2>1. o = [act |-> Err, th |-> th]
    BY <1>1, <1>7
  <2> QED BY <1>3, <2>1, ActionKinds
<1>8. CASE n = "create"
  <2>1. o \in lua_create(th)
    BY <1>1, <1>8
  <2>2. PICK co \in Coroutines, fn \in Fns :
           ~th[co].made /\ o = [act |-> Return, th |-> [th EXCEPT ![co] = Fresh(fn)]]
    BY <2>1 DEF lua_create
  <2>3. co \notin OnStack
    <3>1. ASSUME co \in OnStack PROVE thread[co].made
      BY <3>1, Current DEF OnStack, IInv, StackInv
    <3> QED
      BY <2>2, <3>1 DEF Others
  <2>4. Fresh(fn) \in ThreadState /\ Resting(Fresh(fn)) /\ Structured(Fresh(fn).frames)
    BY CoroutineStates
  <2>5. Others(o.th) /\ o.th[cur] = th[cur]
    BY <2>2, <2>3, <2>4, TouchResting
  <2> QED
    BY <2>2, <2>5, ActionKinds DEF Called
<1>9. CASE n = "resume"
  <2>1. o \in lua_resume(th, cur)
    BY <1>1, <1>9
  <2>2. PICK co \in Threads :
           /\ th[co].made
           /\ o = [act |-> IF Resumable(th, cur, co) THEN Resume(co, "PCall") ELSE Return, th |-> th]
    BY <2>1 DEF lua_resume
  <2>3. CASE Resumable(th, cur, co)
    BY <1>0, <1>5, <2>2, <2>3
  <2>4. CASE ~Resumable(th, cur, co)
    BY <1>3, <2>2, <2>4, ActionKinds
  <2> QED BY <2>3, <2>4
<1>10. CASE n = "wrap"
  <2>1. o \in wrap_callback(th, cur)
    BY <1>1, <1>10
  <2>2. PICK co \in Wrapped : /\ th[co].made /\ Resumable(th, cur, co)
                              /\ o = [act |-> Resume(co, "Unwrap"), th |-> th]
    BY <2>1 DEF wrap_callback
  <2>3. co \in Threads
    BY <1>0, ThreadsAssumption
  <2> QED BY <1>0, <1>5, <2>2, <2>3
<1>11. CASE n = "close"
  <2>1. o \in lua_close(th, cur)
    BY <1>1, <1>11
  <2>2. PICK co \in Threads :
           o = [act |-> Return,
                th |-> IF co # cur /\ th[co].status # "Normal"
                       THEN [th EXCEPT ![co] = Cleared(th[co])] ELSE th]
    BY <2>1 DEF lua_close
  <2>3. CASE co # cur /\ th[co].status # "Normal"
    <3>1. co \in Coroutines \ OnStack
      <4>1. ASSUME co \in OnStack PROVE FALSE
        <5>1. PICK i \in DOMAIN thread_stack : thread_stack[i] = co
          BY <4>1 DEF OnStack
        <5>2. i \in 1..(Len(thread_stack) - 1)
          BY <2>3, <5>1, Current
        <5>3. thread[co].status = "Normal"
          BY <5>1, <5>2 DEF IInv, StackInv, Waiting
        <5> QED
          BY <2>3, <4>1, <5>3 DEF Others
      <4> QED BY <4>1, Current
    <3>2. th[co] \in ThreadState
      BY <1>0
    <3>3. Others(o.th) /\ o.th[cur] = th[cur]
      BY <2>2, <2>3, <3>1, <3>2, CoroutineStates, TouchResting
    <3> QED
      BY <2>2, <3>3, ActionKinds DEF Called
  <2>4. CASE ~(co # cur /\ th[co].status # "Normal")
    BY <1>3, <2>2, <2>4, ActionKinds
  <2> QED BY <2>3, <2>4
<1>12. CASE n = "yield"
  <2>1. o = [act |-> Yield(NoSeq), th |-> th]
    BY <1>1, <1>12
  <2>2. Yield(NoSeq) \in Actions /\ Yield(NoSeq).a = "Yield"
    BY <1>0, ActionKinds
  <2> QED BY <1>3, <2>1, <2>2
<1>13. CASE n = "sequence"
  <2>1. o = [act |-> Sequence("Host"), th |-> th]
    BY <1>1, <1>13
  <2>2. Sequence("Host") \in Actions /\ Sequence("Host").a = "Sequence"
    BY <1>0, ActionKinds
  <2> QED BY <1>3, <2>1, <2>2
<1>14. CASE n = "call"
  <2>1. PICK fn \in Fns : o = [act |-> Call(fn, NoSeq), th |-> th]
    BY <1>1, <1>14
  <2>2. Call(fn, NoSeq) \in Actions /\ Call(fn, NoSeq).a = "Call"
    BY <1>0, ActionKinds
  <2> QED BY <1>3, <2>1, <2>2
<1>15. CASE n = "call_then"
  <2>1. PICK fn \in Fns : o = [act |-> Call(fn, "Host"), th |-> th]
    BY <1>1, <1>15
  <2>2. Call(fn, "Host") \in Actions /\ Call(fn, "Host").a = "Call"
    BY <1>0, ActionKinds
  <2> QED BY <1>3, <2>1, <2>2
<1>16. CASE n = "yield_then"
  <2>1. o = [act |-> Yield("Host"), th |-> th]
    BY <1>1, <1>16
  <2>2. Yield("Host") \in Actions /\ Yield("Host").a = "Yield"
    BY <1>0, ActionKinds
  <2> QED BY <1>3, <2>1, <2>2
<1>17. CASE n = "host_resume"
  <2>1. o \in host_resume(th, cur)
    BY <1>1, <1>17
  <2>2. PICK co \in Coroutines : /\ th[co].made /\ Resumable(th, cur, co)
                                 /\ o = [act |-> Resume(co, NoSeq), th |-> th]
    BY <2>1 DEF host_resume
  <2>3. co \in Threads
    BY <1>0
  <2> QED BY <1>0, <1>5, <2>2, <2>3
<1> HIDE DEF outcomes, plain
<1> QED
  BY <1>2, <1>6, <1>7, <1>8, <1>9, <1>10, <1>11, <1>12, <1>13, <1>14, <1>15, <1>16, <1>17
  DEF NativeKinds

\* Stash sets the pending action and its call site, and nothing else.
LEMMA StashState ==
    ASSUME NEW r \in ThreadState, NEW act \in Actions \cup {NoAction},
           NEW site \in Sites \cup {NoSite}
    PROVE  LET s == Stash(r, act, site) IN
           /\ s \in ThreadState /\ s.made = r.made /\ s.frames = r.frames /\ s.status = r.status
           /\ s.yield_bottom = r.yield_bottom /\ s.pending = act /\ s.site = site
BY DEF Stash, ThreadState

\* A frame pushed on a frame that waits for it runs.
LEMMA PushQuiet ==
    ASSUME NEW r \in ThreadState, Structured(r.frames), Unstashed(r), NEW f \in Frames,
           PushFits(r.frames, f), f.k # "WaitThread", f.k = "Lua" => f.owed = NoSite
    PROVE  LET s == Push(r, f) IN
           /\ s \in ThreadState /\ s.made = r.made /\ s.status = r.status
           /\ Structured(s.frames) /\ Quiet(s) /\ s.frames # <<>>
<1> DEFINE s == Push(r, f)
<1>1. /\ s \in ThreadState /\ SameRest(r, s) /\ s.frames # <<>> /\ Top(s) = f
      /\ (\A k : TopIs(s, k) <=> f.k = k) /\ Structured(s.frames)
  BY PushState
<1> HIDE DEF s
<1> QED
  BY <1>1 DEF Quiet, SameRest, Unstashed, s

\* The frame that waits for results, or a Sequence, also takes an error.
LEMMA ErrorFits ==
    ASSUME NEW fs \in Seq(Frames), NEW site, Takes(fs, Len(fs), site)
    PROVE  PushFits(fs, ErrorFrame) /\ Steady(fs)
BY TakesTop, FrameKinds DEF PushFits, Steady

\* The state th2 in which a call leaves the running thread of th.
Scheduled(th, th2) ==
    /\ Others(th2) /\ Structured(th2[cur].frames) /\ th2[cur].status = th[cur].status
    /\ \/ Quiet(th2[cur]) /\ th2[cur].frames # <<>>
       \/ Requesting(th2[cur]) /\ ResumesParked(th2, th2[cur], OnStack)

\* An action of a native is stashed while the frame below waits for it.
LEMMA Stashing ==
    ASSUME IInv, thread_stack # <<>>, NEW th, Others(th), NEW r \in ThreadState, r.made,
           r.status = th[cur].status, Structured(r.frames), Unstashed(r),
           NEW site \in Sites, TopTakes(r, site),
           NEW o, Called(th, o), o.act # Return, o.act # Err,
           o.act.a = "Call" => site = "call",
           o.act = Yield(NoSeq) => r.frames # <<>>
    PROVE  Scheduled(th, [o.th EXCEPT ![cur] = Stash(r, o.act, site)])
<1> DEFINE s == Stash(r, o.act, site)
           th2 == [o.th EXCEPT ![cur] = s]
<1>1. o.act \in Actions /\ o.act # NoAction /\ Others(o.th)
  BY ActionKinds DEF Called
<1>2. /\ s \in ThreadState /\ s.made = r.made /\ s.frames = r.frames /\ s.status = r.status
      /\ s.yield_bottom = r.yield_bottom /\ s.pending = o.act /\ s.site = site
  <2>1. o.act \in Actions \cup {NoAction} /\ site \in Sites \cup {NoSite}
    BY <1>1
  <2> QED BY <2>1, StashState
<1> HIDE DEF s
<1>3. Others(th2) /\ th2[cur] = s /\ \A q \in Threads \ {cur} : th2[q] = o.th[q]
  BY <1>1, <1>2, OthersSet
<1>4. Requesting(s)
  BY <1>1, <1>2 DEF Requesting, Unstashed, TopTakes
<1> HIDE DEF th2
<1>5. ResumesParked(th2, s, OnStack)
  <2> SUFFICES ASSUME s.pending.a = "Resume"
               PROVE  /\ s.pending.co \in Coroutines \ OnStack
                      /\ th2[s.pending.co].made /\ th2[s.pending.co].status = "Suspended"
    BY DEF ResumesParked
  <2>1. /\ o.act.co \in Coroutines \ OnStack
        /\ o.th[o.act.co].made /\ o.th[o.act.co].status = "Suspended"
    BY <1>2 DEF Called
  <2>2. o.act.co \in Threads \ {cur}
    BY <2>1, Current
  <2> QED
    BY <1>2, <1>3, <2>1, <2>2
<1> QED
  BY <1>2, <1>3, <1>4, <1>5 DEF Scheduled, th2, s

\* schedule_call_at pushes a frame, runs a native to its end, or finishes the thread it starts.
LEMMA Scheduling ==
    ASSUME IInv, thread_stack # <<>>, Admit = {}, NEW th, Others(th),
           Structured(th[cur].frames), Unstashed(th[cur]), TopTakes(th[cur], "call"),
           NEW starting \in BOOLEAN, starting => th[cur].frames = <<>>,
           NEW fn \in Fns, NEW th2 \in schedule_call_at(th, cur, fn, starting)
    PROVE  \/ Scheduled(th, th2)
           \/ /\ starting /\ Others(th2) /\ th2[cur].frames = <<>> /\ Quiet(th2[cur])
              /\ Structured(th2[cur].frames)
<1> DEFINE r == th[cur]
<1>1. r \in ThreadState /\ r.made /\ r.frames \in Seq(Frames)
  BY Current, TopFrame DEF Others
<1>2. CASE fn = "Lua"
  <2>1. th2 = [th EXCEPT ![cur] = Push(r, LuaFrame(FALSE))]
    BY <1>2 DEF schedule_call_at
  <2>2. /\ LuaFrame(FALSE) \in Frames /\ LuaFrame(FALSE).k = "Lua"
        /\ LuaFrame(FALSE).owed = NoSite /\ LuaFrame(FALSE).cont = FALSE
    BY FrameKinds
  <2>3. PushFits(r.frames, LuaFrame(FALSE))
    BY <2>2 DEF PushFits, TopTakes
  <2> DEFINE s == Push(r, LuaFrame(FALSE))
  <2>4. /\ s \in ThreadState /\ s.made = r.made /\ s.status = r.status
        /\ Structured(s.frames) /\ Quiet(s) /\ s.frames # <<>>
    BY <1>1, <2>2, <2>3, PushQuiet
  <2> HIDE DEF s
  <2>5. Others([th EXCEPT ![cur] = s]) /\ [th EXCEPT ![cur] = s][cur] = s
    BY <1>1, <2>4, OthersSet
  <2> QED
    BY <2>1, <2>4, <2>5 DEF Scheduled, s
<1>3. CASE fn # "Lua"
  <2>1. PICK o \in invoke_native(th, cur) :
           /\ o.act = Return => ReturnsInPlace(th, cur, starting)
           /\ o.act = Yield(NoSeq) => r.frames # <<>>
           /\ th2 = CASE o.act.a = "Return" -> o.th
                      [] o.act.a = "Err" -> [o.th EXCEPT ![cur] = Push(@, ErrorFrame)]
                      [] OTHER -> [o.th EXCEPT ![cur] = Stash(@, o.act, "call")]
    BY <1>3 DEF schedule_call_at
  <2>2. Called(th, o)
    BY NativeCalls
  <2>3. /\ Others(o.th) /\ o.th[cur] = r /\ cur \in DOMAIN o.th
        /\ \/ o.act = Return /\ o.act.a = "Return"
           \/ o.act = Err /\ o.act.a = "Err"
           \/ o.act \in Actions /\ o.act.a \notin {"Return", "Err"} /\ o.act # Return /\ o.act # Err
    BY <2>2, ActionKinds, Current DEF Called, Others
  <2>4. CASE o.act = Return
    <3>1. th2 = o.th
      BY <2>1, <2>3, <2>4, ActionKinds
    <3>2. starting \/ TopIs(r, "Sequence")
      BY <2>1, <2>4 DEF ReturnsInPlace
    <3>3. Quiet(r)
      BY <1>1, <3>2 DEF Quiet, TopIs, Unstashed
    <3> QED
      BY <2>3, <3>1, <3>2, <3>3 DEF Scheduled, TopIs
  <2>5. CASE o.act = Err
    <3>1. th2 = [o.th EXCEPT ![cur] = Push(r, ErrorFrame)]
      BY <2>1, <2>3, <2>5, ActionKinds
    <3>2. PushFits(r.frames, ErrorFrame) /\ ErrorFrame \in Frames /\ ErrorFrame.k = "Error"
      BY <1>1, ErrorFits, FrameKinds DEF TopTakes
    <3> DEFINE s == Push(r, ErrorFrame)
    <3>3. /\ s \in ThreadState /\ s.made = r.made /\ s.status = r.status
          /\ Structured(s.frames) /\ Quiet(s) /\ s.frames # <<>>
      BY <1>1, <3>2, PushQuiet
    <3> HIDE DEF s
    <3>4. Others([o.th EXCEPT ![cur] = s]) /\ [o.th EXCEPT ![cur] = s][cur] = s
      BY <1>1, <2>3, <3>3, OthersSet
    <3> QED
      BY <3>1, <3>3, <3>4 DEF Scheduled, s
  <2>6. CASE o.act \in Actions
    <3>1. th2 = [o.th EXCEPT ![cur] = Stash(r, o.act, "call")]
      BY <2>1, <2>3, <2>6, ActionKinds
    <3>2. "call" \in Sites /\ o.act # Return /\ o.act # Err
      BY <2>6, ActionKinds DEF Sites
    <3>3. Scheduled(th, [o.th EXCEPT ![cur] = Stash(r, o.act, "call")])
      <4> HIDE DEF r
      <4> QED
        BY <1>1, <2>1, <2>2, <3>2, Stashing DEF r
    <3> QED
      BY <3>1, <3>3
  <2> QED BY <2>3, <2>4, <2>5, <2>6
<1> QED BY <1>2, <1>3
-----------------------------------------------------------------------------
(* Steps that keep the stack of active threads                             *)

\* No thread is on the stack twice.
LEMMA OnceOnStack ==
    ASSUME IInv, thread_stack # <<>>
    PROVE  /\ \A i \in 1..(Len(thread_stack) - 1) :
                 /\ i \in DOMAIN thread_stack /\ i + 1 \in DOMAIN thread_stack
                 /\ thread_stack[i] \in OnStack \ {cur}
                 /\ Waiting(thread[thread_stack[i]], thread_stack[i + 1])
           /\ \A q \in OnStack \ {cur} : \E i \in 1..(Len(thread_stack) - 1) : thread_stack[i] = q
           /\ Len(thread_stack) = 1 => cur = Main /\ OnStack = {Main}
<1>1. \A i \in 1..(Len(thread_stack) - 1) :
         /\ i \in DOMAIN thread_stack /\ i + 1 \in DOMAIN thread_stack
         /\ i # Len(thread_stack) /\ Len(thread_stack) \in DOMAIN thread_stack
  <2>1. PICK n \in Nat \ {0} : n = Len(thread_stack) /\ DOMAIN thread_stack = 1..n
    BY Current
  <2>2. \A i \in 1..(n - 1) : i \in 1..n /\ i + 1 \in 1..n /\ i # n /\ n \in 1..n
    OBVIOUS
  <2> QED BY <2>1, <2>2
<1>2. \A i \in 1..(Len(thread_stack) - 1) : thread_stack[i] \in OnStack \ {cur}
  BY <1>1, Current DEF OnStack, IInv, StackInv, IsInjective
<1>3. ASSUME NEW q \in OnStack \ {cur}
      PROVE  \E i \in 1..(Len(thread_stack) - 1) : thread_stack[i] = q
  <2>1. PICK i \in DOMAIN thread_stack : thread_stack[i] = q
    BY DEF OnStack
  <2>2. i \in 1..(Len(thread_stack) - 1)
    BY <2>1, Current
  <2> QED BY <2>1, <2>2
<1>4. Len(thread_stack) = 1 => cur = Main /\ OnStack = {Main}
  BY Current DEF OnStack, IInv, StackInv
<1> QED
  BY <1>1, <1>2, <1>3, <1>4 DEF IInv, StackInv

\* A step that leaves the stack of threads alone keeps what the invariant says of it.
LEMMA SameStack ==
    ASSUME IInv, thread_stack # <<>>, thread_stack' = thread_stack,
           Others(thread'), Structured(thread'[cur].frames)
    PROVE  /\ thread' \in [Threads -> ThreadState] /\ thread_stack' \in Seq(Threads)
           /\ FramesInv' /\ StackInv' /\ OffStackInv'
           /\ cur' = cur /\ OnStack' = OnStack
<1>1. cur' = cur /\ OnStack' = OnStack
  BY DEF cur, OnStack
<1>2. thread' \in [Threads -> ThreadState] /\ thread_stack' \in Seq(Threads)
  BY Current DEF Others
<1>3. FramesInv'
  <2> SUFFICES ASSUME NEW q \in Threads PROVE Structured(thread'[q].frames)
    BY DEF FramesInv
  <2>1. CASE q = cur
    BY <2>1
  <2>2. CASE q \in OnStack \ {cur}
    BY <2>2 DEF Others, IInv, FramesInv
  <2>3. CASE q \in Coroutines \ OnStack
    BY <2>3 DEF Others
  <2> QED BY <2>1, <2>2, <2>3, Current
<1>4. StackInv'
  <2>1. \A i \in 1..(Len(thread_stack) - 1) :
           Waiting(thread'[thread_stack[i]], thread_stack[i + 1])
    BY OnceOnStack DEF Others
  <2>2. \A i \in DOMAIN thread_stack : thread'[thread_stack[i]].made
    <3>1. \A i \in DOMAIN thread_stack : thread_stack[i] \in OnStack
      BY DEF OnStack
    <3> QED
      BY <3>1 DEF Others, IInv, StackInv
  <2>3. thread'[Main].made
    BY <2>2, Current DEF OnStack
  <2> QED
    BY <2>1, <2>2, <2>3 DEF StackInv, IInv
<1>5. OffStackInv'
  BY <1>1 DEF Others, OffStackInv
<1> QED
  BY <1>1, <1>2, <1>3, <1>4, <1>5

\* A step of the running thread keeps the invariant if the thread stays one
\* that the loop can go on with.
LEMMA CurStep ==
    ASSUME IInv, thread_stack # <<>>, thread_stack' = thread_stack,
           mode' = "Normal", panicked' = panicked,
           Others(thread'), Structured(thread'[cur].frames),
           Active(thread'[cur], Len(thread_stack)),
           ResumesParked(thread', thread'[cur], OnStack),
           driving' \in BOOLEAN, result' \in Results \ {"Err"}, driving' => result' = "None"
    PROVE  IInv'
<1>1. /\ thread' \in [Threads -> ThreadState] /\ thread_stack' \in Seq(Threads)
      /\ FramesInv' /\ StackInv' /\ OffStackInv' /\ cur' = cur /\ OnStack' = OnStack
  BY SameStack
<1>2. TypeOK' /\ ~panicked'
  BY <1>1 DEF IInv, TypeOK, Modes
<1>3. HostInv'
  BY <1>1 DEF HostInv
<1> QED
  BY <1>1, <1>2, <1>3 DEF IInv

\* An error goes to the host only from the bottom thread.
LEMMA ErrStep ==
    ASSUME IInv, mode = "Normal", Len(thread_stack) = 1, thread_stack # <<>>,
           thread_stack' = thread_stack, mode' = mode, panicked' = panicked,
           Others(thread'), Structured(thread'[cur].frames), Quiet(thread'[cur]),
           driving' = FALSE, result' = "Err"
    PROVE  IInv'
<1>1. /\ thread' \in [Threads -> ThreadState] /\ thread_stack' \in Seq(Threads)
      /\ FramesInv' /\ StackInv' /\ OffStackInv' /\ cur' = cur /\ OnStack' = OnStack
  BY SameStack
<1>2. TypeOK' /\ ~panicked'
  BY <1>1 DEF IInv, TypeOK, Results
<1>3. HostInv'
  BY <1>1 DEF HostInv
<1> QED
  BY <1>1, <1>2, <1>3 DEF IInv

\* The host is inside step.
LEMMA Driven ==
    ASSUME IInv, Running
    PROVE  /\ mode = "Normal" /\ result = "None" /\ driving = TRUE /\ thread_stack # <<>>
           /\ Active(thread[cur], Len(thread_stack))
           /\ ResumesParked(thread, thread[cur], OnStack)
BY DEF IInv, TypeOK, HostInv, Running

\* The loop goes on with r as the running thread.
LEMMA SetCur ==
    ASSUME IInv, Running, NEW th, Others(th), NEW r \in ThreadState, r.made,
           Structured(r.frames), thread' = [th EXCEPT ![cur] = r],
           Active(r, Len(thread_stack)), r.pending = NoAction,
           UNCHANGED thread_stack, Continue
    PROVE  IInv'
<1>1. Others(thread') /\ thread'[cur] = r
  BY OthersSet, Driven
<1>2. ResumesParked(thread', r, OnStack)
  BY DEF ResumesParked
<1> QED
  BY <1>1, <1>2, CurStep, Driven DEF Continue, Results

\* After a call the loop goes on.
LEMMA ScheduledStep ==
    ASSUME IInv, Running, NEW th, th[cur].status = "Normal", Scheduled(th, thread'),
           UNCHANGED thread_stack, Continue
    PROVE  IInv'
<1>1. Active(thread'[cur], Len(thread_stack)) /\ ResumesParked(thread', thread'[cur], OnStack)
  BY DEF Scheduled, Active, ResumesParked, Quiet
<1> QED
  BY <1>1, CurStep, Driven DEF Scheduled, Continue, Results

\* What the loop finds on top of the running thread.
LEMMA AtTop ==
    ASSUME IInv, Pumping, thread[cur].pending = NoAction
    PROVE  LET r == thread[cur] IN
           /\ Running /\ r \in ThreadState /\ r.made /\ Structured(r.frames) /\ Quiet(r)
           /\ Unstashed(r) /\ r.frames # <<>> /\ Top(r) \in Frames
           /\ Top(r).k \in {"Lua", "Sequence", "Start", "Error"}
           /\ Top(r).k # "Start" => r.status = "Normal"
           /\ Top(r).k = "Lua" => Top(r).owed = NoSite
<1> DEFINE r == thread[cur]
<1>1. Running /\ (r.status = "Normal" \/ (r.status = "Suspended" /\ r.yield_bottom = NoSite))
  BY DEF Pumping
<1>2. /\ r \in ThreadState /\ r.made /\ Structured(r.frames)
      /\ Active(r, Len(thread_stack)) /\ r.pending = NoAction
  BY <1>1, Driven, Current
<1> HIDE DEF r
<1>3. \/ r.status = "Normal" /\ Quiet(r) /\ r.frames # <<>>
      \/ Unstarted(r)
  BY <1>1, <1>2 DEF Active, Requesting, Yielding
<1>4. Quiet(r) /\ Unstashed(r) /\ r.frames # <<>> /\ (r.status = "Normal" \/ TopIs(r, "Start"))
  BY <1>3 DEF Unstarted, Quiet, Unstashed, TopIs
<1>5. Top(r) \in Frames
  BY <1>2, <1>4, TopFrame
<1>6. Top(r).k \in {"Lua", "Sequence", "Start", "WaitThread", "Error"}
  BY <1>5, FrameKinds
<1> QED
  BY <1>1, <1>2, <1>4, <1>5, <1>6 DEF Quiet, TopIs, r

\* A thread whose results have landed runs on, or is done.
LEMMA LandedActive ==
    ASSUME NEW r \in ThreadState, r.made, r.status = "Normal", NEW s, Landed(r, s), NEW n
    PROVE  /\ s \in ThreadState /\ s.made /\ Structured(s.frames)
           /\ Active(s, n) /\ s.pending = NoAction
BY DEF Landed, Active, Finished, Quiet

\* A frame with what it stands on.
LEMMA PushActive ==
    ASSUME NEW r \in ThreadState, r.made, Structured(r.frames), Unstashed(r), r.status = "Normal",
           NEW f \in Frames, PushFits(r.frames, f), f.k # "WaitThread",
           f.k = "Lua" => f.owed = NoSite, NEW n
    PROVE  LET s == Push(r, f) IN
           /\ s \in ThreadState /\ s.made /\ Structured(s.frames)
           /\ Active(s, n) /\ s.pending = NoAction
<1> DEFINE s == Push(r, f)
<1>1. /\ s \in ThreadState /\ s.made = r.made /\ s.status = r.status
      /\ Structured(s.frames) /\ Quiet(s) /\ s.frames # <<>>
  BY PushQuiet
<1> HIDE DEF s
<1> QED
  BY <1>1 DEF Active, Quiet, s

\* The three ends of a call: it returned, it failed, it asks for an action.
LEMMA NativeReturn ==
    ASSUME IInv, Running, Admit = {}, NEW o \in invoke_native(thread, cur),
           NEW r \in ThreadState, r.made, Structured(r.frames), Active(r, Len(thread_stack)),
           r.pending = NoAction, thread' = [o.th EXCEPT ![cur] = r],
           UNCHANGED thread_stack, Continue
    PROVE  IInv'
<1>1. Called(thread, o)
  BY Driven, OthersNow, NativeCalls
<1> QED
  BY <1>1, SetCur DEF Called

\* A native's answer other than a return is stashed for the driver to apply.
LEMMA NativeAction ==
    ASSUME IInv, Running, Admit = {}, NEW o \in invoke_native(thread, cur),
           o.act # Return, o.act # Err, thread[cur].status = "Normal",
           NEW r \in ThreadState, r.made, r.status = "Normal", Structured(r.frames), Unstashed(r),
           NEW site \in Sites, TopTakes(r, site), o.act.a = "Call" => site = "call",
           o.act = Yield(NoSeq) => r.frames # <<>>,
           thread' = [o.th EXCEPT ![cur] = Stash(r, o.act, site)],
           UNCHANGED thread_stack, Continue
    PROVE  IInv'
<1>1. Called(thread, o) /\ Others(thread) /\ thread_stack # <<>>
  BY Driven, OthersNow, NativeCalls
<1>2. Scheduled(thread, [o.th EXCEPT ![cur] = Stash(r, o.act, site)])
  BY <1>1, Stashing
<1> QED
  BY <1>2, ScheduledStep
-----------------------------------------------------------------------------
(* The steps of run_thread                                                 *)

\* A native that returns, or fails, at a Lua frame.
LEMMA Outcomes ==
    ASSUME IInv, thread_stack # <<>>, Admit = {}, NEW o \in invoke_native(thread, cur)
    PROVE  /\ Called(thread, o) /\ o.th[cur] = thread[cur]
           /\ o.th = [o.th EXCEPT ![cur] = thread[cur]]
           /\ \A r : [o.th EXCEPT ![cur] = r][cur] = r
           /\ \/ o.act = Return /\ o.act.a = "Return" /\ o.act # Err
              \/ o.act = Err /\ o.act.a = "Err" /\ o.act # Return
              \/ o.act.a \notin {"Return", "Err"} /\ o.act # Return /\ o.act # Err
<1>1. Called(thread, o)
  BY OthersNow, NativeCalls
<1>2. o.th \in [Threads -> ThreadState] /\ o.th[cur] = thread[cur] /\ cur \in Threads
  BY <1>1, Current DEF Called, Others
<1>3. o.th = [o.th EXCEPT ![cur] = thread[cur]] /\ \A r : [o.th EXCEPT ![cur] = r][cur] = r
  BY <1>2
<1>4. \/ o.act = Return /\ o.act.a = "Return" /\ o.act # Err
      \/ o.act = Err /\ o.act.a = "Err" /\ o.act # Return
      \/ o.act.a \notin {"Return", "Err"} /\ o.act # Return /\ o.act # Err
  BY <1>1, ActionKinds DEF Called
<1> QED
  BY <1>1, <1>2, <1>3, <1>4

\* What the program's instructions find on the running thread.
LEMMA AtLuaFrame ==
    ASSUME IInv, AtLua
    PROVE  LET r == thread[cur] IN
           /\ Running /\ thread_stack # <<>> /\ r \in ThreadState /\ r.made
           /\ Structured(r.frames) /\ Quiet(r) /\ Unstashed(r) /\ r.frames # <<>>
           /\ TopIs(r, "Lua") /\ Top(r) \in Frames /\ Top(r).k = "Lua"
           /\ r.status = "Normal" /\ r.pending = NoAction /\ Active(r, Len(thread_stack))
           /\ r.frames \in Seq(Frames) /\ Steady(r.frames)
<1>1. Pumping /\ thread[cur].pending = NoAction /\ TopIs(thread[cur], "Lua")
  BY DEF AtLua, AtFrame
<1>2. Top(thread[cur]).k = "Lua" /\ thread[cur].frames # <<>>
  BY <1>1 DEF TopIs
<1>3. Running /\ thread_stack # <<>> /\ Active(thread[cur], Len(thread_stack))
  BY <1>1, Driven DEF Pumping
<1>4. Steady(thread[cur].frames)
  BY <1>2 DEF Steady, Top
<1> QED
  BY <1>1, <1>2, <1>3, <1>4, AtTop, TopFrame

\* The Lua frame on top waits for results of kind site.
LEMMA Owing ==
    ASSUME IInv, AtLua, NEW site \in Sites
    PROVE  LET s == Owe(thread[cur], site) IN
           /\ s \in ThreadState /\ s.made /\ s.status = "Normal" /\ Structured(s.frames)
           /\ Unstashed(s) /\ s.frames # <<>> /\ TopTakes(s, site)
<1> DEFINE s == Owe(thread[cur], site)
<1>1. site # NoSite /\ site \in Sites \cup {NoSite}
  BY DEF Sites, NoSite
<1>2. /\ s \in ThreadState /\ SameRest(thread[cur], s) /\ Structured(s.frames)
      /\ s.frames # <<>> /\ TopTakes(s, site)
  BY <1>1, AtLuaFrame, OweState
<1> HIDE DEF s
<1> QED
  BY <1>2, AtLuaFrame DEF SameRest, Unstashed, s

\* A Lua function is called for its results, or for a metamethod's.
LEMMA LuaCallStep ==
    ASSUME IInv, AtLua, NEW cont \in BOOLEAN,
           LET site == IF cont THEN "meta" ELSE "call"
           IN  Step([thread EXCEPT ![cur] = Push(Owe(@, site), LuaFrame(cont))])
    PROVE  IInv'
<1> DEFINE site == IF cont THEN "meta" ELSE "call"
           s == Owe(thread[cur], site)
           t == Push(s, LuaFrame(cont))
<1>1. site \in Sites
  BY DEF Sites
<1>2. thread' = [thread EXCEPT ![cur] = t] /\ UNCHANGED thread_stack /\ Continue
  BY AtLuaFrame, Current DEF Step
<1>3. /\ s \in ThreadState /\ s.made /\ s.status = "Normal" /\ Structured(s.frames)
      /\ Unstashed(s) /\ s.frames # <<>> /\ TopTakes(s, site)
  BY <1>1, Owing
<1>4. /\ LuaFrame(cont) \in Frames /\ LuaFrame(cont).k = "Lua"
      /\ LuaFrame(cont).owed = NoSite /\ LuaFrame(cont).cont = cont
  BY FrameKinds
<1>5. PushFits(s.frames, LuaFrame(cont))
  BY <1>3, <1>4 DEF PushFits, TopTakes
<1> HIDE DEF s
<1>6. /\ t \in ThreadState /\ t.made /\ Structured(t.frames)
      /\ Active(t, Len(thread_stack)) /\ t.pending = NoAction
  BY <1>3, <1>4, <1>5, PushActive
<1> HIDE DEF t
<1> QED
  BY <1>2, <1>6, AtLuaFrame, OthersNow, SetCur

\* An error frame is pushed on the Lua frame, or in its place.
LEMMA NativeErr ==
    ASSUME IInv, AtLua, Admit = {}, NEW o \in invoke_native(thread, cur),
           NEW r \in {thread[cur], Pop(thread[cur])},
           thread' = [o.th EXCEPT ![cur] = Push(r, ErrorFrame)],
           UNCHANGED thread_stack, Continue
    PROVE  IInv'
<1>1. r \in ThreadState /\ r.made /\ Structured(r.frames) /\ Unstashed(r)
      /\ r.status = "Normal" /\ Steady(r.frames)
  <2>1. CASE r = thread[cur]
    BY <2>1, AtLuaFrame
  <2>2. CASE r = Pop(thread[cur])
    BY <2>2, AtLuaFrame, PopState DEF SameRest, Unstashed
  <2> QED BY <2>1, <2>2
<1>2. ErrorFrame \in Frames /\ ErrorFrame.k = "Error" /\ PushFits(r.frames, ErrorFrame)
  BY <1>1, FrameKinds DEF PushFits
<1> DEFINE s == Push(r, ErrorFrame)
<1>3. /\ s \in ThreadState /\ s.made /\ Structured(s.frames)
      /\ Active(s, Len(thread_stack)) /\ s.pending = NoAction
  BY <1>1, <1>2, PushActive
<1>4. thread' = [o.th EXCEPT ![cur] = s]
  OBVIOUS
<1> HIDE DEF s
<1> QED
  BY <1>3, <1>4, AtLuaFrame, NativeReturn

\* op_call of a native keeps the invariant.
LEMMA CallNativeStep == ASSUME IInv, Admit = {}, op_call_native PROVE IInv'
<1>1. AtLua
  BY DEF op_call_native
<1>2. PICK o \in invoke_native(thread, cur) :
         Step(CASE o.act.a = "Return" -> o.th
                [] o.act.a = "Err" -> [o.th EXCEPT ![cur] = Push(@, ErrorFrame)]
                [] OTHER -> [o.th EXCEPT ![cur] = Stash(Owe(@, "call"), o.act, "call")])
  BY DEF op_call_native
<1>3. UNCHANGED thread_stack /\ Continue
  BY <1>2 DEF Step
<1>4. CASE o.act = Return
  <2>1. thread' = [o.th EXCEPT ![cur] = thread[cur]]
    BY <1>1, <1>2, <1>4, AtLuaFrame, Outcomes DEF Step
  <2> QED
    BY <1>1, <1>3, <2>1, AtLuaFrame, NativeReturn
<1>5. CASE o.act = Err
  <2>1. thread' = [o.th EXCEPT ![cur] = Push(thread[cur], ErrorFrame)]
    BY <1>1, <1>2, <1>5, AtLuaFrame, Outcomes DEF Step
  <2> QED
    BY <1>1, <1>3, <2>1, NativeErr
<1>6. CASE o.act # Return /\ o.act # Err
  <2> DEFINE r == Owe(thread[cur], "call")
  <2>1. thread' = [o.th EXCEPT ![cur] = Stash(r, o.act, "call")]
    BY <1>1, <1>2, <1>6, AtLuaFrame, Outcomes DEF Step
  <2>2. /\ "call" \in Sites /\ r \in ThreadState /\ r.made /\ r.status = "Normal"
        /\ Structured(r.frames) /\ Unstashed(r) /\ r.frames # <<>> /\ TopTakes(r, "call")
    BY <1>1, Owing DEF Sites
  <2> HIDE DEF r
  <2> QED
    BY <1>1, <1>3, <1>6, <2>1, <2>2, AtLuaFrame, NativeAction
<1> QED BY <1>4, <1>5, <1>6

\* op_tailcall of a native keeps the invariant.
LEMMA TailCallStep == ASSUME IInv, Admit = {}, op_tailcall_native PROVE IInv'
<1>1. AtLua
  BY DEF op_tailcall_native
<1>2. PICK o \in invoke_native(thread, cur) :
         CASE o.act.a = "Return" ->
                Step([o.th EXCEPT ![cur] = frame_return(@)])
           [] o.act.a = "Err" ->
                Step([o.th EXCEPT ![cur] = Push(Pop(@), ErrorFrame)])
           [] OTHER ->
                /\ ~Top(thread[cur]).cont \/ "tailcall_in_metamethod" \in Admit
                /\ o.act = Yield(NoSeq) =>
                      Len(thread[cur].frames) > 1 \/ "yield_without_frame" \in Admit
                /\ Step([o.th EXCEPT ![cur] = Stash(Pop(@), o.act, "call")])
  BY DEF op_tailcall_native
<1>3. CASE o.act = Return
  <2> DEFINE s == frame_return(thread[cur])
  <2>1. thread' = [o.th EXCEPT ![cur] = s] /\ UNCHANGED thread_stack /\ Continue
    BY <1>1, <1>2, <1>3, AtLuaFrame, Outcomes DEF Step
  <2>2. Landed(thread[cur], s)
    BY <1>1, AtLuaFrame, Returning
  <2>3. /\ s \in ThreadState /\ s.made /\ Structured(s.frames)
        /\ Active(s, Len(thread_stack)) /\ s.pending = NoAction
    BY <1>1, <2>2, AtLuaFrame, LandedActive
  <2> HIDE DEF s
  <2> QED
    BY <1>1, <2>1, <2>3, AtLuaFrame, NativeReturn
<1>4. CASE o.act = Err
  <2>1. /\ thread' = [o.th EXCEPT ![cur] = Push(Pop(thread[cur]), ErrorFrame)]
        /\ UNCHANGED thread_stack /\ Continue
    BY <1>1, <1>2, <1>4, AtLuaFrame, Outcomes DEF Step
  <2> QED
    BY <1>1, <2>1, NativeErr
<1>5. CASE o.act # Return /\ o.act # Err
  <2> DEFINE r == Pop(thread[cur])
  <2>1. /\ thread' = [o.th EXCEPT ![cur] = Stash(r, o.act, "call")]
        /\ UNCHANGED thread_stack /\ Continue
        /\ ~Top(thread[cur]).cont
        /\ o.act = Yield(NoSeq) => Len(thread[cur].frames) > 1
    BY <1>1, <1>2, <1>5, AtLuaFrame, Outcomes DEF Step
  <2>2. /\ r \in ThreadState /\ SameRest(thread[cur], r) /\ Structured(r.frames)
        /\ PushFits(r.frames, Top(thread[cur]))
        /\ r.frames = <<>> <=> Len(thread[cur].frames) = 1
    BY <1>1, AtLuaFrame, PopState
  <2> HIDE DEF r
  <2>3. "call" \in Sites /\ TopTakes(r, "call")
    BY <1>1, <2>1, <2>2, AtLuaFrame DEF PushFits, TopTakes, Sites
  <2>4. ASSUME o.act = Yield(NoSeq), r.frames = <<>> PROVE FALSE
    <3>1. Len(thread[cur].frames) = 1 /\ Len(thread[cur].frames) > 1
      BY <2>1, <2>2, <2>4
    <3> QED BY <3>1
  <2>5. r.made /\ r.status = "Normal" /\ Unstashed(r)
    BY <1>1, <2>2, AtLuaFrame DEF SameRest, Unstashed
  <2> QED
    BY <1>1, <1>5, <2>1, <2>2, <2>3, <2>4, <2>5, AtLuaFrame, NativeAction
<1> QED BY <1>3, <1>4, <1>5

\* A native metamethod keeps the invariant.
LEMMA NativeMetaStep == ASSUME IInv, Admit = {}, schedule_native_meta_call PROVE IInv'
<1>1. AtLua
  BY DEF schedule_native_meta_call
<1>2. PICK o \in invoke_native(thread, cur) :
         Step(CASE o.act.a = "Return" -> o.th
                [] o.act.a \in {"Err", "Call"} -> [o.th EXCEPT ![cur] = Push(@, ErrorFrame)]
                [] OTHER -> [o.th EXCEPT ![cur] = Stash(Owe(@, "meta"), o.act, "meta")])
  BY DEF schedule_native_meta_call
<1>3. UNCHANGED thread_stack /\ Continue
  BY <1>2 DEF Step
<1>4. CASE o.act = Return
  <2>1. thread' = [o.th EXCEPT ![cur] = thread[cur]]
    BY <1>1, <1>2, <1>4, AtLuaFrame, Outcomes DEF Step
  <2> QED
    BY <1>1, <1>3, <2>1, AtLuaFrame, NativeReturn
<1>5. CASE o.act = Err \/ o.act.a = "Call"
  <2>1. thread' = [o.th EXCEPT ![cur] = Push(thread[cur], ErrorFrame)]
    BY <1>1, <1>2, <1>5, AtLuaFrame, Outcomes DEF Step
  <2> QED
    BY <1>1, <1>3, <2>1, NativeErr
<1>6. CASE o.act # Return /\ o.act # Err /\ o.act.a # "Call"
  <2> DEFINE r == Owe(thread[cur], "meta")
  <2>1. thread' = [o.th EXCEPT ![cur] = Stash(r, o.act, "meta")]
    BY <1>1, <1>2, <1>6, AtLuaFrame, Outcomes DEF Step
  <2>2. /\ "meta" \in Sites /\ r \in ThreadState /\ r.made /\ r.status = "Normal"
        /\ Structured(r.frames) /\ Unstashed(r) /\ r.frames # <<>> /\ TopTakes(r, "meta")
    BY <1>1, Owing DEF Sites
  <2> HIDE DEF r
  <2> QED
    BY <1>1, <1>3, <1>6, <2>1, <2>2, AtLuaFrame, NativeAction
<1> QED BY <1>4, <1>5, <1>6

\* Every instruction that touches frames keeps the invariant.
LEMMA RunThreadStep == ASSUME IInv, Admit = {}, run_thread PROVE IInv'
<1>1. CASE op_call_lua
  BY <1>1, LuaCallStep DEF op_call_lua
<1>2. CASE op_return
  <2> DEFINE s == frame_return(thread[cur])
  <2>1. AtLua /\ thread' = [thread EXCEPT ![cur] = s] /\ UNCHANGED thread_stack /\ Continue
    BY <1>2 DEF op_return, Step
  <2>2. Landed(thread[cur], s)
    BY <2>1, AtLuaFrame, Returning
  <2>3. /\ s \in ThreadState /\ s.made /\ Structured(s.frames)
        /\ Active(s, Len(thread_stack)) /\ s.pending = NoAction
    BY <2>1, <2>2, AtLuaFrame, LandedActive
  <2> HIDE DEF s
  <2> QED
    BY <2>1, <2>3, AtLuaFrame, OthersNow, SetCur
<1>3. CASE schedule_meta_call_lua
  BY <1>3, LuaCallStep DEF schedule_meta_call_lua
<1>4. CASE impl_error
  <2>1. AtLua /\ Len(thread_stack) = 1 /\ driving' = FALSE /\ result' = "Err"
        /\ UNCHANGED <<panicked, thread, thread_stack, mode>>
    BY <1>4 DEF impl_error, Leave
  <2>2. Others(thread') /\ Structured(thread'[cur].frames) /\ Quiet(thread'[cur])
    BY <2>1, AtLuaFrame, OthersNow
  <2> QED
    BY <2>1, <2>2, AtLuaFrame, Driven, ErrStep
<1> QED
  BY <1>1, <1>2, <1>3, <1>4, CallNativeStep, TailCallStep, NativeMetaStep DEF run_thread
-----------------------------------------------------------------------------
(* Steps that change the stack of active threads                           *)

\* The resumer, when there is one.
LEMMA Resumer ==
    ASSUME IInv, Running, Len(thread_stack) > 1
    PROVE  LET q == Last(Front(thread_stack)) IN
           /\ Front(thread_stack) \in Seq(Threads)
           /\ Front(thread_stack) # <<>>
           /\ Len(Front(thread_stack)) = Len(thread_stack) - 1
           /\ Len(thread_stack) \in Nat
           /\ \A i \in 1..(Len(thread_stack) - 1) : Front(thread_stack)[i] = thread_stack[i]
           /\ q = thread_stack[Len(thread_stack) - 1]
           /\ q \in OnStack \ {cur} /\ q \in Threads /\ cur \in Coroutines
           /\ Waiting(thread[q], cur)
           /\ thread[q] \in ThreadState /\ thread[q].made /\ Structured(thread[q].frames)
<1> DEFINE n == Len(thread_stack)
           f == Front(thread_stack)
           q == Last(f)
<1>0. thread_stack # <<>> /\ n \in Nat /\ n > 1
  BY Driven, Current
<1>1. /\ thread_stack \in Seq(Threads) /\ cur = thread_stack[n] /\ f \in Seq(Threads)
      /\ Len(f) = n - 1 /\ f # <<>> /\ \A i \in 1..(n - 1) : f[i] = thread_stack[i]
  <2>1. thread_stack \in Seq(Threads) /\ cur = thread_stack[n]
    BY <1>0, Current
  <2>2. /\ f \in Seq(Threads) /\ Len(f) = n - 1 /\ \A i \in 1..(n - 1) : f[i] = thread_stack[i]
        /\ f = <<>> <=> n = 1
    BY <1>0, <2>1, Ends
  <2>3. n # 1
    <3> HIDE DEF n
    <3> QED BY <1>0
  <2> QED BY <2>1, <2>2, <2>3
<1> HIDE DEF f, n
<1>2. q = thread_stack[n - 1] /\ n - 1 \in 1..(n - 1) /\ (n - 1) + 1 = n
  BY <1>0, <1>1 DEF Last, n
<1>3. q \in OnStack \ {cur} /\ Waiting(thread[q], cur)
  BY <1>0, <1>1, <1>2, OnceOnStack DEF n
<1>4. q \in Threads /\ thread[q] \in ThreadState /\ thread[q].made /\ Structured(thread[q].frames)
  <2>1. q \in Threads
    BY <1>0, <1>3, Current
  <2>2. thread[q].made
    BY <1>3 DEF OnStack, IInv, StackInv
  <2> QED
    BY <1>0, <2>1, <2>2, Current DEF IInv, FramesInv
<1>5. cur # Main
  <2>1. thread_stack[1] = Main /\ 1 \in DOMAIN thread_stack /\ n \in DOMAIN thread_stack /\ n # 1
    BY <1>0, Current DEF IInv, StackInv, n
  <2> QED
    BY <1>1, <2>1 DEF IInv, StackInv, IsInjective
<1>6. cur \in Coroutines
  BY <1>0, <1>5, Current DEF Threads
<1> QED
  BY <1>0, <1>1, <1>2, <1>3, <1>4, <1>6 DEF f, n

\* The stack without the thread on top.
LEMMA PoppedStack ==
    ASSUME IInv, Running, Len(thread_stack) > 1, thread_stack' = Front(thread_stack)
    PROVE  OnStack' = OnStack \ {cur}
<1> DEFINE n == Len(thread_stack)
<1>0. thread_stack # <<>> /\ n \in Nat /\ n > 1
  BY Driven, Current
<1>1. /\ DOMAIN thread_stack' = 1..(n - 1) /\ DOMAIN thread_stack = 1..n
      /\ \A i \in 1..(n - 1) : thread_stack'[i] = thread_stack[i]
      /\ cur = thread_stack[n]
  BY <1>0, Resumer, Current, LenProperties
<1>2. \A i, j \in 1..n : thread_stack[i] = thread_stack[j] => i = j
  BY <1>1 DEF IInv, StackInv, IsInjective
<1>3. OnStack' = {thread_stack[i] : i \in 1..(n - 1)}
  BY <1>1 DEF OnStack
<1>4. OnStack = {thread_stack[i] : i \in 1..n}
  BY <1>1 DEF OnStack
<1>5. \A i \in 1..(n - 1) : i \in 1..n /\ i # n /\ n \in 1..n
  BY <1>0
<1>6. \A i \in 1..n : i = n \/ i \in 1..(n - 1)
  BY <1>0
<1> HIDE DEF n
<1> QED
  BY <1>1, <1>2, <1>3, <1>4, <1>5, <1>6

\* The thread on top leaves the stack and its resumer goes on.
LEMMA PopStep ==
    ASSUME IInv, Running, Len(thread_stack) > 1, NEW q, q = Last(Front(thread_stack)),
           thread_stack' = Front(thread_stack), Continue,
           thread' \in [Threads -> ThreadState],
           \A t \in Threads \ {cur, q} : thread'[t] = thread[t],
           Resting(thread'[cur]), Structured(thread'[cur].frames),
           thread'[q].made, Structured(thread'[q].frames), thread'[q].pending = NoAction,
           Active(thread'[q], Len(thread_stack) - 1)
    PROVE  IInv'
<1> DEFINE n == Len(thread_stack)
<1>0. thread_stack # <<>> /\ n \in Nat /\ n > 1 /\ mode = "Normal" /\ result = "None" /\ driving
  BY Driven, Current
<1>1. /\ thread_stack' \in Seq(Threads) /\ thread_stack' # <<>> /\ Len(thread_stack') = n - 1
      /\ DOMAIN thread_stack' = 1..(n - 1) /\ DOMAIN thread_stack = 1..n
      /\ \A i \in 1..(n - 1) : thread_stack'[i] = thread_stack[i]
      /\ q = thread_stack[n - 1] /\ cur = thread_stack[n]
      /\ q \in Threads /\ q # cur /\ cur \in Coroutines
  BY <1>0, Resumer, Current, LenProperties
<1>2. cur' = q
  BY <1>1 DEF cur, Last
<1>3. \A i, j \in 1..n : thread_stack[i] = thread_stack[j] => i = j
  BY <1>1 DEF IInv, StackInv, IsInjective
<1>4. OnStack' = OnStack \ {cur}
  BY PoppedStack
<1>5. TypeOK' /\ ~panicked'
  BY <1>1 DEF IInv, TypeOK, Continue
<1>6. FramesInv'
  BY <1>1 DEF IInv, FramesInv
<1>7. StackInv'
  <2>1. IsInjective(thread_stack')
    <3>1. \A i \in 1..(n - 1) : i \in 1..n
      BY <1>0
    <3> QED
      BY <1>1, <1>3, <3>1 DEF IsInjective
  <2>2. thread_stack'[1] = Main
    <3>1. 1 \in 1..(n - 1)
      BY <1>0
    <3> QED
      BY <1>0, <1>1, <3>1 DEF IInv, StackInv
  <2>3. ASSUME NEW i \in 1..(Len(thread_stack') - 1)
        PROVE  Waiting(thread'[thread_stack'[i]], thread_stack'[i + 1])
    <3>1. /\ i \in 1..(n - 1) /\ i + 1 \in 1..(n - 1) /\ i # n - 1 /\ i # n
          /\ i \in 1..n /\ n - 1 \in 1..n /\ n \in 1..n
      BY <1>0, <1>1
    <3>2. thread_stack[i] \notin {cur, q}
      BY <1>1, <1>3, <3>1
    <3>3. Waiting(thread[thread_stack[i]], thread_stack[i + 1]) /\ thread_stack[i] \in Threads
      BY <1>0, <3>1, OnceOnStack, Current
    <3> QED
      BY <1>1, <3>1, <3>2, <3>3
  <2>4. ASSUME NEW i \in DOMAIN thread_stack' PROVE thread'[thread_stack'[i]].made
    <3>1. i \in 1..n /\ thread_stack'[i] = thread_stack[i] /\ i # n /\ n \in 1..n
      BY <1>0, <1>1
    <3>2. thread_stack[i] # cur /\ thread_stack[i] \in Threads /\ thread[thread_stack[i]].made
      <4>1. thread_stack[i] \in OnStack
        BY <1>1, <3>1 DEF OnStack
      <4> QED
        BY <1>0, <1>1, <1>3, <3>1, <4>1, Current DEF IInv, StackInv
    <3> QED
      BY <3>1, <3>2
  <2>5. thread'[Main].made
    <3>1. 1 \in DOMAIN thread_stack'
      BY <1>0, <1>1
    <3> QED
      BY <2>2, <2>4, <3>1
  <2> QED
    BY <2>1, <2>2, <2>3, <2>4, <2>5 DEF StackInv
<1>8. OffStackInv'
  <2> SUFFICES ASSUME NEW t \in Coroutines \ OnStack' PROVE Resting(thread'[t])
    BY DEF OffStackInv
  <2>1. CASE t = cur
    BY <2>1
  <2>2. CASE t # cur
    <3>1. t \in Coroutines \ OnStack /\ t # q /\ t \in Threads
      BY <1>0, <1>4, <2>2, Resumer, Current
    <3> QED
      BY <2>2, <3>1 DEF IInv, OffStackInv
  <2> QED BY <2>1, <2>2
<1>9. HostInv'
  <2>1. Active(thread'[q], Len(thread_stack'))
    BY <1>1
  <2>2. ResumesParked(thread', thread'[q], OnStack')
    BY DEF ResumesParked
  <2>3. mode' = "Normal" /\ result' = "None"
    BY <1>0 DEF Continue
  <2> QED
    BY <1>1, <1>2, <2>1, <2>2, <2>3 DEF HostInv
<1> QED
  BY <1>5, <1>6, <1>7, <1>8, <1>9 DEF IInv

\* The running thread resumes target, which comes on top of the stack.
LEMMA ResumeStep ==
    ASSUME IInv, Running, NEW target \in Coroutines \ OnStack,
           thread_stack' = Append(thread_stack, target), Continue,
           thread' \in [Threads -> ThreadState],
           \A t \in Threads \ {cur, target} : thread'[t] = thread[t],
           thread'[cur].made, Structured(thread'[cur].frames), Waiting(thread'[cur], target),
           thread'[target].made, Structured(thread'[target].frames),
           thread'[target].pending = NoAction,
           Active(thread'[target], Len(thread_stack) + 1)
    PROVE  IInv'
<1> DEFINE n == Len(thread_stack)
<1>0. thread_stack # <<>> /\ n \in Nat \ {0} /\ mode = "Normal" /\ result = "None" /\ driving
  BY Driven, Current
<1>1. target \in Threads /\ target # cur /\ thread_stack \in Seq(Threads)
  BY <1>0, Current
<1>2. /\ thread_stack' \in Seq(Threads) /\ thread_stack' # <<>> /\ Len(thread_stack') = n + 1
      /\ DOMAIN thread_stack' = 1..(n + 1) /\ DOMAIN thread_stack = 1..n
      /\ \A i \in 1..n : thread_stack'[i] = thread_stack[i]
      /\ thread_stack'[n + 1] = target /\ cur = thread_stack[n] /\ cur' = target
  <2>1. /\ thread_stack' \in Seq(Threads) /\ thread_stack' # <<>> /\ Len(thread_stack') = n + 1
        /\ DOMAIN thread_stack' = 1..(n + 1) /\ DOMAIN thread_stack = 1..n
        /\ \A i \in 1..n : thread_stack'[i] = thread_stack[i]
        /\ thread_stack'[n + 1] = target /\ Last(thread_stack') = target
    BY <1>1, Appended
  <2> QED
    BY <1>0, <2>1, Current DEF cur
<1>3. \A i \in 1..n : thread_stack[i] \in OnStack /\ thread_stack[i] \in Threads
  BY <1>0, <1>2, Current DEF OnStack
<1>4. OnStack' = OnStack \cup {target}
  <2>1. OnStack' = {thread_stack'[i] : i \in 1..(n + 1)}
    BY <1>2 DEF OnStack
  <2>2. OnStack = {thread_stack[i] : i \in 1..n}
    BY <1>2 DEF OnStack
  <2>3. \A i \in 1..(n + 1) : i = n + 1 \/ i \in 1..n
    BY <1>0
  <2>4. n + 1 \in 1..(n + 1) /\ \A i \in 1..n : i \in 1..(n + 1)
    BY <1>0
  <2> HIDE DEF n
  <2> QED
    BY <1>2, <2>1, <2>2, <2>3, <2>4
<1>5. TypeOK' /\ ~panicked'
  BY <1>2 DEF IInv, TypeOK, Continue
<1>6. FramesInv'
  BY DEF IInv, FramesInv
<1>7. StackInv'
  <2>1. IsInjective(thread_stack')
    <3>1. \A i \in 1..(n + 1) : i = n + 1 \/ i \in 1..n
      BY <1>0
    <3>2. \A i, j \in 1..n : thread_stack[i] = thread_stack[j] => i = j
      BY <1>2 DEF IInv, StackInv, IsInjective
    <3>3. \A i \in 1..n : thread_stack'[i] # thread_stack'[n + 1]
      BY <1>2, <1>3
    <3>4. ASSUME NEW i \in 1..(n + 1), NEW j \in 1..(n + 1), thread_stack'[i] = thread_stack'[j]
          PROVE  i = j
      BY <1>2, <3>1, <3>2, <3>3, <3>4
    <3> QED
      BY <1>2, <3>4 DEF IsInjective
  <2>2. thread_stack'[1] = Main
    BY <1>0, <1>2 DEF IInv, StackInv
  <2>3. ASSUME NEW i \in 1..(Len(thread_stack') - 1)
        PROVE  Waiting(thread'[thread_stack'[i]], thread_stack'[i + 1])
    <3>1. CASE i = n
      BY <1>2, <1>0, <3>1
    <3>2. CASE i # n
      <4>1. i \in 1..(n - 1) /\ i \in 1..n /\ i + 1 \in 1..n
        <5>1. n \in Nat \ {0} /\ Len(thread_stack') = n + 1
          BY <1>0, <1>2
        <5> HIDE DEF n
        <5>2. i \in 1..n
          BY <5>1
        <5> QED BY <3>2, <5>1, <5>2
      <4>2. /\ Waiting(thread[thread_stack[i]], thread_stack[i + 1])
            /\ thread_stack[i] \in OnStack \ {cur}
        BY <1>0, <4>1, OnceOnStack
      <4>3. thread_stack[i] \notin {cur, target} /\ thread_stack[i] \in Threads
        BY <1>3, <4>1, <4>2
      <4> QED
        BY <1>2, <4>1, <4>2, <4>3
    <3> QED BY <3>1, <3>2
  <2>4. ASSUME NEW t \in OnStack' PROVE thread'[t].made
    <3>1. ASSUME t \in OnStack PROVE thread[t].made /\ t \in Threads
      BY <1>0, <3>1, Current DEF OnStack, IInv, StackInv
    <3> QED
      BY <1>4, <3>1
  <2>5. \A i \in DOMAIN thread_stack' : thread_stack'[i] \in OnStack'
    BY DEF OnStack
  <2>6. Main \in OnStack'
    BY <1>0, <1>4, Current
  <2> QED
    BY <2>1, <2>2, <2>3, <2>4, <2>5, <2>6 DEF StackInv
<1>8. OffStackInv'
  <2> SUFFICES ASSUME NEW t \in Coroutines \ OnStack' PROVE Resting(thread'[t])
    BY DEF OffStackInv
  <2>1. t \in Coroutines \ OnStack /\ t \notin {cur, target} /\ t \in Threads
    BY <1>0, <1>4, Current
  <2> QED
    BY <2>1 DEF IInv, OffStackInv
<1>9. HostInv'
  <2>1. Active(thread'[target], Len(thread_stack'))
    BY <1>2
  <2>2. ResumesParked(thread', thread'[target], OnStack')
    BY DEF ResumesParked
  <2>3. mode' = "Normal" /\ result' = "None"
    BY <1>0 DEF Continue
  <2> QED
    BY <1>2, <2>1, <2>2, <2>3 DEF HostInv
<1> QED
  BY <1>5, <1>6, <1>7, <1>8, <1>9 DEF IInv
-----------------------------------------------------------------------------
(* The steps of iterate                                                    *)

\* What a resumed thread sends back lands, or is left for the Sequence on top.
LEMMA ResumeLanding ==
    ASSUME NEW r \in ThreadState, Structured(r.frames), NEW site \in Sites, Unstashed(r),
           TakesResume(r.frames, Len(r.frames), site)
    PROVE  LET s == IF TopIs(r, "Sequence") THEN r ELSE land_call_results(r, site) IN
           /\ Landed(r, s) /\ (s.frames = <<>> <=> r.frames = <<>>)
           /\ TopIs(r, "Sequence") \/ ~LandPanics(r, site)
<1>1. r.frames \in Seq(Frames) /\ \A k : TopIs(r, k) <=> r.frames # <<>> /\ Top(r).k = k
  BY TopFrame
<1>2. CASE TopIs(r, "Sequence")
  <2>1. Quiet(r)
    BY <1>1, <1>2 DEF Quiet, Unstashed
  <2> QED
    BY <1>1, <1>2, <2>1 DEF Landed
<1>3. CASE ~TopIs(r, "Sequence")
  <2>1. TopTakes(r, site)
    BY <1>1, <1>3, TakesTop DEF TopTakes, Top
  <2>2. Landed(r, land_call_results(r, site))
    BY <2>1, Landing
  <2>3. site = "meta" => TopIs(r, "Lua")
    BY <1>1, <1>3, <2>1, TakesTop DEF TopTakes, Top
  <2>4. Deliver(r, site).frames = <<>> <=> r.frames = <<>>
    BY DeliverState
  <2>5. land_call_results(r, site).frames = Deliver(r, site).frames
    <3> DEFINE s == Deliver(r, site)
    <3>1. s \in ThreadState
      BY DeliverState
    <3> HIDE DEF s
    <3>2. [s EXCEPT !.status = "Result"].frames = s.frames
      BY <3>1 DEF ThreadState
    <3> QED
      BY <3>2 DEF land_call_results, s
  <2> QED
    BY <1>3, <2>2, <2>3, <2>4, <2>5 DEF LandPanics
<1> QED
  BY <1>2, <1>3

\* Another status.
LEMMA StatusState ==
    ASSUME NEW r \in ThreadState, NEW st \in Statuses
    PROVE  LET s == [r EXCEPT !.status = st] IN
           /\ s \in ThreadState /\ s.made = r.made /\ s.frames = r.frames /\ s.pending = r.pending
           /\ s.site = r.site /\ s.yield_bottom = r.yield_bottom /\ s.status = st
           /\ Quiet(s) <=> Quiet(r)
<1> DEFINE s == [r EXCEPT !.status = st]
<1>1. /\ s \in ThreadState /\ s.made = r.made /\ s.frames = r.frames /\ s.pending = r.pending
      /\ s.site = r.site /\ s.yield_bottom = r.yield_bottom /\ s.status = st
  BY DEF ThreadState
<1> HIDE DEF s
<1> QED
  BY <1>1 DEF Quiet, TopIs, Top, s

\* A thread whose results have landed, made Normal unless it is done.
LEMMA PropagatedActive ==
    ASSUME NEW rs \in ThreadState, rs.made, Structured(rs.frames), NEW of, Waiting(rs, of), NEW n
    PROVE  LET s == PropagateTo(rs, Top(rs).site) IN
           /\ TopIs(Pop(rs), "Sequence") \/ ~LandPanics(Pop(rs), Top(rs).site)
           /\ s \in ThreadState /\ s.made /\ Structured(s.frames)
           /\ s.pending = NoAction /\ Active(s, n)
<1> DEFINE p == Pop(rs)
           site == Top(rs).site
           t == IF TopIs(p, "Sequence") THEN p ELSE land_call_results(p, site)
           u == [t EXCEPT !.status = "Normal"]
<1>1. rs.frames # <<>> /\ Top(rs) \in Frames /\ Top(rs).k = "WaitThread" /\ site \in Sites
  BY TopFrame, FrameKinds DEF Waiting
<1>2. /\ p \in ThreadState /\ SameRest(rs, p) /\ Structured(p.frames)
      /\ PushFits(p.frames, Top(rs))
  BY <1>1, PopState
<1> HIDE DEF p
<1>3. Unstashed(p) /\ p.made /\ p.status = "Normal" /\ TakesResume(p.frames, Len(p.frames), site)
  BY <1>1, <1>2 DEF PushFits, SameRest, Waiting, Unstashed
<1>4. Landed(p, t) /\ (TopIs(p, "Sequence") \/ ~LandPanics(p, site))
  BY <1>1, <1>2, <1>3, ResumeLanding
<1> HIDE DEF t, site
<1>5. /\ t \in ThreadState /\ t.made /\ Structured(t.frames) /\ Quiet(t)
      /\ \/ t.frames # <<>> /\ t.status = "Normal"
         \/ t.frames = <<>> /\ t.status = "Result"
  BY <1>3, <1>4 DEF Landed
<1>6. /\ u \in ThreadState /\ u.made = t.made /\ u.frames = t.frames /\ u.pending = t.pending
      /\ u.status = "Normal" /\ Quiet(u) <=> Quiet(t)
  BY <1>5, StatusState DEF Statuses
<1> HIDE DEF u
<1>7. PropagateTo(rs, site) = IF t.status = "Result" THEN t ELSE u
  BY DEF PropagateTo, p, t, u
<1> QED
  BY <1>4, <1>5, <1>6, <1>7 DEF Active, Finished, Quiet, site, p

\* A coroutine that finished or yielded answers the thread that resumed it.
LEMMA PropagateStep == ASSUME IInv, propagate_inner_to_resumer PROVE IInv'
<1> DEFINE rest == Front(thread_stack)
           q == Last(rest)
           rs == thread[q]
           s == PropagateTo(rs, Top(rs).site)
<1>1. Running /\ Len(thread_stack) > 1 /\ thread[cur].status \in {"Result", "Suspended"}
  BY DEF propagate_inner_to_resumer
<1>2. /\ q \in OnStack \ {cur} /\ q \in Threads /\ Waiting(rs, cur)
      /\ rs \in ThreadState /\ rs.made /\ Structured(rs.frames)
  BY <1>1, Resumer
<1>3. /\ TopIs(Pop(rs), "Sequence") \/ ~LandPanics(Pop(rs), Top(rs).site)
      /\ s \in ThreadState /\ s.made /\ Structured(s.frames)
      /\ s.pending = NoAction /\ Active(s, Len(thread_stack) - 1)
  BY <1>2, PropagatedActive
<1>4. thread_stack' = rest /\ thread' = [thread EXCEPT ![q] = s] /\ Continue
  BY <1>2, <1>3 DEF propagate_inner_to_resumer, Waiting
<1>5. thread_stack # <<>> /\ Active(thread[cur], Len(thread_stack)) /\ Len(thread_stack) # 1
  BY <1>1, Driven, Current
<1>6. /\ thread \in [Threads -> ThreadState] /\ cur \in Threads /\ thread[cur].made
      /\ Structured(thread[cur].frames)
  BY <1>5, Current
<1>7. Resting(thread[cur])
  BY <1>1, <1>5, <1>6 DEF Active, Resting, Yielding, Finished
<1> HIDE DEF s, q, rest
<1>8. /\ thread' \in [Threads -> ThreadState] /\ thread'[q] = s /\ thread'[cur] = thread[cur]
      /\ \A t \in Threads \ {cur, q} : thread'[t] = thread[t]
  BY <1>2, <1>3, <1>4, <1>6
<1> QED
  BY <1>1, <1>3, <1>4, <1>6, <1>7, <1>8, PopStep DEF q, rest

\* step returns to the host and leaves every thread as it is.
LEMMA ReturnStep ==
    ASSUME IInv, Running, UNCHANGED <<thread, thread_stack, panicked>>, Len(thread_stack) = 1,
           driving' = FALSE,
           \/ mode' = "Result" /\ result' = "Done" /\ Finished(thread[cur])
              /\ thread[cur].status = "Result"
           \/ mode' = "Yielded" /\ result' = "Yielded" /\ Yielding(thread[cur])
    PROVE  IInv'
<1>1. thread_stack # <<>> /\ cur = Main /\ cur' = cur /\ OnStack' = OnStack
  BY Driven, OnceOnStack DEF cur, OnStack
<1>2. TypeOK' /\ ~panicked' /\ FramesInv' /\ StackInv' /\ OffStackInv'
  BY <1>1 DEF IInv, TypeOK, FramesInv, StackInv, OffStackInv, Modes, Results
<1>3. HostInv'
  BY <1>1 DEF HostInv
<1> QED
  BY <1>2, <1>3 DEF IInv

\* step ends when the main thread has finished.
LEMMA StepEndsStep == ASSUME IInv, StepEnds PROVE IInv'
<1>1. Running /\ Active(thread[cur], Len(thread_stack))
  BY Driven DEF StepEnds
<1>2. /\ Len(thread_stack) = 1 /\ thread[cur].status = "Result"
      /\ mode' = "Result" /\ Leave("Done") /\ UNCHANGED <<thread, thread_stack>>
  BY <1>1 DEF StepEnds, Active, Finished, Yielding, Unstarted
<1>3. Finished(thread[cur])
  BY <1>1, <1>2 DEF Active, Yielding, Unstarted
<1> QED
  BY <1>1, <1>2, <1>3, ReturnStep DEF Leave

\* step ends when the main thread yielded to the host.
LEMMA StepYieldedStep == ASSUME IInv, StepYielded PROVE IInv'
<1>1. Running /\ Active(thread[cur], Len(thread_stack))
  BY Driven DEF StepYielded
<1>2. /\ Len(thread_stack) = 1 /\ mode' = "Yielded" /\ Leave("Yielded")
      /\ UNCHANGED <<thread, thread_stack>>
  BY DEF StepYielded
<1>3. Yielding(thread[cur])
  BY <1>1 DEF StepYielded, Active, Yielding, Unstarted, Quiet
<1> QED
  BY <1>1, <1>2, <1>3, ReturnStep DEF Leave

\* The resume arguments find the frame that yielded, and it runs on.
LEMMA ResumeArgs ==
    ASSUME NEW r \in ThreadState, r.made, Structured(r.frames), Yielding(r), NEW n
    PROVE  LET s == LandResumeArgs(r) IN
           /\ r.yield_bottom # NoSite /\ ~ResumePanics(r) /\ ~TopIs(r, "Start")
           /\ s \in ThreadState /\ s.made /\ Structured(s.frames) /\ s.pending = NoAction
           /\ s.status = "Normal" /\ Quiet(s) /\ s.frames # <<>> /\ Active(s, n)
<1> DEFINE site == r.yield_bottom
           p == [r EXCEPT !.yield_bottom = NoSite]
           t == IF TopIs(p, "Sequence") THEN p ELSE land_call_results(p, site)
           u == [t EXCEPT !.status = "Normal"]
<1>1. /\ p \in ThreadState /\ p.made = r.made /\ p.frames = r.frames /\ p.pending = r.pending
      /\ p.yield_bottom = NoSite
  BY DEF ThreadState
<1>2. site \in Sites /\ site # NoSite
  BY DEF Yielding, ThreadState
<1> HIDE DEF p, site
<1>3. Unstashed(p) /\ TakesResume(p.frames, Len(p.frames), site) /\ p.frames # <<>>
  BY <1>1 DEF Yielding, Unstashed, site
<1>4. Structured(p.frames)
  BY <1>1
<1>5. /\ Landed(p, t) /\ (t.frames = <<>> <=> p.frames = <<>>)
      /\ TopIs(p, "Sequence") \/ ~LandPanics(p, site)
  BY <1>1, <1>2, <1>3, <1>4, ResumeLanding
<1>6. ~ResumePanics(r)
  BY <1>1, <1>5 DEF ResumePanics, LandPanics, TopIs, Top, site
<1>7. ~TopIs(r, "Start")
  <2>1. p.frames \in Seq(Frames)
    BY <1>1, TopFrame
  <2> QED
    BY <1>1, <1>3, <2>1, TakesTop DEF TopIs, Top
<1> HIDE DEF t
<1>8. /\ t \in ThreadState /\ t.made /\ Structured(t.frames) /\ Quiet(t) /\ t.frames # <<>>
      /\ t.pending = NoAction
  BY <1>1, <1>3, <1>5 DEF Landed, Quiet
<1>9. /\ u \in ThreadState /\ u.made = t.made /\ u.frames = t.frames /\ u.pending = t.pending
      /\ u.status = "Normal" /\ (Quiet(u) <=> Quiet(t))
  BY <1>8, StatusState DEF Statuses
<1> HIDE DEF u
<1>10. LandResumeArgs(r) = u
  BY DEF LandResumeArgs, p, t, u, site
<1> QED
  BY <1>2, <1>6, <1>7, <1>8, <1>9, <1>10 DEF Active, site

\* A coroutine that can be resumed runs.
LEMMA ReseatedActive ==
    ASSUME NEW r \in ThreadState, r.made, Structured(r.frames), Unstarted(r) \/ Yielding(r), NEW n
    PROVE  LET s == Reseated(r) IN
           /\ TopIs(r, "Start") \/ r.yield_bottom # NoSite
           /\ TopIs(r, "Start") \/ ~ResumePanics(r)
           /\ s \in ThreadState /\ s.made /\ Structured(s.frames) /\ s.pending = NoAction
           /\ Active(s, n)
<1>1. CASE Yielding(r)
  BY <1>1, ResumeArgs DEF Reseated
<1>2. CASE Unstarted(r)
  <2> DEFINE s == [r EXCEPT !.status = "Normal"]
  <2>1. /\ s \in ThreadState /\ s.made = r.made /\ s.frames = r.frames /\ s.pending = r.pending
        /\ s.status = "Normal" /\ (Quiet(s) <=> Quiet(r))
    BY StatusState DEF Statuses
  <2>2. Reseated(r) = s
    BY <1>2 DEF Reseated, Unstarted
  <2> HIDE DEF s
  <2>3. r.frames # <<>> /\ r.pending = NoAction /\ Quiet(r) /\ TopIs(r, "Start")
    BY <1>2 DEF Unstarted, TopIs, Quiet
  <2> QED
    BY <2>1, <2>2, <2>3 DEF Active
<1> QED
  BY <1>1, <1>2

\* schedule_thread_resume finds a coroutine that can be resumed.
LEMMA ThreadResumeStep ==
    ASSUME IInv, Running, NEW r \in ThreadState, r.made, Structured(r.frames), Unstashed(r),
           NEW th, th = [thread EXCEPT ![cur] = r], NEW target \in Coroutines \ OnStack,
           thread[target].made, thread[target].status = "Suspended",
           NEW site \in Sites, TakesResume(r.frames, Len(r.frames), site),
           schedule_thread_resume(th, target, site)
    PROVE  IInv' /\ result' = result
<1> DEFINE f == WaitFrame(site, target)
           p == Push(r, f)
           w == [p EXCEPT !.status = "Normal"]
           th1 == [th EXCEPT ![cur] = w]
           s == Reseated(thread[target])
<1>1. /\ thread_stack # <<>> /\ cur \in Threads /\ target \in Threads /\ target # cur
      /\ th \in [Threads -> ThreadState] /\ th[cur] = r
      /\ \A t \in Threads \ {cur} : th[t] = thread[t]
  <2>1. thread_stack # <<>>
    BY Driven
  <2> QED
    BY <2>1, Current
<1>2. f \in Frames /\ f.k = "WaitThread" /\ f.site = site /\ f.of = target
  BY <1>1, FrameKinds
<1> HIDE DEF f
<1>3. PushFits(r.frames, f)
  BY <1>2 DEF PushFits
<1>4. /\ p \in ThreadState /\ SameRest(r, p) /\ p.frames # <<>> /\ Top(p) = f
      /\ TopIs(p, "WaitThread") /\ Structured(p.frames)
  BY <1>1, <1>2, <1>3, PushState
<1> HIDE DEF p
<1>5. /\ w \in ThreadState /\ w.made = p.made /\ w.frames = p.frames /\ w.pending = p.pending
      /\ w.status = "Normal" /\ w.yield_bottom = p.yield_bottom
  BY <1>4, StatusState DEF Statuses
<1> HIDE DEF w
<1>6. w.made /\ Structured(w.frames) /\ Waiting(w, target)
  BY <1>1, <1>2, <1>4, <1>5 DEF Waiting, SameRest, Unstashed, TopIs, Top
<1>7. /\ th1 \in [Threads -> ThreadState] /\ th1[cur] = w /\ th1[target] = thread[target]
      /\ \A t \in Threads \ {cur} : th1[t] = th[t]
  BY <1>1, <1>5
<1>8. /\ thread[target] \in ThreadState /\ Structured(thread[target].frames)
      /\ Unstarted(thread[target]) \/ Yielding(thread[target])
  BY <1>1 DEF IInv, TypeOK, FramesInv, OffStackInv, Resting, Finished
<1>9. /\ TopIs(thread[target], "Start") \/ thread[target].yield_bottom # NoSite
      /\ TopIs(thread[target], "Start") \/ ~ResumePanics(thread[target])
      /\ s \in ThreadState /\ s.made /\ Structured(s.frames) /\ s.pending = NoAction
      /\ Active(s, Len(thread_stack) + 1)
  BY <1>8, ReseatedActive
<1>10. /\ thread' = [th1 EXCEPT ![target] = Reseated(@)]
       /\ thread_stack' = Append(thread_stack, target) /\ Continue
  <2>1. th1 = [th EXCEPT ![cur] = [Push(@, WaitFrame(site, target)) EXCEPT !.status = "Normal"]]
    BY <1>1 DEF w, p, f
  <2> HIDE DEF th1
  <2> QED
    BY <1>7, <1>9, <2>1 DEF schedule_thread_resume
<1> HIDE DEF th1, s
<1>11. /\ thread' \in [Threads -> ThreadState] /\ thread'[target] = s /\ thread'[cur] = w
       /\ \A t \in Threads \ {cur, target} : thread'[t] = thread[t]
  BY <1>1, <1>7, <1>9, <1>10 DEF s
<1> QED
  BY <1>6, <1>9, <1>10, <1>11, ResumeStep DEF Continue

\* A thread that yields can be resumed where it stands.
LEMMA Suspending ==
    ASSUME NEW r \in ThreadState, r.made, Structured(r.frames), r.pending = NoAction,
           r.frames # <<>>, NEW site \in Sites, TakesResume(r.frames, Len(r.frames), site), NEW n
    PROVE  LET s == Suspend(r, site) IN
           /\ s \in ThreadState /\ s.made /\ Structured(s.frames) /\ s.pending = NoAction
           /\ Active(s, n)
<1> DEFINE s == Suspend(r, site)
<1>1. /\ s \in ThreadState /\ s.made = r.made /\ s.frames = r.frames /\ s.pending = r.pending
      /\ s.yield_bottom = site /\ s.status = "Suspended"
  BY DEF Suspend, ThreadState, Statuses
<1>2. site # NoSite
  BY DEF Sites, NoSite
<1> HIDE DEF s
<1>3. Yielding(s)
  BY <1>1, <1>2 DEF Yielding
<1> QED
  BY <1>1, <1>3 DEF Active, s

\* A callback's follow-up Sequence goes on the frame that waits for it.
LEMMA PushThenState ==
    ASSUME NEW r \in ThreadState, r.made, Structured(r.frames), Unstashed(r), r.status = "Normal",
           NEW site \in Sites, TopTakes(r, site), NEW then \in SeqKinds \cup {NoSeq}, NEW n
    PROVE  LET s == PushThen(r, then, site) IN
           /\ s \in ThreadState /\ s.made /\ Structured(s.frames) /\ Unstashed(s)
           /\ s.status = "Normal"
           /\ then = NoSeq => s.frames = r.frames
           /\ then # NoSeq => s.frames # <<>> /\ Active(s, n)
           /\ TakesResume(s.frames, Len(s.frames), site)
           /\ site = "call" => TopTakes(s, site)
<1> DEFINE f == SeqFrame(then, site)
           p == Push(r, f)
<1>1. CASE then = NoSeq
  BY <1>1 DEF PushThen, TopTakes, TakesResume
<1>2. CASE then # NoSeq
  <2>1. f \in Frames /\ f.k = "Sequence" /\ f.site = site
    BY <1>2, FrameKinds
  <2> HIDE DEF f
  <2>2. PushFits(r.frames, f)
    BY <2>1 DEF PushFits, TopTakes
  <2>3. p \in ThreadState /\ p.made /\ Structured(p.frames) /\ Active(p, n) /\ p.pending = NoAction
    BY <2>1, <2>2, PushActive
  <2>4. SameRest(r, p) /\ p.frames # <<>> /\ Top(p) = f
    BY <2>1, PushState
  <2>5. PushThen(r, then, site) = p
    BY <1>2 DEF PushThen, p, f
  <2> HIDE DEF p
  <2>6. p.frames \in Seq(Frames) /\ Last(p.frames).k = "Sequence"
    BY <2>1, <2>3, <2>4, TopFrame DEF Top
  <2>7. /\ TakesResume(p.frames, Len(p.frames), site)
        /\ site = "call" => Takes(p.frames, Len(p.frames), site)
    BY <2>4, <2>6, TakesTop
  <2> QED
    BY <1>2, <2>3, <2>4, <2>5, <2>7 DEF SameRest, Unstashed, TopTakes
<1> QED
  BY <1>1, <1>2

\* The running thread when its action has been taken: the follow-up Sequence,
\* if there is one, is on top.
LEMMA ReadyThread ==
    ASSUME IInv, apply_pending_action, NEW n
    PROVE  LET r == thread[cur]
               p == r.pending
               s == PushThen(Stash(r, NoAction, NoSite), p.then, r.site)
           IN  /\ Running /\ thread_stack # <<>> /\ p \in Actions /\ r.site \in Sites
               /\ ResumesParked(thread, r, OnStack)
               /\ p.a = "Call" => r.site = "call"
               /\ p = Yield(NoSeq) => r.frames # <<>>
               /\ s \in ThreadState /\ s.made /\ Structured(s.frames) /\ Unstashed(s)
               /\ s.status = "Normal"
               /\ p.then = NoSeq => s.frames = r.frames
               /\ p.then # NoSeq => s.frames # <<>> /\ Active(s, n)
               /\ TakesResume(s.frames, Len(s.frames), r.site)
               /\ r.site = "call" => TopTakes(s, r.site)
<1> DEFINE r == thread[cur]
           p == r.pending
           site == r.site
           s0 == Stash(r, NoAction, NoSite)
           s == PushThen(s0, p.then, site)
<1>1. /\ Running /\ thread_stack # <<>> /\ p # NoAction
      /\ Active(r, Len(thread_stack))
      /\ ResumesParked(thread, r, OnStack)
  BY Driven DEF apply_pending_action, Pumping
<1>2. /\ r \in ThreadState /\ r.made /\ Structured(r.frames) /\ cur \in Threads
      /\ Others(thread) /\ thread \in [Threads -> ThreadState]
  BY <1>1, Current, OthersNow
<1>3. r.status = "Normal" /\ Requesting(r) /\ p \in Actions
  <2>1. r.status = "Normal" /\ Requesting(r)
    BY <1>1 DEF Active, Quiet, Finished, Yielding, Unstarted
  <2> QED
    BY <1>1, <1>2, <2>1 DEF ThreadState
<1>4. /\ site \in Sites /\ TopTakes(r, site) /\ (p.a = "Call" => site = "call")
      /\ (p = Yield(NoSeq) => r.frames # <<>>)
      /\ r.yield_bottom = NoSite
  BY <1>3 DEF Requesting, TopTakes
<1>5. /\ s0 \in ThreadState /\ s0.made = r.made /\ s0.frames = r.frames /\ s0.status = r.status
      /\ s0.yield_bottom = r.yield_bottom /\ s0.pending = NoAction
  <2>1. NoAction \in Actions \cup {NoAction} /\ NoSite \in Sites \cup {NoSite}
    OBVIOUS
  <2> HIDE DEF r
  <2> QED
    BY <1>2, <2>1, StashState
<1>6. p.then \in SeqKinds \cup {NoSeq} /\ p.a \in {"Sequence", "Call", "Yield", "Resume"}
  BY <1>3, ActionKinds
<1> HIDE DEF s0
<1>7. Unstashed(s0) /\ TopTakes(s0, site) /\ Structured(s0.frames) /\ s0.made
  BY <1>2, <1>4, <1>5 DEF Unstashed, TopTakes
<1>8. /\ s \in ThreadState /\ s.made /\ Structured(s.frames) /\ Unstashed(s)
      /\ s.status = "Normal"
      /\ p.then = NoSeq => s.frames = r.frames
      /\ p.then # NoSeq => s.frames # <<>> /\ Active(s, n)
      /\ TakesResume(s.frames, Len(s.frames), site)
      /\ site = "call" => TopTakes(s, site)
  BY <1>3, <1>4, <1>5, <1>6, <1>7, PushThenState
<1> QED
  BY <1>1, <1>3, <1>4, <1>8 DEF s0

\* apply_pending_action calls, resumes or yields for the native that asked.
LEMMA PendingStep ==
    ASSUME IInv, Admit = {}, apply_pending_action
    PROVE  IInv' /\ result' = result
<1> DEFINE r == thread[cur]
           p == r.pending
           site == r.site
           s == PushThen(Stash(r, NoAction, NoSite), p.then, site)
           n == Len(thread_stack)
           ready == [thread EXCEPT ![cur] = s]
<1>1. /\ Running /\ thread_stack # <<>> /\ p \in Actions /\ site \in Sites
      /\ ResumesParked(thread, r, OnStack)
      /\ p.a = "Call" => site = "call"
      /\ p = Yield(NoSeq) => r.frames # <<>>
      /\ s \in ThreadState /\ s.made /\ Structured(s.frames) /\ Unstashed(s)
      /\ s.status = "Normal"
      /\ p.then = NoSeq => s.frames = r.frames
      /\ p.then # NoSeq => s.frames # <<>> /\ Active(s, n)
      /\ TakesResume(s.frames, Len(s.frames), site)
      /\ site = "call" => TopTakes(s, site)
  BY ReadyThread
<1>2. /\ cur \in Threads /\ Others(thread) /\ thread \in [Threads -> ThreadState]
  BY <1>1, Current, OthersNow
<1>6. p.a \in {"Sequence", "Call", "Yield", "Resume"} /\ p # NoAction
  BY <1>1, ActionKinds
<1>9. /\ ready = [thread EXCEPT ![cur] = PushThen(Stash(@, NoAction, NoSite), p.then, site)]
  BY <1>2
<1> HIDE DEF s
<1>10. Others(ready) /\ ready[cur] = s
  BY <1>1, <1>2, OthersSet
<1>11. s.pending = NoAction
  BY <1>1 DEF Unstashed
<1>12. CASE p.a = "Sequence"
  <2>1. thread' = ready /\ UNCHANGED thread_stack /\ Continue
    BY <1>9, <1>12 DEF apply_pending_action
  <2>2. p.then # NoSeq
    BY <1>1, <1>12, ActionKinds DEF SeqKinds, NoSeq
  <2> QED
    BY <1>1, <1>2, <1>11, <2>1, <2>2, SetCur DEF Continue
<1>13. CASE p.a = "Call"
  <2> HIDE DEF ready, p
  <2>1. /\ thread' \in schedule_call_at(ready, cur, p.fn, FALSE)
        /\ UNCHANGED thread_stack /\ Continue
    BY <1>9, <1>13 DEF apply_pending_action, p
  <2>2. p.fn \in Fns
    BY <1>1, <1>13, ActionKinds
  <2>3. Scheduled(ready, thread')
    BY <1>1, <1>10, <1>13, <2>1, <2>2, Scheduling
  <2> QED
    BY <1>1, <1>10, <2>1, <2>3, ScheduledStep DEF Continue
<1>14. CASE p.a = "Yield"
  <2> DEFINE u == Suspend(s, site)
  <2>1. thread' = [ready EXCEPT ![cur] = u] /\ UNCHANGED thread_stack /\ Continue
    <3>1. /\ thread' = [ready EXCEPT ![cur] = Suspend(@, site)]
          /\ UNCHANGED thread_stack /\ Continue
      BY <1>9, <1>14 DEF apply_pending_action
    <3> QED
      BY <1>2, <1>10, <3>1
  <2>2. s.frames # <<>>
    BY <1>1, <1>14, ActionKinds
  <2>3. u \in ThreadState /\ u.made /\ Structured(u.frames) /\ u.pending = NoAction /\ Active(u, n)
    BY <1>1, <1>11, <2>2, Suspending
  <2> HIDE DEF u, ready
  <2> QED
    BY <1>1, <1>10, <2>1, <2>3, SetCur DEF Continue
<1>15. CASE p.a = "Resume"
  <2> DEFINE co == p.co
  <2>1. schedule_thread_resume(ready, co, site)
    BY <1>9, <1>15 DEF apply_pending_action
  <2>2. co \in Coroutines \ OnStack /\ thread[co].made /\ thread[co].status = "Suspended"
    BY <1>1, <1>6, <1>15 DEF ResumesParked
  <2> HIDE DEF co, ready, p, site
  <2> QED
    BY <1>1, <2>1, <2>2, ThreadResumeStep DEF ready
<1> QED
  BY <1>6, <1>12, <1>13, <1>14, <1>15

\* A thread that starts has no other frame.
LEMMA AtStart ==
    ASSUME IInv, PumpStart
    PROVE  LET r == thread[cur]
               p == Pop(r)
           IN  /\ Running /\ thread_stack # <<>> /\ Top(r).fn \in Fns
               /\ p \in ThreadState /\ p.made /\ Structured(p.frames) /\ p.frames = <<>>
               /\ Unstashed(p) /\ TopTakes(p, "call")
<1> DEFINE r == thread[cur]
           p == Pop(r)
<1>1. Pumping /\ r.pending = NoAction /\ TopIs(r, "Start")
  BY DEF PumpStart, AtFrame
<1>2. /\ Running /\ r \in ThreadState /\ r.made /\ Structured(r.frames) /\ Unstashed(r)
      /\ r.frames # <<>> /\ Top(r) \in Frames /\ Top(r).k = "Start"
  BY <1>1, AtTop DEF TopIs
<1>3. thread_stack # <<>> /\ Top(r).fn \in Fns
  BY <1>2, Driven, FrameKinds
<1>4. /\ p \in ThreadState /\ SameRest(r, p) /\ Structured(p.frames) /\ p.frames = <<>>
  BY <1>2, PopState DEF PushFits
<1> HIDE DEF p
<1>5. p.made /\ Unstashed(p) /\ TopTakes(p, "call")
  BY <1>2, <1>4, TopFrame, TakesTop DEF SameRest, Unstashed, TopTakes
<1> QED
  BY <1>2, <1>3, <1>4, <1>5 DEF p

\* The function that a thread was started with is called.
LEMMA PumpStartStep == ASSUME IInv, Admit = {}, PumpStart PROVE IInv'
<1> DEFINE r == thread[cur]
           p == Pop(r)
           th == [thread EXCEPT ![cur] = p]
           n == Len(thread_stack)
<1>1. /\ Running /\ thread_stack # <<>> /\ Top(r).fn \in Fns
      /\ p \in ThreadState /\ p.made /\ Structured(p.frames) /\ p.frames = <<>>
      /\ Unstashed(p) /\ TopTakes(p, "call")
  BY AtStart
<1>3. thread_stack # <<>> /\ mode = "Normal" /\ driving = TRUE /\ result = "None"
  BY <1>1, Driven
<1> HIDE DEF p
<1>7. Others(th) /\ th[cur] = p
  BY <1>1, OthersNow, OthersSet
<1>8. /\ UNCHANGED thread_stack /\ Continue
      /\ \E th2 \in schedule_call_at(th, cur, Top(r).fn, TRUE) :
            thread' = [th2 EXCEPT ![cur].status =
                          IF th2[cur].frames = <<>> /\ th2[cur].pending = NoAction
                          THEN "Result" ELSE "Normal"]
  <2>1. th = [thread EXCEPT ![cur] = Pop(@)]
    BY <1>3, Current DEF p
  <2> QED
    BY <2>1 DEF PumpStart
<1>9. PICK th2 \in schedule_call_at(th, cur, Top(r).fn, TRUE) :
            thread' = [th2 EXCEPT ![cur].status =
                          IF th2[cur].frames = <<>> /\ th2[cur].pending = NoAction
                          THEN "Result" ELSE "Normal"]
  BY <1>8
<1> HIDE DEF th
<1>10. \/ Scheduled(th, th2)
       \/ Others(th2) /\ th2[cur].frames = <<>> /\ Quiet(th2[cur]) /\ Structured(th2[cur].frames)
  BY <1>1, <1>3, <1>7, Scheduling
<1> DEFINE s == th2[cur]
           st == IF s.frames = <<>> /\ s.pending = NoAction THEN "Result" ELSE "Normal"
           w == [s EXCEPT !.status = st]
<1>11. Others(th2) /\ Structured(s.frames) /\ s \in ThreadState /\ s.made /\ cur \in Threads
  BY <1>3, <1>10, Current DEF Scheduled, Others
<1>12. st \in Statuses
  BY DEF Statuses
<1>13. /\ w \in ThreadState /\ w.made = s.made /\ w.frames = s.frames /\ w.pending = s.pending
       /\ w.site = s.site /\ w.yield_bottom = s.yield_bottom /\ w.status = st
       /\ Quiet(w) <=> Quiet(s)
  <2> HIDE DEF s, st
  <2> QED
    BY <1>11, <1>12, StatusState
<1>14. thread' = [th2 EXCEPT ![cur] = w]
  BY <1>9, <1>11 DEF Others
<1> HIDE DEF w
<1>15. Others(thread') /\ thread'[cur] = w /\ \A q \in Threads \ {cur} : thread'[q] = th2[q]
  <2>1. w \in ThreadState /\ w.made /\ Others(th2)
    BY <1>11, <1>13
  <2> DEFINE x == [th2 EXCEPT ![cur] = w]
  <2>2. Others(x) /\ x[cur] = w /\ \A q \in Threads \ {cur} : x[q] = th2[q]
    BY <1>3, <2>1, OthersSet
  <2> HIDE DEF s
  <2> QED
    BY <1>14, <2>2
<1>16. Active(w, n) /\ ResumesParked(thread', w, OnStack)
  <2>1. CASE Quiet(s)
    BY <1>13, <2>1 DEF Active, Finished, ResumesParked, Quiet
  <2>2. CASE ~Quiet(s)
    <3>1. Requesting(s) /\ ResumesParked(th2, s, OnStack)
      BY <1>10, <2>2 DEF Scheduled
    <3>2. Requesting(w) /\ w.status = "Normal"
      BY <1>13, <3>1 DEF Requesting
    <3>3. ResumesParked(thread', w, OnStack)
      <4>1. \A c \in Coroutines \ OnStack : c \in Threads \ {cur}
        BY <1>3, Current
      <4> QED
        BY <1>13, <1>15, <3>1, <4>1 DEF ResumesParked
    <3> QED
      BY <3>2, <3>3 DEF Active
  <2> QED BY <2>1, <2>2
<1> QED
  BY <1>3, <1>8, <1>11, <1>13, <1>15, <1>16, CurStep DEF Continue, Results

\* What a Sequence on top of the running thread may be replaced by.
LEMMA AtSequence ==
    ASSUME IInv, AtFrame("Sequence"), NEW g, g = [Top(thread[cur]) EXCEPT !.err = FALSE], NEW n
    PROVE  LET r == thread[cur]
               f == Top(r)
               p == Pop(r)
               a == Push(p, g)
           IN  /\ Running /\ thread_stack # <<>> /\ f \in Frames /\ f.k = "Sequence"
               /\ f.site \in Sites
               /\ p \in ThreadState /\ p.made /\ Structured(p.frames) /\ Unstashed(p)
               /\ p.status = "Normal" /\ TopTakes(p, f.site)
               /\ a \in ThreadState /\ a.made /\ Structured(a.frames) /\ Unstashed(a)
               /\ a.status = "Normal" /\ a.frames # <<>> /\ Active(a, n)
               /\ TopTakes(a, "call") /\ TakesResume(a.frames, Len(a.frames), f.site)
<1> DEFINE r == thread[cur]
           f == Top(r)
           p == Pop(r)
           a == Push(p, g)
<1>1. Pumping /\ r.pending = NoAction /\ TopIs(r, "Sequence")
  BY DEF AtFrame
<1>2. /\ Running /\ r \in ThreadState /\ r.made /\ Structured(r.frames) /\ Unstashed(r)
      /\ r.frames # <<>> /\ f \in Frames /\ f.k = "Sequence" /\ r.status = "Normal"
  <2>1. f.k = "Sequence"
    BY <1>1 DEF TopIs
  <2> QED
    BY <1>1, <2>1, AtTop
<1>3. thread_stack # <<>>
  BY <1>2, Driven
<1>4. f.site \in Sites /\ g \in Frames /\ g.k = "Sequence" /\ g.site = f.site
  BY <1>2, FrameKinds
<1>5. /\ p \in ThreadState /\ SameRest(r, p) /\ Structured(p.frames) /\ PushFits(p.frames, f)
  BY <1>2, PopState
<1> HIDE DEF p
<1>6. p.made /\ Unstashed(p) /\ p.status = "Normal" /\ TopTakes(p, f.site)
  BY <1>2, <1>5 DEF SameRest, Unstashed, TopTakes, PushFits
<1>7. PushFits(p.frames, g)
  BY <1>4, <1>6 DEF PushFits, TopTakes
<1>8. a \in ThreadState /\ a.made /\ Structured(a.frames) /\ Active(a, n) /\ a.pending = NoAction
  BY <1>4, <1>5, <1>6, <1>7, PushActive
<1>9. SameRest(p, a) /\ a.frames # <<>> /\ Top(a) = g
  BY <1>4, <1>5, PushState
<1> HIDE DEF a
<1>10. TopTakes(a, "call") /\ TakesResume(a.frames, Len(a.frames), f.site)
  <2>1. a.frames \in Seq(Frames) /\ Last(a.frames).k = "Sequence"
    BY <1>4, <1>8, <1>9, TopFrame DEF Top
  <2> QED
    BY <1>9, <2>1, TakesTop DEF TopTakes
<1> QED
  BY <1>2, <1>3, <1>4, <1>5, <1>6, <1>8, <1>9, <1>10 DEF SameRest, Unstashed, p, a

\* A Sequence that calls is answered when the call lands on what it left.
LEMMA SequenceCall ==
    ASSUME IInv, Running, Admit = {}, NEW r \in ThreadState, r.made, Structured(r.frames),
           Unstashed(r), r.status = "Normal", TopTakes(r, "call"), NEW fn \in Fns,
           thread' \in schedule_call_at([thread EXCEPT ![cur] = r], cur, fn, FALSE),
           UNCHANGED thread_stack, Continue
    PROVE  IInv'
<1> DEFINE th == [thread EXCEPT ![cur] = r]
<1>1. thread_stack # <<>>
  BY Driven
<1>2. Others(th) /\ th[cur] = r
  BY <1>1, OthersNow, OthersSet
<1>3. thread' \in schedule_call_at(th, cur, fn, FALSE)
  OBVIOUS
<1> HIDE DEF th
<1>4. Scheduled(th, thread')
  BY <1>1, <1>2, <1>3, Scheduling
<1> QED
  BY <1>1, <1>2, <1>4, ScheduledStep

\* pump_sequence applies the answer of a poll.
LEMMA SequenceStep ==
    ASSUME IInv, Admit = {}, pump_sequence
    PROVE  IInv' /\ result' # "Err"
<1> DEFINE r == thread[cur]
           f == Top(r)
           g == [f EXCEPT !.err = FALSE]
           p == Pop(r)
           a == Push(p, g)
           n == Len(thread_stack)
           popped == [thread EXCEPT ![cur] = p]
           again == [popped EXCEPT ![cur] = Push(@, g)]
           room == Len(thread[cur].frames) < MaxFrames
           Set(th) == thread' = th /\ UNCHANGED thread_stack /\ Continue
<1>1. AtFrame("Sequence")
  BY DEF pump_sequence
<1>2. /\ Running /\ thread_stack # <<>> /\ f \in Frames /\ f.k = "Sequence"
      /\ f.site \in Sites
      /\ p \in ThreadState /\ p.made /\ Structured(p.frames) /\ Unstashed(p)
      /\ p.status = "Normal" /\ TopTakes(p, f.site)
      /\ a \in ThreadState /\ a.made /\ Structured(a.frames) /\ Unstashed(a)
      /\ a.status = "Normal" /\ a.frames # <<>> /\ Active(a, n)
      /\ TopTakes(a, "call") /\ TakesResume(a.frames, Len(a.frames), f.site)
  BY <1>1, AtSequence
<1>3. /\ thread \in [Threads -> ThreadState] /\ cur \in Threads /\ Others(thread)
      /\ Coroutines \subseteq Threads
  BY <1>2, Current, OthersNow
<1>4. a.pending = NoAction /\ p.pending = NoAction
  BY <1>2 DEF Unstashed
<1>5. TakesResume(p.frames, Len(p.frames), f.site)
  BY <1>2 DEF TopTakes, TakesResume
<1>6. PICK poll \in PollResults(f) :
           \/ /\ poll = "Pending"
              /\ thread' = again /\ Leave("Pending") /\ UNCHANGED <<thread_stack, mode>>
           \/ /\ poll = "Return"
              /\ IF LandPanics(popped[cur], f.site) THEN Panic
                 ELSE Set([popped EXCEPT ![cur] = land_call_results(@, f.site)])
           \/ /\ poll = "Call" /\ room
              /\ \E fn \in Fns : \E th \in schedule_call_at(again, cur, fn, FALSE) : Set(th)
           \/ /\ poll = "TailCall"
              /\ f.site = "call" \/ "tailcall_in_metamethod" \in Admit
              /\ \E fn \in Fns : \E th \in schedule_call_at(popped, cur, fn, FALSE) : Set(th)
           \/ /\ poll = "Yield"
              /\ Set([again EXCEPT ![cur] = Suspend(@, f.site)])
           \/ /\ poll = "TailYield"
              /\ popped[cur].frames # <<>> \/ "yield_without_frame" \in Admit
              /\ Set([popped EXCEPT ![cur] = Suspend(@, f.site)])
           \/ /\ poll = "Resume" /\ room
              /\ \E co \in SeqTargets : schedule_thread_resume(again, co, f.site)
           \/ /\ poll = "TailResume"
              /\ \E co \in SeqTargets : schedule_thread_resume(popped, co, f.site)
           \/ /\ poll = "Err"
              /\ Set([popped EXCEPT ![cur] = Push(@, ErrorFrame)])
  <2>1. popped = [thread EXCEPT ![cur] = Pop(@)]
    BY <1>3
  <2> QED
    BY <2>1 DEF pump_sequence
<1>7. popped[cur] = p /\ Others(popped)
  BY <1>2, <1>3, OthersSet
<1> HIDE DEF p
<1>8. again = [thread EXCEPT ![cur] = a] /\ again[cur] = a
  BY <1>3, <1>7
<1>9. Others(again)
  <2> HIDE DEF again, a
  <2> QED
    BY <1>2, <1>3, <1>8, OthersSet
<1>10. \A u : /\ [popped EXCEPT ![cur] = u] = [thread EXCEPT ![cur] = u]
              /\ [again EXCEPT ![cur] = u] = [thread EXCEPT ![cur] = u]
  BY <1>3, <1>8
<1> HIDE DEF a, again, popped, g, f
<1>0. result # "Err"
  BY <1>2, Driven
<1>11. CASE poll = "Pending"
  <2>1. thread' = again /\ Leave("Pending") /\ UNCHANGED <<thread_stack, mode>>
    BY <1>6, <1>11
  <2>2. ResumesParked(thread', a, OnStack) /\ mode = "Normal"
    BY <1>2, <1>4, Driven DEF ResumesParked
  <2> QED
    BY <1>2, <1>8, <1>9, <2>1, <2>2, CurStep DEF Leave, Results
<1>12. CASE poll = "Return"
  <2> DEFINE s == land_call_results(p, f.site)
  <2>1. f.site = "meta" => TopIs(p, "Lua")
    <3>1. p.frames \in Seq(Frames)
      BY <1>2, TopFrame
    <3> QED
      BY <1>2, <3>1, TakesTop DEF TopTakes, TopIs, Top
  <2>2. Landed(p, s)
    BY <1>2, Landing
  <2>3. s \in ThreadState /\ s.made /\ Structured(s.frames) /\ Active(s, n) /\ s.pending = NoAction
    BY <1>2, <2>2, LandedActive
  <2>4. /\ thread' = [popped EXCEPT ![cur] = s] /\ UNCHANGED thread_stack /\ Continue
    <3>1. [popped EXCEPT ![cur] = land_call_results(@, f.site)] = [popped EXCEPT ![cur] = s]
      BY <1>7
    <3>2. Set([popped EXCEPT ![cur] = land_call_results(@, f.site)])
      BY <1>6, <1>7, <1>12, <2>1 DEF LandPanics
    <3> QED
      BY <3>1, <3>2
  <2> HIDE DEF s
  <2> QED
    BY <1>2, <1>7, <2>3, <2>4, <1>0, SetCur DEF Continue
<1>13. CASE poll = "Call"
  <2>1. PICK fn \in Fns : thread' \in schedule_call_at(again, cur, fn, FALSE)
                          /\ UNCHANGED thread_stack /\ Continue
    BY <1>6, <1>13
  <2> QED
    BY <1>2, <1>8, <2>1, <1>0, SequenceCall DEF Continue
<1>14. CASE poll = "TailCall"
  <2>1. PICK fn \in Fns : thread' \in schedule_call_at(popped, cur, fn, FALSE)
                          /\ UNCHANGED thread_stack /\ Continue
    BY <1>6, <1>14
  <2>2. TopTakes(p, "call")
    BY <1>2, <1>6, <1>14
  <2> QED
    BY <1>2, <2>1, <2>2, <1>0, SequenceCall DEF popped, Continue
<1>15. CASE poll = "Yield"
  <2> DEFINE u == Suspend(a, f.site)
  <2>1. thread' = [again EXCEPT ![cur] = u] /\ UNCHANGED thread_stack /\ Continue
    <3>1. [again EXCEPT ![cur] = Suspend(@, f.site)] = [again EXCEPT ![cur] = u]
      BY <1>8
    <3> QED
      BY <1>6, <1>15, <3>1
  <2>2. u \in ThreadState /\ u.made /\ Structured(u.frames) /\ u.pending = NoAction /\ Active(u, n)
    BY <1>2, <1>4, Suspending
  <2> HIDE DEF u
  <2> QED
    BY <1>2, <1>9, <2>1, <2>2, <1>0, SetCur DEF Continue
<1>16. CASE poll = "TailYield"
  <2> DEFINE u == Suspend(p, f.site)
  <2>1. /\ thread' = [popped EXCEPT ![cur] = u] /\ UNCHANGED thread_stack /\ Continue
        /\ p.frames # <<>>
    <3>1. [popped EXCEPT ![cur] = Suspend(@, f.site)] = [popped EXCEPT ![cur] = u]
      BY <1>7
    <3> QED
      BY <1>6, <1>7, <1>16, <3>1
  <2>2. u \in ThreadState /\ u.made /\ Structured(u.frames) /\ u.pending = NoAction /\ Active(u, n)
    BY <1>2, <1>4, <1>5, <2>1, Suspending
  <2> HIDE DEF u
  <2> QED
    BY <1>2, <1>7, <2>1, <2>2, <1>0, SetCur DEF Continue
<1>17. \A co \in SeqTargets : /\ co \in Coroutines \ OnStack
                              /\ thread[co].made /\ thread[co].status = "Suspended"
  <2> SUFFICES ASSUME NEW co \in SeqTargets
               PROVE  /\ co \in Coroutines \ OnStack
                      /\ thread[co].made /\ thread[co].status = "Suspended"
    OBVIOUS
  <2>1. co \in Coroutines /\ thread[co].made /\ Resumable(thread, cur, co)
    BY DEF SeqTargets
  <2> QED
    BY <1>2, <1>3, <2>1, ResumableRests
<1>18. CASE poll = "Resume"
  <2>1. PICK co \in SeqTargets : schedule_thread_resume(again, co, f.site)
    BY <1>6, <1>18
  <2> QED
    BY <1>2, <1>8, <1>17, <2>1, <1>0, ThreadResumeStep DEF Continue
<1>19. CASE poll = "TailResume"
  <2>1. PICK co \in SeqTargets : schedule_thread_resume(popped, co, f.site)
    BY <1>6, <1>19
  <2>2. popped = [thread EXCEPT ![cur] = p]
    BY DEF popped
  <2> QED
    BY <1>2, <1>5, <1>17, <2>1, <2>2, <1>0, ThreadResumeStep DEF Continue
<1>20. CASE poll = "Err"
  <2> DEFINE u == Push(p, ErrorFrame)
  <2>1. thread' = [popped EXCEPT ![cur] = u] /\ UNCHANGED thread_stack /\ Continue
    <3>1. [popped EXCEPT ![cur] = Push(@, ErrorFrame)] = [popped EXCEPT ![cur] = u]
      BY <1>7
    <3> QED
      BY <1>6, <1>20, <3>1
  <2>2. PushFits(p.frames, ErrorFrame)
    <3>1. p.frames \in Seq(Frames)
      BY <1>2, TopFrame
    <3> QED
      BY <1>2, <3>1, ErrorFits DEF TopTakes
  <2>3. u \in ThreadState /\ u.made /\ Structured(u.frames) /\ u.pending = NoAction /\ Active(u, n)
    <3>1. ErrorFrame \in Frames /\ ErrorFrame.k = "Error"
      BY FrameKinds
    <3> HIDE DEF n
    <3> QED
      BY <1>2, <2>2, <3>1, PushActive
  <2> HIDE DEF u
  <2> QED
    BY <1>2, <1>7, <2>1, <2>3, <1>0, SetCur DEF Continue
<1> QED
  BY <1>6, <1>11, <1>12, <1>13, <1>14, <1>15, <1>16, <1>18, <1>19, <1>20

\* Among the Sequences of a stack of frames there is a topmost one.
LEMMA TopCatcher ==
    ASSUME NEW fs \in Seq(Frames), Catchers(fs) # {}
    PROVE  /\ Max(Catchers(fs)) \in DOMAIN fs /\ fs[Max(Catchers(fs))].k = "Sequence"
           /\ Max(Catchers(fs)) > 0
<1> DEFINE C == Catchers(fs)
           n == Len(fs)
           T == {n - i : i \in C}
<1>1. n \in Nat /\ DOMAIN fs = 1..n
  BY LenProperties
<1>2. C \subseteq 1..n /\ \A i \in C : fs[i].k = "Sequence"
  BY <1>1 DEF Catchers
<1> HIDE DEF C, n
<1>3. T \in SUBSET Nat /\ T # {}
  BY <1>1, <1>2 DEF C
<1>4. PICK m \in T : \A j \in T : m <= j
  <2> HIDE DEF T
  <2> QED
    BY <1>3, LeastMember
<1>5. PICK x \in C : m = n - x
  OBVIOUS
<1>6. ASSUME NEW y \in C PROVE x >= y
  <2>1. n - y \in T /\ x \in 1..n /\ y \in 1..n
    BY <1>2
  <2>2. n - x <= n - y
    BY <1>4, <1>5, <2>1
  <2> HIDE DEF T
  <2> QED
    BY <1>1, <2>1, <2>2
<1>7. Max(C) \in C
  BY <1>5, <1>6 DEF Max
<1> QED
  BY <1>1, <1>2, <1>7 DEF C

\* Under an Error frame every frame has run, and none is an Error frame.
LEMMA UnderError ==
    ASSUME NEW fs \in Seq(Frames), Structured(fs), Steady(fs)
    PROVE  \A i \in DOMAIN fs : fs[i].k \notin {"Start", "Error"}
<1> SUFFICES ASSUME NEW i \in DOMAIN fs, fs[i].k \in {"Start", "Error"} PROVE FALSE
  OBVIOUS
<1>1. i = Len(fs) /\ FrameFits(fs, i)
  BY DEF Structured, FrameFits
<1>2. fs # <<>> /\ Last(fs) = fs[i]
  BY <1>1, EmptySeq DEF Last
<1> QED
  BY <1>2 DEF Steady

\* What the loop finds when the top frame is none that runs.
LEMMA AtError ==
    ASSUME IInv, PumpError
    PROVE  LET r == thread[cur]
               fs == Front(r.frames)
           IN  /\ Running /\ thread_stack # <<>> /\ r \in ThreadState /\ r.made
               /\ Unstashed(r) /\ r.status = "Normal" /\ TopIs(r, "Error") /\ r.frames # <<>>
               /\ fs \in Seq(Frames) /\ Structured(fs) /\ Steady(fs)
               /\ \A i \in DOMAIN fs : fs[i].k \notin {"Start", "Error"}
               /\ unwind_error
<1> DEFINE r == thread[cur]
           fs == Front(r.frames)
<1>1. Pumping /\ r.pending = NoAction /\ \A k \in {"Lua", "Sequence", "Start"} : ~TopIs(r, k)
  BY DEF PumpError
<1>2. /\ Running /\ r \in ThreadState /\ r.made /\ Structured(r.frames)
      /\ Unstashed(r) /\ r.frames # <<>>
      /\ Top(r).k \in {"Lua", "Sequence", "Start", "Error"}
      /\ Top(r).k # "Start" => r.status = "Normal"
  BY <1>1, AtTop
<1>3. TopIs(r, "Error") /\ r.status = "Normal"
  BY <1>1, <1>2 DEF TopIs
<1>4. fs \in Seq(Frames) /\ Structured(fs) /\ Steady(fs)
  BY <1>2, FramesPop, TopFrame
<1>5. unwind_error
  BY <1>3 DEF PumpError
<1>6. thread_stack # <<>>
  BY <1>2, Driven
<1> HIDE DEF fs, r
<1> QED
  BY <1>2, <1>3, <1>4, <1>5, <1>6, UnderError DEF fs, r

\* An error unwinds to the nearest sequence or off the thread.
LEMMA ErrorStep == ASSUME IInv, PumpError PROVE IInv'
<1> DEFINE r == thread[cur]
           fs == Front(r.frames)
           low == IF Catchers(fs) = {} THEN 0 ELSE Max(Catchers(fs))
           Dropped == [r EXCEPT !.frames = <<>>]
           n == Len(thread_stack)
<1>1. /\ Running /\ thread_stack # <<>> /\ r \in ThreadState /\ r.made
      /\ Unstashed(r) /\ r.status = "Normal" /\ TopIs(r, "Error") /\ r.frames # <<>>
      /\ fs \in Seq(Frames) /\ Structured(fs) /\ Steady(fs)
      /\ \A i \in DOMAIN fs : fs[i].k \notin {"Start", "Error"}
      /\ unwind_error
  BY AtError
<1>2. /\ thread \in [Threads -> ThreadState] /\ cur \in Threads /\ Others(thread)
      /\ n \in Nat \ {0}
  BY <1>1, Current, OthersNow
<1>3. low # 0 => low \in DOMAIN fs /\ fs[low].k = "Sequence" /\ low > 0
  BY <1>1, TopCatcher
<1>4. ~ \E i \in (low + 1)..Len(fs) : fs[i].k \in {"Start", "Error"}
  <2>1. Len(fs) \in Nat /\ DOMAIN fs = 1..Len(fs)
    BY <1>1, LenProperties
  <2>2. low \in Nat
    BY <1>3, <2>1
  <2> HIDE DEF low, fs
  <2>3. \A i \in (low + 1)..Len(fs) : i \in 1..Len(fs)
    BY <2>1, <2>2
  <2> QED
    BY <1>1, <2>1, <2>3
<1>5. IF low > 0
      THEN /\ thread' = [thread EXCEPT ![cur].frames = Catch(fs, low)]
           /\ UNCHANGED thread_stack /\ Continue
      ELSE IF n > 1 THEN ErrorToResumer ELSE ErrorToHost
  BY <1>1, <1>4 DEF unwind_error
<1>6. /\ Dropped \in ThreadState /\ Dropped.made /\ Structured(Dropped.frames)
      /\ Dropped.pending = NoAction /\ Dropped.status = "Normal" /\ Finished(Dropped)
      /\ Resting(Dropped)
  <2>1. <<>> \in Seq(Frames) /\ Structured(<<>>)
    BY EmptySeq DEF Structured
  <2>2. Dropped \in ThreadState /\ SameRest(r, Dropped) /\ Dropped.frames = <<>>
    BY <1>1, <2>1, WithFrames
  <2> HIDE DEF Dropped
  <2> QED
    BY <1>1, <2>1, <2>2 DEF SameRest, Unstashed, Finished, Quiet, TopIs, Resting
<1> HIDE DEF low
<1>7. CASE low > 0
  <2> DEFINE u == [r EXCEPT !.frames = Catch(fs, low)]
  <2>1. low \in DOMAIN fs /\ fs[low].k = "Sequence"
    BY <1>3, <1>7
  <2>2. /\ Catch(fs, low) \in Seq(Frames) /\ Catch(fs, low) # <<>>
        /\ Structured(Catch(fs, low)) /\ Last(Catch(fs, low)).k = "Sequence"
    BY <1>1, <2>1, FramesCatch
  <2>3. u \in ThreadState /\ SameRest(r, u) /\ u.frames = Catch(fs, low)
    <3> HIDE DEF r
    <3> QED
      BY <1>1, <2>2, WithFrames
  <2>4. thread' = [thread EXCEPT ![cur] = u] /\ UNCHANGED thread_stack /\ Continue
    BY <1>2, <1>5, <1>7
  <2> HIDE DEF u
  <2>5. u.made /\ Structured(u.frames) /\ u.pending = NoAction /\ Active(u, n)
    BY <1>1, <2>2, <2>3 DEF SameRest, Unstashed, Active, Quiet, TopIs, Top
  <2> QED
    BY <1>1, <1>2, <2>3, <2>4, <2>5, SetCur
<1>8. CASE ~(low > 0) /\ n > 1
  <2> DEFINE q == Last(Front(thread_stack))
             rs == thread[q]
             p == Pop(rs)
             e == Push(p, ErrorFrame)
             w == [e EXCEPT !.status = "Normal"]
  <2>1. /\ q \in OnStack \ {cur} /\ q \in Threads /\ Waiting(rs, cur)
        /\ rs \in ThreadState /\ rs.made /\ Structured(rs.frames)
    BY <1>1, <1>8, Resumer
  <2>2. /\ thread_stack' = Front(thread_stack) /\ Continue
        /\ thread' = [thread EXCEPT ![cur] = Dropped, ![q] = w]
    <3>1. /\ thread_stack' = Front(thread_stack) /\ Continue
          /\ thread' = [thread EXCEPT
                ![cur].frames = <<>>,
                ![q] = [Push(Pop(rs), ErrorFrame) EXCEPT !.status = "Normal"]]
      BY <1>5, <1>8, <2>1 DEF ErrorToResumer, Waiting
    <3> QED
      BY <1>2, <3>1
  <2>3. rs.frames # <<>>
    BY <2>1 DEF Waiting, TopIs
  <2>4. p \in ThreadState /\ SameRest(rs, p) /\ Structured(p.frames) /\ Steady(p.frames)
    BY <2>1, <2>3, PopState
  <2> HIDE DEF p
  <2>5. p.made /\ p.status = "Normal" /\ Unstashed(p)
    BY <2>1, <2>4 DEF SameRest, Unstashed, Waiting
  <2>6. ErrorFrame \in Frames /\ ErrorFrame.k = "Error"
    BY FrameKinds
  <2>7. PushFits(p.frames, ErrorFrame)
    BY <2>4, <2>6 DEF PushFits
  <2>8. e \in ThreadState /\ e.made = p.made /\ e.status = p.status /\ Structured(e.frames)
        /\ Quiet(e) /\ e.frames # <<>>
    BY <2>4, <2>5, <2>6, <2>7, PushQuiet
  <2> HIDE DEF e
  <2>9. /\ w \in ThreadState /\ w.made = e.made /\ w.frames = e.frames /\ w.status = "Normal"
        /\ (Quiet(w) <=> Quiet(e))
    BY <2>8, StatusState DEF Statuses
  <2> HIDE DEF w
  <2>10. w.made /\ Structured(w.frames) /\ w.pending = NoAction /\ Active(w, n - 1)
    BY <2>5, <2>8, <2>9 DEF Active, Quiet
  <2> HIDE DEF q, Dropped
  <2>11. /\ thread' \in [Threads -> ThreadState] /\ thread'[q] = w /\ thread'[cur] = Dropped
         /\ \A t \in Threads \ {cur, q} : thread'[t] = thread[t]
    BY <1>2, <1>6, <2>1, <2>2, <2>9
  <2> QED
    BY <1>1, <1>6, <1>8, <2>2, <2>10, <2>11, PopStep DEF q
<1>9. CASE ~(low > 0) /\ ~(n > 1)
  <2>1. thread' = [thread EXCEPT ![cur] = Dropped] /\ Leave("Err") /\ UNCHANGED <<thread_stack, mode>>
    BY <1>2, <1>5, <1>9 DEF ErrorToHost
  <2>2. n = 1
    <3> HIDE DEF n
    <3> QED BY <1>2, <1>9
  <2> HIDE DEF Dropped
  <2>3. Others(thread') /\ thread'[cur] = Dropped
    BY <1>1, <1>2, <1>6, <2>1, OthersSet
  <2> QED
    BY <1>1, <1>6, <2>1, <2>2, <2>3, ErrStep, Driven DEF Leave, Finished
<1> QED
  BY <1>7, <1>8, <1>9

\* One iteration of the loop of Executor::step keeps the invariant.
LEMMA IterateStep == ASSUME IInv, Admit = {}, iterate PROVE IInv'
BY PropagateStep, StepEndsStep, StepYieldedStep, PendingStep, PumpStartStep, SequenceStep,
   ErrorStep DEF iterate
-----------------------------------------------------------------------------
(* The host's calls                                                        *)

\* When the host may start a program, the main thread has nothing stashed and
\* no coroutine is active.
LEMMA BeforeStart ==
    ASSUME IInv, mode = "Stopped" \/ result = "Err"
    PROVE  /\ thread[Main].made /\ Unstashed(thread[Main]) /\ thread[Main] \in ThreadState
           /\ \A t \in Coroutines : t \notin OnStack
<1>1. thread[Main].made /\ thread[Main] \in ThreadState
  BY DEF IInv, TypeOK, StackInv, Threads
<1>2. CASE thread_stack = <<>>
  <2>1. DOMAIN thread_stack = {} /\ Finished(thread[Main])
    BY <1>2, EmptySeq, LenProperties DEF IInv, HostInv
  <2> QED
    BY <1>1, <2>1 DEF OnStack, Finished, Quiet, Unstashed
<1>3. CASE thread_stack # <<>>
  <2>1. Len(thread_stack) = 1
    <3>1. Len(thread_stack) <= 1 \/ Len(thread_stack) = 1
      BY DEF IInv, HostInv
    <3>2. Len(thread_stack) \in Nat \ {0}
      BY <1>3, Current
    <3>3. PICK m \in Nat \ {0} : m = Len(thread_stack)
      BY <3>2
    <3> QED
      BY <3>1, <3>3
  <2>2. cur = Main /\ OnStack = {Main}
    BY <1>3, <2>1, OnceOnStack
  <2>3. Quiet(thread[Main])
    BY <2>2 DEF IInv, HostInv, Finished
  <2> QED
    BY <1>1, <2>2, <2>3, ThreadsAssumption DEF Quiet, Unstashed
<1> QED
  BY <1>2, <1>3

\* start seeds the main thread with a function.
LEMMA StartStep == ASSUME IInv, start PROVE IInv'
<1>1. PICK fn \in Fns : thread' = [thread EXCEPT ![Main].frames = <<StartFrame(fn)>>,
                                                 ![Main].status = "Suspended"]
  BY DEF start
<1>2. /\ mode = "Stopped" \/ result = "Err"
      /\ thread_stack' = <<Main>> /\ mode' = "Normal" /\ result' = "None"
      /\ driving = FALSE /\ driving' = FALSE /\ panicked = FALSE /\ panicked' = FALSE
  BY DEF start, Idle, IInv, TypeOK
<1> DEFINE r == thread[Main]
           f == StartFrame(fn)
           p == [r EXCEPT !.frames = <<f>>]
           s == [p EXCEPT !.status = "Suspended"]
<1>3. /\ r.made /\ Unstashed(r) /\ r \in ThreadState /\ \A t \in Coroutines : t \notin OnStack
      /\ thread \in [Threads -> ThreadState] /\ Main \in Threads /\ Main \notin Coroutines
  BY <1>2, BeforeStart, ThreadsAssumption DEF IInv, TypeOK, Threads
<1>4. f \in Frames /\ f.k = "Start"
  BY FrameKinds
<1> HIDE DEF f
<1>5. /\ <<f>> \in Seq(Frames) /\ <<f>> # <<>> /\ Len(<<f>>) = 1 /\ <<f>>[1] = f
      /\ DOMAIN <<f>> = 1..1
  BY <1>4
<1>6. Structured(<<f>>)
  BY <1>4, <1>5 DEF Structured, FrameFits
<1>7. p \in ThreadState /\ SameRest(r, p) /\ p.frames = <<f>>
  <2> HIDE DEF r
  <2> QED
    BY <1>3, <1>5, WithFrames
<1> HIDE DEF p
<1>8. /\ s \in ThreadState /\ s.made = p.made /\ s.frames = p.frames /\ s.pending = p.pending
      /\ s.yield_bottom = p.yield_bottom /\ s.status = "Suspended"
  BY <1>7, StatusState DEF Statuses
<1>9. thread' = [thread EXCEPT ![Main] = s]
  BY <1>1, <1>3 DEF p, f
<1> HIDE DEF s, r
<1>10. /\ thread' \in [Threads -> ThreadState] /\ thread'[Main] = s
       /\ \A t \in Coroutines : t \in Threads /\ thread'[t] = thread[t]
  BY <1>3, <1>8, <1>9 DEF Threads
<1>11. TopIs(s, "Start") /\ s.made /\ Unstarted(s) /\ s.pending = NoAction
  BY <1>3, <1>4, <1>5, <1>7, <1>8
     DEF Unstarted, Quiet, SameRest, Unstashed, TopIs, Top, Last
<1>12. /\ thread_stack' \in Seq(Threads) /\ thread_stack' # <<>> /\ Len(thread_stack') = 1
       /\ thread_stack'[1] = Main /\ DOMAIN thread_stack' = {1}
  BY <1>2, <1>3
<1>13. cur' = Main /\ OnStack' = {Main}
  BY <1>12 DEF cur, Last, OnStack
<1>14. TypeOK' /\ ~panicked'
  BY <1>2, <1>10, <1>12 DEF TypeOK, Modes, Results
<1>15. FramesInv'
  <2> SUFFICES ASSUME NEW t \in Threads PROVE Structured(thread'[t].frames)
    BY DEF FramesInv
  <2>1. CASE t = Main
    BY <1>6, <1>7, <1>8, <1>10, <2>1
  <2>2. CASE t # Main
    BY <1>10, <2>2 DEF Threads, IInv, FramesInv
  <2> QED
    BY <2>1, <2>2
<1>16. StackInv'
  <2>1. IsInjective(thread_stack')
    BY <1>12 DEF IsInjective
  <2>2. \A i \in 1..(Len(thread_stack') - 1) : FALSE
    BY <1>12
  <2> QED
    BY <1>10, <1>11, <1>12, <2>1, <2>2 DEF StackInv
<1>17. OffStackInv'
  BY <1>3, <1>10 DEF IInv, OffStackInv
<1>18. HostInv'
  <2>1. Active(thread'[Main], Len(thread_stack')) /\ ResumesParked(thread', thread'[Main], OnStack')
    BY <1>10, <1>11, <1>12 DEF Active, ResumesParked
  <2> QED
    BY <1>2, <1>12, <1>13, <2>1 DEF HostInv
<1> QED
  BY <1>14, <1>15, <1>16, <1>17, <1>18 DEF IInv

\* A host that steps an executor enters the loop.
LEMMA StepStep == ASSUME IInv, step PROVE IInv'
<1>1. cur' = cur /\ OnStack' = OnStack
  BY DEF step, cur, OnStack
<1>2. TypeOK' /\ ~panicked' /\ FramesInv' /\ StackInv' /\ OffStackInv'
  BY <1>1 DEF step, IInv, TypeOK, FramesInv, StackInv, OffStackInv, Results
<1>3. HostInv'
  BY <1>1 DEF step, IInv, HostInv
<1> QED
  BY <1>2, <1>3 DEF IInv

\* A host that resumes a yielded executor answers its yield.
LEMMA ResumeHostStep == ASSUME IInv, resume PROVE IInv'
<1> DEFINE s == LandResumeArgs(thread[cur])
           n == Len(thread_stack)
<1>1. mode = "Yielded" /\ thread_stack # <<>> /\ Yielding(thread[cur]) /\ driving = FALSE
  BY DEF resume, Idle, IInv, TypeOK, HostInv
<1>2. /\ thread[cur] \in ThreadState /\ thread[cur].made /\ Structured(thread[cur].frames)
      /\ Others(thread) /\ thread \in [Threads -> ThreadState] /\ cur \in Threads
  BY <1>1, Current, OthersNow
<1>3. /\ thread[cur].yield_bottom # NoSite /\ ~ResumePanics(thread[cur])
      /\ s \in ThreadState /\ s.made /\ Structured(s.frames) /\ s.pending = NoAction
      /\ Active(s, n)
  BY <1>1, <1>2, ResumeArgs
<1>4. /\ thread' = [thread EXCEPT ![cur] = s] /\ mode' = "Normal"
      /\ UNCHANGED <<thread_stack, driving, result, panicked>>
  BY <1>3 DEF resume
<1> HIDE DEF s
<1>5. Others(thread') /\ thread'[cur] = s
  BY <1>1, <1>2, <1>3, <1>4, OthersSet
<1>6. ResumesParked(thread', s, OnStack)
  BY <1>3 DEF ResumesParked
<1>7. result \in Results \ {"Err"}
  BY <1>1 DEF IInv, TypeOK, HostInv
<1> QED
  BY <1>1, <1>3, <1>4, <1>5, <1>6, <1>7, CurStep

\* take_result reads the result of a stopped executor.
LEMMA TakeResultStep == ASSUME IInv, take_result PROVE IInv'
<1> DEFINE r == thread[Main]
           p == [r EXCEPT !.frames = <<>>]
           s == [p EXCEPT !.status = "Stopped"]
<1>1. /\ mode = "Result" /\ thread_stack # <<>> /\ Finished(r) /\ driving = FALSE
      /\ Len(thread_stack) <= 1 /\ r.made /\ Main \in Threads /\ r \in ThreadState
      /\ thread \in [Threads -> ThreadState] /\ Main \notin Coroutines
  BY ThreadsAssumption DEF take_result, Idle, IInv, TypeOK, HostInv, StackInv, Threads
<1>2. <<>> \in Seq(Frames) /\ Structured(<<>>)
  BY EmptySeq DEF Structured
<1>3. p \in ThreadState /\ SameRest(r, p) /\ p.frames = <<>>
  <2> HIDE DEF r
  <2> QED
    BY <1>1, <1>2, WithFrames
<1> HIDE DEF p
<1>4. /\ s \in ThreadState /\ s.made = p.made /\ s.frames = p.frames /\ s.pending = p.pending
      /\ s.yield_bottom = p.yield_bottom /\ s.status = "Stopped"
  BY <1>3, StatusState DEF Statuses
<1>5. thread' = [thread EXCEPT ![Main] = s]
  BY <1>1 DEF take_result, p
<1>6. mode' = "Stopped" /\ UNCHANGED <<thread_stack, driving, result, panicked>>
  BY DEF take_result
<1> HIDE DEF s, r
<1>7. /\ thread' \in [Threads -> ThreadState] /\ thread'[Main] = s
      /\ \A t \in Threads \ {Main} : thread'[t] = thread[t]
  BY <1>1, <1>4, <1>5
<1>8. Len(thread_stack) = 1
  <2>1. PICK m \in Nat \ {0} : m = Len(thread_stack)
    BY <1>1, Current
  <2> QED
    BY <1>1, <2>1
<1>9. cur' = cur /\ OnStack' = OnStack /\ cur = Main /\ OnStack = {Main}
  BY <1>1, <1>6, <1>8, OnceOnStack DEF cur, OnStack
<1>10. Finished(s) /\ s.made
  BY <1>1, <1>3, <1>4 DEF Finished, Quiet, SameRest, TopIs
<1>11. TypeOK' /\ ~panicked'
  BY <1>6, <1>7 DEF IInv, TypeOK, Modes
<1>12. FramesInv'
  <2> SUFFICES ASSUME NEW t \in Threads PROVE Structured(thread'[t].frames)
    BY DEF FramesInv
  <2> QED
    BY <1>2, <1>3, <1>4, <1>7 DEF IInv, FramesInv
<1>13. StackInv'
  <2>1. \A i \in DOMAIN thread_stack : thread_stack[i] = Main
    BY <1>9 DEF OnStack
  <2>2. \A i \in 1..(Len(thread_stack) - 1) : FALSE
    BY <1>8
  <2> QED
    BY <1>6, <1>7, <1>10, <2>1, <2>2 DEF IInv, StackInv
<1>14. OffStackInv'
  BY <1>1, <1>7, <1>9 DEF IInv, OffStackInv, Threads
<1>15. HostInv'
  <2>1. result # "Err"
    BY <1>1 DEF IInv, HostInv
  <2> QED
    BY <1>1, <1>6, <1>7, <1>8, <1>10, <2>1 DEF HostInv
<1> QED
  BY <1>11, <1>12, <1>13, <1>14, <1>15 DEF IInv
-----------------------------------------------------------------------------
(* The theorems                                                            *)

\* An executor begins with an empty stack of threads.
LEMMA InitInv == ASSUME Init PROVE IInv
<1> DEFINE r(t) == [made |-> t = Main, frames |-> <<>>, status |-> "Stopped",
                    pending |-> NoAction, site |-> NoSite, yield_bottom |-> NoSite]
<1>1. <<>> \in Seq(Frames) /\ Structured(<<>>) /\ DOMAIN <<>> = {}
  BY EmptySeq, LenProperties DEF Structured
<1>2. ASSUME NEW t \in Threads
      PROVE  /\ thread[t] \in ThreadState /\ Structured(thread[t].frames) /\ Finished(thread[t])
             /\ thread[t].status = "Stopped" /\ (thread[t].made <=> t = Main)
  <2>1. thread[t] = r(t)
    BY DEF Init
  <2>2. r(t) \in ThreadState
    BY <1>1 DEF ThreadState, Statuses
  <2>3. Finished(r(t))
    BY DEF Finished, Quiet, TopIs
  <2>4. r(t).frames = <<>> /\ r(t).status = "Stopped" /\ (r(t).made <=> t = Main)
    OBVIOUS
  <2> HIDE DEF r
  <2> QED
    BY <1>1, <2>1, <2>2, <2>3, <2>4
<1>3. thread \in [Threads -> ThreadState]
  BY <1>2 DEF Init
<1>4. Main \in Threads /\ Coroutines \subseteq Threads
  BY DEF Threads
<1>5. thread_stack = <<>> /\ thread_stack \in Seq(Threads) /\ Len(thread_stack) = 0
  BY EmptySeq, LenProperties DEF Init
<1>6. TypeOK /\ ~panicked
  BY <1>3, <1>5 DEF Init, TypeOK, Modes, Results
<1>7. FramesInv
  BY <1>2 DEF FramesInv
<1>8. StackInv
  <2>1. IsInjective(thread_stack)
    BY <1>1, <1>5 DEF IsInjective
  <2>2. \A i \in 1..(Len(thread_stack) - 1) : FALSE
    BY <1>5
  <2> QED
    BY <1>1, <1>2, <1>4, <1>5, <2>1, <2>2 DEF StackInv
<1>9. OffStackInv
  BY <1>2, <1>4 DEF OffStackInv, Resting
<1>10. HostInv
  BY <1>2, <1>4, <1>5 DEF Init, HostInv
<1> QED
  BY <1>6, <1>7, <1>8, <1>9, <1>10 DEF IInv

\* Every step keeps the invariant.
LEMMA NextInv == ASSUME IInv, Admit = {}, [Next]_vars PROVE IInv'
<1>1. CASE Next
  BY <1>1, StartStep, StepStep, ResumeHostStep, TakeResultStep, IterateStep, RunThreadStep
     DEF Next
<1>2. CASE UNCHANGED vars
  <2>1. cur' = cur /\ OnStack' = OnStack
    BY <1>2 DEF vars, cur, OnStack
  <2>2. TypeOK' /\ ~panicked' /\ FramesInv' /\ StackInv' /\ OffStackInv'
    BY <1>2, <2>1 DEF vars, IInv, TypeOK, FramesInv, StackInv, OffStackInv
  <2>3. HostInv'
    BY <1>2, <2>1 DEF vars, IInv, HostInv
  <2> QED
    BY <2>2, <2>3 DEF IInv
<1> QED
  BY <1>1, <1>2

\* The invariant of the driver: what its frame stacks are made of, who waits
\* for whom, and what the host finds (executor.rs; run_thread of interp.rs).
THEOREM ExecutorInvariance == ASSUME Admit = {} PROVE Spec => []IInv
<1>1. Init => IInv
  BY InitInv
<1>2. IInv /\ [Next]_vars => IInv'
  BY NextInv
<1> QED
  BY <1>1, <1>2, PTL DEF Spec

\* Every field of the driver's state holds a value of its Rust type.
THEOREM ExecutorTypeCorrect == ASSUME Admit = {} PROVE Spec => []TypeOK
<1>1. IInv => TypeOK
  BY DEF IInv
<1> QED
  BY <1>1, ExecutorInvariance, PTL

\* No unreachable!, expect or unwrap of the driver is reached, whatever the
\* program calls, yields, resumes, closes and raises (executor.rs).
THEOREM NeverPanics == ASSUME Admit = {} PROVE Spec => []NoPanic
<1>1. IInv => NoPanic
  BY DEF IInv, NoPanic
<1> QED
  BY <1>1, ExecutorInvariance, PTL

\* Whatever a thread does, it is in one of four conditions.
LEMMA Conditions ==
    ASSUME IInv, NEW t \in Threads
    PROVE  LET r == thread[t] IN
           /\ r \in ThreadState /\ Structured(r.frames)
           /\ \/ Quiet(r) \/ Requesting(r) \/ Yielding(r)
              \/ t \in OnStack \ {cur} /\ \E of : Waiting(r, of)
           /\ t \in Coroutines \ OnStack => Resting(r)
<1> DEFINE r == thread[t]
<1>1. r \in ThreadState /\ Structured(r.frames)
  BY DEF IInv, TypeOK, FramesInv
<1>2. t \in Coroutines \ OnStack => Resting(r)
  BY DEF IInv, OffStackInv
<1>3. CASE t \in OnStack \ {cur}
  <2>1. thread_stack # <<>>
    BY <1>3, EmptySeq, LenProperties DEF OnStack
  <2> QED
    BY <1>1, <1>2, <1>3, <2>1, OnceOnStack
<1>4. CASE t \in OnStack /\ t = cur
  <2>1. thread_stack # <<>> /\ mode \in Modes
    BY <1>4, EmptySeq, LenProperties DEF OnStack, IInv, TypeOK
  <2>2. CASE mode = "Normal" /\ result # "Err"
    BY <1>1, <1>2, <1>4, <2>2 DEF IInv, HostInv, Active, Finished, Unstarted
  <2>3. CASE result = "Err"
    BY <1>1, <1>2, <1>4, <2>3 DEF IInv, HostInv
  <2>4. CASE mode = "Yielded"
    BY <1>1, <1>2, <1>4, <2>4 DEF IInv, HostInv
  <2>5. CASE mode \in {"Stopped", "Result"}
    <3>1. Len(thread_stack) = 1
      <4>1. PICK m \in Nat \ {0} : m = Len(thread_stack)
        BY <2>1, Current
      <4> QED
        BY <2>5, <4>1 DEF IInv, HostInv
    <3>2. t = Main
      BY <1>4, <2>1, <3>1, OnceOnStack
    <3> QED
      BY <1>1, <1>2, <2>5, <3>2 DEF IInv, HostInv, Finished
  <2> QED
    BY <2>1, <2>2, <2>3, <2>4, <2>5 DEF Modes
<1>5. CASE t \notin OnStack
  <2>1. CASE t = Main
    <3>1. thread_stack = <<>>
      BY <1>5, <2>1, Current
    <3> QED
      BY <1>1, <1>2, <2>1, <3>1 DEF IInv, HostInv, Finished
  <2>2. CASE t # Main
    BY <1>1, <1>2, <1>5, <2>2 DEF Threads, Resting, Unstarted, Finished
  <2> QED
    BY <2>1, <2>2
<1> QED
  BY <1>3, <1>4, <1>5

\* A WaitThread frame is on top of a thread that waits, and nowhere else.
LEMMA Waiters ==
    ASSUME IInv, NEW t \in Threads
    PROVE  /\ \A of : Waiting(thread[t], of) => Waits(t) = {Len(thread[t].frames)}
           /\ Quiet(thread[t]) \/ Requesting(thread[t]) \/ Yielding(thread[t]) => Waits(t) = {}
<1> DEFINE r == thread[t]
           fs == r.frames
<1>1. fs \in Seq(Frames) /\ Structured(fs) /\ r \in ThreadState
  BY Conditions, TopFrame
<1>2. \A i \in Waits(t) : i = Len(fs) /\ fs # <<>> /\ Last(fs) = fs[i] /\ fs[i].k = "WaitThread"
  <2> SUFFICES ASSUME NEW i \in Waits(t)
               PROVE  i = Len(fs) /\ fs # <<>> /\ Last(fs) = fs[i] /\ fs[i].k = "WaitThread"
    OBVIOUS
  <2>1. i \in DOMAIN fs /\ fs[i].k = "WaitThread"
    BY DEF Waits
  <2>2. i = Len(fs)
    BY <1>1, <2>1 DEF Structured, FrameFits
  <2>3. fs # <<>>
    BY <2>1, EmptySeq, LenProperties
  <2> QED
    BY <2>1, <2>2, <2>3 DEF Last
<1>3. Waits(t) # {} => TopIs(r, "WaitThread")
  BY <1>2 DEF TopIs, Top
<1>4. TopIs(r, "WaitThread") => Len(fs) \in Waits(t)
  BY <1>1, Ends DEF TopIs, Top, Waits
<1>5. Quiet(r) \/ Requesting(r) \/ Yielding(r) => ~TopIs(r, "WaitThread")
  <2>1. ASSUME NEW site, TakesResume(fs, Len(fs), site) PROVE ~TopIs(r, "WaitThread")
    BY <1>1, <2>1, TakesTop DEF TopIs, Top
  <2> HIDE DEF r
  <2> QED
    BY <2>1 DEF Quiet, Requesting, Yielding, TakesResume
<1> QED
  BY <1>2, <1>3, <1>4, <1>5 DEF Waiting

\* The stack of active threads is a chain of resumers, and a coroutine off it
\* can be resumed or has no frames (ExecutorInner.thread_stack).
THEOREM StackIsChain == ASSUME Admit = {} PROVE Spec => []ResumeChain
<1>1. ASSUME IInv PROVE ResumeChain
  <2>1. /\ TypeOK /\ IsInjective(thread_stack)
        /\ thread_stack # <<>> => thread_stack[1] = Main
    BY <1>1 DEF IInv, StackInv
  <2>2. ASSUME NEW i \in 1..(Len(thread_stack) - 1)
        PROVE  LET t == thread_stack[i]
               IN  /\ thread[t].status = "Normal" /\ thread[t].pending = NoAction
                   /\ Waits(t) = {Len(thread[t].frames)}
                   /\ Top(thread[t]).of = thread_stack[i + 1]
    <3>1. Waiting(thread[thread_stack[i]], thread_stack[i + 1])
      BY <1>1 DEF IInv, StackInv
    <3>2. thread_stack[i] \in Threads
      <4>1. thread_stack \in Seq(Threads)
        BY <1>1 DEF IInv, TypeOK
      <4>2. PICK n \in Nat : n = Len(thread_stack) /\ DOMAIN thread_stack = 1..n
        BY <4>1, LenProperties
      <4>3. i \in 1..n
        BY <4>2
      <4> QED
        BY <4>1, <4>2, <4>3, ElementOfSeq
    <3> QED
      BY <1>1, <3>1, <3>2, Waiters DEF Waiting
  <2>3. ASSUME NEW t \in Threads, t \notin OnStack \/ t = cur PROVE Waits(t) = {}
    BY <1>1, <2>3, Conditions, Waiters
  <2>4. ASSUME NEW t \in Coroutines \ OnStack, thread[t].frames # <<>>
        PROVE  /\ thread[t].status = "Suspended"
               /\ (thread[t].yield_bottom = NoSite) <=> TopIs(thread[t], "Start")
    <3>1. /\ t \in Threads /\ Resting(thread[t]) /\ thread[t].frames \in Seq(Frames)
      BY <1>1, Conditions, TopFrame DEF Threads
    <3>2. Unstarted(thread[t]) \/ Yielding(thread[t])
      BY <2>4, <3>1 DEF Resting, Finished
    <3>3. ASSUME Yielding(thread[t]) PROVE ~TopIs(thread[t], "Start")
      BY <3>1, <3>3, TakesTop DEF Yielding, TopIs, Top
    <3> QED
      BY <3>2, <3>3 DEF Unstarted, Yielding, Quiet
  <2> QED
    BY <2>1, <2>2, <2>3, <2>4 DEF ResumeChain
<1> QED
  BY <1>1, ExecutorInvariance, PTL

\* Every call is answered once, the way its instruction asked for.
THEOREM EveryCallIsAnswered == ASSUME Admit = {} PROVE Spec => []CallsAnswered
<1>1. ASSUME IInv PROVE CallsAnswered
  <2> SUFFICES ASSUME NEW t \in Threads, NEW i \in DOMAIN thread[t].frames,
                      thread[t].frames[i].k = "Lua",
                      ~(i < Len(thread[t].frames) /\ thread[t].frames[i + 1].k = "Error")
               PROVE  thread[t].frames[i].owed = NoSite <=>
                         /\ i = Len(thread[t].frames)
                         /\ ~(thread[t].pending # NoAction \/ thread[t].yield_bottom # NoSite)
    BY DEF CallsAnswered
  <2> DEFINE r == thread[t]
             fs == r.frames
  <2>1. /\ r \in ThreadState /\ Structured(fs) /\ fs \in Seq(Frames)
        /\ \/ Quiet(r) \/ Requesting(r) \/ Yielding(r)
           \/ \E of : Waiting(r, of)
    BY <1>1, Conditions, TopFrame
  <2>2. PICK n \in Nat : n = Len(fs) /\ DOMAIN fs = 1..n
    BY <2>1, LenProperties
  <2>3. i \in 1..n /\ fs[i].k = "Lua" /\ fs # <<>> /\ NoSite \notin Sites
    BY <2>2, EmptySeq, LenProperties DEF Sites, NoSite
  <2>4. CASE i = n
    <3>1. TopIs(r, "Lua") /\ Top(r).owed = fs[i].owed /\ Last(fs).k = "Lua"
      BY <2>2, <2>3, <2>4 DEF TopIs, Top, Last
    <3>2. ASSUME NEW site, TakesResume(fs, Len(fs), site) PROVE Top(r).owed = site
      BY <2>1, <3>1, <3>2, TakesTop DEF Top
    <3>3. CASE Quiet(r)
      BY <2>2, <2>4, <3>1, <3>3 DEF Quiet
    <3>4. CASE Requesting(r)
      <4>1. r.site \in Sites /\ TakesResume(fs, Len(fs), r.site) /\ r.pending # NoAction
        BY <3>4 DEF Requesting, TakesResume
      <4> QED
        BY <2>3, <3>1, <3>2, <4>1
    <3>5. CASE Yielding(r)
      <4>1. r.yield_bottom # NoSite /\ TakesResume(fs, Len(fs), r.yield_bottom)
        BY <3>5 DEF Yielding
      <4> QED
        BY <3>1, <3>2, <4>1
    <3>6. CASE \E of : Waiting(r, of)
      BY <3>1, <3>6 DEF Waiting, TopIs
    <3> QED
      BY <2>1, <3>3, <3>4, <3>5, <3>6
  <2>5. CASE i # n
    <3>1. i \in 1..n /\ i + 1 \in 1..n /\ i < n /\ (i + 1) - 1 = i /\ i # 0 /\ i + 1 # 1
      BY <2>3, <2>5
    <3>2. FrameFits(fs, i + 1) /\ fs[i + 1] \in Frames
      BY <2>1, <2>2, <3>1, ElementOfSeq DEF Structured
    <3>3. fs[i + 1].k \in {"Lua", "Sequence", "WaitThread"}
      BY <2>2, <3>1, <3>2, FrameKinds DEF FrameFits
    <3>4. \E site \in Sites : TakesResume(fs, i, site)
      <4>1. CASE fs[i + 1].k = "Lua"
        BY <3>1, <3>2, <4>1 DEF FrameFits, TakesResume, Sites
      <4>2. CASE fs[i + 1].k \in {"Sequence", "WaitThread"}
        <5>1. fs[i + 1].site \in Sites
          BY <3>2, <4>2, FrameKinds
        <5> QED
          BY <3>1, <3>2, <4>2, <5>1 DEF FrameFits, TakesResume
      <4> QED
        BY <3>3, <4>1, <4>2
    <3>5. fs[i].owed \in Sites
      BY <2>3, <3>1, <3>4 DEF TakesResume, Takes
    <3> QED
      BY <2>2, <2>3, <2>5, <3>5
  <2> QED
    BY <2>4, <2>5
<1> QED
  BY <1>1, ExecutorInvariance, PTL

\* In the bottom thread an error that reaches the host passed no Sequence.
LEMMA NoCatcherLeft ==
    ASSUME IInv, PumpError, result' = "Err"
    PROVE  ~SomeCatcher
<1> DEFINE r == thread[cur]
           fs == Front(r.frames)
<1>1. /\ Running /\ thread_stack # <<>> /\ r \in ThreadState /\ TopIs(r, "Error")
      /\ r.frames # <<>> /\ fs \in Seq(Frames) /\ unwind_error
  BY AtError
<1>2. result = "None" /\ Len(thread_stack) \in Nat \ {0}
  BY <1>1, Driven, Current
<1>3. Len(thread_stack) = 1 /\ Catchers(fs) = {}
  <2> DEFINE low == IF Catchers(fs) = {} THEN 0 ELSE Max(Catchers(fs))
  <2>1. ~(low > 0) /\ ~(Len(thread_stack) > 1)
    BY <1>1, <1>2 DEF unwind_error, Panic, Continue, ErrorToResumer
  <2>2. Catchers(fs) = {}
    BY <1>1, <2>1, TopCatcher
  <2>3. PICK n \in Nat \ {0} : n = Len(thread_stack)
    BY <1>2
  <2> QED
    BY <2>1, <2>2, <2>3
<1>4. Catchers(r.frames) = {}
  <2> SUFFICES ASSUME NEW i \in DOMAIN r.frames, r.frames[i].k = "Sequence" PROVE FALSE
    BY DEF Catchers
  <2>1. r.frames \in Seq(Frames)
    BY <1>1, TopFrame
  <2>2. PICK n \in Nat \ {0} : /\ n = Len(r.frames) /\ DOMAIN r.frames = 1..n
                               /\ DOMAIN fs = 1..(n - 1) /\ Last(r.frames) = r.frames[n]
                               /\ \A j \in 1..(n - 1) : fs[j] = r.frames[j]
    BY <1>1, <2>1, Ends
  <2>3. r.frames[n].k = "Error"
    BY <1>1, <2>2 DEF TopIs, Top
  <2> HIDE DEF r, fs
  <2>4. i \in 1..(n - 1)
    BY <2>2, <2>3
  <2> QED
    BY <1>3, <2>2, <2>4 DEF Catchers
<1>5. \A i \in DOMAIN thread_stack : thread_stack[i] = cur
  BY <1>1, <1>3, OnceOnStack DEF OnStack
<1> QED
  BY <1>4, <1>5 DEF SomeCatcher

\* An error reaches the host only when no Sequence is left that could catch
\* it: unwind_error asks every thread of the chain.
THEOREM ErrorsAreCaught == ASSUME Admit = {} PROVE Spec => CatchersCatch
<1>1. ASSUME IInv, [Next]_vars PROVE [driving /\ result' = "Err" => ~SomeCatcher]_vars
  <2> SUFFICES ASSUME driving, result' = "Err", Next PROVE ~SomeCatcher
    BY <1>1
  <2>1. Running /\ result = "None" /\ mode = "Normal" /\ Active(thread[cur], Len(thread_stack))
    BY <1>1, Driven DEF Running, IInv
  <2>2. CASE start \/ step \/ resume \/ take_result
    BY <2>1, <2>2 DEF start, step, resume, take_result, Idle, Running
  <2>3. CASE run_thread
    <3>1. impl_error
      BY <2>1, <2>3 DEF run_thread, op_call_lua, op_call_native, op_tailcall_native, op_return,
         schedule_meta_call_lua, schedule_native_meta_call, Step, Continue
    <3> QED
      BY <3>1 DEF impl_error
  <2>4. CASE propagate_inner_to_resumer
    BY <2>1, <2>4 DEF propagate_inner_to_resumer, Panic, Continue
  <2>5. CASE StepEnds \/ StepYielded
    BY <2>1, <2>5 DEF StepEnds, StepYielded, Leave, Active, Finished, Yielding, Unstarted
  <2>6. CASE apply_pending_action
    BY <1>1, <2>1, <2>6, PendingStep
  <2>7. CASE PumpStart
    BY <2>1, <2>7 DEF PumpStart, Continue
  <2>8. CASE pump_sequence
    BY <1>1, <2>8, SequenceStep
  <2>9. CASE PumpError
    BY <1>1, <2>9, NoCatcherLeft
  <2> QED
    BY <2>2, <2>3, <2>4, <2>5, <2>6, <2>7, <2>8, <2>9 DEF Next, iterate
<1> QED
  BY <1>1, ExecutorInvariance, PTL DEF CatchersCatch, Spec
-----------------------------------------------------------------------------
(* The driver implements CoroutineSpec                                     *)

\* The coroutines off the stack are as they were, but for one that a callback
\* created or closed.
Untouched(th, th2, S) == \A t \in (Coroutines \ OnStack) \ S : th2[t] = th[t]
Created(th, th2, co) ==
    /\ co \in Coroutines \ OnStack /\ ~th[co].made /\ Untouched(th, th2, {co})
    /\ th2[co].made /\ th2[co].status = "Suspended"
Closed(th, th2, co) ==
    /\ co \in Coroutines \ OnStack /\ th[co].made /\ Untouched(th, th2, {co})
    /\ th2[co].made /\ th2[co].status # "Suspended"
Touched(th, th2) ==
    \/ Untouched(th, th2, {})
    \/ \E co \in Coroutines : Created(th, th2, co) \/ Closed(th, th2, co)

\* Only two callbacks of the coroutine library change threads.
LEMMA LibraryCalls ==
    ASSUME NEW th, NEW t, NEW o \in invoke_native(th, t)
    PROVE  o.th = th \/ o \in lua_create(th) \/ o \in lua_close(th, t)
<1> DEFINE plain(acts) == {[act |-> a, th |-> th] : a \in acts}
           outcomes(n) == CASE n = "return"     -> plain({Return})
                            [] n = "error"      -> plain({Err})
                            [] n = "create"     -> lua_create(th)
                            [] n = "resume"     -> lua_resume(th, t)
                            [] n = "wrap"       -> wrap_callback(th, t)
                            [] n = "close"      -> lua_close(th, t)
                            [] n = "yield"      -> plain({Yield(NoSeq)})
                            [] n = "sequence"   -> plain({Sequence("Host")})
                            [] n = "call"       -> plain({Call(fn, NoSeq) : fn \in Fns})
                            [] n = "call_then"  -> plain({Call(fn, "Host") : fn \in Fns})
                            [] n = "yield_then" -> plain({Yield("Host")})
                            [] n = "host_resume" -> host_resume(th, t)
<1>1. PICK n \in Callable(th[t]) : o \in outcomes(n)
  <2>1. invoke_native(th, t) = UNION {outcomes(n) : n \in Callable(th[t])}
    BY DEF invoke_native
  <2> HIDE DEF outcomes
  <2> QED
    BY <2>1
<1>2. n \in NativeKinds
  BY NativesAssumption DEF Callable
<1>3. \A acts : o \in plain(acts) => o.th = th
  OBVIOUS
<1>4. o \in lua_resume(th, t) \/ o \in wrap_callback(th, t) \/ o \in host_resume(th, t) => o.th = th
  BY DEF lua_resume, wrap_callback, host_resume
<1> HIDE DEF plain
<1>5. CASE n \in {"create", "close", "resume", "wrap", "host_resume"}
  BY <1>1, <1>4, <1>5
<1>6. CASE n \notin {"create", "close", "resume", "wrap", "host_resume"}
  BY <1>1, <1>2, <1>3, <1>6 DEF NativeKinds
<1> QED
  BY <1>5, <1>6

\* A native changes its own thread, and threads it creates or closes.
LEMMA NativeTouches ==
    ASSUME IInv, thread_stack # <<>>, NEW th, Others(th), NEW o \in invoke_native(th, cur)
    PROVE  Touched(th, o.th)
<1>0. /\ th \in [Threads -> ThreadState] /\ cur \in Threads /\ Coroutines \subseteq Threads
      /\ Main \in OnStack
  BY Current DEF Others
<1>1. CASE o.th = th
  BY <1>1 DEF Touched, Untouched
<1>2. CASE o \in lua_create(th)
  <2>1. PICK co \in Coroutines, fn \in Fns :
           ~th[co].made /\ o = [act |-> Return, th |-> [th EXCEPT ![co] = Fresh(fn)]]
    BY <1>2 DEF lua_create
  <2>2. co \notin OnStack
    <3>1. ASSUME co \in OnStack PROVE thread[co].made
      BY <3>1, Current DEF OnStack, IInv, StackInv
    <3> QED
      BY <2>1, <3>1 DEF Others
  <2>3. Fresh(fn).made /\ Fresh(fn).status = "Suspended"
    BY DEF Fresh
  <2>4. o.th = [th EXCEPT ![co] = Fresh(fn)]
    BY <2>1
  <2>5. Created(th, o.th, co)
    BY <1>0, <2>1, <2>2, <2>3, <2>4 DEF Created, Untouched
  <2> QED
    BY <2>5 DEF Touched
<1>3. CASE o \in lua_close(th, cur)
  <2>1. PICK co \in {c \in Threads : th[c].made} :
           o = [act |-> Return,
                th |-> IF co # cur /\ th[co].status # "Normal"
                       THEN [th EXCEPT ![co] = Cleared(th[co])] ELSE th]
    BY <1>3 DEF lua_close
  <2>2. CASE ~(co # cur /\ th[co].status # "Normal")
    BY <2>1, <2>2 DEF Touched, Untouched
  <2>3. CASE co # cur /\ th[co].status # "Normal"
    <3>1. ASSUME co \in OnStack PROVE FALSE
      <4>1. co \in OnStack \ {cur} /\ thread[co].status # "Normal"
        BY <2>3, <3>1 DEF Others
      <4> QED
        BY <4>1, OnceOnStack DEF Waiting
    <3>2. co \in Coroutines \ OnStack /\ th[co].made /\ th[co] \in ThreadState
      BY <1>0, <2>1, <3>1 DEF Threads
    <3>3. Cleared(th[co]).made /\ Cleared(th[co]).status # "Suspended"
      BY <3>2, CoroutineStates
    <3>4. o.th = [th EXCEPT ![co] = Cleared(th[co])]
      BY <2>1, <2>3
    <3>5. Closed(th, o.th, co)
      BY <1>0, <3>2, <3>3, <3>4 DEF Closed, Untouched
    <3> QED
      BY <3>2, <3>5 DEF Touched
  <2> QED
    BY <2>2, <2>3
<1>4. o.th = th \/ o \in lua_create(th) \/ o \in lua_close(th, cur)
  BY LibraryCalls, Zenon
<1> QED
  BY <1>1, <1>2, <1>3, <1>4

\* What happens to the running thread besides touches no other.
LEMMA TouchedBesides ==
    ASSUME IInv, thread_stack # <<>>, NEW th1, NEW th2, NEW th3, NEW th4, Touched(th2, th3),
           \A t \in Threads \ {cur} : th2[t] = th1[t] /\ th4[t] = th3[t]
    PROVE  Touched(th1, th4)
<1>1. \A t \in Coroutines \ OnStack : t \in Threads \ {cur}
  BY Current
<1> QED
  BY <1>1 DEF Touched, Untouched, Created, Closed

\* So does a call.
LEMMA CallTouches ==
    ASSUME IInv, thread_stack # <<>>, Admit = {}, NEW th, Others(th), NEW fn, NEW starting,
           NEW th2 \in schedule_call_at(th, cur, fn, starting)
    PROVE  Touched(th, th2)
<1>1. th \in [Threads -> ThreadState] /\ cur \in Threads
  BY Current DEF Others
<1>2. CASE fn = "Lua"
  <2>1. th2 = [th EXCEPT ![cur] = Push(@, LuaFrame(FALSE))]
    BY <1>2 DEF schedule_call_at
  <2>2. \A t \in Threads \ {cur} : th2[t] = th[t]
    BY <1>1, <2>1
  <2>3. \A t \in Coroutines \ OnStack : t \in Threads \ {cur}
    BY Current
  <2> QED
    BY <2>2, <2>3 DEF Touched, Untouched
<1>3. CASE fn # "Lua"
  <2>1. PICK o \in invoke_native(th, cur) :
           th2 = CASE o.act.a = "Return" -> o.th
                   [] o.act.a = "Err" -> [o.th EXCEPT ![cur] = Push(@, ErrorFrame)]
                   [] OTHER -> [o.th EXCEPT ![cur] = Stash(@, o.act, "call")]
    BY <1>3 DEF schedule_call_at
  <2>2. Touched(th, o.th) /\ o.th \in [Threads -> ThreadState]
    BY NativeTouches, NativeCalls DEF Called, Others
  <2>3. \A t \in Threads \ {cur} : th2[t] = o.th[t]
    BY <1>1, <2>1, <2>2
  <2> QED
    BY <2>2, <2>3, TouchedBesides
<1> QED
  BY <1>2, <1>3

\* A step that leaves the stack of active threads alone, and coroutines that
\* rest too but for what a callback did, is a step of the discipline.
LEMMA TouchedDiscipline ==
    ASSUME IInv, thread_stack # <<>>, thread_stack' = thread_stack, Touched(thread, thread')
    PROVE  [Discipline!Next]_(Discipline!vars)
<1>1. OnStack' = OnStack
  BY DEF OnStack
<1>2. /\ \A i \in 1..Len(thread_stack) : thread_stack[i] \in OnStack
      /\ thread_stack \in Seq(Threads)
  BY Current DEF OnStack
<1>3. /\ Parked = {t \in Coroutines \ OnStack : thread[t].made /\ thread[t].status = "Suspended"}
      /\ Dead = {t \in Coroutines \ OnStack : thread[t].made /\ thread[t].status # "Suspended"}
      /\ Parked' = {t \in Coroutines \ OnStack : thread'[t].made /\ thread'[t].status = "Suspended"}
      /\ Dead' = {t \in Coroutines \ OnStack : thread'[t].made /\ thread'[t].status # "Suspended"}
  BY <1>1 DEF Parked, Dead
<1>4. CASE Untouched(thread, thread', {})
  <2>1. Parked' = Parked /\ Dead' = Dead
    BY <1>3, <1>4 DEF Untouched
  <2> QED
    BY <2>1 DEF Discipline!vars
<1>5. ASSUME NEW co \in Coroutines, Created(thread, thread', co)
      PROVE  Discipline!Create(co)
  <2>1. co \notin Parked \cup Dead /\ co \notin OnStack
    BY <1>3, <1>5 DEF Created
  <2>2. Parked' = Parked \cup {co}
    BY <1>3, <1>5 DEF Created, Untouched
  <2>3. Dead' = Dead
    BY <1>3, <1>5 DEF Created, Untouched
  <2> QED
    BY <1>2, <2>1, <2>2, <2>3 DEF Discipline!Create
<1>6. ASSUME NEW co \in Coroutines, Closed(thread, thread', co), co \in Parked
      PROVE  Discipline!Close(co)
  <2>1. Parked' = Parked \ {co}
    BY <1>3, <1>6 DEF Closed, Untouched
  <2>2. Dead' = Dead \cup {co}
    BY <1>3, <1>6 DEF Closed, Untouched
  <2> QED
    BY <1>6, <2>1, <2>2 DEF Discipline!Close
<1>7. ASSUME NEW co \in Coroutines, Closed(thread, thread', co), co \notin Parked
      PROVE  UNCHANGED Discipline!vars
  <2>1. co \in Dead
    BY <1>3, <1>7 DEF Closed
  <2>2. Parked' = Parked
    BY <1>3, <1>7 DEF Closed, Untouched
  <2>3. Dead' = Dead
    BY <1>3, <1>7, <2>1 DEF Closed, Untouched
  <2> QED
    BY <2>2, <2>3 DEF Discipline!vars
<1> QED
  BY <1>4, <1>5, <1>6, <1>7 DEF Touched, Discipline!Next

\* A step that touches no resting coroutine and changes the running thread
\* only.
LEMMA RunningOnly ==
    ASSUME IInv, thread_stack # <<>>, thread_stack' = thread_stack,
           \A t \in Threads \ {cur} : thread'[t] = thread[t]
    PROVE  [Discipline!Next]_(Discipline!vars)
<1>1. Touched(thread, thread')
  BY Current DEF Touched, Untouched
<1> QED
  BY <1>1, TouchedDiscipline

\* schedule_thread_resume resumes a parked coroutine, or changes no more than
\* the running thread.
LEMMA ResumeDiscipline ==
    ASSUME IInv, thread_stack # <<>>, NEW th, NEW site, NEW target \in Coroutines \ OnStack,
           th \in [Threads -> ThreadState], \A t \in Threads \ {cur} : th[t] = thread[t],
           thread[target].made, thread[target].status = "Suspended",
           schedule_thread_resume(th, target, site)
    PROVE  [Discipline!Next]_(Discipline!vars)
<1> DEFINE w == [Push(th[cur], WaitFrame(site, target)) EXCEPT !.status = "Normal"]
           th1 == [th EXCEPT ![cur] = w]
<1>1. /\ cur \in Threads /\ target \in Threads /\ target # cur /\ Coroutines \subseteq Threads
      /\ cur \in OnStack /\ thread_stack \in Seq(Threads)
  BY Current
<1>2. /\ DOMAIN th1 = Threads /\ th1[target] = thread[target]
      /\ \A t \in Threads \ {cur} : th1[t] = thread[t]
  BY <1>1
<1>3. th1 = [th EXCEPT ![cur] = [Push(@, WaitFrame(site, target)) EXCEPT !.status = "Normal"]]
  BY <1>1
<1> HIDE DEF th1
<1>4. \/ Panic
      \/ /\ thread' = [th1 EXCEPT ![target] = Reseated(@)]
         /\ thread_stack' = Append(thread_stack, target)
      \/ thread' = th1 /\ UNCHANGED thread_stack
  BY <1>3 DEF schedule_thread_resume
<1>5. CASE Panic
  BY <1>5, RunningOnly DEF Panic
<1>6. CASE thread' = th1 /\ UNCHANGED thread_stack
  BY <1>2, <1>6, RunningOnly
<1>7. CASE /\ thread' = [th1 EXCEPT ![target] = Reseated(@)]
           /\ thread_stack' = Append(thread_stack, target)
  <2>1. \A t \in Threads \ {cur, target} : thread'[t] = thread[t]
    BY <1>2, <1>7
  <2>2. OnStack' = OnStack \cup {target}
    <3>1. PICK n \in Nat : /\ n = Len(thread_stack) /\ DOMAIN thread_stack = 1..n
                           /\ DOMAIN thread_stack' = 1..(n + 1)
                           /\ \A i \in 1..n : thread_stack'[i] = thread_stack[i]
                           /\ thread_stack'[n + 1] = target
      BY <1>1, <1>7, Appended
    <3>2. OnStack' = {thread_stack'[i] : i \in 1..(n + 1)}
      BY <3>1 DEF OnStack
    <3>3. OnStack = {thread_stack[i] : i \in 1..n}
      BY <3>1 DEF OnStack
    <3>4. /\ \A i \in 1..(n + 1) : i = n + 1 \/ i \in 1..n
          /\ n + 1 \in 1..(n + 1) /\ \A i \in 1..n : i \in 1..(n + 1)
      OBVIOUS
    <3> QED
      BY <3>1, <3>2, <3>3, <3>4
  <2>3. target \in Parked
    BY DEF Parked
  <2>4. \A t \in Coroutines \ OnStack : t \in Threads \ {cur}
    BY <1>1
  <2>5. Parked' = Parked \ {target}
    BY <2>1, <2>2, <2>4 DEF Parked
  <2>6. Dead' = Dead
    BY <2>1, <2>2, <2>4 DEF Dead
  <2>7. Discipline!Resume(target)
    BY <1>7, <2>3, <2>5, <2>6 DEF Discipline!Resume
  <2> QED
    BY <2>7 DEF Discipline!Next
<1> QED
  BY <1>4, <1>5, <1>6, <1>7

\* A coroutine that leaves the stack is parked, or dead.
LEMMA PopDiscipline ==
    ASSUME IInv, Running, Len(thread_stack) > 1, thread_stack' = Front(thread_stack),
           NEW q, q = Last(Front(thread_stack)),
           \A t \in Threads \ {cur, q} : thread'[t] = thread[t], thread'[cur].made
    PROVE  [Discipline!Next]_(Discipline!vars)
<1>1. thread_stack # <<>>
  BY Driven
<1>2. /\ thread_stack \in Seq(Threads) /\ cur = thread_stack[Len(thread_stack)]
      /\ cur \in OnStack /\ cur \in Coroutines /\ q \in OnStack \ {cur}
      /\ \A t \in Coroutines \ OnStack : t \in Threads
  BY <1>1, Current, Resumer
<1>3. OnStack' = OnStack \ {cur}
  BY PoppedStack
<1>4. Discipline!Running = cur /\ Discipline!Deactivate
  BY <1>2 DEF Discipline!Running, Discipline!Deactivate, Front
<1>5. \A t \in Coroutines \ OnStack : thread'[t] = thread[t]
  BY <1>2
<1>6. CASE thread'[cur].status = "Suspended"
  <2>1. Parked' = Parked \cup {cur}
    BY <1>2, <1>3, <1>5, <1>6 DEF Parked
  <2>2. Dead' = Dead
    BY <1>2, <1>3, <1>5, <1>6 DEF Dead
  <2>3. Discipline!Yield
    BY <1>4, <2>1, <2>2 DEF Discipline!Yield
  <2> QED
    BY <2>3 DEF Discipline!Next
<1>7. CASE thread'[cur].status # "Suspended"
  <2>1. Parked' = Parked
    BY <1>2, <1>3, <1>5, <1>7 DEF Parked
  <2>2. Dead' = Dead \cup {cur}
    BY <1>2, <1>3, <1>5, <1>7 DEF Dead
  <2>3. Discipline!Finish
    BY <1>4, <2>1, <2>2 DEF Discipline!Finish
  <2> QED
    BY <2>3 DEF Discipline!Next
<1> QED
  BY <1>6, <1>7

\* No more than the main thread changes, and no coroutine is active.
LEMMA HostDiscipline ==
    ASSUME IInv, Len(thread_stack) <= 1, thread_stack # <<>>, thread_stack' = thread_stack,
           \A t \in Coroutines : thread'[t] = thread[t]
    PROVE  [Discipline!Next]_(Discipline!vars)
<1>1. Touched(thread, thread')
  BY DEF Touched, Untouched
<1> QED
  BY <1>1, TouchedDiscipline

\* start is a step of CoroutineSpec.
LEMMA StartDiscipline == ASSUME IInv, start PROVE [Discipline!Next]_(Discipline!vars)
<1>1. /\ mode = "Stopped" \/ result = "Err"
      /\ thread_stack' = <<Main>> /\ thread_stack \in Seq(Threads)
      /\ thread \in [Threads -> ThreadState] /\ Main \in Threads /\ Main \notin Coroutines
  BY ThreadsAssumption DEF start, IInv, TypeOK, Threads
<1>2. \A t \in Coroutines : thread'[t] = thread[t]
  BY <1>1 DEF start, Threads
<1>3. CASE thread_stack = <<>>
  <2>1. OnStack = {} /\ OnStack' = {Main}
    BY <1>1, <1>3 DEF OnStack
  <2>2. Parked' = Parked
    BY <1>1, <1>2, <2>1 DEF Parked
  <2>3. Dead' = Dead
    BY <1>1, <1>2, <2>1 DEF Dead
  <2> QED
    BY <1>1, <1>3, <2>2, <2>3 DEF Discipline!Start, Discipline!Next
<1>4. CASE thread_stack # <<>>
  <2>1. PICK n \in Nat \ {0} : n = Len(thread_stack) /\ DOMAIN thread_stack = 1..n
    BY <1>4, Current
  <2>2. n = 1
    <3>1. Len(thread_stack) <= 1 \/ Len(thread_stack) = 1
      BY <1>1 DEF IInv, HostInv
    <3> QED
      BY <2>1, <3>1
  <2>3. thread_stack[1] = Main
    BY <1>4 DEF IInv, StackInv
  <2>4. thread_stack = <<Main>>
    BY <1>1, <2>1, <2>2, <2>3
  <2>5. Len(thread_stack) <= 1
    BY <2>1, <2>2
  <2> QED
    BY <1>1, <1>2, <1>4, <2>4, <2>5, HostDiscipline
<1> QED
  BY <1>3, <1>4

\* A program's instructions create and close coroutines, and move no thread.
LEMMA ProgramDiscipline ==
    ASSUME IInv, Admit = {}, run_thread PROVE [Discipline!Next]_(Discipline!vars)
<1>1. AtLua
  BY DEF run_thread, op_call_lua, op_call_native, op_tailcall_native, op_return,
     schedule_meta_call_lua, schedule_native_meta_call, impl_error
<1>2. /\ thread_stack # <<>> /\ thread \in [Threads -> ThreadState] /\ cur \in Threads
      /\ Others(thread)
  BY <1>1, AtLuaFrame, Current, OthersNow
<1>3. CASE op_call_lua \/ op_return \/ schedule_meta_call_lua \/ impl_error
  <2>1. thread_stack' = thread_stack /\ \A t \in Threads \ {cur} : thread'[t] = thread[t]
    BY <1>2, <1>3 DEF op_call_lua, op_return, schedule_meta_call_lua, impl_error, Step
  <2> QED
    BY <1>2, <2>1, RunningOnly
<1>4. ASSUME NEW o \in invoke_native(thread, cur), UNCHANGED thread_stack,
             \A t \in Threads \ {cur} : thread'[t] = o.th[t]
      PROVE  [Discipline!Next]_(Discipline!vars)
  <2>1. Touched(thread, o.th)
    BY <1>2, NativeTouches
  <2>2. Touched(thread, thread')
    BY <1>2, <1>4, <2>1, TouchedBesides
  <2> QED
    BY <1>2, <1>4, <2>2, TouchedDiscipline
<1>5. \A o \in invoke_native(thread, cur) : o.th \in [Threads -> ThreadState]
  BY <1>2, NativeCalls DEF Called, Others
<1>6. CASE op_call_native
  <2>1. PICK o \in invoke_native(thread, cur) :
         Step(CASE o.act.a = "Return" -> o.th
                [] o.act.a = "Err" -> [o.th EXCEPT ![cur] = Push(@, ErrorFrame)]
                [] OTHER -> [o.th EXCEPT ![cur] = Stash(Owe(@, "call"), o.act, "call")])
    BY <1>6 DEF op_call_native
  <2>2. \A t \in Threads \ {cur} : thread'[t] = o.th[t]
    BY <1>5, <2>1 DEF Step
  <2> QED
    BY <1>4, <2>1, <2>2 DEF Step
<1>7. CASE schedule_native_meta_call
  <2>1. PICK o \in invoke_native(thread, cur) :
         Step(CASE o.act.a = "Return" -> o.th
                [] o.act.a \in {"Err", "Call"} -> [o.th EXCEPT ![cur] = Push(@, ErrorFrame)]
                [] OTHER -> [o.th EXCEPT ![cur] = Stash(Owe(@, "meta"), o.act, "meta")])
    BY <1>7 DEF schedule_native_meta_call
  <2>2. \A t \in Threads \ {cur} : thread'[t] = o.th[t]
    BY <1>5, <2>1 DEF Step
  <2> QED
    BY <1>4, <2>1, <2>2 DEF Step
<1>8. CASE op_tailcall_native
  <2>1. PICK o \in invoke_native(thread, cur) :
         CASE o.act.a = "Return" ->
                Step([o.th EXCEPT ![cur] = frame_return(@)])
           [] o.act.a = "Err" ->
                Step([o.th EXCEPT ![cur] = Push(Pop(@), ErrorFrame)])
           [] OTHER ->
                /\ ~Top(thread[cur]).cont \/ "tailcall_in_metamethod" \in Admit
                /\ o.act = Yield(NoSeq) =>
                      Len(thread[cur].frames) > 1 \/ "yield_without_frame" \in Admit
                /\ Step([o.th EXCEPT ![cur] = Stash(Pop(@), o.act, "call")])
    BY <1>8 DEF op_tailcall_native
  <2>2. \/ Step([o.th EXCEPT ![cur] = frame_return(@)])
        \/ Step([o.th EXCEPT ![cur] = Push(Pop(@), ErrorFrame)])
        \/ Step([o.th EXCEPT ![cur] = Stash(Pop(@), o.act, "call")])
    BY <2>1
  <2>3. UNCHANGED thread_stack /\ \A t \in Threads \ {cur} : thread'[t] = o.th[t]
    BY <1>5, <2>2 DEF Step
  <2> QED
    BY <1>4, <2>3
<1> QED
  BY <1>3, <1>6, <1>7, <1>8 DEF run_thread

\* A call is a step of CoroutineSpec.
LEMMA CallDiscipline ==
    ASSUME IInv, thread_stack # <<>>, Admit = {}, NEW r \in ThreadState, r.made,
           NEW th, th = [thread EXCEPT ![cur] = r], NEW fn, NEW starting,
           NEW th2 \in schedule_call_at(th, cur, fn, starting),
           \A t \in Threads \ {cur} : thread'[t] = th2[t], thread_stack' = thread_stack
    PROVE  [Discipline!Next]_(Discipline!vars)
<1>0. Others(thread)
  BY OthersNow
<1>1. Others(th)
  BY <1>0, OthersSet
<1>2. \A t \in Threads \ {cur} : th[t] = thread[t]
  BY <1>0 DEF Others
<1>3. Touched(th, th2)
  BY <1>1, CallTouches
<1>4. \A t \in Threads \ {cur} : th[t] = thread[t] /\ thread'[t] = th2[t]
  BY <1>2
<1>5. Touched(thread, thread')
  <2>1. \A t \in Coroutines \ OnStack : t \in Threads \ {cur}
    BY Current
  <2> QED
    BY <1>3, <1>4, <2>1 DEF Touched, Untouched, Created, Closed
<1> QED
  BY <1>5, TouchedDiscipline

\* Applying a pending action is a step of CoroutineSpec.
LEMMA PendingDiscipline ==
    ASSUME IInv, Admit = {}, apply_pending_action PROVE [Discipline!Next]_(Discipline!vars)
<1> DEFINE r == thread[cur]
           p == r.pending
           s == PushThen(Stash(r, NoAction, NoSite), p.then, r.site)
           ready == [thread EXCEPT ![cur] = s]
<1>1. /\ thread_stack # <<>> /\ p \in Actions /\ ResumesParked(thread, r, OnStack)
      /\ s \in ThreadState /\ s.made
  BY ReadyThread
<1>2. /\ thread \in [Threads -> ThreadState] /\ cur \in Threads
      /\ p.a \in {"Sequence", "Call", "Yield", "Resume"} /\ p # NoAction
  BY <1>1, Current, ActionKinds
<1>3. ready = [thread EXCEPT ![cur] = PushThen(Stash(@, NoAction, NoSite), p.then, r.site)]
  BY <1>2
<1> HIDE DEF s
<1>4. ready \in [Threads -> ThreadState] /\ \A t \in Threads \ {cur} : ready[t] = thread[t]
  BY <1>1, <1>2
<1>5. CASE p.a = "Sequence"
  <2>1. thread' = ready /\ UNCHANGED thread_stack
    BY <1>3, <1>5 DEF apply_pending_action
  <2> QED
    BY <1>1, <1>4, <2>1, RunningOnly
<1>6. CASE p.a = "Yield"
  <2>1. thread' = [ready EXCEPT ![cur] = Suspend(@, r.site)] /\ UNCHANGED thread_stack
    BY <1>3, <1>6 DEF apply_pending_action
  <2>2. \A t \in Threads \ {cur} : thread'[t] = thread[t]
    BY <1>4, <2>1
  <2> QED
    BY <1>1, <2>1, <2>2, RunningOnly
<1>7. CASE p.a = "Call"
  <2>1. thread' \in schedule_call_at(ready, cur, p.fn, FALSE) /\ UNCHANGED thread_stack
    BY <1>3, <1>7 DEF apply_pending_action
  <2> HIDE DEF p
  <2> QED
    BY <1>1, <2>1, CallDiscipline
<1>8. CASE p.a = "Resume"
  <2>1. schedule_thread_resume(ready, p.co, r.site)
    BY <1>3, <1>8 DEF apply_pending_action
  <2>2. p.co \in Coroutines \ OnStack /\ thread[p.co].made /\ thread[p.co].status = "Suspended"
    BY <1>1, <1>2, <1>8 DEF ResumesParked
  <2> HIDE DEF ready, p
  <2> QED
    BY <1>1, <1>4, <2>1, <2>2, ResumeDiscipline
<1> QED
  BY <1>2, <1>5, <1>6, <1>7, <1>8

\* Applying the answer of a poll is a step of CoroutineSpec.
LEMMA SequenceDiscipline ==
    ASSUME IInv, Admit = {}, pump_sequence PROVE [Discipline!Next]_(Discipline!vars)
<1> DEFINE f == Top(thread[cur])
           g == [f EXCEPT !.err = FALSE]
           p == Pop(thread[cur])
           a == Push(p, g)
           popped == [thread EXCEPT ![cur] = p]
           again == [popped EXCEPT ![cur] = Push(@, g)]
           Calls(th) == \E fn \in Fns : \E th2 \in schedule_call_at(th, cur, fn, FALSE) :
                            thread' = th2 /\ UNCHANGED thread_stack
           Resumes(th) == \E co \in SeqTargets : schedule_thread_resume(th, co, f.site)
<1>1. AtFrame("Sequence")
  BY DEF pump_sequence
<1>2. /\ thread_stack # <<>>
      /\ p \in ThreadState /\ p.made /\ a \in ThreadState /\ a.made
  BY <1>1, AtSequence
<1>3. /\ thread \in [Threads -> ThreadState] /\ cur \in Threads /\ Others(thread)
      /\ Coroutines \subseteq Threads
  BY <1>2, Current, OthersNow
<1>4. popped = [thread EXCEPT ![cur] = Pop(@)] /\ popped[cur] = p
  BY <1>3
<1>5. \/ thread' = again /\ UNCHANGED thread_stack
      \/ Panic
      \/ \E s : thread' = [popped EXCEPT ![cur] = s] /\ UNCHANGED thread_stack
      \/ \E s : thread' = [again EXCEPT ![cur] = s] /\ UNCHANGED thread_stack
      \/ Calls(again) \/ Calls(popped) \/ Resumes(again) \/ Resumes(popped)
  <2> HIDE DEF again
  <2>1. /\ [popped EXCEPT ![cur] = land_call_results(@, f.site)]
             = [popped EXCEPT ![cur] = land_call_results(popped[cur], f.site)]
        /\ [again EXCEPT ![cur] = Suspend(@, f.site)]
             = [again EXCEPT ![cur] = Suspend(again[cur], f.site)]
        /\ [popped EXCEPT ![cur] = Suspend(@, f.site)]
             = [popped EXCEPT ![cur] = Suspend(popped[cur], f.site)]
        /\ [popped EXCEPT ![cur] = Push(@, ErrorFrame)]
             = [popped EXCEPT ![cur] = Push(popped[cur], ErrorFrame)]
    OBVIOUS
  <2> QED
    BY <1>4 DEF pump_sequence, again
<1>6. again = [thread EXCEPT ![cur] = a]
  BY <1>3, <1>4
<1>7. \A co \in SeqTargets : /\ co \in Coroutines \ OnStack
                             /\ thread[co].made /\ thread[co].status = "Suspended"
  <2> SUFFICES ASSUME NEW co \in SeqTargets
               PROVE  /\ co \in Coroutines \ OnStack
                      /\ thread[co].made /\ thread[co].status = "Suspended"
    OBVIOUS
  <2>1. co \in Coroutines /\ thread[co].made /\ Resumable(thread, cur, co)
    BY DEF SeqTargets
  <2> QED
    BY <1>2, <1>3, <2>1, ResumableRests
<1> HIDE DEF again, p, a, f
<1>8. /\ again \in [Threads -> ThreadState] /\ popped \in [Threads -> ThreadState]
      /\ \A t \in Threads \ {cur} : again[t] = thread[t] /\ popped[t] = thread[t]
      /\ \A s : \A t \in Threads \ {cur} :
            /\ [popped EXCEPT ![cur] = s][t] = thread[t]
            /\ [again EXCEPT ![cur] = s][t] = thread[t]
  BY <1>2, <1>3, <1>6
<1> HIDE DEF popped
<1>9. CASE \/ thread' = again /\ UNCHANGED thread_stack
           \/ Panic
           \/ \E s : thread' = [popped EXCEPT ![cur] = s] /\ UNCHANGED thread_stack
           \/ \E s : thread' = [again EXCEPT ![cur] = s] /\ UNCHANGED thread_stack
  <2>1. thread_stack' = thread_stack /\ \A t \in Threads \ {cur} : thread'[t] = thread[t]
    BY <1>8, <1>9 DEF Panic
  <2> QED
    BY <1>2, <2>1, RunningOnly
<1>10. ASSUME NEW r \in {a, p}, NEW th, th = [thread EXCEPT ![cur] = r], Calls(th)
       PROVE  [Discipline!Next]_(Discipline!vars)
  <2>0. PICK fn \in Fns : \E th2 \in schedule_call_at(th, cur, fn, FALSE) :
           thread' = th2 /\ UNCHANGED thread_stack
    BY <1>10
  <2>1. PICK th2 \in schedule_call_at(th, cur, fn, FALSE) :
           thread' = th2 /\ UNCHANGED thread_stack
    BY <2>0
  <2>2. r \in ThreadState /\ r.made
    BY <1>2
  <2> QED
    BY <1>2, <1>10, <2>1, <2>2, CallDiscipline
<1>11. CASE Calls(again)
  BY <1>6, <1>10, <1>11
<1>12. CASE Calls(popped)
  BY <1>10, <1>12 DEF popped
<1> HIDE DEF Calls
<1>13. CASE Resumes(again)
  <2>1. PICK co \in SeqTargets : schedule_thread_resume(again, co, f.site)
    BY <1>13
  <2> QED
    BY <1>2, <1>7, <1>8, <2>1, ResumeDiscipline
<1>14. CASE Resumes(popped)
  <2>1. PICK co \in SeqTargets : schedule_thread_resume(popped, co, f.site)
    BY <1>14
  <2> QED
    BY <1>2, <1>7, <1>8, <2>1, ResumeDiscipline
<1> QED
  BY <1>5, <1>9, <1>11, <1>12, <1>13, <1>14

\* An iteration of the loop is a step of CoroutineSpec.
LEMMA IterateDiscipline ==
    ASSUME IInv, Admit = {}, iterate PROVE [Discipline!Next]_(Discipline!vars)
<1>1. Running /\ thread_stack # <<>>
  BY Driven DEF iterate, propagate_inner_to_resumer, StepEnds, StepYielded, apply_pending_action,
     PumpStart, pump_sequence, PumpError, AtFrame, Pumping
<1>2. /\ thread \in [Threads -> ThreadState] /\ cur \in Threads /\ thread[cur] \in ThreadState
      /\ thread[cur].made
  BY <1>1, Current
<1>3. CASE UNCHANGED <<thread, thread_stack>>
  BY <1>1, <1>3, RunningOnly
<1>4. CASE StepEnds \/ StepYielded
  BY <1>3, <1>4 DEF StepEnds, StepYielded
<1>5. CASE propagate_inner_to_resumer
  <2> DEFINE q == Last(Front(thread_stack))
  <2>1. Len(thread_stack) > 1
    BY <1>5 DEF propagate_inner_to_resumer
  <2>2. q \in Threads /\ q # cur
    BY <1>1, <2>1, Resumer
  <2>3. CASE Panic
    BY <1>3, <2>3 DEF Panic
  <2>4. CASE /\ thread_stack' = Front(thread_stack)
             /\ thread' = [thread EXCEPT ![q] = PropagateTo(thread[q], Top(thread[q]).site)]
    <3>1. \A t \in Threads \ {q} : thread'[t] = thread[t]
      BY <1>2, <2>2, <2>4
    <3>2. thread'[cur].made
      BY <1>2, <2>2, <3>1
    <3> HIDE DEF q
    <3> QED
      BY <1>1, <2>1, <2>4, <3>1, <3>2, PopDiscipline DEF q
  <2> QED
    BY <1>5, <2>3, <2>4 DEF propagate_inner_to_resumer
<1>6. CASE PumpStart
  <2> DEFINE p == Pop(thread[cur])
             th == [thread EXCEPT ![cur] = p]
             fn == Top(thread[cur]).fn
  <2>1. p \in ThreadState /\ p.made
    BY <1>6, AtStart
  <2>2. th = [thread EXCEPT ![cur] = Pop(@)]
    BY <1>2
  <2>3. PICK th2 \in schedule_call_at(th, cur, fn, TRUE) :
            \E st : thread' = [th2 EXCEPT ![cur].status = st] /\ UNCHANGED thread_stack
    BY <1>6, <2>2 DEF PumpStart
  <2>4. Others(thread) /\ Others(th)
    BY <1>1, <2>1, OthersNow, OthersSet
  <2>5. th2 \in [Threads -> ThreadState]
    <3>1. /\ fn \in Fns /\ th[cur] = p /\ Structured(p.frames) /\ p.frames = <<>>
          /\ Unstashed(p) /\ TopTakes(p, "call")
      BY <1>2, <1>6, AtStart
    <3> HIDE DEF th, p, fn
    <3>2. Others(th2)
      BY <1>1, <2>3, <2>4, <3>1, Scheduling, Zenon DEF Scheduled
    <3> QED
      BY <3>2 DEF Others
  <2>6. \A t \in Threads \ {cur} : thread'[t] = th2[t]
    BY <2>3, <2>5
  <2> HIDE DEF fn, p
  <2> QED
    BY <1>1, <2>1, <2>3, <2>6, CallDiscipline
<1>7. CASE PumpError
  <2>1. unwind_error
    BY <1>7, AtError
  <2>2. \/ Panic
        \/ /\ UNCHANGED thread_stack
           /\ \E fs : thread' = [thread EXCEPT ![cur].frames = fs]
        \/ Len(thread_stack) > 1 /\ ErrorToResumer
    BY <2>1 DEF unwind_error, ErrorToHost
  <2>3. CASE Panic
    BY <1>3, <2>3 DEF Panic
  <2>4. CASE UNCHANGED thread_stack /\ \E fs : thread' = [thread EXCEPT ![cur].frames = fs]
    <3>1. \A t \in Threads \ {cur} : thread'[t] = thread[t]
      BY <1>2, <2>4
    <3> QED
      BY <1>1, <2>4, <3>1, RunningOnly
  <2>5. CASE Len(thread_stack) > 1 /\ ErrorToResumer
    <3> DEFINE q == Last(Front(thread_stack))
               s == [Push(Pop(thread[q]), ErrorFrame) EXCEPT !.status = "Normal"]
    <3>1. q \in Threads /\ q # cur
      BY <1>1, <2>5, Resumer
    <3>2. \/ Panic
          \/ /\ thread_stack' = Front(thread_stack)
             /\ thread' = [thread EXCEPT ![cur].frames = <<>>, ![q] = s]
      BY <2>5 DEF ErrorToResumer
    <3>3. CASE /\ thread_stack' = Front(thread_stack)
               /\ thread' = [thread EXCEPT ![cur].frames = <<>>, ![q] = s]
      <4>1. /\ \A t \in Threads \ {cur, q} : thread'[t] = thread[t]
            /\ thread'[cur] = [thread[cur] EXCEPT !.frames = <<>>]
        BY <1>2, <3>1, <3>3
      <4>2. thread'[cur].made
        BY <1>2, <4>1 DEF ThreadState
      <4> HIDE DEF q
      <4> QED
        BY <1>1, <2>5, <3>3, <4>1, <4>2, PopDiscipline DEF q
    <3> QED
      BY <2>3, <3>2, <3>3
  <2> QED
    BY <2>2, <2>3, <2>4, <2>5
<1> QED
  BY <1>4, <1>5, <1>6, <1>7, PendingDiscipline, SequenceDiscipline DEF iterate

\* The coroutine library, the instructions and the driver create, resume,
\* suspend, finish and close coroutines only as CoroutineSpec allows.
LEMMA EveryStepDisciplined ==
    ASSUME IInv, Admit = {}, [Next]_vars PROVE [Discipline!Next]_(Discipline!vars)
<1>1. CASE UNCHANGED <<thread, thread_stack>>
  <2>1. OnStack' = OnStack
    BY <1>1 DEF OnStack
  <2>2. Parked' = Parked /\ Dead' = Dead
    BY <1>1, <2>1 DEF Parked, Dead
  <2> QED
    BY <1>1, <2>2 DEF Discipline!vars
<1>2. CASE resume
  <2>1. mode = "Yielded" /\ Len(thread_stack) <= 1 /\ thread_stack # <<>>
    BY <1>2 DEF resume, IInv, HostInv
  <2>2. CASE Panic
    BY <1>1, <2>2 DEF Panic
  <2>3. CASE thread' = [thread EXCEPT ![cur] = LandResumeArgs(@)] /\ UNCHANGED thread_stack
    <3>1. \A t \in Threads \ {cur} : thread'[t] = thread[t]
      BY <2>1, <2>3, Current
    <3> QED
      BY <2>1, <2>3, <3>1, RunningOnly
  <2> QED
    BY <1>2, <2>2, <2>3 DEF resume
<1>3. CASE take_result
  <2>1. mode = "Result" /\ Len(thread_stack) <= 1 /\ thread_stack # <<>>
    BY <1>3 DEF take_result, IInv, HostInv
  <2>2. \A t \in Coroutines : thread'[t] = thread[t]
    BY <1>3, <2>1, Current, ThreadsAssumption DEF take_result
  <2>3. thread_stack' = thread_stack
    BY <1>3 DEF take_result
  <2> QED
    BY <2>1, <2>2, <2>3, HostDiscipline
<1>4. CASE step
  BY <1>1, <1>4 DEF step
<1>5. CASE UNCHANGED vars
  BY <1>1, <1>5 DEF vars
<1> QED
  BY <1>2, <1>3, <1>4, <1>5, StartDiscipline, IterateDiscipline, ProgramDiscipline DEF Next

\* Resume, yield, return, failure and close move threads exactly as the
\* coroutines of CoroutineSpec move, whatever the frames, stashed actions and
\* landings of the driver (executor.rs, coroutine.rs) go through to do it.
THEOREM ThreadsFollowDiscipline == ASSUME Admit = {} PROVE Spec => CoroutineDiscipline
<1>1. Init => Discipline!Init
  <2> SUFFICES ASSUME Init PROVE Discipline!Init
    OBVIOUS
  <2>1. thread_stack = <<>> /\ OnStack = {}
    BY DEF Init, OnStack
  <2>2. \A t \in Coroutines : ~thread[t].made
    BY ThreadsAssumption DEF Init, Threads
  <2>3. Parked = {} /\ Dead = {}
    BY <2>2 DEF Parked, Dead
  <2> QED
    BY <2>1, <2>3 DEF Discipline!Init
<1>2. IInv /\ [Next]_vars => [Discipline!Next]_(Discipline!vars)
  BY EveryStepDisciplined
<1>3. Spec => []IInv
  BY ExecutorInvariance
<1> QED
  BY <1>1, <1>2, <1>3, PTL DEF Spec, CoroutineDiscipline, Discipline!Spec
=============================================================================

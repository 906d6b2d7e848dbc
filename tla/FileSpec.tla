------------------------------ MODULE FileSpec ------------------------------
(***************************************************************************)
(* What a Lua program may expect of file handles: a handle is a file and   *)
(* one position in it, moved by reads, writes and seeks.                   *)
(*                                                                         *)
(* As in C, a program that switches between reading and writing seeks in   *)
(* between.  A handle that has read may be ahead of its position: then it  *)
(* is open where its next write lands, and a write to its file by anyone   *)
(* may leave it torn, with nothing promised until it seeks.                *)
(***************************************************************************)
EXTENDS Numerals

CONSTANTS Handles, Slack

Missing == <<"missing">>
Zero == "zero"
Nil == <<"nil">>
Shut == [st |-> "shut"]

VARIABLES
    disk,   \* the bytes of every file, or Missing
    fh,     \* handles: Shut, or an open file
    ret     \* the last call and what it returned

vars == <<disk, fh, ret>>

IsOpen(h) == fh[h] # Shut
Bytes(h) == disk[fh[h].file]
Rest(h) == SubSeq(Bytes(h), fh[h].at + 1, Len(Bytes(h)))

\* v is what format fmt, one of <<"l">>, <<"L">>, <<"a">>, <<"n">> and
\* <<"bytes", n>>, makes of the first m bytes of `rest`.
IsRecord(fmt, rest, m, v) ==
    CASE fmt[1] = "a" -> v = rest /\ m = Len(rest)
      [] fmt[1] = "n" ->
           LET b == Blanks(rest)
               tok == LongestPrefix(SubSeq(rest, b + 1, Len(rest)))
           IN  m = b + Len(tok) /\ v = IF IsNumeral(tok) THEN tok ELSE Nil
      [] fmt[1] \in {"l", "L", "bytes"} /\ rest = <<>> -> v = Nil /\ m = 0
      [] fmt[1] = "bytes" /\ rest # <<>> ->
           m = Min({fmt[2], Len(rest)}) /\ v = SubSeq(rest, 1, m)
      [] fmt[1] \in {"l", "L"} /\ rest # <<>> ->
           LET line == SubSeq(rest, 1, m)
               ends == m > 0 /\ line[m] = NL
           IN  /\ \A i \in 1..(m - 1) : line[i] # NL
               /\ ends \/ (m = Len(rest) /\ m > 0)
               /\ v = IF fmt[1] = "l" /\ ends THEN Front(line) ELSE line

\* vals are the records that fmts read from m bytes, one after the other, up
\* to the first Nil.
AreRecords(fmts, rest, m, vals) ==
    LET n == Len(vals)
    IN  /\ n <= Len(fmts) /\ \A i \in 1..(n - 1) : vals[i] # Nil
        /\ n < Len(fmts) => n > 0 /\ vals[n] = Nil
        /\ \E ends \in [0..n -> 0..m] :
             /\ ends[0] = 0 /\ ends[n] = m
             /\ \A i \in 1..n :
                  /\ ends[i - 1] <= ends[i]
                  /\ IsRecord(fmts[i], SubSeq(rest, ends[i - 1] + 1, Len(rest)), ends[i] - ends[i - 1], vals[i])

\* The bytes after data is written at offset o; a gap is filled with zeros.
Overwrite(bytes, o, data) ==
    IF data = <<>> THEN bytes
    ELSE [i \in 1..Max({Len(bytes), o + Len(data)}) |->
            IF i \in (o + 1)..(o + Len(data)) THEN data[i - o]
            ELSE IF i <= Len(bytes) THEN bytes[i] ELSE Zero]

\* What a change of file f does to a handle that looks at it.
Seen(g, f) == IF IsOpen(g) /\ fh[g].file = f /\ fh[g].ahead
              THEN {[fh[g] EXCEPT !.torn = t] : t \in BOOLEAN} ELSE {fh[g]}

\* The handle h stays open, on its file and with its mode.
Keeps(h) == /\ IsOpen(h) /\ fh'[h] # Shut
            /\ fh'[h] = [fh[h] EXCEPT !.at = fh'[h].at, !.ahead = fh'[h].ahead, !.torn = fh'[h].torn]
Others(h) == \A g \in Handles \ {h} : fh'[g] = fh[g]
-----------------------------------------------------------------------------
Init == fh = [h \in Handles |-> Shut]

\* r wants the file, w empties it, a makes it; all start at its beginning.
Open(h, f, mode) ==
    /\ ~IsOpen(h)
    /\ mode.base = "r" => disk[f] # Missing
    /\ disk' = IF mode.base = "w" \/ disk[f] = Missing THEN [disk EXCEPT ![f] = <<>>] ELSE disk
    /\ fh'[h] = [file |-> f, at |-> 0, ahead |-> FALSE, torn |-> FALSE, st |-> "open",
                append |-> mode.base = "a",
                readable |-> mode.base = "r" \/ mode.plus,
                writable |-> mode.base # "r" \/ mode.plus]
    /\ \A g \in Handles \ {h} : fh'[g] \in Seen(g, f)

\* The values are those at the position, which moves past what was read.
Read(h, fmts, vals) ==
    /\ IsOpen(h) /\ fh[h].readable /\ ~fh[h].torn
    /\ Keeps(h) /\ Others(h) /\ ~fh'[h].torn
    /\ AreRecords(fmts, Rest(h), fh'[h].at - fh[h].at, vals)
    /\ UNCHANGED disk

\* An error of the OS may lose what was read before it.  Nothing is promised
\* to a torn handle.
ReadBadly(h) ==
    /\ Keeps(h) /\ Others(h) /\ UNCHANGED disk
    /\ fh[h].torn \/ (~fh'[h].torn /\ fh'[h].at \in fh[h].at..(fh[h].at + Len(Rest(h))))

\* A write that fails reports how many bytes are in the file.
Write(h, data, n) ==
    /\ Keeps(h) /\ fh[h].writable /\ n <= Len(data)
    /\ \E o \in IF fh[h].append THEN {Len(Bytes(h))}
                ELSE IF fh[h].ahead THEN 0..(Len(Bytes(h)) + Slack)
                ELSE {fh[h].at} :
         /\ disk' = [disk EXCEPT ![fh[h].file] = Overwrite(@, o, SubSeq(data, 1, n))]
         /\ ~fh[h].ahead => fh'[h] = [fh[h] EXCEPT !.at = IF n = 0 THEN @ ELSE o + n]
    /\ \A g \in Handles \ {h} : fh'[g] \in Seen(g, fh[h].file)

\* A seek mends the handle.
Seek(h, whence, offset, to) ==
    LET base == CASE whence = "set" -> 0 [] whence = "cur" -> fh[h].at [] whence = "end" -> Len(Bytes(h))
    IN  /\ Keeps(h) /\ Others(h) /\ UNCHANGED disk
        /\ fh'[h].at = to /\ ~fh'[h].ahead /\ ~fh'[h].torn
        /\ to = base + offset \/ (fh[h].torn /\ whence = "cur")

Close(h) == IsOpen(h) /\ fh' = [fh EXCEPT ![h] = Shut] /\ UNCHANGED disk

Call(r) ==
    CASE r.op = "open"   -> Open(r.h, r.file, r.mode)
      [] r.op = "read"   -> Read(r.h, r.fmts, r.vals) \/ (fh[r.h].torn /\ ReadBadly(r.h))
      [] r.op = "end"    -> /\ Close(r.h)
                            /\ fh[r.h].torn \/ \E m \in 0..Len(Rest(r.h)) : AreRecords(r.fmts, Rest(r.h), m, <<Nil>>)
      [] r.op = "fault"  -> ReadBadly(r.h) \/ Close(r.h)
      [] r.op = "write"  -> Write(r.h, r.data, r.n)
      [] r.op = "seek"   -> Seek(r.h, r.whence, r.offset, r.to)
      [] r.op = "close"  -> Close(r.h)
      [] r.op = "none"   -> UNCHANGED <<disk, fh>>

Next == Call(ret')

Spec == Init /\ [][Next]_vars
=============================================================================

----------------------------- MODULE IoLibrary ------------------------------
(***************************************************************************)
(* The io library (builtin/io.rs): file handles over a BufReader<File>.    *)
(*                                                                         *)
(* Reads go through the BufReader, which reads ahead; writes go to the     *)
(* file below it (`br.get_mut()`), at the position of the file and not of  *)
(* the reader.  A call never suspends, so each is one step, but handles    *)
(* share files, default streams share handles with the program, and any    *)
(* read or write of the OS may stop short or fail.                         *)
(*                                                                         *)
(* Left out: the bytes of the standard streams, tmpfile (an update-mode    *)
(* open of a name nobody has), messages and error numbers, and arguments   *)
(* of the wrong type, which raise before anything happens.                 *)
(***************************************************************************)
EXTENDS Numerals

CONSTANTS
    Files,       \* file names
    Handles,     \* handles the program may hold at a time
    Modes,       \* modes it opens files with
    Data,        \* byte strings it writes
    Formats,     \* format lists it reads with
    Seeks,       \* the whence and offset it seeks with
    LineFormats, \* format lists its loops read with
    Contents,    \* what a file may hold at first
    NumeralBytes, NumeralLen,   \* the numerals looked at
    MaxLen,      \* bound: longest file
    MaxShared,   \* bound: default streams and iterators in use at a time
    Capacity     \* bound: bytes a BufReader reads ahead

ASSUME ModesAssumption == Modes \subseteq [base : {"r", "w", "a"}, plus : BOOLEAN]
ASSUME BoundsAssumption == MaxLen \in Nat /\ Capacity \in Nat \ {0}

Missing == <<"missing">>
Zero == "zero"
Nil == <<"nil">>

\* Missing and Nil are no bytes of a file.
Byte == {Zero} \cup (STRING \ {"missing", "nil"})
ASSUME BytesAssumption == Data \subseteq Seq(Byte) /\ Contents \subseteq Seq(Byte) \cup {Missing}

\* A read or a loop without formats has the format "l".
Format == {<<"l">>, <<"L">>, <<"a">>, <<"n">>} \cup {"bytes"} \X Nat
ASSUME FormatsAssumption == Formats \cup LineFormats \subseteq Seq(Format) \ {<<>>}
ASSUME SeeksAssumption == Seeks \subseteq {"set", "cur", "end"} \X Int

VARIABLES
    disk,     \* the bytes of every file, or Missing
    hnd,      \* the FileState of every handle
    input,    \* io-state: the default input
    output,   \* io-state: the default output
    iter,     \* the iterator of io.lines or file:lines the program holds
    ret       \* the last call and what it returned

vars == <<disk, hnd, input, output, iter, ret>>

\* Handles that do not exist, and FileState.
NoHandle == [st |-> "none"]
Closed == [st |-> "closed"]
NoIter == [h |-> "none"]

\* The uses of handles by the library itself.
Shared == (IF input = "stdin" THEN 0 ELSE 1) + (IF output = "stdout" THEN 0 ELSE 1)
          + (IF iter = NoIter THEN 0 ELSE 1)

IsOpen(h) == h \in Handles /\ hnd[h].st = "open"
-----------------------------------------------------------------------------
(* Reading from a BufReader: r is its file's position and its buffer.      *)

\* All that the reader can still give, d being the bytes of the file.
Avail(d, r) == r.buf \o SubSeq(d, r.pos + 1, Len(d))

\* How many bytes read_until takes from `all`.
LineLen(all) == LET ends == {i \in DOMAIN all : all[i] = NL}
                IN  IF ends = {} THEN Len(all) ELSE Min(ends)

\* The state of the scanner of read_number.
Scan0 == [tok |-> <<>>, hex |-> FALSE, dot |-> FALSE, exp |-> FALSE, digits |-> 0, on |-> TRUE]

IsDigit(s, b) == b \in (IF s.hex /\ ~s.exp THEN HexDigits ELSE DecDigits)

exp_mark(s) == IF s.hex THEN "p" ELSE "e"

\* mutant: a mantissa may have two points
AcceptsDots(s, b) ==
    CASE b \in Signs -> s.tok = <<>> \/ Last(s.tok) = exp_mark(s)
      [] b = "." -> ~s.exp
      [] b = "x" /\ ~s.hex -> s.tok \in {<<"0">>, <<"-", "0">>, <<"+", "0">>}
      [] OTHER -> IsDigit(s, b) \/ (b = exp_mark(s) /\ ~s.exp /\ s.digits > 0)

Accepts(s, b) ==
    CASE b \in Signs -> s.tok = <<>> \/ Last(s.tok) = exp_mark(s)
      [] b = "." -> ~s.dot /\ ~s.exp
      [] b = "x" /\ ~s.hex -> s.tok \in {<<"0">>, <<"-", "0">>, <<"+", "0">>}
      [] OTHER -> IsDigit(s, b) \/ (b = exp_mark(s) /\ ~s.exp /\ s.digits > 0)

\* The scanner stops for good at the first byte it does not accept.
ScanByte(s, b) ==
    IF ~s.on \/ ~Accepts(s, b) THEN [s EXCEPT !.on = FALSE]
    ELSE [s EXCEPT !.tok = Append(@, b),
                   !.hex = @ \/ b = "x",
                   !.dot = @ \/ b = ".",
                   !.exp = @ \/ b = exp_mark(s),
                   !.digits = IF b = "x" THEN 0 ELSE IF IsDigit(s, b) THEN @ + 1 ELSE @]

skip_blanks(all) == LET other == {i \in DOMAIN all : all[i] \notin Whitespace}
                    IN  IF other = {} THEN Len(all) ELSE Min(other) - 1

scan_number(s) ==
    LET scan[n \in 0..Len(s)] == IF n = 0 THEN Scan0 ELSE ScanByte(scan[n - 1], s[n])
    IN  scan[Len(s)].tok

\* Whether str_to_number makes a number of a token of the scanner.  A token
\* with 0x and a point or p goes to parse_hex_float, which takes a missing
\* integer part, and a missing fraction, for zero.
str_to_number(tok) ==
    LET body == IF tok # <<>> /\ tok[1] \in Signs THEN Tail(tok) ELSE tok
        hex  == Len(body) > 1 /\ body[2] = "x"
    IN  /\ body # <<>>
        /\ Last(body) \notin {"x", "p"} \cup Signs
        /\ hex \/ (Last(body) # "e" /\ Range(body) \cap DecDigits # {})

\* The value format fmt makes of what the reader can give, and the bytes it
\* consumes for it.
Take(all, fmt) ==
    CASE fmt[1] \in {"l", "L"} ->
           LET n == LineLen(all)
               line == SubSeq(all, 1, n)
           IN  [used |-> n,
                one |-> IF n = 0 THEN Nil
                        ELSE IF fmt[1] = "l" /\ Last(line) = NL THEN Front(line) ELSE line]
      [] fmt[1] = "a" -> [used |-> Len(all), one |-> all]
      [] fmt[1] = "bytes" ->
           [used |-> Min({fmt[2], Len(all)}),
            one |-> IF all = <<>> THEN Nil ELSE SubSeq(all, 1, Min({fmt[2], Len(all)}))]
      [] fmt[1] = "n" ->
           LET b == skip_blanks(all)
               tok == scan_number(SubSeq(all, b + 1, Len(all)))
           IN  [used |-> b + Len(tok), one |-> IF str_to_number(tok) THEN tok ELSE Nil]

\* Whether the reader must read from the file to serve fmt.
Refills(buf, fmt) ==
    CASE fmt[1] \in {"l", "L"} -> NL \notin Range(buf)
      [] fmt[1] = "a" -> TRUE
      [] fmt[1] = "bytes" -> buf = <<>> \/ fmt[2] > Len(buf)
      [] fmt[1] = "n" -> Take(buf, fmt).used = Len(buf)

\* The outcomes of one format.  A refill leaves the buffer as far ahead as
\* the OS gave bytes, and ahead at all if the byte after was looked at.  When
\* it fails, what was consumed for this format is gone.
read_one(d, r, fmt) ==
    LET all == Avail(d, r)
        t == Take(all, fmt)
        over == t.used - Len(r.buf)
        looks == fmt[1] = "n" \/ fmt = <<"bytes", 0>>
        left == Min({Capacity, Len(all) - t.used})
    IN  IF ~Refills(r.buf, fmt)
        THEN {[r |-> [r EXCEPT !.buf = SubSeq(@, t.used + 1, Len(@))], one |-> t.one, io |-> "ok"]}
        ELSE {[r |-> [pos |-> r.pos + over + k, buf |-> SubSeq(all, t.used + 1, t.used + k)],
               one |-> t.one, io |-> "ok"] : k \in (IF looks THEN Min({1, left}) ELSE 0)..left}
             \cup {[r |-> [pos |-> r.pos + k, buf |-> <<>>], one |-> Nil, io |-> "error"] : k \in 0..over}

\* A format that finds nothing, or fails, is the last.
read_formats(d, r, fmts) ==
    LET Step(o, fmt) ==
          IF o.io = "error" \/ Nil \in Range(o.vals) THEN {o}
          ELSE {[r |-> x.r, vals |-> Append(o.vals, x.one), io |-> x.io] : x \in read_one(d, o.r, fmt)}
        outs[n \in 0..Len(fmts)] ==
          IF n = 0 THEN {[r |-> r, vals |-> <<>>, io |-> "ok"]}
          ELSE UNION {Step(o, fmts[n]) : o \in outs[n - 1]}
    IN  outs[Len(fmts)]

\* do_read of an open handle.  It answers an error with a single nil, like
\* the end of the file, and so it does when the handle is not readable.
do_read(h, fmts) ==
    LET r == [pos |-> hnd[h].pos, buf |-> hnd[h].buf]
    IN  IF ~hnd[h].readable THEN {[r |-> r, vals |-> <<Nil>>, io |-> "unreadable"]}
        ELSE {[o EXCEPT !.vals = IF o.io = "error" THEN <<Nil>> ELSE @] :
                 o \in read_formats(disk[hnd[h].file], r, fmts)}
-----------------------------------------------------------------------------
(* Writing, below the BufReader                                            *)

\* What count_write may return: each write of the OS takes some of the rest,
\* takes nothing, or fails, and an interrupted one is tried again, so that any
\* number of bytes may be written when it stops.
count_write(data) == {[io |-> IF n = Len(data) THEN "ok" ELSE "error", n |-> n] : n \in 0..Len(data)}

\* The bytes of a file after data is written at offset o.
put(bytes, o, data) ==
    IF data = <<>> THEN bytes
    ELSE [i \in 1..Max({Len(bytes), o + Len(data)}) |->
            IF i \in (o + 1)..(o + Len(data)) THEN data[i - o]
            ELSE IF i <= Len(bytes) THEN bytes[i] ELSE Zero]
-----------------------------------------------------------------------------
(* Opening and closing                                                     *)

open_file(h, f, mode) ==
    /\ hnd[h] = NoHandle
    /\ mode.base = "r" => disk[f] # Missing
    /\ disk' = [disk EXCEPT ![f] = IF mode.base = "w" \/ @ = Missing THEN <<>> ELSE @]
    /\ hnd' = [hnd EXCEPT ![h] =
                 [st |-> "open", file |-> f, pos |-> 0, buf |-> <<>>, append |-> mode.base = "a",
                  readable |-> mode.base = "r" \/ mode.plus,
                  writable |-> mode.base # "r" \/ mode.plus]]
    /\ ret' = [op |-> "open", h |-> h, file |-> f, mode |-> mode]

\* io.open.  A file that cannot be opened is reported or raised, and nothing
\* changes, here and below.
lua_open == \E h \in Handles, f \in Files, mode \in Modes :
    open_file(h, f, mode) /\ UNCHANGED <<input, output, iter>>

\* io.input and io.output with a name, or with a handle, closed ones too.
lua_input == \E h \in Handles :
    /\ \/ \E f \in Files : open_file(h, f, [base |-> "r", plus |-> FALSE])
       \/ hnd[h] # NoHandle /\ ret' = [op |-> "none"] /\ UNCHANGED <<disk, hnd>>
    /\ input' = h /\ UNCHANGED <<output, iter>> /\ Shared' <= MaxShared

lua_output == \E h \in Handles :
    /\ \/ \E f \in Files : open_file(h, f, [base |-> "w", plus |-> FALSE])
       \/ hnd[h] # NoHandle /\ ret' = [op |-> "none"] /\ UNCHANGED <<disk, hnd>>
    /\ output' = h /\ UNCHANGED <<input, iter>> /\ Shared' <= MaxShared

\* Close of an open file.  Standard streams are refused, and a closed handle
\* raises: nothing changes.
close_handle(h) ==
    /\ IsOpen(h)
    /\ hnd' = [hnd EXCEPT ![h] = Closed] /\ ret' = [op |-> "close", h |-> h]
    /\ UNCHANGED <<disk, input, output, iter>>

lua_file_close == \E h \in Handles : close_handle(h)
lua_close == close_handle(output)

\* The program forgets a handle and the collector drops it, unless the
\* io-state table or an iterator holds it.
collect == \E h \in Handles :
    /\ hnd[h] # NoHandle /\ h \notin {input, output, iter.h}
    /\ hnd' = [hnd EXCEPT ![h] = NoHandle]
    /\ ret' = IF IsOpen(h) THEN [op |-> "close", h |-> h] ELSE [op |-> "none"]
    /\ UNCHANGED <<disk, input, output, iter>>
-----------------------------------------------------------------------------
(* Reads, writes and seeks                                                 *)

Reader(h, r) == [hnd EXCEPT ![h].pos = r.pos, ![h].buf = r.buf]

Answer(h, fmts, o) ==
    IF o.io = "ok" THEN [op |-> "read", h |-> h, fmts |-> fmts, vals |-> o.vals]
    ELSE [op |-> "fault", h |-> h, vals |-> o.vals]

Reads(h) ==
    /\ IsOpen(h)
    /\ \E fmts \in Formats : \E o \in do_read(h, fmts) :
         hnd' = Reader(h, o.r) /\ ret' = Answer(h, fmts, o)
    /\ UNCHANGED <<disk, input, output, iter>>

lua_file_read == \E h \in Handles : Reads(h)
lua_read == Reads(input)

\* write_bytes of a writable handle; one that is not fails before it writes.
Writes(h) ==
    /\ IsOpen(h) /\ hnd[h].writable
    /\ \E data \in Data : \E w \in count_write(data) :
         LET f == hnd[h].file
             o == IF hnd[h].append THEN Len(disk[f]) ELSE hnd[h].pos
         IN  /\ o + Len(data) <= MaxLen
             /\ disk' = [disk EXCEPT ![f] = put(@, o, SubSeq(data, 1, w.n))]
             /\ hnd' = [hnd EXCEPT ![h].pos = IF w.n = 0 THEN @ ELSE o + w.n]
             /\ ret' = [op |-> "write", h |-> h, data |-> data, n |-> w.n]
    /\ UNCHANGED <<input, output, iter>>

lua_file_write == \E h \in Handles : Writes(h)
lua_write == Writes(output)

\* mutant: a seek is relative to the file's position
seek_target_raw(h, s) ==
    s[2] + CASE s[1] = "set" -> 0
             [] s[1] = "cur" -> hnd[h].pos
             [] s[1] = "end" -> Len(disk[hnd[h].file])

\* BufReader::seek: the position a seek is relative to is the reader's.
seek_target(h, s) ==
    s[2] + CASE s[1] = "set" -> 0
             [] s[1] = "cur" -> hnd[h].pos - Len(hnd[h].buf)
             [] s[1] = "end" -> Len(disk[hnd[h].file])

\* One that succeeds drops the buffer.
lua_file_seek == \E h \in Handles, s \in Seeks :
    /\ IsOpen(h)
    /\ LET to == seek_target(h, s)
       IN  IF to < 0 THEN UNCHANGED hnd /\ ret' = [op |-> "none"]
           ELSE /\ to <= MaxLen
                /\ hnd' = [hnd EXCEPT ![h].pos = to, ![h].buf = <<>>]
                /\ ret' = [op |-> "seek", h |-> h, whence |-> s[1], offset |-> s[2], to |-> to]
    /\ UNCHANGED <<disk, input, output, iter>>
-----------------------------------------------------------------------------
(* lines                                                                   *)

Iter(h, eof, fmts) == [h |-> h, close_eof |-> eof, fmts |-> fmts]

\* io.lines(name), and io.lines() over the default input.
lua_lines == \E fmts \in LineFormats :
    /\ iter = NoIter
    /\ \/ \E h \in Handles, f \in Files :
            open_file(h, f, [base |-> "r", plus |-> FALSE]) /\ iter' = Iter(h, TRUE, fmts)
       \/ iter' = Iter(input, FALSE, fmts) /\ ret' = [op |-> "none"] /\ UNCHANGED <<disk, hnd>>
    /\ UNCHANGED <<input, output>> /\ Shared' <= MaxShared

lua_file_lines == \E h \in Handles, fmts \in LineFormats :
    /\ iter = NoIter /\ hnd[h] # NoHandle
    /\ iter' = Iter(h, FALSE, fmts) /\ ret' = [op |-> "none"]
    /\ UNCHANGED <<disk, hnd, input, output>> /\ Shared' <= MaxShared

\* One round.  A first value that is nil is the end of the loop, and closes
\* the file of io.lines(name).
lines_iter ==
    /\ iter # NoIter /\ IsOpen(iter.h)
    /\ \E o \in do_read(iter.h, iter.fmts) :
         IF o.vals[1] = Nil /\ iter.close_eof
         THEN /\ hnd' = [hnd EXCEPT ![iter.h] = Closed]
              /\ ret' = [Answer(iter.h, iter.fmts, o) EXCEPT !.op = IF @ = "read" THEN "end" ELSE @]
         ELSE hnd' = Reader(iter.h, o.r) /\ ret' = Answer(iter.h, iter.fmts, o)
    /\ iter' = IF ret'.vals[1] = Nil THEN NoIter ELSE iter
    /\ UNCHANGED <<disk, input, output>>

\* The loop is left by break, or raises: the iterator is gone.
leave_loop ==
    /\ iter # NoIter
    /\ iter' = NoIter /\ ret' = [op |-> "none"]
    /\ UNCHANGED <<disk, hnd, input, output>>
-----------------------------------------------------------------------------
Init == /\ disk \in [Files -> Contents]
        /\ hnd = [h \in Handles |-> NoHandle]
        /\ input = "stdin" /\ output = "stdout"
        /\ iter = NoIter
        /\ ret = [op |-> "none"]

Next == \/ lua_open \/ lua_input \/ lua_output \/ lua_file_close \/ lua_close \/ collect
        \/ lua_file_read \/ lua_read \/ lua_file_write \/ lua_write \/ lua_file_seek
        \/ lua_lines \/ lua_file_lines \/ lines_iter \/ leave_loop

Spec == Init /\ [][Next]_vars
-----------------------------------------------------------------------------
(* Properties                                                              *)

FileState == [st : {"open"}, file : Files, pos : Nat, buf : Seq(Byte),
              append : BOOLEAN, readable : BOOLEAN, writable : BOOLEAN]

\* The types of the state; the file of an open handle exists.
TypeOK ==
    /\ disk \in [Files -> Seq(Byte) \cup {Missing}]
    /\ hnd \in [Handles -> {NoHandle, Closed} \cup FileState]
    /\ \A h \in Handles : IsOpen(h) => disk[hnd[h].file] # Missing
    /\ input \in Handles \cup {"stdin"} /\ output \in Handles \cup {"stdout"}
    /\ iter \in {NoIter} \cup [h : Handles \cup {"stdin"}, close_eof : BOOLEAN, fmts : LineFormats]

\* A handle as the program sees it: the reader's position, which is behind
\* the file's by what is in the buffer, and whether the buffer still holds
\* what the file does.
View(h) ==
    IF ~IsOpen(h) THEN [st |-> "shut"]
    ELSE LET x == hnd[h]
             d == disk[x.file]
             at == x.pos - Len(x.buf)
         IN  [st |-> "open", file |-> x.file, at |-> at, ahead |-> x.buf # <<>>,
              torn |-> ~(\/ x.buf = <<>>
                         \/ at >= 0 /\ x.pos <= Len(d) /\ x.buf = SubSeq(d, at + 1, x.pos)),
              append |-> x.append, readable |-> x.readable, writable |-> x.writable]

Abstract == INSTANCE FileSpec WITH fh <- [h \in Handles |-> View(h)], Slack <- MaxLen

\* A handle is a file and a position: it reads what is there, writes there
\* and seeks from there, and a failed write reports what it wrote, although
\* the reader is ahead of the file and writes go below it.  The exception is
\* a handle, written after it read, that did not seek in between.
FilesBehave == Abstract!Spec

\* No file has a 0x. that no digit follows, which read_number takes for a
\* number (see OnlyNumerals).
BareHex(d) == \E i \in 1..(Len(d) - 1) :
    d[i] = "x" /\ d[i + 1] = "." /\ (i + 2 <= Len(d) => d[i + 2] \notin HexDigits)
NoBareHex == \A f \in Files : ~BareHex(disk[f])

\* Format "n" consumes the longest prefix of a numeral, and no byte more
\* (lua_manual.of:8807), on all inputs up to NumeralLen bytes.
NumeralsAgree ==
    iter = NoIter /\ hnd = [h \in Handles |-> NoHandle] /\ ret = [op |-> "none"] =>
        \A s \in BoundedSeq(NumeralBytes, NumeralLen) : scan_number(s) = LongestPrefix(s)

\* "If that prefix does not form a valid numeral (e.g., an empty string, 0x,
\* or 3.4e-) ... the format returns fail" (lua_manual.of:8809).
OnlyNumerals ==
    \A s \in BoundedSeq(NumeralBytes, NumeralLen) :
        str_to_number(scan_number(s)) <=> IsNumeral(LongestPrefix(s))

=============================================================================

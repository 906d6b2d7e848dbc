------------------------------ MODULE Patterns ------------------------------
(***************************************************************************)
(* The pattern matcher (builtin/string/pattern.rs) and the loops over it:  *)
(* find, match, gmatch and gsub (builtin/string/mod.rs).                   *)
(*                                                                         *)
(* The matcher backtracks over one mutable capture array: a capture is     *)
(* opened or closed before the rest of the pattern is tried, and put back  *)
(* when that fails.  Patterns are the byte strings the program passes.     *)
(* Offsets s into the subject count from 0, as in the code; indices p into *)
(* the pattern count from 1.                                               *)
(***************************************************************************)
EXTENDS PatternSemantics

CONSTANTS
    Order,          \* the bytes of subjects, in order
    Members,        \* what each class letter stands for
    MAX_CAPTURES,   \* LUA_MAXCAPTURES, 32
    MAX_CCALLS      \* MAXCCALLS, 200

ASSUME LimitsAssumption == MAX_CAPTURES \in Nat \ {0} /\ MAX_CCALLS \in Nat \ {0}

Code(c) == IF c = NUL THEN 0 ELSE CHOOSE i \in DOMAIN Order : Order[i] = c

\* The byte at index p, or Eof: `pat.get(p)`.
Eof == "eof"
Get(pat, p) == IF p \in DOMAIN pat THEN pat[p] ELSE Eof
-----------------------------------------------------------------------------
(* Single characters                                                       *)

\* Members lists the classes with their complements; other letters stand for
\* themselves.
match_class(c, cl) == IF cl \in DOMAIN Members THEN c \in Members[cl] ELSE c = cl

\* Whether c is in the set whose [ is at p and whose ] is at ec.
match_bracket_class(c, pat, p, ec) ==
    LET negated == Get(pat, p + 1) = "^"
        \* Walks the set from index q.
        walk[q \in 1..(ec + 3)] ==
            IF q >= ec THEN FALSE
            ELSE IF pat[q] = "%"
                 THEN (q + 1 <= Len(pat) /\ match_class(c, pat[q + 1])) \/ walk[q + 2]
            ELSE IF Get(pat, q + 1) = "-" /\ q + 2 < ec
                 THEN Code(c) \in Code(pat[q])..Code(pat[q + 2]) \/ walk[q + 3]
            ELSE pat[q] = c \/ walk[q + 1]
    IN  walk[IF negated THEN p + 2 ELSE p + 1] # negated

\* The index past the item at p, or 0 if it is malformed.
classend(pat, p) ==
    CASE pat[p] = "%" -> IF p + 1 > Len(pat) THEN 0 ELSE p + 2
      [] pat[p] = "[" ->
           LET scan[q \in 1..(Len(pat) + 2)] ==
                 IF q > Len(pat) THEN 0
                 ELSE LET n == IF pat[q] = "%" /\ q + 1 <= Len(pat) THEN q + 2 ELSE q + 1
                      IN  IF Get(pat, n) = "]" THEN n + 1 ELSE scan[n]
           IN  scan[IF Get(pat, p + 1) = "^" THEN p + 2 ELSE p + 1]
      [] pat[p] \notin {"%", "["} -> p + 1

single_match(src, pat, s, p, ep) ==
    /\ s < Len(src)
    /\ LET c == src[s + 1]
       IN  CASE pat[p] = "." -> TRUE
             [] pat[p] = "%" -> match_class(c, pat[p + 1])
             [] pat[p] = "[" -> match_bracket_class(c, pat, p, ep - 1)
             [] pat[p] \notin {".", "%", "["} -> pat[p] = c

\* The end of the balanced run of b and e at s, or -1.
match_balance(src, s, b, e) ==
    LET cont[k \in (s + 1)..Len(src)] ==
            IF k = s + 1 THEN 1
            ELSE cont[k - 1] + (IF src[k] = e THEN -1 ELSE IF src[k] = b THEN 1 ELSE 0)
        ends == {k \in (s + 2)..Len(src) : src[k] = e /\ cont[k] = 0}
    IN  IF s >= Len(src) \/ src[s + 1] # b \/ ends = {} THEN -1 ELSE Min(ends)
-----------------------------------------------------------------------------
(* MatchState: the number of captures in use, and the capture array, which *)
(* keeps what it held above that.  Every function returns the state it     *)
(* leaves.                                                                 *)

Unfinished == -1
Position == -2

NewState == [level |-> 0, capture |-> [l \in 1..MAX_CAPTURES |-> [init |-> 0, len |-> Unfinished]]]

\* A match that ends at e, none, or an error.
Some(e, ms) == [r |-> "some", e |-> e, ms |-> ms]
None(ms) == [r |-> "none", e |-> 0, ms |-> ms]
Err(why, ms) == [r |-> why, e |-> 0, ms |-> ms]

\* The captures that back-reference d may name: closed ones.
check_capture(ms, d) == d \in 1..ms.level /\ ms.capture[d].len # Unfinished

\* Where the text of capture d ends if it is at s, or -1.
match_capture(src, s, ms, d) ==
    LET c == ms.capture[d]
    IN  IF c.len # Position /\ Len(src) - s >= c.len
           /\ SubSeq(src, c.init + 1, c.init + c.len) = SubSeq(src, s + 1, s + c.len)
        THEN s + c.len ELSE -1

\* do_match counts the calls in progress, match_loop is its loop.
RECURSIVE do_match(_, _, _, _, _, _)
RECURSIVE match_loop(_, _, _, _, _, _)
RECURSIVE back_off(_, _, _, _, _, _, _)
RECURSIVE min_expand(_, _, _, _, _, _, _)

do_match(src, pat, s, p, ms, depth) ==
    IF depth = 0 THEN Err("pattern too complex", ms)
    ELSE match_loop(src, pat, s, p, ms, depth - 1)

start_capture(src, pat, s, p, what, ms, depth) ==
    LET opened == [level |-> ms.level + 1,
                   capture |-> [ms.capture EXCEPT ![ms.level + 1] = [init |-> s, len |-> what]]]
        res == do_match(src, pat, s, p, opened, depth)
    IN  IF ms.level >= MAX_CAPTURES THEN Err("too many captures", ms)
        ELSE IF res.r = "none" THEN [res EXCEPT !.ms.level = @ - 1] ELSE res

\* mutant: a capture stays closed when the rest of the pattern fails
end_capture_no_undo(src, pat, s, p, ms, depth) ==
    LET open == {l \in 1..ms.level : ms.capture[l].len = Unfinished}
        l == Max(open)
    IN  IF open = {} THEN Err("invalid pattern capture", ms)
        ELSE do_match(src, pat, s, p, [ms EXCEPT !.capture[l].len = s - ms.capture[l].init], depth)

end_capture(src, pat, s, p, ms, depth) ==
    LET open == {l \in 1..ms.level : ms.capture[l].len = Unfinished}
        l == Max(open)
        res == do_match(src, pat, s, p,
                        [ms EXCEPT !.capture[l].len = s - ms.capture[l].init], depth)
    IN  IF open = {} THEN Err("invalid pattern capture", ms)
        ELSE IF res.r = "none" THEN [res EXCEPT !.ms.capture[l].len = Unfinished] ELSE res

\* max_expand, once i characters match.
back_off(src, pat, s, ep, i, ms, depth) ==
    LET res == do_match(src, pat, s + i, ep + 1, ms, depth)
    IN  IF res.r # "none" \/ i = 0 THEN res
        ELSE back_off(src, pat, s, ep, i - 1, res.ms, depth)

max_expand(src, pat, s, p, ep, ms, depth) ==
    LET run == {n \in 0..(Len(src) - s) :
                   \A k \in 0..(n - 1) : single_match(src, pat, s + k, p, ep)}
    IN  back_off(src, pat, s, ep, Max(run), ms, depth)

min_expand(src, pat, s, p, ep, ms, depth) ==
    LET res == do_match(src, pat, s, ep + 1, ms, depth)
    IN  IF res.r # "none" \/ ~single_match(src, pat, s, p, ep) THEN res
        ELSE min_expand(src, pat, s + 1, p, ep, res.ms, depth)

\* An item with its suffix.
match_default(src, pat, s, p, ms, depth) ==
    LET ep == classend(pat, p)
        suffix == Get(pat, ep)
        once == do_match(src, pat, s + 1, ep + 1, ms, depth)
    IN  IF ep = 0 THEN Err("malformed pattern", ms)
        ELSE IF ~single_match(src, pat, s, p, ep)
        THEN IF suffix \in {"*", "?", "-"} THEN match_loop(src, pat, s, ep + 1, ms, depth) ELSE None(ms)
        ELSE CASE suffix = "?" -> IF once.r = "none" THEN match_loop(src, pat, s, ep + 1, once.ms, depth)
                                  ELSE once
               [] suffix = "+" -> max_expand(src, pat, s + 1, p, ep, ms, depth)
               [] suffix = "*" -> max_expand(src, pat, s, p, ep, ms, depth)
               [] suffix = "-" -> min_expand(src, pat, s, p, ep, ms, depth)
               [] OTHER -> match_loop(src, pat, s + 1, ep, ms, depth)

match_frontier(src, pat, s, p, ms, depth) ==
    LET ep == classend(pat, p)
        prev == IF s = 0 THEN NUL ELSE src[s]
        cur == IF s < Len(src) THEN src[s + 1] ELSE NUL
    IN  IF Get(pat, p) # "[" THEN Err("missing '['", ms)
        ELSE IF ep = 0 THEN Err("malformed pattern", ms)
        ELSE IF ~match_bracket_class(prev, pat, p, ep - 1) /\ match_bracket_class(cur, pat, p, ep - 1)
        THEN match_loop(src, pat, s, ep, ms, depth) ELSE None(ms)

\* The value of a digit in a back-reference.
Digits == [d \in {"0", "1", "2"} |-> CASE d = "0" -> 0 [] d = "1" -> 1 [] d = "2" -> 2]

match_escape(src, pat, s, p, ms, depth) ==
    LET c == Get(pat, p + 1)
        go(to, np) == IF to = -1 THEN None(ms) ELSE match_loop(src, pat, to, np, ms, depth)
    IN  CASE c = "b" -> IF p + 3 > Len(pat) THEN Err("missing arguments to '%b'", ms)
                        ELSE go(match_balance(src, s, pat[p + 2], pat[p + 3]), p + 4)
          [] c = "f" -> match_frontier(src, pat, s, p + 2, ms, depth)
          [] c \in DOMAIN Digits ->
               IF ~check_capture(ms, Digits[c]) THEN Err("invalid capture index", ms)
               ELSE go(match_capture(src, s, ms, Digits[c]), p + 2)
          [] OTHER -> match_default(src, pat, s, p, ms, depth)

match_loop(src, pat, s, p, ms, depth) ==
    IF p > Len(pat) THEN Some(s, ms)
    ELSE CASE pat[p] = "(" ->
                IF Get(pat, p + 1) = ")" THEN start_capture(src, pat, s, p + 2, Position, ms, depth)
                ELSE start_capture(src, pat, s, p + 1, Unfinished, ms, depth)
           [] pat[p] = ")" -> end_capture(src, pat, s, p + 1, ms, depth)
           [] pat[p] = "$" /\ p = Len(pat) -> IF s = Len(src) THEN Some(s, ms) ELSE None(ms)
           [] pat[p] = "%" -> match_escape(src, pat, s, p, ms, depth)
           [] OTHER -> match_default(src, pat, s, p, ms, depth)

\* match_at reuses a state: it resets the level, and not the array.
match_at(src, pat, s, ms) == do_match(src, pat, s, 1, [ms EXCEPT !.level = 0], MAX_CCALLS)
-----------------------------------------------------------------------------
(* What the functions return                                               *)

\* get_onecapture, a range of the subject, a position, or an error.
get_onecapture(ms, i, ws, we) ==
    IF i > ms.level THEN IF i = 1 THEN <<"str", ws, we>> ELSE <<"error">>
    ELSE LET c == ms.capture[i]
         IN  CASE c.len = Unfinished -> <<"error">>
               [] c.len = Position -> <<"pos", c.init + 1>>
               [] OTHER -> <<"str", c.init, c.init + c.len>>

num_captures(ms, whole) == IF ms.level = 0 /\ whole THEN 1 ELSE ms.level

\* The match res at s, with its first n captures.
Found(res, s, n) ==
    LET caps == [i \in 1..n |-> get_onecapture(res.ms, i, s, res.e)]
    IN  IF <<"error">> \in Range(caps) THEN [r |-> "unfinished capture"]
        ELSE [r |-> "some", s |-> s, e |-> res.e, caps |-> caps]
NotFound == [r |-> "none"]

Anchored(pat) == Get(pat, 1) = "^"
Body(pat) == IF Anchored(pat) THEN Tail(pat) ELSE pat

\* posrelatI: where the search begins, or beyond the subject.
init_pos(pos, len) ==
    IF pos > 0 THEN pos - 1 ELSE IF pos = 0 \/ pos < -len THEN 0 ELSE len + pos

RECURSIVE search(_, _, _, _, _, _)
search(src, pat, s, anchor, whole, ms) ==
    LET res == match_at(src, pat, s, ms)
    IN  IF res.r = "some" THEN Found(res, s, num_captures(res.ms, whole))
        ELSE IF res.r # "none" THEN [r |-> res.r]
        ELSE IF anchor \/ s >= Len(src) THEN NotFound
        ELSE search(src, pat, s + 1, anchor, whole, res.ms)

\* match and find, which gives no capture for a pattern without one.
lua_match(src, pat, init, whole) ==
    LET s == init_pos(init, Len(src))
    IN  IF s > Len(src) THEN NotFound ELSE search(src, Body(pat), s, Anchored(pat), whole, NewState)

\* plain_find, from offset s.
plain_find(src, needle, s) ==
    LET at == {k \in s..(Len(src) - Len(needle)) : SubSeq(src, k + 1, k + Len(needle)) = needle}
    IN  IF at = {} THEN NotFound ELSE [r |-> "some", s |-> Min(at), e |-> Min(at) + Len(needle), caps |-> <<>>]

nospecials(pat) == Range(pat) \cap {"^", "$", "*", "+", "?", ".", "(", "[", "%", "-"} = {}

lua_find(src, pat, init) ==
    LET s == init_pos(init, Len(src))
    IN  IF s > Len(src) THEN NotFound
        ELSE IF nospecials(pat) THEN plain_find(src, pat, s)
        ELSE lua_match(src, pat, init, FALSE)

\* mutant: an empty match where the last one ended counts
FreshMatchAny(res, last) == res.r = "some"

\* The match at pos, unless it is empty and where the last one ended.
FreshMatch(res, last) == res.r = "some" /\ res.e # last

\* gmatch: from pos on, the next match that is fresh.
RECURSIVE gmatch_next(_, _, _, _, _)
gmatch_next(src, pat, pos, last, ms) ==
    IF pos > Len(src) THEN NotFound
    ELSE LET res == match_at(src, pat, pos, ms)
         IN  IF FreshMatch(res, last) THEN Found(res, pos, num_captures(res.ms, TRUE))
             ELSE IF res.r \notin {"some", "none"} THEN [r |-> res.r]
             ELSE gmatch_next(src, pat, pos + 1, last, res.ms)
-----------------------------------------------------------------------------
(* gsub with a template                                                    *)

Never == -1

\* add_s: the template, in which each % is followed by %, by 0 or by a digit,
\* with the captures of match res at s filled in.
RECURSIVE add_s(_, _, _, _, _)
add_s(src, res, s, template, i) ==
    IF i > Len(template) THEN <<>>
    ELSE IF template[i] # "%" THEN <<template[i]>> \o add_s(src, res, s, template, i + 1)
    ELSE LET c == template[i + 1]
             cap == get_onecapture(res.ms, Digits[c], s, res.e)
         IN  (CASE c = "%" -> <<"%">>
                [] c = "0" -> SubSeq(src, s + 1, res.e)
                [] c \notin {"%", "0"} ->
                     CASE cap[1] = "str" -> Text(src, cap)
                       [] cap[1] = "pos" -> <<ToString(cap[2])>>
                       [] cap[1] = "error" -> <<"error">>)
             \o add_s(src, res, s, template, i + 2)

\* The loop of gsub_string, from pos.
RECURSIVE gsub_string(_, _, _, _, _, _, _, _)
gsub_string(src, pat, template, max_n, pos, last, count, ms) ==
    LET res == match_at(src, Body(pat), pos, ms)
        rest == SubSeq(src, pos + 1, Len(src))
        fresh == FreshMatch(res, last)
        add == add_s(src, res, pos, template, 1)
    IN  IF count >= max_n THEN rest
        ELSE IF res.r \notin {"some", "none"} THEN <<"error">>
        ELSE IF ~fresh /\ pos >= Len(src) THEN <<>>
        ELSE IF Anchored(pat)
             THEN IF fresh THEN add \o SubSeq(src, res.e + 1, Len(src)) ELSE rest
        ELSE IF fresh THEN add \o gsub_string(src, pat, template, max_n, res.e, res.e, count + 1, res.ms)
        ELSE <<src[pos + 1]>> \o gsub_string(src, pat, template, max_n, pos + 1, last, count, res.ms)
-----------------------------------------------------------------------------
(* gmatch, an iterator that keeps pos and lastmatch in a userdata, and     *)
(* gsub, whose loop waits for a Lua function at every match (gsub_run) or  *)
(* expands a template (gsub_string).                                       *)

CONSTANTS
    Subjects,   \* subjects of the calls
    PatternSet, \* patterns find and match are called with
    LoopSet,    \* patterns gmatch and gsub are called with
    Templates   \* replacement strings

ASSUME PatternAssumption == \A p \in LoopSet : WellFormed(p.items)

VARIABLE job    \* the call in progress, or the last one

Idle == [st |-> "idle"]
Keep == <<"keep">>

\* The program calls find or match: MatchesAgree says what they return.
call_find == \E p \in PatternSet : job.st = "idle" /\ job' = [st |-> "finding", p |-> p]
found == \E src \in Subjects :
    job.st = "finding" /\ job' = [st |-> "found", p |-> job.p, src |-> src]

\* ^ is no anchor for gmatch.
call_gmatch == \E p \in LoopSet, src \in Subjects : \E init \in 1..(Len(src) + 2) :
    /\ job.st = "idle" /\ ~p.anchor
    /\ job' = [st |-> "iterator", p |-> p, src |-> src, init |-> init_pos(init, Len(src)),
               pos |-> init_pos(init, Len(src)), last |-> Never, hits |-> <<>>]

gmatch_aux ==
    /\ job.st = "iterator"
    /\ LET m == gmatch_next(job.src, Written(job.p), job.pos, job.last, NewState)
       IN  job' = IF m.r = "some"
                  THEN [job EXCEPT !.pos = m.e, !.last = m.e, !.hits = Append(@, m.caps)]
                  ELSE [job EXCEPT !.st = IF m.r = "none" THEN "exhausted" ELSE "raised"]

Stop(j) == [j EXCEPT !.st = "done", !.out = @ \o SubSeq(j.src, j.pos + 1, Len(j.src))]
Continue(j) == IF j.count < j.max_n THEN [j EXCEPT !.st = "matching"] ELSE Stop(j)
Round(j) == IF j.p.anchor THEN Stop(j) ELSE Continue(j)

\* gsub with a function or a table; n is the number of matches to replace.
call_gsub == \E p \in LoopSet, src \in Subjects, is_func \in BOOLEAN : \E n \in {0, 1, Len(src) + 1} :
    /\ job.st = "idle"
    /\ job' = Continue([st |-> "matching", p |-> p, src |-> src, is_func |-> is_func, max_n |-> n,
                        pos |-> 0, last |-> Never, count |-> 0, out |-> <<>>,
                        args |-> <<>>, e |-> 0, asked |-> <<>>, given |-> <<>>])

\* gsub with a template.
call_gsub_string == \E p \in LoopSet, src \in Subjects, t \in Templates : \E n \in {0, 1, Len(src) + 1} :
    /\ job.st = "idle"
    /\ job' = [st |-> "replaced", p |-> p, src |-> src, t |-> t, max_n |-> n,
               out |-> gsub_string(src, Written(p), TemplateBytes(t), n, 0, Never, 0, NewState)]

\* A round: a match suspends the loop until its replacement is known.
gsub_step ==
    /\ job.st = "matching"
    /\ LET res == match_at(job.src, Body(Written(job.p)), job.pos, NewState)
           m == Found(res, job.pos, IF job.is_func THEN num_captures(res.ms, TRUE) ELSE 1)
       IN  job' = IF FreshMatch(res, job.last)
                  THEN IF m.r = "some"
                       THEN [job EXCEPT !.st = "calling", !.args = m.caps, !.e = m.e, !.count = @ + 1]
                       ELSE [job EXCEPT !.st = "raised"]
                  ELSE IF res.r \notin {"some", "none"} THEN [job EXCEPT !.st = "raised"]
                  ELSE IF job.pos < Len(job.src)
                  THEN Round([job EXCEPT !.out = Append(@, job.src[job.pos + 1]), !.pos = @ + 1])
                  ELSE Stop(job)

\* The function returns, or the table holds, a string, or nil or false.
gsub_replaces == \E given \in {Keep, <<"x", "a">>} :
    /\ job.st = "calling"
    /\ job' = Round([job EXCEPT
                !.out = @ \o (IF given = Keep THEN SubSeq(job.src, job.pos + 1, job.e) ELSE given),
                !.pos = job.e, !.last = job.e, !.args = <<>>, !.e = 0,
                !.asked = Append(@, job.args), !.given = Append(@, given)])

\* The function or __index raises, or the value is no replacement.
gsub_fails == job.st = "calling" /\ job' = [job EXCEPT !.st = "raised"]

Finished == {"found", "exhausted", "done", "replaced", "raised"}

returns == job.st \in Finished /\ job' = Idle

GsubStep == gsub_step \/ gsub_replaces \/ gsub_fails

Init == job = Idle
Next == call_find \/ found \/ call_gmatch \/ gmatch_aux \/ call_gsub \/ call_gsub_string
        \/ GsubStep \/ returns

Spec == Init /\ [][Next]_job
-----------------------------------------------------------------------------
(* Properties                                                              *)

\* What match returns, given whether a pattern without captures counts.
Result(src, p, s, whole) ==
    LET m == FirstFrom(src, p, s, -1)
    IN  IF m.s = -1 THEN NotFound
        ELSE [r |-> "some", s |-> m.s, e |-> m.e, caps |-> IF whole THEN Whole(m) ELSE m.caps]

\* The calls of do_match a pattern may need at once: one for each parenthesis
\* and suffix, however long the subject.
Calls(items) ==
    1 + Cardinality({i \in DOMAIN items :
                       \/ items[i].k \in {"open", "close", "position"}
                       \/ items[i].k = "class" /\ items[i].suffix # <<>>})

Captures(items) == Cardinality({i \in DOMAIN items : items[i].k \in {"open", "position"}})

Agrees(r, expected, items) ==
    \/ WellFormed(items) /\ r = expected
    \/ ~WellFormed(items) /\ r.r # "some"
    \/ r.r = "pattern too complex" /\ Calls(items) > MAX_CCALLS
    \/ r.r = "too many captures" /\ Captures(items) > MAX_CAPTURES

\* find and match return the leftmost match, of those the preferred one, with
\* its captures, although the matcher tries and takes back captures in one
\* array; a pattern that is not well formed never matches, unless find takes
\* it for a plain string because ) alone is not special; and a well-formed one
\* raises only if it has too many captures or is nested too deep, which does
\* not depend on the subject.
MatchesAgree ==
    job.st = "found" =>
        LET p == job.p
            pat == Written(p)
            src == job.src
        IN  \A init \in (-Len(src) - 1)..(Len(src) + 2) :
              LET s == IF init > 0 THEN init - 1 ELSE IF init = 0 THEN 0 ELSE Max({0, Len(src) + init})
              IN  /\ Agrees(lua_match(src, pat, init, TRUE), Result(src, p, s, TRUE), p.items)
                  /\ \/ Agrees(lua_find(src, pat, init), Result(src, p, s, FALSE), p.items)
                     \/ nospecials(pat) /\ ~WellFormed(p.items)

Bounded(ms, n) == SubSeq(ms, 1, Min({n, Len(ms)}))

\* Each loop (gmatch, gsub with a string, gsub with a function that may run
\* anything between two matches) finds the same matches: the leftmost ones
\* that do not overlap, where an empty match is not found at the end of the
\* one before; passes on their captures; and gsub keeps the text between.
LoopsAgree ==
    /\ job.st \in {"iterator", "exhausted"} =>
         LET all == AllMatches(job.src, job.p, job.init, -1)
             seen == [i \in DOMAIN all |-> Whole(all[i])]
         IN  IF job.st = "exhausted" THEN job.hits = seen ELSE IsPrefix(job.hits, seen)
    /\ job.st = "done" =>
         LET ms == Bounded(AllMatches(job.src, job.p, 0, -1), job.max_n)
         IN  /\ job.asked = [i \in DOMAIN ms |-> IF job.is_func THEN Whole(ms[i]) ELSE <<Whole(ms[i])[1]>>]
             /\ job.out = Replaced(job.src, ms, [i \in DOMAIN ms |->
                             IF job.given[i] = Keep THEN SubSeq(job.src, ms[i].s + 1, ms[i].e)
                             ELSE job.given[i]])
    /\ job.st = "replaced" =>
         LET ms == Bounded(AllMatches(job.src, job.p, 0, -1), job.max_n)
         IN  job.out = Replaced(job.src, ms, [i \in DOMAIN ms |-> Expanded(job.src, ms[i], job.t)])

\* What is left of a gsub: the bytes beyond pos, each at most once by a match
\* and once by itself, then the empty match at pos, then the reply awaited.
Left(j) == 4 * (Len(j.src) - j.pos) + (IF j.last = j.pos THEN 0 ELSE 2) + (IF j.st = "matching" THEN 1 ELSE 0)

\* gsub ends whatever the pattern matches, empty strings included, and
\* whatever the function returns: every step of its loop leaves less to do,
\* also when a match consumes nothing.
GsubProgresses ==
    [][job.st \in {"matching", "calling"} /\ job'.st \in {"matching", "calling"} => Left(job') < Left(job)]_job
=============================================================================

----------------------------- MODULE LuaTables -----------------------------
(***************************************************************************)
(* What a Lua program may observe of its tables, with no storage layout,   *)
(* hidden classes or caches: a table is a map from keys to values with an  *)
(* optional metatable, and indexing consults the metatable's `__index` and *)
(* `__newindex` only for keys that are absent.  Shapes implements this.    *)
(***************************************************************************)
EXTENDS Naturals

CONSTANTS
    Tables,      \* the tables of the program
    Keys,        \* string keys
    Plain,       \* values that are neither nil nor a table; calling one is allowed
    MaxTagLoop   \* MAX_TAG_LOOP, the longest chain of metatables that is followed

Nil == "nil"
None == "none"
Values == {Nil} \cup Plain \cup Tables

VARIABLES content, meta

Init ==
    /\ content = [t \in Tables |-> [k \in Keys |-> Nil]]
    /\ meta = [t \in Tables |-> None]

\* The value of field `name` of t's metatable, Nil without a metatable.
Metamethod(t, name) == IF meta[t] = None THEN Nil ELSE content[meta[t]][name]

Resolved(v) == [r |-> "value", v |-> v]
Invoke(f, t) == [r |-> "invoke", v |-> f, on |-> t]
Exhausted == [r |-> "exhausted"]
RawSet(t) == [r |-> "store", on |-> t]

\* What reading t[k] comes to, along a chain of at most n more tables.
GetWithin(k) ==
    LET G[n \in 0..MaxTagLoop] == [t \in Tables |->
            LET mm == Metamethod(t, "__index")
            IN  IF content[t][k] # Nil \/ mm = Nil THEN Resolved(content[t][k])
                ELSE IF n = 0 THEN Exhausted
                ELSE IF mm \in Tables THEN G[n - 1][mm]
                ELSE Invoke(mm, t)]
    IN  G

Get(t, k) == GetWithin(k)[MaxTagLoop][t]

\* What assigning to t[k] comes to: a store in some table, or a call.
SetWithin(k) ==
    LET S[n \in 0..MaxTagLoop] == [t \in Tables |->
            LET mm == Metamethod(t, "__newindex")
            IN  IF n = 0 THEN Exhausted
                ELSE IF content[t][k] # Nil \/ mm = Nil THEN RawSet(t)
                ELSE IF mm \in Tables THEN S[n - 1][mm]
                ELSE Invoke(mm, t)]
    IN  S

Set(t, k) == SetWithin(k)[MaxTagLoop][t]

\* rawset, or the store an assignment comes to
rawset(t, k, v) == content' = [content EXCEPT ![t][k] = v] /\ UNCHANGED meta

setmetatable(t, mt) ==
    /\ Metamethod(t, "__metatable") = Nil
    /\ meta' = [meta EXCEPT ![t] = mt] /\ UNCHANGED content

Next == \E t \in Tables :
    \/ \E k \in Keys, v \in Values : rawset(t, k, v)
    \/ \E mt \in Tables \cup {None} : setmetatable(t, mt)

Spec == Init /\ [][Next]_<<content, meta>>
=============================================================================

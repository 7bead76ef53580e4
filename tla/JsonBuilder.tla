----------------------------- MODULE JsonBuilder -----------------------------
(***************************************************************************)
(* The streaming JSON writer of json_util.cpp.  It keeps a depth and a     *)
(* flag, and no record of what it is inside of; its callers do, in nesting:*)
(* they close what they opened and give each key one value.  A text is a   *)
(* sequence of tokens; strings, numbers, true and so on are all "value".   *)
(***************************************************************************)
EXTENDS Integers, Sequences, SequencesExt

VARIABLES mBuilder,         \* the text so far
          mDepth, mPendingComma,
          nesting           \* the caller: what is open, outermost first

vars == <<mBuilder, mDepth, mPendingComma, nesting>>

Init ==
    /\ mBuilder = <<>> /\ mDepth = 0 /\ mPendingComma = FALSE
    /\ nesting = <<>>

-------------------------------------------------------------------------------
(***************************************************************************)
(* The caller.  Each level knows its kind, whether it has a member already *)
(* and whether a key waits for its value.  Level 0 is the text itself,     *)
(* which is one value.                                                     *)
(***************************************************************************)
Level(kind) == [kind |-> kind, members |-> FALSE, keyed |-> FALSE]

Outer == nesting = <<>>
Inner == Last(nesting)

MayAddValue ==
    IF Outer THEN mBuilder = <<>>
    ELSE Inner.kind = "array" \/ Inner.keyed

MayAddKey == ~Outer /\ Inner.kind = "object" /\ ~Inner.keyed

MayEnd(kind) == ~Outer /\ Inner.kind = kind /\ ~Inner.keyed

WithMember ==
    IF Outer THEN nesting
    ELSE Append(Front(nesting), [Inner EXCEPT !.members = TRUE, !.keyed = FALSE])

-------------------------------------------------------------------------------
(***************************************************************************)
(* The comma of punctuate(), which clears the flag.                        *)
(***************************************************************************)
Comma == IF mPendingComma THEN <<",">> ELSE <<>>

Emit(tokens, pending) ==
    /\ mBuilder' = mBuilder \o Comma \o tokens
    /\ mPendingComma' = pending

MutBeginUncounted(kind, token) ==
    /\ MayAddValue
    /\ Emit(<<token>>, FALSE)
    /\ nesting' = Append(WithMember, Level(kind))
    /\ UNCHANGED mDepth
Begin(kind, token) ==
    /\ MayAddValue
    /\ Emit(<<token>>, FALSE)
    /\ mDepth' = mDepth + 1
    /\ nesting' = Append(WithMember, Level(kind))

MutEndForgetsComma(kind, token) ==
    /\ MayEnd(kind)
    /\ mBuilder' = Append(mBuilder, token)
    /\ mDepth' = mDepth - 1
    /\ mPendingComma' = FALSE
    /\ nesting' = Front(nesting)
End(kind, token) ==
    /\ MayEnd(kind)
    /\ mBuilder' = Append(mBuilder, token)
    /\ mDepth' = mDepth - 1
    /\ mPendingComma' = TRUE
    /\ nesting' = Front(nesting)

begin_object == Begin("object", "{")
end_object   == End("object", "}")
begin_array  == Begin("array", "[")
end_array    == End("array", "]")

key ==
    /\ MayAddKey
    /\ Emit(<<"name", ":">>, FALSE)
    /\ nesting' = Append(Front(nesting), [Inner EXCEPT !.keyed = TRUE])
    /\ UNCHANGED mDepth

value ==
    /\ MayAddValue
    /\ Emit(<<"value">>, TRUE)
    /\ nesting' = WithMember
    /\ UNCHANGED mDepth

field ==
    /\ MayAddKey
    /\ Emit(<<"name", ":", "value">>, TRUE)
    /\ nesting' = WithMember
    /\ UNCHANGED mDepth

(***************************************************************************)
(* What str() may return, which does not change the builder: simdjson's    *)
(* view() may fail of a text that is balanced.                             *)
(***************************************************************************)
Unbalanced  == <<"Unbalanced">>
ParseFailed == <<"ParseFailed">>
balanced    == mDepth = 0
str         == IF balanced THEN {mBuilder, ParseFailed} ELSE {Unbalanced}

MutClearKeepsComma ==
    /\ mBuilder' = <<>> /\ mDepth' = 0
    /\ nesting' = <<>>
    /\ UNCHANGED mPendingComma
clear ==
    /\ mBuilder' = <<>> /\ mDepth' = 0 /\ mPendingComma' = FALSE
    /\ nesting' = <<>>

Next ==
    \/ begin_object \/ end_object \/ begin_array \/ end_array
    \/ key \/ value \/ field \/ clear

Spec == Init /\ [][Next]_vars

-------------------------------------------------------------------------------
Tokens == {"{", "}", "[", "]", ",", ":", "name", "value"}
Levels == [kind : {"object", "array"}, members : BOOLEAN, keyed : BOOLEAN]

(***************************************************************************)
(* Every variable keeps to its type; the depth is never negative.          *)
(***************************************************************************)
TypeOK ==
    /\ mBuilder \in Seq(Tokens)
    /\ mDepth \in Nat /\ mPendingComma \in BOOLEAN
    /\ nesting \in Seq(Levels)

(***************************************************************************)
(* One counter and one flag stand for the whole nesting: the depth is that *)
(* of the caller, at any depth and after any clear(), and a comma is due   *)
(* exactly when the innermost level has a member and no key is waiting.    *)
(***************************************************************************)
TracksNesting ==
    /\ mDepth = Len(nesting)
    /\ mPendingComma <=> IF Outer THEN mBuilder # <<>>
                         ELSE Inner.members /\ ~Inner.keyed

(***************************************************************************)
(* A reader of JSON: what is open, and which tokens may come next.         *)
(***************************************************************************)
Values == {"value", "{", "["}
Closing == [object |-> "}", array |-> "]"]
NotJson == [open |-> <<"failed">>, next |-> {}]

Behind(open) ==
    [open |-> open, next |-> IF open = <<>> THEN {} ELSE {",", Closing[Last(open)]}]

Feed(s, t) ==
    CASE t \notin s.next -> NotJson
      [] t \in s.next /\ t = "{" ->
            [open |-> Append(s.open, "object"), next |-> {"name", "}"}]
      [] t \in s.next /\ t = "[" ->
            [open |-> Append(s.open, "array"), next |-> Values \cup {"]"}]
      [] t \in s.next /\ t = "name" -> [s EXCEPT !.next = {":"}]
      [] t \in s.next /\ t = ":" -> [s EXCEPT !.next = Values]
      [] t \in s.next /\ t = "," ->
            [s EXCEPT !.next = IF Last(s.open) = "object" THEN {"name"} ELSE Values]
      [] t \in s.next /\ t = "value" -> Behind(s.open)
      [] t \in s.next /\ t \in {"}", "]"} -> Behind(Front(s.open))

Parsed(text) == FoldLeft(Feed, [open |-> <<>>, next |-> Values], text)

IsJson(text) == Parsed(text) = Behind(<<>>)

(***************************************************************************)
(* "Separators are emitted automatically" (json_util.h:24-25), in the      *)
(* right places: whatever values, keys and ends a caller writes, the text  *)
(* can still become JSON, and has if str() hands it out, unless nothing    *)
(* was written.                                                            *)
(***************************************************************************)
WritesJson ==
    /\ Parsed(mBuilder) # NotJson
    /\ mBuilder # <<>> /\ mBuilder \in str => IsJson(mBuilder)

===============================================================================

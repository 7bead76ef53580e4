----------------------------- MODULE MCToolCall -----------------------------
(***************************************************************************)
(* Config files and calls for TLC.  A file has an entry with any two of    *)
(* its fields wrong, a good entry before one with a field wrong, a         *)
(* parameter with any field wrong, or two parameters of any kinds; a call  *)
(* gives each of two parameters nothing or one of ten values.              *)
(***************************************************************************)
EXTENDS ToolCall

Param1 == [name |-> Str("p"), description |-> Str("d"), kind |-> Str("flag"),
           flag |-> Str("-x"), required |-> Missing]

Entry1 == [name |-> Str("a"), program |-> Str("ls"), description |-> Str("d"),
           triggers |-> Missing, risky |-> Missing, in_process |-> Missing,
           params |-> Arr(<<Obj(Param1)>>)]

Variants ==
    [name |-> {Missing, Other, Str(""), Str("b")},
     program |-> {Missing, Other, Str(""), Str("cd")},
     description |-> {Missing, Other, Str("")},
     triggers |-> {Other, Arr(<<>>), Arr(<<Str("")>>), Arr(<<Str("t"), Other>>)},
     risky |-> {Other, Bool(TRUE)},
     in_process |-> {Other, Bool(TRUE)},
     params |-> {Missing, Other, Arr(<<>>), Arr(<<Other>>),
                 Arr(<<Obj(Param1), Obj(Param1)>>)}]

OneVaried == UNION {{[Entry1 EXCEPT ![f] = x] : x \in Variants[f]} : f \in DOMAIN Variants}
TwoVaried == UNION {{[e EXCEPT ![f] = x] : x \in Variants[f]} :
                        e \in OneVaried, f \in DOMAIN Variants}

OneParam ==
    [name : {Missing, Other, Str(""), Str("p")},
     description : {Missing, Str(""), Str("d")},
     kind : {Missing, Other, Str(""), Str("bogus")} \cup {Str(k) : k \in Kinds},
     flag : {Missing, Other, Str(""), Str("-x")},
     required : {Missing, Other, Bool(TRUE)}]

GoodParams2 ==
    {[name |-> Str(n), description |-> Str("d"), kind |-> Str(k),
      flag |-> IF carries_a_flag(k) THEN Str("-" \o k) ELSE Missing,
      required |-> r] : n \in {"p", "q"}, k \in Kinds, r \in {Missing, Bool(TRUE)}}

WithParams(ps) == Arr(<<Obj([Entry1 EXCEPT !.params = Arr(ps)])>>)

MCDocuments ==
    {Garbage, Other, Arr(<<>>), Arr(<<Other>>)}
    \cup {Arr(<<Obj(e)>>) : e \in TwoVaried}
    \cup {Arr(<<Obj(Entry1), Obj(e)>>) : e \in OneVaried}
    \cup {WithParams(<<Obj(p)>>) : p \in OneParam}
    \cup {WithParams(<<Obj(p), Obj(q)>>) : p, q \in GoodParams2}

MCInt64Max == 7

MCValues ==
    {Bool(TRUE), Bool(FALSE), Str("v"), Str(""), Other, Arr(<<>>),
     Arr(<<Str("v"), Str("w")>>), Arr(<<Str("v"), Other>>)}
    \cup {[type |-> "integer", int |-> n] : n \in {-8, 8}}

MCArguments ==
    {Garbage, Other}
    \cup {Obj(f) : f \in UNION {[S -> MCValues] : S \in SUBSET {"p", "q"}}}

MCCalls ==
    {[name |-> "a", arguments |-> x] : x \in MCArguments}
    \cup {[name |-> "z", arguments |-> Garbage]}
===============================================================================

--------------------------- MODULE MCNeedleClient ---------------------------
(***************************************************************************)
(* Two clients, two sets of facts, two tool schemas and two models; a      *)
(* buffer of 4, and replies that fit it with room, just fit it, just fill  *)
(* it and overflow it.                                                     *)
(***************************************************************************)
EXTENDS NeedleClient, TLC

MCCall(name, arguments) == Obj([name |-> name, arguments |-> arguments])
MCText(success, calls) == Obj([success |-> success, function_calls |-> calls])

MCGiven == Obj([p |-> Str("v")])

(***************************************************************************)
(* No calls, also where they are none of the array's; two, with arguments  *)
(* and without; and a second one without a name, with one that is no text, *)
(* or that is no object.                                                   *)
(***************************************************************************)
MCSaid ==
    {Missing, Other, Arr(<<>>)}
    \cup {Arr(<<MCCall(Str("a"), Missing), x>>) :
            x \in {MCCall(Str("b"), MCGiven), MCCall(Missing, MCGiven),
                   MCCall(Other, MCGiven), Other}}

MCReplies ==
    {[length |-> 2, text |-> MCText(Bool(TRUE), said)] : said \in MCSaid}
    \cup {[length |-> l, text |-> MCText(Bool(TRUE), Arr(<<MCCall(Str("a"), MCGiven)>>))] :
            l \in 2..5}
    \cup {[length |-> l, text |-> x] : l \in {1, 5},
            x \in {MCText(Bool(FALSE), Missing), MCText(Missing, Arr(<<>>)),
                   MCText(Other, Arr(<<>>)), Garbage, Other}}

Symmetry == Permutations(Clients) \cup Permutations(Models) \cup Permutations(Tools)
===============================================================================

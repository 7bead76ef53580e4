---------------------------- MODULE MCCommandLine ----------------------------
(***************************************************************************)
(* Commands and typed lines for TLC: a program with one argument of up to  *)
(* four characters or with two of up to two, of every character some rule  *)
(* mentions; cd with up to six characters after it; and blanks of other    *)
(* kinds before and after cd.                                              *)
(***************************************************************************)
EXTENDS CommandLine

Program == <<"l", "s">>

MCCharacters ==
    {"a", "c", "d", "l", "s", Single, Double, Backslash, Zero} \cup Blanks

MCWords(n) ==
    BoundedSeq({"a", Space, Newline, Return, Single, Double, Backslash, Zero}, n)

MCCommands ==
    {<<Program>>} \cup {<<Program, w>> : w \in MCWords(4)}
    \cup {<<Program, v, w>> : v, w \in MCWords(2)}

MCTyped ==
    {<<"c", "d">> \o s : s \in BoundedSeq({"a", Space, Single, Double, Backslash}, 6)}
    \cup {<<Tab, "c", "d">> \o s : s \in BoundedSeq({"a", Space, Return, Tab}, 3)}
===============================================================================

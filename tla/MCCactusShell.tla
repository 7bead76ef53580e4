--------------------------- MODULE MCCactusShell ---------------------------
(***************************************************************************)
(* The shell for TLC.  Two directories, two catalogs that give ls another  *)
(* program and confirmation, and replies of up to two calls.               *)
(***************************************************************************)
EXTENDS CactusShell, TLC

CONSTANTS d1, d2

MCCatalog1 ==
    "ls" :> [program |-> "ls", risky |-> FALSE, in_process |-> FALSE]
    @@ "rm" :> [program |-> "rm", risky |-> TRUE, in_process |-> FALSE]
    @@ "go" :> [program |-> "cd", risky |-> FALSE, in_process |-> TRUE]
MCCatalog2 ==
    "ls" :> [program |-> "tree", risky |-> TRUE, in_process |-> FALSE]
    @@ "go" :> [program |-> "cd", risky |-> FALSE, in_process |-> TRUE]

MCCatalogs == {MCCatalog1, MCCatalog2}

MCCall(name, args) == [name |-> name, fault |-> "none", args |-> args]
MCReply(cs)        == [calls |-> cs]

(***************************************************************************)
(* No call; one; two risky ones; a cd before a program; an unknown tool, a *)
(* missing argument.                                                       *)
(***************************************************************************)
MCReplies ==
    {MCReply(<<>>),
     MCReply(<<MCCall("ls", <<>>)>>),
     MCReply(<<MCCall("rm", <<>>), MCCall("rm", <<>>)>>),
     MCReply(<<MCCall("go", <<d2>>), MCCall("ls", <<>>)>>),
     MCReply(<<MCCall("go", <<>>), MCCall("sh", <<>>)>>),
     MCReply(<<[name |-> "ls", fault |-> "MissingArgument", args |-> <<>>],
               MCCall("ls", <<>>)>>)}

MCCd(after, words) == [kind |-> "cd", after |-> after, words |-> words]

MCLines ==
    {[kind |-> k] : k \in {"blank", "exit", "yes", "wish"}}
    \cup {MCCd("space", ws) : ws \in {<<>>, <<d2>>, <<Nowhere>>, <<d1, d2>>}}
    \cup {MCCd("tab", <<d2>>)}

(***************************************************************************)
(* One directory has a catalog, a broken one or none, the other its own or *)
(* none; the user's own file is broken or absent; the shipped one is in    *)
(* place or not installed.                                                 *)
(***************************************************************************)
MCFiles ==
    {f \in [Places -> MCCatalogs \cup {Broken, Absent}] :
        /\ f[d1] \in {MCCatalog1, Broken, Absent}
        /\ f[d2] \in {MCCatalog2, Absent}
        /\ f["user"] \in {Broken, Absent}
        /\ f["default"] \in {MCCatalog1, Absent}}
===============================================================================

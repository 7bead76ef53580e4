----------------------------- MODULE CactusShell -----------------------------
(***************************************************************************)
(* The shell of shell.cpp: the loop over the user's lines, the builtins,   *)
(* the catalog and the model it loads when the first request needs them,   *)
(* and the calls of a reply, run one after the other.  It runs every       *)
(* program through ProgramRun and asks the model through IndependentTurns. *)
(* The user, the file system and the programs are the environment.         *)
(***************************************************************************)
EXTENDS Integers, Sequences, FiniteSets

CONSTANTS Dirs,             \* directories a cd may reach
          Home,             \* $HOME, a directory, or NoHome
          NoHome,
          Nowhere,          \* a path no chdir reaches
          Empty,            \* the empty path
          Catalogs,         \* tool name -> [program, risky, in_process]
          Broken,           \* a config that read_spec or the parser refuses
          Absent,           \* no config file at a place
          InitialFiles,     \* what may be at the places when the shell starts
          Replies,          \* what the model may answer: [calls]
          Argument,         \* the program's first argument, or NotGiven
          Environment,      \* $CACTUS_NEEDLE_MODEL, or NotGiven
          DefaultModel,     \* where the build put the model
          NotGiven,
          ConfirmRisky,     \* ShellConfig.confirm_risky
          ExitCodes, Signals,
          Lines,            \* what the user may type
          MaxLines,         \* bound on the lines typed
          MaxEdits          \* bound on the edits of config files

(***************************************************************************)
(* Where config_candidates looks: a directory's own file, the user's, and  *)
(* the one whose path was baked in.                                        *)
(***************************************************************************)
Places == Dirs \cup {"user", "default"}

Calls == UNION {{r.calls[i] : i \in DOMAIN r.calls} : r \in Replies}

ASSUME ShellAssumption ==
    /\ \A c \in Catalogs : \A name \in DOMAIN c :
          c[name] \in [program : STRING, risky : BOOLEAN, in_process : BOOLEAN]
    /\ \A r \in Replies : r.calls \in Seq(Calls)
    /\ Home \in Dirs \cup {NoHome} /\ NoHome \notin Dirs
    /\ Nowhere \notin Dirs /\ Empty \notin Dirs
    /\ Broken \notin Catalogs /\ Absent \notin Catalogs
    /\ InitialFiles \subseteq [Places -> Catalogs \cup {Broken, Absent}]
    /\ ConfirmRisky \in BOOLEAN
    /\ 0 \in ExitCodes /\ ExitCodes \subseteq 0..255 /\ Signals \subseteq 1..64
    /\ MaxLines \in Nat /\ MaxEdits \in Nat

VARIABLES pc,               \* what the shell does next
          typed, eof,       \* lines read so far; input has ended
          cwd,
          files, edits,     \* what is at each place; edits so far
          mCatalog, mCatalogReady,
          mLoaded,          \* of mClient
          mModelReady,
          request,          \* the line sent to the model
          answer,           \* what mClient.ask returned
          calls,            \* the calls of the reply still to run
          command,          \* the one being run
          ran,              \* those started for this request, and how they did
          yeses,            \* confirmations given during this request
          stage, code, result

input   == <<typed, eof>>
config  == <<files, edits>>
catalog == <<mCatalog, mCatalogReady>>
client  == <<mLoaded, mModelReady, answer>>
reply   == <<request, calls, command, ran, yeses>>
program == <<stage, code, result>>
vars    == <<pc, input, cwd, config, catalog, client, reply, program>>

Execution == INSTANCE ProgramRun
Client    == INSTANCE IndependentTurns
                WITH Clients <- {"mClient"}, Prompts <- {"facts"}, Tools <- Catalogs,
                     mLoaded <- [c \in {"mClient"} |-> mLoaded],
                     mSystemPrompt <- [c \in {"mClient"} |-> "facts"]

NoCatalog == [name \in {} |-> 0]
NoLine    == [kind |-> "none"]
NoCommand == [call |-> NoLine, program |-> "", risky |-> FALSE,
              in_process |-> FALSE, args |-> <<>>]

Init ==
    /\ pc = "prompt"
    /\ typed = 0 /\ eof = FALSE
    /\ cwd \in Dirs
    /\ files \in InitialFiles /\ edits = 0
    /\ mCatalog = NoCatalog /\ mCatalogReady = FALSE
    /\ mLoaded = FALSE /\ mModelReady = FALSE
    /\ request = NoLine
    /\ answer = [outcome |-> "none"]
    /\ calls = <<>> /\ command = NoCommand /\ ran = <<>> /\ yeses = 0
    /\ Execution!Init

-------------------------------------------------------------------------------
(***************************************************************************)
(* The loop: getline fails for good once the input has ended; a line is a  *)
(* builtin or a request.                                                   *)
(***************************************************************************)
ReadLine(line) ==
    /\ ~eof /\ typed < MaxLines
    /\ typed' = typed + 1
    /\ UNCHANGED eof

EndOfInput ==
    /\ pc = "prompt"
    /\ pc' = "quit"
    /\ eof' = TRUE
    /\ UNCHANGED <<typed, cwd, config, catalog, client, reply, program>>

Blank(line) ==
    /\ pc = "prompt" /\ ReadLine(line)
    /\ line.kind = "blank"
    /\ UNCHANGED <<pc, cwd, config, catalog, client, reply, program>>

Exit(line) ==
    /\ pc = "prompt" /\ ReadLine(line)
    /\ line.kind = "exit"
    /\ pc' = "quit"
    /\ UNCHANGED <<cwd, config, catalog, client, reply, program>>

(***************************************************************************)
(* change_directory: an empty path is $HOME.  chdir may refuse any path.   *)
(***************************************************************************)
Target(path) == IF path = Empty THEN Home ELSE path

Moved(path) == Target(path) \in Dirs /\ cwd' = Target(path)

(***************************************************************************)
(* "cd", or "cd " and what follows: no word for $HOME, or one; with more,  *)
(* and when the quotes do not close, the shell stays where it is.  A tab   *)
(* after cd makes it no builtin.                                           *)
(***************************************************************************)
IsBuiltinCd(line) == line.kind = "cd" /\ line.after = "space"

Cd(line) ==
    /\ pc = "prompt" /\ ReadLine(line)
    /\ IsBuiltinCd(line)
    /\ \/ Len(line.words) = 0 /\ Moved(Empty)
       \/ Len(line.words) = 1 /\ Moved(line.words[1])
       \/ UNCHANGED cwd
    /\ UNCHANGED <<pc, config, catalog, client, reply, program>>

IsRequest(line) == line.kind \notin {"blank", "exit"} /\ ~IsBuiltinCd(line)

MutModelFirst(line) ==
    /\ pc = "prompt" /\ ReadLine(line)
    /\ IsRequest(line)
    /\ pc' = "model"
    /\ request' = line
    /\ calls' = <<>> /\ command' = NoCommand /\ ran' = <<>> /\ yeses' = 0
    /\ UNCHANGED <<cwd, config, catalog, client, program>>
Request(line) ==
    /\ pc = "prompt" /\ ReadLine(line)
    /\ IsRequest(line)
    /\ pc' = "catalog"
    /\ request' = line
    /\ calls' = <<>> /\ command' = NoCommand /\ ran' = <<>> /\ yeses' = 0
    /\ UNCHANGED <<cwd, config, catalog, client, program>>

-------------------------------------------------------------------------------
(***************************************************************************)
(* handle_request: the catalog, then the model, then the question.  Any    *)
(* failure is reported and the shell is back at its prompt.                *)
(***************************************************************************)
BackToPrompt == pc' = "prompt"

Candidates ==
    IF Home = NoHome THEN <<cwd, "default">> ELSE <<cwd, "user", "default">>

Exists(i) == files[Candidates[i]] # Absent

(***************************************************************************)
(* discover() loads the first candidate that exists, broken or not.        *)
(***************************************************************************)
MutSkipsBroken ==
    LET Works(i) == Exists(i) /\ files[Candidates[i]] # Broken
        good == {i \in DOMAIN Candidates : Works(i)}
    IN  IF good = {} THEN Absent
        ELSE files[Candidates[CHOOSE i \in good : \A j \in good : i <= j]]
Discover ==
    LET found == {i \in DOMAIN Candidates : Exists(i)}
    IN  IF found = {} THEN Absent
        ELSE files[Candidates[CHOOSE i \in found : \A j \in found : i <= j]]

LoadCatalog ==
    /\ pc = "catalog"
    /\ ~mCatalogReady
    /\ Discover \in Catalogs
    /\ mCatalog' = Discover
    /\ mCatalogReady' = TRUE
    /\ pc' = "model"
    /\ UNCHANGED <<input, cwd, config, client, reply, program>>

MutNoCatalogRetries ==
    /\ pc = "catalog"
    /\ ~mCatalogReady
    /\ Discover \notin Catalogs
    /\ UNCHANGED vars
NoCatalogFound ==
    /\ pc = "catalog"
    /\ ~mCatalogReady
    /\ Discover \notin Catalogs
    /\ BackToPrompt
    /\ UNCHANGED <<input, cwd, config, catalog, client, reply, program>>

HasCatalog ==
    /\ pc = "catalog"
    /\ mCatalogReady
    /\ pc' = "model"
    /\ UNCHANGED <<input, cwd, config, catalog, client, reply, program>>

(***************************************************************************)
(* An argument or a variable that is empty is given all the same.          *)
(***************************************************************************)
from_args ==
    IF Argument # NotGiven THEN Argument
    ELSE IF Environment # NotGiven THEN Environment ELSE DefaultModel

LoadModel ==
    /\ pc = "model"
    /\ ~mModelReady /\ from_args # Empty
    /\ mLoaded' = TRUE
    /\ mModelReady' = TRUE
    /\ pc' = "ask"
    /\ UNCHANGED <<input, cwd, config, catalog, answer, reply, program>>

(***************************************************************************)
(* There is no path, the file cannot be read or the engine refuses it.     *)
(***************************************************************************)
MutReadyBeforeLoad ==
    /\ pc = "model"
    /\ ~mModelReady
    /\ mLoaded' = FALSE
    /\ mModelReady' = TRUE
    /\ BackToPrompt
    /\ UNCHANGED <<input, cwd, config, catalog, answer, reply, program>>
NoModel ==
    /\ pc = "model"
    /\ ~mModelReady
    /\ mLoaded' = FALSE
    /\ BackToPrompt
    /\ UNCHANGED <<input, cwd, config, catalog, mModelReady, answer, reply, program>>

HasModel ==
    /\ pc = "model"
    /\ mModelReady
    /\ pc' = "ask"
    /\ UNCHANGED <<input, cwd, config, catalog, client, reply, program>>

(***************************************************************************)
(* The catalog's schema goes with the request.                             *)
(***************************************************************************)
Ask ==
    /\ pc = "ask"
    /\ UNCHANGED <<input, cwd, config, catalog, mLoaded, mModelReady, request,
                   command, ran, yeses, program>>
    /\ Client!Ask("mClient", mCatalog)
    /\ calls' = answer'.calls
    /\ IF answer'.outcome = "reply" /\ answer'.calls # <<>>
       THEN pc' = "call" ELSE BackToPrompt

-------------------------------------------------------------------------------
(***************************************************************************)
(* run_call, for one call after the other.  A call that fails in any way   *)
(* abandons the rest of the reply.                                         *)
(***************************************************************************)
Abandon == BackToPrompt /\ calls' = <<>>

(***************************************************************************)
(* command_from_tool_call: the call names an entry of the catalog, and its *)
(* arguments can be read as that entry's argv.                             *)
(***************************************************************************)
Buildable(call) == call.name \in DOMAIN mCatalog /\ call.fault = "none"

RunCall ==
    /\ pc = "call" /\ calls # <<>>
    /\ Buildable(Head(calls))
    /\ calls' = Tail(calls)
    /\ LET call == Head(calls)
           spec == mCatalog[call.name]
       IN  /\ command' = [call |-> call, program |-> spec.program, risky |-> spec.risky,
                          in_process |-> spec.in_process, args |-> call.args]
           /\ pc' = IF spec.risky /\ ConfirmRisky THEN "confirm" ELSE "start"
    /\ UNCHANGED <<input, cwd, config, catalog, client, request, ran, yeses, program>>

Unbuildable ==
    /\ pc = "call" /\ calls # <<>>
    /\ ~Buildable(Head(calls))
    /\ Abandon
    /\ UNCHANGED <<input, cwd, config, catalog, client, request, command, ran, yeses,
                   program>>

ReplyDone ==
    /\ pc = "call" /\ calls = <<>>
    /\ BackToPrompt
    /\ UNCHANGED <<input, cwd, config, catalog, client, reply, program>>

(***************************************************************************)
(* confirm: the next line, whatever it was typed for, is the answer.       *)
(***************************************************************************)
Confirm(line) ==
    /\ pc = "confirm" /\ ReadLine(line)
    /\ line.kind = "yes"
    /\ yeses' = yeses + 1
    /\ pc' = "start"
    /\ UNCHANGED <<cwd, config, catalog, client, request, calls, command, ran, program>>

Decline(line) ==
    /\ pc = "confirm" /\ ReadLine(line)
    /\ line.kind # "yes"
    /\ Abandon
    /\ UNCHANGED <<cwd, config, catalog, client, request, command, ran, yeses, program>>

MutEofConfirms ==
    /\ pc = "confirm"
    /\ eof' = TRUE
    /\ pc' = "start"
    /\ UNCHANGED <<typed, cwd, config, catalog, client, reply, program>>
EofDeclines ==
    /\ pc = "confirm"
    /\ eof' = TRUE
    /\ Abandon
    /\ UNCHANGED <<typed, cwd, config, catalog, client, request, command, ran, yeses,
                   program>>

Begun(how) ==
    Append(ran, [call |-> command.call, program |-> command.program,
                 risky |-> command.risky, how |-> how])

(***************************************************************************)
(* cd in the shell's own process: the first argument, or $HOME.            *)
(***************************************************************************)
MutCdReloads ==
    /\ pc = "start" /\ command.in_process
    /\ LET path == IF command.args = <<>> THEN Empty ELSE Head(command.args)
       IN  Moved(path)
    /\ ran' = Begun("ok")
    /\ pc' = "call"
    /\ UNCHANGED <<input, config, mCatalogReady, client, request, calls, command,
                   yeses, program>>
    /\ mCatalog' = IF Discover' \in Catalogs THEN Discover' ELSE mCatalog
StartCd ==
    /\ pc = "start" /\ command.in_process
    /\ LET path == IF command.args = <<>> THEN Empty ELSE Head(command.args)
       IN  \/ /\ Moved(path)
              /\ ran' = Begun("ok")
              /\ pc' = "call"
              /\ UNCHANGED calls
           \/ /\ UNCHANGED cwd
              /\ ran' = Begun("failed")
              /\ Abandon
    /\ UNCHANGED <<input, config, catalog, client, request, command, yeses, program>>

StartProgram ==
    /\ pc = "start" /\ ~command.in_process
    /\ Execution!Request
    /\ ran' = Begun("going")
    /\ pc' = "run"
    /\ UNCHANGED <<input, cwd, config, catalog, client, request, calls, command, yeses>>

Executing ==
    /\ pc = "run"
    /\ \/ Execution!NotStarted \/ Execution!KilledEarly
       \/ Execution!Start \/ Execution!Return
    /\ UNCHANGED <<pc, input, cwd, config, catalog, client, reply>>

ProgramEnds ==
    /\ pc = "run"
    /\ Execution!End
    /\ UNCHANGED <<pc, input, cwd, config, catalog, client, reply>>

Returned == pc = "run" /\ stage = "idle"

MutIgnoresStatus == Returned /\ result.error = "none"
Succeeded == Returned /\ result = Execution!Status(0)

Finish ==
    /\ Returned
    /\ ran' = [ran EXCEPT ![Len(ran)].how =
                  IF result = Execution!Status(0) THEN "ok" ELSE "failed"]
    /\ IF Succeeded THEN pc' = "call" /\ UNCHANGED calls ELSE Abandon
    /\ UNCHANGED <<input, cwd, config, catalog, client, request, command, yeses, program>>

-------------------------------------------------------------------------------
(***************************************************************************)
(* Somebody edits, adds or removes a config file.                          *)
(***************************************************************************)
Edit(place, content) ==
    /\ edits < MaxEdits
    /\ files' = [files EXCEPT ![place] = content]
    /\ edits' = edits + 1
    /\ UNCHANGED <<pc, input, cwd, catalog, client, reply, program>>

Terminated == pc = "quit" /\ UNCHANGED vars

UserTypes(line) ==
    \/ Blank(line) \/ Exit(line) \/ Cd(line) \/ Request(line)
    \/ Confirm(line) \/ Decline(line)

ShellStep ==
    \/ LoadCatalog \/ NoCatalogFound \/ HasCatalog
    \/ LoadModel \/ NoModel \/ HasModel \/ Ask
    \/ RunCall \/ Unbuildable \/ ReplyDone
    \/ StartCd \/ StartProgram \/ Executing \/ Finish

Next ==
    \/ \E line \in Lines : UserTypes(line)
    \/ EndOfInput \/ EofDeclines
    \/ ShellStep \/ ProgramEnds
    \/ \E p \in Places, x \in Catalogs \cup {Broken, Absent} : Edit(p, x)
    \/ Terminated

(***************************************************************************)
(* The shell's own steps and execute's happen; the user need not type and  *)
(* a program need not end.                                                 *)
(***************************************************************************)
Fairness == WF_vars(ShellStep)

Spec == Init /\ [][Next]_vars /\ Fairness

-------------------------------------------------------------------------------
(***************************************************************************)
(* Every variable keeps to its type.                                       *)
(***************************************************************************)
TypeOK ==
    /\ pc \in {"prompt", "catalog", "model", "ask", "call", "confirm", "start",
               "run", "quit"}
    /\ typed \in 0..MaxLines /\ eof \in BOOLEAN
    /\ cwd \in Dirs
    /\ files \in [Places -> Catalogs \cup {Broken, Absent}]
    /\ edits \in 0..MaxEdits
    /\ mCatalog \in Catalogs \cup {NoCatalog}
    /\ mCatalogReady \in BOOLEAN /\ mLoaded \in BOOLEAN /\ mModelReady \in BOOLEAN
    /\ request \in Lines \cup {NoLine}
    /\ yeses \in Nat
    /\ Execution!TypeOK

RiskyIn(commands) == Cardinality({i \in DOMAIN commands : commands[i].risky})

(***************************************************************************)
(* Every risky command that starts has used up a yes of its own, typed     *)
(* while this request was running: neither a yes to an earlier command of  *)
(* the reply nor the end of the input starts one (shell.cpp:156-158).      *)
(***************************************************************************)
RiskyNeedsOwnYes ==
    ConfirmRisky => RiskyIn(ran) <= yeses

(***************************************************************************)
(* "Runs them in order and stops at the first failure" (README.md:24):     *)
(* what was started is a prefix of the reply, and all of it but the last   *)
(* succeeded.                                                              *)
(***************************************************************************)
StopsAtFirstFailure ==
    /\ Len(ran) > 0 => Len(ran) <= Len(answer.calls)
    /\ \A i \in DOMAIN ran :
          /\ ran[i].call = answer.calls[i]
          /\ i < Len(ran) => ran[i].how = "ok"

(***************************************************************************)
(* The model picks from the catalog it was shown and nothing else can run  *)
(* (tools.h:64-66): every command is the program, with the confirmation,   *)
(* that the schema sent with this request had under that name, although    *)
(* config files and the directory change under way.                        *)
(***************************************************************************)
RanAsOffered ==
    \A i \in DOMAIN ran :
        LET name == ran[i].call.name
        IN  /\ name \in DOMAIN answer.tools
            /\ ran[i].program = answer.tools[name].program
            /\ ran[i].risky = answer.tools[name].risky

(***************************************************************************)
(* The shell's flag and its client agree: a request never meets a client   *)
(* without a model, after any failed load (shell.cpp:223-241).             *)
(***************************************************************************)
NeverAsksUnloaded == answer.outcome # "NotLoaded"

(***************************************************************************)
(* "Catalog first" (shell.cpp:115-116): no weights are loaded before the   *)
(* session has a catalog.                                                  *)
(***************************************************************************)
CatalogBeforeModel == mLoaded => mCatalogReady

(***************************************************************************)
(* "The first that exists wins" (tools.h:81-83): a catalog is never taken  *)
(* from behind a file that exists, even a broken one.                      *)
(***************************************************************************)
NothingSkipped ==
    [][(mCatalogReady' /\ ~mCatalogReady) =>
         \E i \in DOMAIN Candidates :
            /\ mCatalog' = files[Candidates[i]]
            /\ \A j \in 1..(i - 1) : files[Candidates[j]] = Absent]_vars

(***************************************************************************)
(* Whatever fails, the shell comes back: over and over it is at its        *)
(* prompt, asks for a confirmation, has quit, or waits for a program that  *)
(* is still running.                                                       *)
(***************************************************************************)
AlwaysComesBack ==
    []<>(pc \in {"prompt", "confirm", "quit"} \/ stage = "running")

-------------------------------------------------------------------------------
(***************************************************************************)
(* The invariant the proofs use: what the shell holds at each point of a   *)
(* request.                                                                *)
(***************************************************************************)
Asking  == pc \in {"catalog", "model", "ask"}
Calling == pc \in {"call", "confirm", "start", "run"}

Begins == [call : Calls, program : STRING, risky : BOOLEAN,
           how : {"going", "ok", "failed"}]

ReplyTypes ==
    /\ calls \in Seq(Calls)
    /\ ran \in Seq(Begins)
    /\ yeses \in Nat
    /\ mCatalog \in Catalogs \cup {NoCatalog}
    /\ pc \in {"confirm", "start", "run"} =>
          /\ command.call \in Calls /\ command.program \in STRING
          /\ command.risky \in BOOLEAN

Readiness ==
    /\ (Calling \/ pc \in {"model", "ask"}) => mCatalogReady
    /\ mModelReady => mLoaded
    /\ mLoaded => mCatalogReady
    /\ pc = "ask" => mModelReady
    /\ answer.outcome # "NotLoaded"

(***************************************************************************)
(* The reply is what ran, what is about to run and what is left, in order. *)
(***************************************************************************)
Taken == IF pc \in {"confirm", "start"} THEN Len(ran) + 1 ELSE Len(ran)

Progress ==
    /\ Asking => ran = <<>>
    /\ Calling =>
          /\ answer.calls \in Seq(Calls)
          /\ Len(answer.calls) = Taken + Len(calls)
          /\ \A i \in 1..Len(calls) : calls[i] = answer.calls[Taken + i]
    /\ pc \in {"confirm", "start"} => command.call = answer.calls[Taken]
    /\ pc \in {"call", "confirm", "start"} => \A i \in DOMAIN ran : ran[i].how = "ok"
    /\ pc = "run" => Len(ran) > 0

Offer ==
    /\ Calling => answer.tools = mCatalog
    /\ pc \in {"confirm", "start", "run"} =>
          /\ command.call.name \in DOMAIN mCatalog
          /\ command.program = mCatalog[command.call.name].program
          /\ command.risky = mCatalog[command.call.name].risky

Consent ==
    (ConfirmRisky /\ pc = "start" /\ command.risky) => RiskyIn(ran) + 1 <= yeses

IInv ==
    /\ ReplyTypes /\ Readiness /\ Progress /\ Offer /\ Consent
    /\ StopsAtFirstFailure /\ RanAsOffered /\ RiskyNeedsOwnYes

-------------------------------------------------------------------------------
(***************************************************************************)
(* "cd-ing into a directory picks up that directory's catalog"             *)
(* (README.md:60-61): a request is answered from the catalog of the        *)
(* directory it is typed in, if that has one.                              *)
(***************************************************************************)
CdPicksUpCatalog ==
    (pc = "ask" /\ edits = 0 /\ files[cwd] \in Catalogs) => mCatalog = files[cwd]

(***************************************************************************)
(* "cd, exit, and quit are handled in-process and never reach the model"   *)
(* (README.md:117).                                                        *)
(***************************************************************************)
BuiltinsNeverReachModel == pc = "ask" => request.kind # "cd"

===============================================================================

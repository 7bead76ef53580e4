----------------------------- MODULE NeedleClient -----------------------------
(***************************************************************************)
(* needle.cpp: the clients of the Needle 3 engine.  The engine is one per  *)
(* process, with one text model, one static prefix (session facts and      *)
(* tools) and one conversation.  Clients share it, and share the record    *)
(* gConfiguredPrefix of how it was last initialised, which lets a client   *)
(* skip needle_init.  Everything runs on one thread, so an operation of a  *)
(* client is one step, with every engine call it makes.                    *)
(***************************************************************************)
EXTENDS Integers, Sequences, JsonValue

CONSTANTS Clients,
          Prompts,          \* session facts a client may be built with
          NoPrompt,         \* the empty one
          Tools,            \* tool schemas a caller may pass
          Models,           \* the text models that .cact files hold
          NoModel,
          Replies,          \* what the engine may answer: [length, text]
          Capacity          \* the size of mBuffer, 65536 in the code

(***************************************************************************)
(* What the JSON library makes of a reply, as far down as it is read.      *)
(***************************************************************************)
IsReply(text) ==
    /\ IsValue(text)
    /\ HasFields(text, {"success", "function_calls"})
    /\ (text.type = "object" /\ text.fields.function_calls.type = "array") =>
          LET items == text.fields.function_calls.items
          IN  \A i \in DOMAIN items :
                 IsValue(items[i]) /\ HasFields(items[i], {"name", "arguments"})

ASSUME NeedleAssumption ==
    /\ NoPrompt \in Prompts
    /\ NoModel \notin Models
    /\ Capacity \in Nat \ {0}
    /\ \A reply \in Replies : reply.length \in Nat /\ IsReply(reply.text)

VARIABLES model,              \* engine: the text model, or NoModel
          prefix,             \* engine: what needle_init last set up
          conversation,       \* engine: it remembers an earlier turn
          gConfiguredPrefix,  \* the clients' record of prefix
          mLoaded,
          mSystemPrompt,
          mBuffer,            \* the size of each client's buffer
          answer,             \* what the last ask returned, and how
          made                \* what the engine said to it

engine  == <<model, prefix, conversation>>
clients == <<mLoaded, mSystemPrompt, mBuffer>>
asked   == <<answer, made>>
vars    == <<engine, gConfiguredPrefix, clients, asked>>

Silence == [length |-> 0, text |-> Garbage]

Unset   == [set |-> FALSE]
Key(p, t) == [set |-> TRUE, prompt |-> p, tools |-> t]
Keys == {Key(p, t) : p \in Prompts, t \in Tools}

Init ==
    /\ model = NoModel
    /\ prefix = Unset
    /\ conversation = FALSE
    /\ gConfiguredPrefix = Unset
    /\ mLoaded = [c \in Clients |-> FALSE]
    /\ mSystemPrompt \in [Clients -> Prompts]
    /\ mBuffer = [c \in Clients |-> Capacity]
    /\ answer = [outcome |-> "none"]
    /\ made = Silence

-------------------------------------------------------------------------------
MutRoomForZero(c, p) ==
    /\ mLoaded' = [mLoaded EXCEPT ![c] = FALSE]
    /\ mSystemPrompt' = [mSystemPrompt EXCEPT ![c] = p]
    /\ mBuffer' = [mBuffer EXCEPT ![c] = Capacity + 1]
    /\ UNCHANGED <<engine, gConfiguredPrefix, asked>>
Construct(c, p) ==
    /\ mLoaded' = [mLoaded EXCEPT ![c] = FALSE]
    /\ mSystemPrompt' = [mSystemPrompt EXCEPT ![c] = p]
    /\ mBuffer' = [mBuffer EXCEPT ![c] = Capacity]
    /\ UNCHANGED <<engine, gConfiguredPrefix, asked>>

(***************************************************************************)
(* The move constructor and the move assignment, which guards against      *)
(* itself.  The source is left with no facts and no buffer.                *)
(***************************************************************************)
Move(from, to) ==
    /\ from # to
    /\ mSystemPrompt' = [mSystemPrompt EXCEPT ![to] = mSystemPrompt[from],
                                              ![from] = NoPrompt]
    /\ mLoaded' = [mLoaded EXCEPT ![to] = mLoaded[from], ![from] = FALSE]
    /\ mBuffer' = [mBuffer EXCEPT ![to] = mBuffer[from], ![from] = 0]
    /\ UNCHANGED <<engine, gConfiguredPrefix, asked>>

Unload(c) ==
    /\ mLoaded' = [mLoaded EXCEPT ![c] = FALSE]
    /\ UNCHANGED <<engine, gConfiguredPrefix, mSystemPrompt, mBuffer, asked>>

(***************************************************************************)
(* load() detaches the client first.  The file cannot be read:             *)
(***************************************************************************)
LoadUnreadable(c) == Unload(c)

(***************************************************************************)
(* the engine refuses it, and may have dropped its text model by then:     *)
(***************************************************************************)
LoadRejected(c) ==
    /\ model' \in {model, NoModel}
    /\ mLoaded' = [mLoaded EXCEPT ![c] = FALSE]
    /\ UNCHANGED <<prefix, conversation, gConfiguredPrefix, mSystemPrompt,
                   mBuffer, asked>>

(***************************************************************************)
(* it holds a text model, which replaces the one every client sees:        *)
(***************************************************************************)
MutLoadKeepsPrefix(c, m) ==
    /\ model' = m
    /\ prefix' = Unset
    /\ conversation' = FALSE
    /\ mLoaded' = [mLoaded EXCEPT ![c] = TRUE]
    /\ UNCHANGED <<gConfiguredPrefix, mSystemPrompt, mBuffer, asked>>
LoadText(c, m) ==
    /\ model' = m
    /\ prefix' = Unset
    /\ conversation' = FALSE
    /\ gConfiguredPrefix' = Unset
    /\ mLoaded' = [mLoaded EXCEPT ![c] = TRUE]
    /\ UNCHANGED <<mSystemPrompt, mBuffer, asked>>

(***************************************************************************)
(* it holds a speech model, which leaves the text model alone.             *)
(***************************************************************************)
LoadSpeech(c) ==
    /\ gConfiguredPrefix' = Unset
    /\ mLoaded' = [mLoaded EXCEPT ![c] = TRUE]
    /\ UNCHANGED <<engine, mSystemPrompt, mBuffer, asked>>

Reset(c) ==
    /\ conversation' = (conversation /\ ~mLoaded[c])
    /\ UNCHANGED <<model, prefix, gConfiguredPrefix, clients, asked>>

-------------------------------------------------------------------------------
(***************************************************************************)
(* ask(): not loaded; or configure() finds the engine set up already or    *)
(* initialises it, the conversation is reset, and the engine completes.    *)
(***************************************************************************)
Answer(c, t, outcome, saw, earlier, calls) ==
    [client |-> c, prompt |-> mSystemPrompt[c], tools |-> t, outcome |-> outcome,
     saw |-> saw, earlier |-> earlier, calls |-> calls]

Unanswered(c, t, error) ==
    /\ answer' = Answer(c, t, error, Unset, FALSE, <<>>)
    /\ made' = Silence

AskUnloaded(c, t) ==
    /\ ~mLoaded[c]
    /\ Unanswered(c, t, "NotLoaded")
    /\ UNCHANGED <<engine, gConfiguredPrefix, clients>>

(***************************************************************************)
(* needle_init fails; what it left in the engine is unknown.               *)
(***************************************************************************)
MutRejectedKeepsRecord(c, t) ==
    /\ mLoaded[c]
    /\ gConfiguredPrefix # Key(mSystemPrompt[c], t)
    /\ prefix' \in Keys \cup {Unset}
    /\ Unanswered(c, t, "ToolsRejected")
    /\ UNCHANGED <<model, conversation, gConfiguredPrefix, clients>>
AskRejected(c, t) ==
    /\ mLoaded[c]
    /\ gConfiguredPrefix # Key(mSystemPrompt[c], t)
    /\ prefix' \in Keys \cup {Unset}
    /\ gConfiguredPrefix' = Unset
    /\ Unanswered(c, t, "ToolsRejected")
    /\ UNCHANGED <<model, conversation, clients>>

(***************************************************************************)
(* configure() that succeeds: needle_init needs a text model.              *)
(***************************************************************************)
MutConfigureOnce(key) ==
    \/ /\ gConfiguredPrefix # Unset
       /\ UNCHANGED <<prefix, gConfiguredPrefix>>
    \/ /\ gConfiguredPrefix = Unset
       /\ model # NoModel
       /\ prefix' = key
       /\ gConfiguredPrefix' = key
Configure(key) ==
    \/ /\ gConfiguredPrefix = key
       /\ UNCHANGED <<prefix, gConfiguredPrefix>>
    \/ /\ gConfiguredPrefix # key
       /\ model # NoModel
       /\ prefix' = key
       /\ gConfiguredPrefix' = key

AskFails(c, t) ==
    /\ mLoaded[c]
    /\ Configure(Key(mSystemPrompt[c], t))
    /\ conversation' \in BOOLEAN
    /\ Unanswered(c, t, "CompletionFailed")
    /\ UNCHANGED <<model, clients>>

(***************************************************************************)
(* needle_reset before needle_complete: does the engine still remember an  *)
(* earlier turn?                                                           *)
(***************************************************************************)
MutNoReset == conversation
Remembers  == FALSE

(***************************************************************************)
(* The engine writes what fits and a terminating zero; strnlen then finds  *)
(* this many characters.                                                   *)
(***************************************************************************)
Stored(c, reply) ==
    IF reply.length < mBuffer[c] THEN reply.length
    ELSE IF mBuffer[c] = 0 THEN 0 ELSE mBuffer[c] - 1

MutOffByOne(c, reply) == Stored(c, reply) + 1 > mBuffer[c]
Truncated(c, reply)   == Stored(c, reply) + 1 >= mBuffer[c]

(***************************************************************************)
(* parse_reply of a text that is all there.  One call without a name makes *)
(* the whole reply malformed, a call without arguments has none of them,   *)
(* and calls that are not in an array are no calls.                        *)
(***************************************************************************)
Unread(error) == [outcome |-> error, calls |-> <<>>]

ToolCall(item) ==
    LET arguments == lookup(item, "arguments")
    IN  [name |-> json_string(item, "name").str,
         arguments |-> IF arguments.type = "error" THEN NoFields ELSE arguments]

MutSkipsNameless(items) ==
    LET named(item) == json_string(item, "name").type = "string"
    IN  [outcome |-> "reply", calls |-> [i \in DOMAIN SelectSeq(items, named) |->
                                            ToolCall(SelectSeq(items, named)[i])]]
ReadCalls(items) ==
    IF \E i \in DOMAIN items : json_string(items[i], "name").type = "error"
    THEN Unread("MalformedResponse")
    ELSE [outcome |-> "reply", calls |-> [i \in DOMAIN items |-> ToolCall(items[i])]]

parse_reply(root) ==
    LET success == json_bool(root, "success")
        calls   == json_array(root, "function_calls")
    IN  CASE success.type = "error" -> Unread("MalformedResponse")
          [] success.type = "boolean" /\ ~success.bool -> Unread("ModelReportedError")
          [] OTHER ->
                ReadCalls(IF calls.type = "array" THEN calls.items ELSE <<>>)

AskAnswered(c, t, reply) ==
    /\ mLoaded[c]
    /\ Configure(Key(mSystemPrompt[c], t))
    /\ model # NoModel
    /\ conversation' = TRUE
    /\ LET read == IF Truncated(c, reply) THEN Unread("ResponseTruncated")
                   ELSE parse_reply(reply.text)
       IN  answer' = IF read.outcome = "reply"
                     THEN Answer(c, t, read.outcome, prefix', Remembers, read.calls)
                     ELSE Answer(c, t, read.outcome, Unset, FALSE, <<>>)
    /\ made' = reply
    /\ UNCHANGED <<model, clients>>

-------------------------------------------------------------------------------
OneClient(c) ==
    \/ \E p \in Prompts : Construct(c, p)
    \/ \E to \in Clients : Move(c, to)
    \/ Unload(c) \/ Reset(c)
    \/ LoadUnreadable(c) \/ LoadRejected(c) \/ LoadSpeech(c)
    \/ \E m \in Models : LoadText(c, m)

Ask(c, t) ==
    \/ AskUnloaded(c, t) \/ AskRejected(c, t) \/ AskFails(c, t)
    \/ \E reply \in Replies : AskAnswered(c, t, reply)

Next ==
    \/ \E c \in Clients : OneClient(c)
    \/ \E c \in Clients, t \in Tools : Ask(c, t)

Spec == Init /\ [][Next]_vars

-------------------------------------------------------------------------------
Outcomes == {"NotLoaded", "ToolsRejected", "CompletionFailed", "ResponseTruncated",
             "MalformedResponse", "ModelReportedError", "reply"}

(***************************************************************************)
(* Every variable keeps to its type.                                       *)
(***************************************************************************)
TypeOK ==
    /\ model \in Models \cup {NoModel}
    /\ prefix \in Keys \cup {Unset}
    /\ conversation \in BOOLEAN
    /\ gConfiguredPrefix \in Keys \cup {Unset}
    /\ mLoaded \in [Clients -> BOOLEAN]
    /\ mSystemPrompt \in [Clients -> Prompts]
    /\ mBuffer \in [Clients -> {0, Capacity}]
    /\ answer.outcome \in Outcomes \cup {"none"}
    /\ made \in Replies \cup {Silence}

(***************************************************************************)
(* Skipping needle_init is only right while the record is: whatever        *)
(* clients load, fail to load or reconfigure in between, a record that is  *)
(* set describes the engine, unless the engine has no model to describe    *)
(* (needle.cpp:23-27).                                                     *)
(***************************************************************************)
MirrorSound ==
    (gConfiguredPrefix # Unset /\ model # NoModel) => prefix = gConfiguredPrefix

(***************************************************************************)
(* "Each ask() is an independent turn" (needle.h:47): a reply was made     *)
(* from the asker's own facts and the tools it passed, and from no earlier *)
(* turn, its own or another client's.                                      *)
(***************************************************************************)
OwnAnswers ==
    answer.outcome = "reply" =>
        answer.saw = Key(answer.prompt, answer.tools) /\ ~answer.earlier

(***************************************************************************)
(* A reply that may have lost its tail is never read, as a call list, as a *)
(* model error or as malformed (needle.cpp:205-210).                       *)
(***************************************************************************)
WholeReplies ==
    answer.outcome \in {"reply", "MalformedResponse", "ModelReportedError"} =>
        made.length + 1 < Capacity

(***************************************************************************)
(* The shell runs calls in order and stops at the first failure, so a call *)
(* silently dropped from the middle would change what the rest does: a     *)
(* reply is handed on with every call the model made, each under its name  *)
(* and with what it was given, or not at all.                              *)
(***************************************************************************)
AllOrNothing ==
    answer.outcome = "reply" =>
        LET said == made.text.fields.function_calls
        IN  IF said.type # "array" THEN answer.calls = <<>>
            ELSE /\ Len(answer.calls) = Len(said.items)
                 /\ \A i \in DOMAIN said.items :
                       LET item == said.items[i]
                       IN  /\ item.type = "object"
                           /\ item.fields.name = Str(answer.calls[i].name)
                           /\ item.fields.arguments \in {Missing, answer.calls[i].arguments}

(***************************************************************************)
(* Sharing the engine and caching its configuration cannot be told from    *)
(* an engine of one's own: NeedleClient implements IndependentTurns.       *)
(***************************************************************************)
Turns == INSTANCE IndependentTurns
            WITH Replies <- {parse_reply(reply.text) : reply \in Replies}

ImplementsIndependentTurns == Turns!Spec

===============================================================================

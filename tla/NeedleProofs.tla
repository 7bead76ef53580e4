---------------------------- MODULE NeedleProofs ----------------------------
(***************************************************************************)
(* Proofs about NeedleClient for any number of clients, facts, schemas,    *)
(* models and replies, and any buffer size.                                *)
(***************************************************************************)
EXTENDS NeedleClient, TLAPS

USE NeedleAssumption

(***************************************************************************)
(* Whatever the text, parse_reply returns calls or one of two errors.      *)
(***************************************************************************)
LEMMA ParseOutcomes ==
    ASSUME NEW root
    PROVE  parse_reply(root).outcome \in
               {"MalformedResponse", "ModelReportedError", "reply"}
<1>1. ASSUME NEW items
      PROVE  ReadCalls(items).outcome \in {"MalformedResponse", "reply"}
  BY DEF ReadCalls, Unread
<1> DEFINE items == IF json_array(root, "function_calls").type = "array"
                    THEN json_array(root, "function_calls").items ELSE <<>>
<1>2. parse_reply(root) \in {Unread("MalformedResponse"), Unread("ModelReportedError"),
                             ReadCalls(items)}
  BY DEF parse_reply
<1> QED
  BY <1>1, <1>2 DEF Unread

(***************************************************************************)
(* Type correctness is inductive.                                          *)
(***************************************************************************)
LEMMA TypeNext == TypeOK /\ [Next]_vars => TypeOK'
<1> SUFFICES ASSUME TypeOK, [Next]_vars PROVE TypeOK'
  OBVIOUS
<1> USE DEF TypeOK, vars, engine, clients, asked
<1>1. ASSUME NEW c \in Clients, OneClient(c)
      PROVE  TypeOK'
  <2>1. CASE \E p \in Prompts : Construct(c, p)
    BY <2>1 DEF Construct
  <2>2. CASE \E to \in Clients : Move(c, to)
    BY <2>2 DEF Move
  <2>3. CASE Unload(c) \/ Reset(c) \/ LoadUnreadable(c) \/ LoadRejected(c)
    BY <2>3 DEF Unload, Reset, LoadUnreadable, LoadRejected
  <2>4. CASE LoadSpeech(c) \/ \E m \in Models : LoadText(c, m)
    BY <2>4 DEF LoadSpeech, LoadText
  <2> QED
    BY <1>1, <2>1, <2>2, <2>3, <2>4 DEF OneClient
<1>2. ASSUME NEW c \in Clients, NEW t \in Tools, Ask(c, t)
      PROVE  TypeOK'
  <2>1. Key(mSystemPrompt[c], t) \in Keys
    BY DEF Keys
  <2>2. ASSUME NEW key \in Keys, Configure(key)
        PROVE  prefix' \in Keys \cup {Unset} /\ gConfiguredPrefix' \in Keys \cup {Unset}
    BY <2>2 DEF Configure
  <2>3. CASE AskUnloaded(c, t) \/ AskRejected(c, t)
    BY <2>3 DEF AskUnloaded, AskRejected, Unanswered, Answer, Outcomes
  <2>4. CASE AskFails(c, t)
    BY <2>1, <2>2, <2>4 DEF AskFails, Unanswered, Answer, Outcomes
  <2>5. ASSUME NEW reply \in Replies, AskAnswered(c, t, reply)
        PROVE  TypeOK'
    <3>1. answer'.outcome \in Outcomes
      BY <2>5, ParseOutcomes DEF AskAnswered, Answer, Unread, Outcomes
    <3> QED
      BY <2>1, <2>2, <2>5, <3>1 DEF AskAnswered
  <2> QED
    BY <1>2, <2>3, <2>4, <2>5 DEF Ask
<1>3. CASE UNCHANGED vars
  BY <1>3
<1> QED
  BY <1>1, <1>2, <1>3 DEF Next

(***************************************************************************)
(* Every variable of the clients and the engine keeps to its type.         *)
(***************************************************************************)
THEOREM TypeCorrect == Spec => []TypeOK
<1>1. Init => TypeOK
  <2> SUFFICES ASSUME Init PROVE TypeOK
    OBVIOUS
  <2>1. mLoaded \in [Clients -> BOOLEAN] /\ mBuffer \in [Clients -> {0, Capacity}]
    BY DEF Init
  <2>2. answer.outcome = "none"
    BY DEF Init
  <2> QED
    BY <2>1, <2>2 DEF Init, TypeOK
<1> QED
  BY <1>1, TypeNext, PTL DEF Spec

(***************************************************************************)
(* A configure() that succeeds leaves the engine set up as asked, whether  *)
(* it called needle_init or trusted the record.                            *)
(***************************************************************************)
LEMMA Configured ==
    ASSUME MirrorSound, NEW key \in Keys, Configure(key), model # NoModel
    PROVE  prefix' = key /\ gConfiguredPrefix' = key
<1>1. key # Unset
  BY DEF Keys, Key, Unset
<1> QED
  BY <1>1 DEF Configure, MirrorSound

(***************************************************************************)
(* No operation of any client leaves a record that misdescribes the engine.*)
(***************************************************************************)
LEMMA MirrorNext == TypeOK /\ MirrorSound /\ [Next]_vars => MirrorSound'
<1> SUFFICES ASSUME TypeOK, MirrorSound, [Next]_vars PROVE MirrorSound'
  OBVIOUS
<1> USE DEF MirrorSound, vars, engine, clients, asked
<1>1. ASSUME NEW c \in Clients, OneClient(c)
      PROVE  MirrorSound'
  BY <1>1 DEF OneClient, Construct, Move, Unload, Reset, LoadUnreadable,
              LoadRejected, LoadSpeech, LoadText
<1>2. ASSUME NEW c \in Clients, NEW t \in Tools, Ask(c, t)
      PROVE  MirrorSound'
  <2>1. Key(mSystemPrompt[c], t) \in Keys
    BY DEF Keys, TypeOK
  <2>2. CASE AskUnloaded(c, t) \/ AskRejected(c, t)
    BY <2>2 DEF AskUnloaded, AskRejected
  <2>3. CASE AskFails(c, t)
    BY <2>1, <2>3, Configured DEF AskFails
  <2>4. CASE \E reply \in Replies : AskAnswered(c, t, reply)
    BY <2>1, <2>4, Configured DEF AskAnswered
  <2> QED
    BY <1>2, <2>2, <2>3, <2>4 DEF Ask
<1>3. CASE UNCHANGED vars
  BY <1>3
<1> QED
  BY <1>1, <1>2, <1>3 DEF Next

(***************************************************************************)
(* The record that lets a client skip needle_init is right in every state. *)
(***************************************************************************)
THEOREM MirrorAlwaysSound == Spec => []MirrorSound
<1>1. Init => MirrorSound
  BY DEF Init, MirrorSound
<1> QED
  BY <1>1, MirrorNext, TypeCorrect, PTL DEF Spec

(***************************************************************************)
(* What is read was all there, whatever the size of the buffer: only a     *)
(* reply with room to spare in an unmoved client's buffer is not called    *)
(* truncated.                                                              *)
(***************************************************************************)
LEMMA ReadWhole ==
    ASSUME TypeOK, NEW c \in Clients, NEW reply \in Replies, ~Truncated(c, reply)
    PROVE  reply.length + 1 < Capacity
<1>1. mBuffer[c] \in {0, Capacity} /\ reply.length \in Nat
  BY DEF TypeOK
<1> QED
  BY <1>1 DEF Truncated, Stored

(***************************************************************************)
(* A reply that may have lost its tail is never read.                      *)
(***************************************************************************)
THEOREM RepliesReadWhole == Spec => []WholeReplies
<1>1. Init => WholeReplies
  BY DEF Init, WholeReplies
<1>2. TypeOK /\ WholeReplies /\ [Next]_vars => WholeReplies'
  <2> SUFFICES ASSUME TypeOK, WholeReplies, [Next]_vars PROVE WholeReplies'
    OBVIOUS
  <2> USE DEF WholeReplies
  <2>1. CASE UNCHANGED asked
    BY <2>1 DEF asked
  <2>2. ASSUME NEW c \in Clients, NEW t \in Tools,
               AskUnloaded(c, t) \/ AskRejected(c, t) \/ AskFails(c, t)
        PROVE  WholeReplies'
    BY <2>2 DEF AskUnloaded, AskRejected, AskFails, Unanswered, Answer
  <2>3. ASSUME NEW c \in Clients, NEW t \in Tools, NEW reply \in Replies,
               AskAnswered(c, t, reply)
        PROVE  WholeReplies'
    <3>1. CASE Truncated(c, reply)
      BY <2>3, <3>1 DEF AskAnswered, Answer, Unread
    <3>2. CASE ~Truncated(c, reply)
      BY <2>3, <3>2, ReadWhole DEF AskAnswered
    <3> QED
      BY <3>1, <3>2
  <2>4. ASSUME NEW c \in Clients, OneClient(c)
        PROVE  UNCHANGED asked
    BY <2>4 DEF OneClient, Construct, Move, Unload, Reset, LoadUnreadable,
                LoadRejected, LoadSpeech, LoadText, asked
  <2> QED
    BY <2>1, <2>2, <2>3, <2>4 DEF Next, Ask, vars
<1> QED
  BY <1>1, <1>2, TypeCorrect, PTL DEF Spec

(***************************************************************************)
(* A reply was made from the asker's own facts and tools, and from no      *)
(* earlier turn, however the clients' operations interleave.               *)
(***************************************************************************)
THEOREM AnswersAreOwn == Spec => []OwnAnswers
<1>1. Init => OwnAnswers
  BY DEF Init, OwnAnswers
<1>2. TypeOK /\ MirrorSound /\ OwnAnswers /\ [Next]_vars => OwnAnswers'
  <2> SUFFICES ASSUME TypeOK, MirrorSound, OwnAnswers, [Next]_vars
               PROVE  OwnAnswers'
    OBVIOUS
  <2> USE DEF OwnAnswers
  <2>1. CASE UNCHANGED asked
    BY <2>1 DEF asked
  <2>2. ASSUME NEW c \in Clients, NEW t \in Tools,
               AskUnloaded(c, t) \/ AskRejected(c, t) \/ AskFails(c, t)
        PROVE  OwnAnswers'
    BY <2>2 DEF AskUnloaded, AskRejected, AskFails, Unanswered, Answer
  <2>3. ASSUME NEW c \in Clients, NEW t \in Tools, NEW reply \in Replies,
               AskAnswered(c, t, reply)
        PROVE  OwnAnswers'
    <3>1. Key(mSystemPrompt[c], t) \in Keys
      BY DEF Keys, TypeOK
    <3>2. prefix' = Key(mSystemPrompt[c], t)
      BY <2>3, <3>1, Configured DEF AskAnswered
    <3>3. \/ \E said : answer' = Answer(c, t, "reply", prefix', FALSE, said)
          \/ answer'.outcome # "reply"
      BY <2>3 DEF AskAnswered, Answer, Remembers
    <3> QED
      BY <3>2, <3>3 DEF Answer
  <2>4. ASSUME NEW c \in Clients, OneClient(c)
        PROVE  UNCHANGED asked
    BY <2>4 DEF OneClient, Construct, Move, Unload, Reset, LoadUnreadable,
                LoadRejected, LoadSpeech, LoadText, asked
  <2> QED
    BY <2>1, <2>2, <2>3, <2>4 DEF Next, Ask, vars
<1> QED
  BY <1>1, <1>2, TypeCorrect, MirrorAlwaysSound, PTL DEF Spec

-------------------------------------------------------------------------------
(***************************************************************************)
(* A call that has a name was an object, and is handed on under that name  *)
(* and with what it was given.                                             *)
(***************************************************************************)
LEMMA NamedCall ==
    ASSUME NEW item, IsValue(item), HasFields(item, {"name", "arguments"}),
           json_string(item, "name").type # "error"
    PROVE  /\ item.type = "object"
           /\ item.fields.name = Str(ToolCall(item).name)
           /\ item.fields.arguments \in {Missing, ToolCall(item).arguments}
<1>1. /\ lookup(item, "name").type = "string"
      /\ json_string(item, "name") = lookup(item, "name")
  BY DEF json_string, lookup_as, Failed
<1>2. item.type = "object" /\ lookup(item, "name") = item.fields.name
  BY <1>1 DEF lookup, Failed
<1>3. /\ IsValue(item.fields.name)
      /\ "arguments" \in DOMAIN item.fields /\ IsValue(item.fields.arguments)
  BY <1>2 DEF HasFields
<1>4. item.fields.name = Str(ToolCall(item).name)
  BY <1>1, <1>2, <1>3 DEF ToolCall, IsValue
<1>5. CASE item.fields.arguments = Missing
  BY <1>2, <1>4, <1>5
<1>6. CASE item.fields.arguments # Missing
  <2>1. lookup(item, "arguments") = item.fields.arguments
    BY <1>2, <1>3, <1>6 DEF lookup
  <2>2. item.fields.arguments.type # "error"
    BY <1>3 DEF IsValue
  <2> QED
    BY <1>2, <1>4, <2>1, <2>2 DEF ToolCall
<1> QED
  BY <1>5, <1>6

(***************************************************************************)
(* calls is all that said, the list of calls in a reply, asks for.         *)
(***************************************************************************)
AllOf(said, calls) ==
    IF said.type # "array" THEN calls = <<>>
    ELSE /\ Len(calls) = Len(said.items)
         /\ \A i \in DOMAIN said.items :
               LET item == said.items[i]
               IN  /\ item.type = "object"
                   /\ item.fields.name = Str(calls[i].name)
                   /\ item.fields.arguments \in {Missing, calls[i].arguments}

(***************************************************************************)
(* parse_reply hands on all of the calls, or reports an error.             *)
(***************************************************************************)
LEMMA ParsesAll ==
    ASSUME NEW text, IsReply(text), parse_reply(text).outcome = "reply"
    PROVE  AllOf(text.fields.function_calls, parse_reply(text).calls)
<1> DEFINE said  == text.fields.function_calls
           found == json_array(text, "function_calls")
           items == IF found.type = "array" THEN found.items ELSE <<>>
<1>1. parse_reply(text) = ReadCalls(items)
  BY DEF parse_reply, Unread
<1>2. text.type = "object"
  <2>1. json_bool(text, "success").type # "error"
    BY DEF parse_reply, Unread
  <2> QED
    BY <2>1 DEF json_bool, lookup_as, lookup, Failed
<1>3. "function_calls" \in DOMAIN text.fields /\ IsValue(said)
  BY <1>2 DEF IsReply, HasFields
<1>4. CASE said.type # "array"
  <2>1. items = <<>>
    <3>1. found.type # "array"
      BY <1>2, <1>3, <1>4 DEF json_array, lookup_as, lookup, Failed
    <3> QED
      BY <3>1
  <2>2. ReadCalls(<<>>).calls = <<>>
    BY DEF ReadCalls
  <2> QED
    BY <1>1, <1>4, <2>1, <2>2 DEF AllOf
<1>5. CASE said.type = "array"
  <2>1. items = said.items
    <3>1. found = said
      BY <1>2, <1>3, <1>5 DEF json_array, lookup_as, lookup, Missing
    <3> QED
      BY <1>5, <3>1
  <2>2. Len(items) \in Nat /\ DOMAIN items = 1..Len(items)
    BY <1>3, <1>5, <2>1 DEF IsValue
  <2> HIDE DEF items
  <2>3. \A i \in DOMAIN items : json_string(items[i], "name").type # "error"
    BY <1>1 DEF ReadCalls, Unread
  <2>4. parse_reply(text).calls = [i \in DOMAIN items |-> ToolCall(items[i])]
    BY <1>1, <2>3 DEF ReadCalls
  <2>5. Len(parse_reply(text).calls) = Len(items)
    BY <2>2, <2>4
  <2>6. ASSUME NEW i \in DOMAIN items
        PROVE  /\ items[i].type = "object"
               /\ items[i].fields.name = Str(parse_reply(text).calls[i].name)
               /\ items[i].fields.arguments \in {Missing, parse_reply(text).calls[i].arguments}
    <3>1. IsValue(items[i]) /\ HasFields(items[i], {"name", "arguments"})
      BY <1>2, <1>5, <2>1 DEF IsReply
    <3>2. parse_reply(text).calls[i] = ToolCall(items[i])
      BY <2>4
    <3> QED
      BY <2>3, <3>1, <3>2, NamedCall
  <2> QED
    BY <1>5, <2>1, <2>5, <2>6 DEF AllOf
<1> QED
  BY <1>4, <1>5

(***************************************************************************)
(* A reply is handed on with every call the model made, each under its     *)
(* name and with what it was given, or not at all, however many there are. *)
(***************************************************************************)
THEOREM AllCallsOrNone == Spec => []AllOrNothing
<1>1. AllOrNothing <=>
         (answer.outcome = "reply" => AllOf(made.text.fields.function_calls, answer.calls))
  BY Zenon DEF AllOrNothing, AllOf
<1>2. AllOrNothing' <=>
         (answer'.outcome = "reply" => AllOf(made'.text.fields.function_calls, answer'.calls))
  BY Zenon DEF AllOrNothing, AllOf
<1>3. Init => AllOrNothing
  BY <1>1 DEF Init
<1>4. AllOrNothing /\ [Next]_vars => AllOrNothing'
  <2> SUFFICES ASSUME AllOrNothing, [Next]_vars PROVE AllOrNothing'
    OBVIOUS
  <2>1. CASE UNCHANGED asked
    BY <1>1, <1>2, <2>1 DEF asked
  <2>2. ASSUME NEW c \in Clients, NEW t \in Tools,
               AskUnloaded(c, t) \/ AskRejected(c, t) \/ AskFails(c, t)
        PROVE  AllOrNothing'
    BY <1>2, <2>2 DEF AskUnloaded, AskRejected, AskFails, Unanswered, Answer
  <2>3. ASSUME NEW c \in Clients, NEW t \in Tools, NEW reply \in Replies,
               AskAnswered(c, t, reply)
        PROVE  AllOrNothing'
    <3>1. made' = reply /\ IsReply(reply.text)
      BY <2>3 DEF AskAnswered
    <3>2. \/ answer'.outcome # "reply"
          \/ /\ parse_reply(reply.text).outcome = "reply"
             /\ answer'.calls = parse_reply(reply.text).calls
      BY <2>3 DEF AskAnswered, Answer, Unread
    <3> QED
      BY <1>2, <3>1, <3>2, ParsesAll
  <2>4. ASSUME NEW c \in Clients, OneClient(c)
        PROVE  UNCHANGED asked
    BY <2>4 DEF OneClient, Construct, Move, Unload, Reset, LoadUnreadable,
                LoadRejected, LoadSpeech, LoadText, asked
  <2> QED
    BY <2>1, <2>2, <2>3, <2>4 DEF Next, Ask, vars
<1> QED
  BY <1>3, <1>4, PTL DEF Spec

-------------------------------------------------------------------------------
(***************************************************************************)
(* Sharing one engine and skipping needle_init is invisible: every step of *)
(* the clients is a step of IndependentTurns, where each ask has an engine *)
(* of its own.                                                             *)
(***************************************************************************)
THEOREM AsksAreIndependentTurns == Spec => ImplementsIndependentTurns
<1>1. Init => Turns!Init
  BY DEF Init, Turns!Init
<1>2. TypeOK /\ TypeOK' /\ MirrorSound /\ [Next]_vars => [Turns!Next]_Turns!vars
  <2> SUFFICES ASSUME TypeOK, TypeOK', MirrorSound, [Next]_vars
               PROVE  [Turns!Next]_Turns!vars
    OBVIOUS
  <2>1. ASSUME NEW c \in Clients, OneClient(c)
        PROVE  Turns!Change
    <3>1. UNCHANGED answer
      BY <2>1 DEF OneClient, Construct, Move, Unload, Reset, LoadUnreadable,
                  LoadRejected, LoadSpeech, LoadText, asked
    <3> QED
      BY <3>1 DEF Turns!Change, TypeOK
  <2>2. ASSUME NEW c \in Clients, NEW t \in Tools, Ask(c, t)
        PROVE  Turns!Ask(c, t)
    <3>a. ASSUME NEW reply \in Replies, AskAnswered(c, t, reply)
          PROVE  prefix' = Key(mSystemPrompt[c], t)
      <4>1. Key(mSystemPrompt[c], t) \in Keys
        BY DEF Keys, TypeOK
      <4> QED
        BY <3>a, <4>1, Configured DEF AskAnswered
    <3> USE DEF Turns!Ask, Turns!Answer, Turns!Errors, Turns!Unset, Turns!Key,
                Unset, Key, Answer, Unanswered, clients
    <3>1. CASE AskUnloaded(c, t)
      BY <3>1 DEF AskUnloaded
    <3>2. CASE AskRejected(c, t)
      BY <3>2 DEF AskRejected
    <3>3. CASE AskFails(c, t)
      BY <3>3 DEF AskFails
    <3>4. ASSUME NEW reply \in Replies, AskAnswered(c, t, reply)
          PROVE  Turns!Ask(c, t)
      <4>1. prefix' = Key(mSystemPrompt[c], t)
        BY <3>4, <3>a
      <4>2. CASE Truncated(c, reply)
        BY <3>4, <4>2 DEF AskAnswered, Unread
      <4>3. CASE ~Truncated(c, reply) /\ parse_reply(reply.text).outcome # "reply"
        BY <3>4, <4>3, ParseOutcomes DEF AskAnswered
      <4>4. CASE ~Truncated(c, reply) /\ parse_reply(reply.text).outcome = "reply"
        BY <3>4, <4>1, <4>4 DEF AskAnswered, Remembers
      <4> QED
        BY <4>2, <4>3, <4>4
    <3> QED
      BY <2>2, <3>1, <3>2, <3>3, <3>4 DEF Ask
  <2>3. CASE UNCHANGED vars
    BY <2>3 DEF vars, clients, asked, Turns!vars
  <2> QED
    BY <2>1, <2>2, <2>3 DEF Next, Turns!Next
<1> QED
  BY <1>1, <1>2, TypeCorrect, MirrorAlwaysSound, PTL
     DEF Spec, Turns!Spec, ImplementsIndependentTurns
===============================================================================

------------------------------- MODULE ToolCall -------------------------------
(***************************************************************************)
(* command_from_tool_call of command.cpp, over a catalog that ToolCatalog  *)
(* accepted: the call names an entry, and each of its parameters, in the   *)
(* order they are declared, takes its value from the call's arguments and  *)
(* adds to argv.  A spelling or a value in argv remembers its parameter.   *)
(***************************************************************************)
EXTENDS ToolCatalog, FiniteSets, TLC

CONSTANTS Calls,            \* the calls a reply may make: [name, arguments]
          Int64Max          \* the largest integer get(int64) reads

VARIABLES call,
          builder,          \* "idle", "called", "params", "built", "failed"
          spec,             \* the entry the call names
          next,             \* the parameter to look at
          args,             \* Command.args so far
          failure           \* the ExecError

ASSUME CallsAreJson ==
    \A made \in Calls :
        made.arguments.type = "object" =>
            \A key \in DOMAIN made.arguments.fields :
                IsValue(made.arguments.fields[key])
                /\ EachItem(made.arguments.fields[key], IsValue)

callVars == <<call, builder, spec, next, args, failure>>
vars     == <<catalogVars, callVars>>

NoCall == [name |-> "", arguments |-> Missing]
NoSpec == [name |-> "", params |-> <<>>]

Init ==
    /\ CatalogInit
    /\ call = NoCall
    /\ builder = "idle" /\ spec = NoSpec /\ next = 1
    /\ args = <<>> /\ failure = "none"

-------------------------------------------------------------------------------
Fails(code) ==
    /\ builder' = "failed"
    /\ failure' = code
    /\ UNCHANGED <<call, spec, next, args, catalogVars>>

(***************************************************************************)
(* The model's reply names a tool and gives it arguments.                  *)
(***************************************************************************)
Receive ==
    /\ reader = "accepted" /\ builder = "idle"
    /\ call' \in Calls
    /\ builder' = "called"
    /\ UNCHANGED <<spec, next, args, failure, catalogVars>>

UnknownTool ==
    /\ builder = "called"
    /\ ~Known(call.name)
    /\ Fails("UnknownTool")

(***************************************************************************)
(* The arguments are not JSON, or not an object.                           *)
(***************************************************************************)
NotAnObject ==
    /\ builder = "called"
    /\ Known(call.name)
    /\ call.arguments.type # "object"
    /\ Fails("BadToolCall")

BeginCommand ==
    /\ builder = "called"
    /\ call.arguments.type = "object"
    /\ \E i \in DOMAIN mSpecs :
          /\ mSpecs[i].name = call.name
          /\ spec' = mSpecs[i]
    /\ builder' = "params"
    /\ UNCHANGED <<call, next, args, failure, catalogVars>>

Param == spec.params[next]
Given == call.arguments.fields
Value == Given[Param.name]

AtParam  == builder = "params" /\ next <= Len(spec.params)
Provided == AtParam /\ Param.name \in DOMAIN Given

MutMissingIsSkipped ==
    /\ AtParam
    /\ Param.name \notin DOMAIN Given
    /\ Param.required
    /\ next' = next + 1
    /\ UNCHANGED <<call, builder, spec, args, failure, catalogVars>>
MissingArgument ==
    /\ AtParam
    /\ Param.name \notin DOMAIN Given
    /\ Param.required
    /\ Fails("MissingArgument")

MutSkipsTwo ==
    /\ AtParam
    /\ Param.name \notin DOMAIN Given
    /\ ~Param.required
    /\ next' = next + 2
    /\ UNCHANGED <<call, builder, spec, args, failure, catalogVars>>
LeftOut ==
    /\ AtParam
    /\ Param.name \notin DOMAIN Given
    /\ ~Param.required
    /\ next' = next + 1
    /\ UNCHANGED <<call, builder, spec, args, failure, catalogVars>>

Spelling     == [param |-> next, what |-> "flag", text |-> Param.flag]
ValueWord(v) == [param |-> next, what |-> "value", text |-> v]

Emit(words) ==
    /\ args' = args \o words
    /\ next' = next + 1
    /\ UNCHANGED <<call, builder, spec, failure, catalogVars>>

Flag ==
    /\ Provided /\ Param.kind = "flag"
    /\ Value.type = "boolean"
    /\ Emit(IF Value.bool THEN <<Spelling>> ELSE <<>>)

MutOptionJoinsLast ==
    /\ Provided /\ Param.kind = "option"
    /\ Value.type = "string"
    /\ Emit(<<ValueWord(Value.str), Spelling>>)
Option ==
    /\ Provided /\ Param.kind = "option"
    /\ Value.type = "string"
    /\ Emit(<<Spelling, ValueWord(Value.str)>>)

(***************************************************************************)
(* An integer beyond int64 is not read, and to_string writes the others.   *)
(***************************************************************************)
FitsInt64(n) == -(Int64Max + 1) <= n /\ n <= Int64Max

Number ==
    /\ Provided /\ Param.kind = "number"
    /\ Value.type = "integer" /\ FitsInt64(Value.int)
    /\ Emit(<<Spelling, ValueWord(ToString(Value.int))>>)

Positional ==
    /\ Provided /\ Param.kind = "positional"
    /\ Value.type = "string"
    /\ Emit(<<ValueWord(Value.str)>>)

Texts(v) == v.type = "array" /\ \A i \in DOMAIN v.items : v.items[i].type = "string"

PositionalList ==
    /\ Provided /\ Param.kind = "positional_list"
    /\ Texts(Value)
    /\ Emit([i \in DOMAIN Value.items |-> ValueWord(Value.items[i].str)])

Readable ==
    \/ Param.kind = "flag" /\ Value.type = "boolean"
    \/ Param.kind \in {"option", "positional"} /\ Value.type = "string"
    \/ Param.kind = "number" /\ Value.type = "integer" /\ FitsInt64(Value.int)
    \/ Param.kind = "positional_list" /\ Texts(Value)

BadArgument ==
    /\ Provided
    /\ ~Readable
    /\ Fails("BadToolCall")

Built ==
    /\ builder = "params" /\ next > Len(spec.params)
    /\ builder' = "built"
    /\ UNCHANGED <<call, spec, next, args, failure, catalogVars>>

Finished == reader = "rejected" \/ builder \in {"built", "failed"}

Terminated == Finished /\ UNCHANGED vars

Next ==
    \/ CatalogNext /\ UNCHANGED callVars
    \/ Receive \/ UnknownTool \/ NotAnObject \/ BeginCommand
    \/ MissingArgument \/ LeftOut
    \/ Flag \/ Option \/ Number \/ Positional \/ PositionalList \/ BadArgument
    \/ Built
    \/ Terminated

Spec == Init /\ [][Next]_vars

-------------------------------------------------------------------------------
(***************************************************************************)
(* Every variable keeps to its type.                                       *)
(***************************************************************************)
TypeOK ==
    /\ reader \in {"start", "entries", "accepted", "rejected"}
    /\ builder \in {"idle", "called", "params", "built", "failed"}
    /\ next \in 1..(Len(spec.params) + 1)
    /\ failure \in {"none", "UnknownTool", "BadToolCall", "MissingArgument"}
    /\ builder # "idle" => reader = "accepted"
    /\ \A i \in DOMAIN args :
          args[i].param \in DOMAIN spec.params /\ args[i].what \in {"flag", "value"}

(***************************************************************************)
(* What a schema admits: its integer has no bounds (tools.cpp:288-289).    *)
(***************************************************************************)
HasType(v, type) ==
    CASE type = "array" -> Texts(v)
      [] OTHER -> v.type = type

FitsSchema(tool) ==
    /\ call.arguments.type = "object"
    /\ tool.required \subseteq DOMAIN Given
    /\ \A n \in DOMAIN Given \cap DOMAIN tool.properties :
          HasType(Given[n], tool.properties[n])

Beyond(v, type) == type = "integer" /\ v.type = "integer" /\ ~FitsInt64(v.int)

BeyondInt64(tool) ==
    \E n \in DOMAIN Given \cap DOMAIN tool.properties :
        Beyond(Given[n], tool.properties[n])

(***************************************************************************)
(* "Rendered from the same specs that build the argv so the two cannot     *)
(* drift apart" (tools.h:90-91), integers beyond int64 apart, which fit a  *)
(* schema and are refused (command.cpp:104-106): a command is built from a *)
(* call exactly when the call fits a schema the model was shown and gives  *)
(* it no such integer.                                                     *)
(***************************************************************************)
SchemaAndArgvAgree ==
    builder \in {"built", "failed"} =>
        (builder = "built" <=>
            \E i \in DOMAIN mSchemaJson :
               /\ mSchemaJson[i].name = call.name
               /\ FitsSchema(mSchemaJson[i]) /\ ~BeyondInt64(mSchemaJson[i]))

(***************************************************************************)
(* "Each JSON value becomes exactly one argv entry" (command.h:34-37), in  *)
(* the order of the declarations, and each spelling directly before its    *)
(* value: how many entries of a parameter stand in argv, where, and after  *)
(* what.                                                                   *)
(***************************************************************************)
EntriesOf(i, what) == {k \in DOMAIN args : args[k].param = i /\ args[k].what = what}

ValuesGiven(p) ==
    IF p.name \notin DOMAIN Given \/ p.kind = "flag" THEN 0
    ELSE IF p.kind = "positional_list" THEN Len(Given[p.name].items) ELSE 1

OneEntryPerValue ==
    builder = "built" =>
        /\ \A k, l \in DOMAIN args : k < l => args[k].param <= args[l].param
        /\ \A i \in DOMAIN spec.params :
              Cardinality(EntriesOf(i, "value")) = ValuesGiven(spec.params[i])
        /\ \A k \in DOMAIN args :
              LET p == spec.params[args[k].param]
              IN  (args[k].what = "value" /\ carries_a_flag(p.kind)) =>
                      k > 1 /\ args[k - 1] = [param |-> args[k].param, what |-> "flag",
                                              text |-> p.flag]

===============================================================================

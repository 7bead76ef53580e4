---------------------------- MODULE CatalogSchema ----------------------------
(***************************************************************************)
(* The callers of JsonBuilder.  render_catalog of tools.cpp, the one the   *)
(* program has, makes the calls a catalog takes, in order, and hands out   *)
(* what str() returns; any other may make any calls a caller may make, and *)
(* clear the builder.                                                      *)
(***************************************************************************)
EXTENDS JsonBuilder

CONSTANTS Catalogs,         \* the catalogs there may be: a ToolSpec for each tool
          MaxFree           \* bound on the text of any other caller

ToolSpec == [triggers : Nat, params : Seq([list : BOOLEAN, required : BOOLEAN])]

ASSUME SchemaAssumption == MaxFree \in Nat /\ Catalogs \subseteq Seq(ToolSpec)

VARIABLES script,           \* the calls still to be made, or Free
          result            \* what str() returned to render_catalog, or Pending

schemaVars == <<vars, script, result>>

Then(made, more) == made \o more

Each(calls(_), items) == FoldLeft(Then, <<>>, [n \in DOMAIN items |-> calls(items[n])])

ParamCalls(param) ==
    <<"key", "begin_object", "field", "field">>
    \o (IF param.list THEN <<"key", "begin_object", "field", "end_object">> ELSE <<>>)
    \o <<"end_object">>

MutEndsOtherKind(triggers) ==
    IF triggers = 0 THEN <<>>
    ELSE <<"key", "begin_array">> \o [n \in 1..triggers |-> "value"] \o <<"end_object">>
TriggerCalls(triggers) ==
    IF triggers = 0 THEN <<>>
    ELSE <<"key", "begin_array">> \o [n \in 1..triggers |-> "value"] \o <<"end_array">>

RequiredCalls(param) == IF param.required THEN <<"value">> ELSE <<>>

SpecCalls(spec) ==
    <<"begin_object", "field", "key", "begin_object", "field", "field">>
    \o TriggerCalls(spec.triggers)
    \o <<"key", "begin_object", "field", "key", "begin_object">>
    \o Each(ParamCalls, spec.params)
    \o <<"end_object", "key", "begin_array">>
    \o Each(RequiredCalls, spec.params)
    \o <<"end_array", "end_object", "end_object", "end_object">>

render_catalog(specs) ==
    <<"begin_array">> \o Each(SpecCalls, specs) \o <<"end_array">>

(***************************************************************************)
(* Another caller goes by no script.                                       *)
(***************************************************************************)
Free    == <<"free">>
Pending == <<"pending">>

SchemaInit ==
    /\ Init
    /\ result = Pending
    /\ \/ script = Free
       \/ \E specs \in Catalogs : script = render_catalog(specs)

Call(name) ==
    /\ UNCHANGED result
    /\ \/ script = Free /\ Len(mBuilder) < MaxFree /\ UNCHANGED script
       \/ script # <<>> /\ Head(script) = name /\ script' = Tail(script)

Return ==
    /\ script = <<>> /\ result = Pending
    /\ result' \in str
    /\ UNCHANGED <<vars, script>>

Returned == result # Pending /\ UNCHANGED schemaVars

SchemaNext ==
    \/ begin_object /\ Call("begin_object")
    \/ end_object /\ Call("end_object")
    \/ begin_array /\ Call("begin_array")
    \/ end_array /\ Call("end_array")
    \/ key /\ Call("key")
    \/ value /\ Call("value")
    \/ field /\ Call("field")
    \/ clear /\ script = Free /\ UNCHANGED <<script, result>>
    \/ Return \/ Returned

SchemaSpec == SchemaInit /\ [][SchemaNext]_schemaVars

(***************************************************************************)
(* value_or: an array of no tools stands in for an error.                  *)
(***************************************************************************)
Schema == IF result \in {Unbalanced, ParseFailed} THEN <<"[", "]">> ELSE result

(***************************************************************************)
(* May the caller make this call, where it is?                             *)
(***************************************************************************)
MayCall(name) ==
    \/ name \in {"begin_object", "begin_array", "value"} /\ MayAddValue
    \/ name \in {"key", "field"} /\ MayAddKey
    \/ name = "end_object" /\ MayEnd("object")
    \/ name = "end_array" /\ MayEnd("array")

(***************************************************************************)
(* The code does not check what render_catalog opens, closes and names.    *)
(* Yet each call it makes is one that JsonBuilder's callers may make, a    *)
(* close of the right kind included, and the schema the model is shown is  *)
(* JSON and all of the catalog: the "[]" of tools.cpp:352 stands in for a  *)
(* text that view() could not give, and never for one left open.           *)
(***************************************************************************)
SchemaIsWhole ==
    /\ script \notin {<<>>, Free} => MayCall(Head(script))
    /\ result # Pending =>
          IsJson(Schema) /\ (Schema = mBuilder \/ result = ParseFailed)

===============================================================================

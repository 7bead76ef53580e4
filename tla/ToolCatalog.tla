----------------------------- MODULE ToolCatalog -----------------------------
(***************************************************************************)
(* ToolCatalog::parse of tools.cpp: a JSON document is read entry by entry *)
(* into tool specs, and the first thing wrong with it rejects it whole.    *)
(* A text is a name from a small set, "" the empty one.                    *)
(***************************************************************************)
EXTENDS Integers, Sequences, JsonValue

CONSTANT Documents          \* the documents a config file may hold

VARIABLES raw,              \* the document
          reader,           \* "start", "entries", "accepted", "rejected"
          mSpecs,           \* the specs read so far
          mSchemaJson,      \* the schema shown to the model
          error             \* why the document was rejected

catalogVars == <<raw, reader, mSpecs, mSchemaJson, error>>

(***************************************************************************)
(* A document is JSON, and what its entries and parameters are asked for   *)
(* is of any JSON type or not there.                                       *)
(***************************************************************************)
ParamKeys == {"name", "description", "kind", "flag", "required"}
EntryKeys == {"name", "program", "description", "triggers", "risky", "in_process", "params"}

EachItem(v, Holds(_)) == v.type = "array" => \A i \in DOMAIN v.items : Holds(v.items[i])

IsParam(v) == IsValue(v) /\ HasFields(v, ParamKeys)

IsEntry(v) ==
    /\ IsValue(v) /\ HasFields(v, EntryKeys)
    /\ v.type = "object" => /\ EachItem(v.fields.triggers, IsValue)
                            /\ EachItem(v.fields.params, IsParam)

ASSUME DocumentsAreJson ==
    \A document \in Documents : IsValue(document) /\ EachItem(document, IsEntry)

-------------------------------------------------------------------------------
Text(v)   == IF v.type = "string" THEN v.str ELSE ""
IsTrue(v) == v.type = "boolean" /\ v.bool

(***************************************************************************)
(* A reader looks at one thing after the other and returns the first code  *)
(* that is not "ok".                                                       *)
(***************************************************************************)
First(codes) ==
    LET bad == {i \in DOMAIN codes : codes[i] # "ok"}
    IN  IF bad = {} THEN "ok" ELSE codes[CHOOSE i \in bad : \A j \in bad : i <= j]

required_string(v) ==
    CASE v = Missing -> "MissingField"
      [] v.type = "string" -> IF v.str = "" THEN "MissingField" ELSE "ok"
      [] OTHER -> "WrongType"

optional_string(v) == IF v.type \in {"missing", "string"} THEN "ok" ELSE "WrongType"

optional_bool(v) == IF v.type \in {"missing", "boolean"} THEN "ok" ELSE "WrongType"

optional_strings(v) ==
    CASE v = Missing -> "ok"
      [] v.type = "array" -> First([i \in DOMAIN v.items |-> required_string(v.items[i])])
      [] OTHER -> "WrongType"

Kinds == {"flag", "option", "number", "positional", "positional_list"}

parse_kind(v) ==
    IF v.type = "string" /\ v.str \notin Kinds THEN "UnknownParamKind" ELSE "ok"

carries_a_flag(kind) == kind \in {"flag", "option", "number"}

(***************************************************************************)
(* A flag needs a spelling and the other kinds must not have one.          *)
(***************************************************************************)
FlagMatches(p) ==
    IF carries_a_flag(Text(p.kind)) = (Text(p.flag) = "") THEN "FlagMismatch" ELSE "ok"

read_param(v) ==
    IF v.type # "object" THEN "WrongType"
    ELSE LET p == v.fields
         IN  First(<<required_string(p.name), required_string(p.description),
                     required_string(p.kind), parse_kind(p.kind),
                     optional_string(p.flag), optional_bool(p.required),
                     FlagMatches(p)>>)

(***************************************************************************)
(* Each parameter is read and then compared with the names before it.      *)
(***************************************************************************)
MutParamsMayRepeat(items, i) == read_param(items[i])
ParamCode(items, i) ==
    LET named(j) == items[j].type = "object" /\ Text(items[j].fields.name) # ""
        repeated == \E j \in 1..(i - 1) :
                       named(j) /\ named(i) /\ items[j].fields.name = items[i].fields.name
    IN  First(<<read_param(items[i]), IF repeated THEN "DuplicateName" ELSE "ok">>)

read_params(v) ==
    CASE v = Missing -> "ok"
      [] v.type = "array" -> First([i \in DOMAIN v.items |-> ParamCode(v.items, i)])
      [] OTHER -> "WrongType"

(***************************************************************************)
(* The shell's own cd is the only program that runs in process.            *)
(***************************************************************************)
MutAnyInProcess(e) == "ok"
InProcessAllowed(e) ==
    IF IsTrue(e.in_process) /\ e.program # Str("cd") THEN "InProcessNotAllowed" ELSE "ok"

read_spec(v) ==
    IF v.type # "object" THEN "WrongType"
    ELSE LET e == v.fields
         IN  First(<<required_string(e.name), required_string(e.program),
                     required_string(e.description), optional_strings(e.triggers),
                     optional_bool(e.risky), optional_bool(e.in_process),
                     InProcessAllowed(e), read_params(e.params)>>)

(***************************************************************************)
(* The ToolParam and the ToolSpec that are built from what was read.       *)
(***************************************************************************)
ToolParam(p) ==
    [name |-> Text(p.name), kind |-> Text(p.kind), flag |-> Text(p.flag),
     required |-> IsTrue(p.required)]

ToolSpec(e) ==
    [name |-> Text(e.name), program |-> Text(e.program),
     risky |-> IsTrue(e.risky), in_process |-> IsTrue(e.in_process),
     params |-> IF e.params = Missing THEN <<>>
                ELSE [i \in DOMAIN e.params.items |-> ToolParam(e.params.items[i].fields)]]

(***************************************************************************)
(* render_catalog: what the model is told of each parameter, and which it  *)
(* must give.                                                              *)
(***************************************************************************)
json_type(kind) ==
    CASE kind = "flag" -> "boolean"
      [] kind = "number" -> "integer"
      [] kind = "positional_list" -> "array"
      [] OTHER -> "string"

Names(params) == {params[i].name : i \in DOMAIN params}

ToolSchema(spec) ==
    [name |-> spec.name,
     properties |->
        [n \in Names(spec.params) |->
            json_type((CHOOSE p \in {spec.params[i] : i \in DOMAIN spec.params} :
                          p.name = n).kind)],
     required |-> {n \in Names(spec.params) :
                      \E i \in DOMAIN spec.params :
                         spec.params[i].name = n /\ spec.params[i].required}]

render_catalog(specs) == [i \in DOMAIN specs |-> ToolSchema(specs[i])]

-------------------------------------------------------------------------------
CatalogInit ==
    /\ raw \in Documents
    /\ reader = "start"
    /\ mSpecs = <<>> /\ mSchemaJson = <<>>
    /\ error = [code |-> "none", entry |-> 0]

Reject(code, entry) ==
    /\ reader' = "rejected"
    /\ error' = [code |-> code, entry |-> entry]
    /\ UNCHANGED <<raw, mSpecs, mSchemaJson>>

Open ==
    /\ reader = "start"
    /\ raw.type = "array"
    /\ reader' = "entries"
    /\ UNCHANGED <<raw, mSpecs, mSchemaJson, error>>

OpenFails ==
    /\ reader = "start"
    /\ raw.type # "array"
    /\ Reject(IF raw = Garbage THEN "MalformedJson" ELSE "NotAnArray", 0)

(***************************************************************************)
(* The entry about to be read.                                             *)
(***************************************************************************)
Index == Len(mSpecs) + 1
Entry == raw.items[Index]
More  == reader = "entries" /\ Index <= Len(raw.items)
Known(name) == \E i \in DOMAIN mSpecs : mSpecs[i].name = name

ReadEntry ==
    /\ More
    /\ read_spec(Entry) = "ok"
    /\ ~Known(Text(Entry.fields.name))
    /\ mSpecs' = Append(mSpecs, ToolSpec(Entry.fields))
    /\ UNCHANGED <<raw, reader, mSchemaJson, error>>

BadEntry ==
    /\ More
    /\ read_spec(Entry) # "ok"
    /\ Reject(read_spec(Entry), Index)

RepeatedEntry ==
    /\ More
    /\ read_spec(Entry) = "ok"
    /\ Known(Text(Entry.fields.name))
    /\ Reject("DuplicateName", Index)

Accept ==
    /\ reader = "entries"
    /\ Index > Len(raw.items)
    /\ reader' = "accepted"
    /\ mSchemaJson' = render_catalog(mSpecs)
    /\ UNCHANGED <<raw, mSpecs, error>>

CatalogNext ==
    \/ Open \/ OpenFails \/ ReadEntry \/ BadEntry \/ RepeatedEntry \/ Accept

-------------------------------------------------------------------------------
(***************************************************************************)
(* What a config file must be, whatever the order it is read in.           *)
(***************************************************************************)
GoodText(v) == v.type = "string" /\ v.str # ""
MayBe(v, type) == v.type \in {"missing", type}

GoodParam(v) ==
    /\ v.type = "object"
    /\ LET p == v.fields
       IN  /\ GoodText(p.name) /\ GoodText(p.description)
           /\ GoodText(p.kind) /\ p.kind.str \in Kinds
           /\ MayBe(p.flag, "string") /\ MayBe(p.required, "boolean")
           /\ GoodText(p.flag) <=> p.kind.str \in {"flag", "option", "number"}

GoodParams(v) ==
    v.type = "array" =>
        /\ \A i \in DOMAIN v.items : GoodParam(v.items[i])
        /\ \A i, j \in DOMAIN v.items :
              v.items[i].fields.name = v.items[j].fields.name => i = j

GoodEntry(i) ==
    /\ raw.items[i].type = "object"
    /\ LET e == raw.items[i].fields
       IN  /\ GoodText(e.name) /\ GoodText(e.program) /\ GoodText(e.description)
           /\ MayBe(e.triggers, "array")
           /\ e.triggers.type = "array" =>
                 \A k \in DOMAIN e.triggers.items : GoodText(e.triggers.items[k])
           /\ MayBe(e.risky, "boolean") /\ MayBe(e.in_process, "boolean")
           /\ IsTrue(e.in_process) => e.program = Str("cd")
           /\ MayBe(e.params, "array") /\ GoodParams(e.params)
           /\ \A j \in 1..(i - 1) : raw.items[j].fields.name # e.name

(***************************************************************************)
(* "A config that would build a broken argv is rejected at load with the   *)
(* offending entry named" (README.md:55-57): the document is accepted when *)
(* every entry is good, and otherwise the error is about the first that is *)
(* not.                                                                    *)
(***************************************************************************)
FirstBadEntryRejects ==
    /\ reader = "accepted" =>
          /\ \A i \in DOMAIN raw.items : GoodEntry(i)
          /\ Len(mSpecs) = Len(raw.items)
    /\ (reader = "rejected" /\ raw.type = "array") =>
          /\ ~GoodEntry(error.entry)
          /\ \A i \in 1..(error.entry - 1) : GoodEntry(i)

(***************************************************************************)
(* What the argv builder and the shell take for granted of every spec: no  *)
(* name is used twice, a spelling is there exactly where one is emitted,   *)
(* and nothing but cd runs in process.                                     *)
(***************************************************************************)
SpecsAreSound ==
    /\ \A i, j \in DOMAIN mSpecs : mSpecs[i].name = mSpecs[j].name => i = j
    /\ \A i \in DOMAIN mSpecs :
          LET spec == mSpecs[i]
          IN  /\ spec.program # ""
              /\ spec.in_process => spec.program = "cd"
              /\ \A k, l \in DOMAIN spec.params :
                    spec.params[k].name = spec.params[l].name => k = l
              /\ \A k \in DOMAIN spec.params :
                    carries_a_flag(spec.params[k].kind) <=> spec.params[k].flag # ""

===============================================================================

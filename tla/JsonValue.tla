------------------------------ MODULE JsonValue ------------------------------
(***************************************************************************)
(* JSON values as the readers of json_util.cpp see them: a record of the   *)
(* type and the content.  An object has fields, and a field that is        *)
(* Missing is not there.  Other is a value of a type nothing here accepts, *)
(* Garbage a text that is not JSON.                                        *)
(***************************************************************************)
EXTENDS Integers, Sequences

Missing   == [type |-> "missing"]
Other     == [type |-> "other"]
Garbage   == [type |-> "garbage"]
Str(s)    == [type |-> "string", str |-> s]
Bool(b)   == [type |-> "boolean", bool |-> b]
Arr(s)    == [type |-> "array", items |-> s]
Obj(f)    == [type |-> "object", fields |-> f]

NoFields == Obj([key \in {} |-> Missing])

(***************************************************************************)
(* A value has one of these types and the content that goes with it.  What *)
(* an object is asked for is among its fields, as Missing if need be.      *)
(***************************************************************************)
IsValue(v) ==
    /\ v.type \in {"missing", "other", "garbage", "string", "boolean", "integer",
                   "array", "object"}
    /\ v.type = "missing" => v = Missing
    /\ v.type = "string" => v = Str(v.str)
    /\ v.type = "boolean" => v.bool \in BOOLEAN
    /\ v.type = "array" => Len(v.items) \in Nat /\ DOMAIN v.items = 1..Len(v.items)

HasFields(v, keys) ==
    v.type = "object" => \A key \in keys : key \in DOMAIN v.fields /\ IsValue(v.fields[key])

(***************************************************************************)
(* A JsonError is a value of no JSON type.  A key that is not there is     *)
(* told from a parent that has no keys and from a value of another type.   *)
(***************************************************************************)
Failed(error) == [type |-> "error", error |-> error]

lookup(parent, key) ==
    CASE parent.type # "object" -> Failed("TypeMismatch")
      [] parent.type = "object" ->
            IF key \in DOMAIN parent.fields /\ parent.fields[key] # Missing
            THEN parent.fields[key] ELSE Failed("KeyNotFound")

lookup_as(parent, key, type) ==
    LET found == lookup(parent, key)
    IN  IF found.type \in {"error", type} THEN found ELSE Failed("TypeMismatch")

json_string(parent, key) == lookup_as(parent, key, "string")
json_bool(parent, key)   == lookup_as(parent, key, "boolean")
json_array(parent, key)  == lookup_as(parent, key, "array")

===============================================================================

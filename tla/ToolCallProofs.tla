---------------------------- MODULE ToolCallProofs ----------------------------
(***************************************************************************)
(* Proofs about ToolCatalog and ToolCall, for config files and calls of    *)
(* any size.                                                               *)
(***************************************************************************)
EXTENDS ToolCall, FiniteSetTheorems, WellFoundedInduction, TLAPS

(***************************************************************************)
(* An entry apart from its place among the others.                         *)
(***************************************************************************)
GoodFields(e) ==
    /\ GoodText(e.name) /\ GoodText(e.program) /\ GoodText(e.description)
    /\ MayBe(e.triggers, "array")
    /\ e.triggers.type = "array" =>
          \A k \in DOMAIN e.triggers.items : GoodText(e.triggers.items[k])
    /\ MayBe(e.risky, "boolean") /\ MayBe(e.in_process, "boolean")
    /\ IsTrue(e.in_process) => e.program = Str("cd")
    /\ MayBe(e.params, "array") /\ GoodParams(e.params)

-------------------------------------------------------------------------------
(***************************************************************************)
(* First finds nothing exactly if there is nothing to find: of indices     *)
(* that are not empty one is the least.                                    *)
(***************************************************************************)
LEMMA Least ==
    ASSUME NEW S \in SUBSET Nat, S # {}
    PROVE  \E m \in S : \A n \in S : m <= n
<1>1. \E x \in S : \A y \in S : ~(<<y, x>> \in OpToRel(<, Nat))
  BY NatLessThanWellFounded, WFMin, Zenon
<1>2. PICK x \in S : \A y \in S : ~(<<y, x>> \in OpToRel(<, Nat))
  BY <1>1
<1>3. \A y \in S : ~(y < x)
  BY <1>2 DEF OpToRel
<1>4. \A y \in S : x \in Int /\ y \in Int
  OBVIOUS
<1>5. \A y \in S : x <= y
  BY <1>3, <1>4
<1> QED
  BY <1>5

LEMMA FirstIsOk ==
    ASSUME NEW codes, DOMAIN codes \subseteq Nat
    PROVE  First(codes) = "ok" <=> \A i \in DOMAIN codes : codes[i] = "ok"
<1> DEFINE bad == {i \in DOMAIN codes : codes[i] # "ok"}
           least == CHOOSE i \in bad : \A j \in bad : i <= j
<1>1. CASE bad = {}
  BY <1>1 DEF First
<1>2. CASE bad # {}
  <2>1. bad \in SUBSET Nat
    OBVIOUS
  <2> HIDE DEF bad
  <2>2. \E i \in bad : \A j \in bad : i <= j
    BY <1>2, <2>1, Least
  <2>3. least \in bad
    BY <2>2
  <2>4. First(codes) = codes[least]
    BY <1>2 DEF First, bad
  <2> HIDE DEF least
  <2> QED
    BY <2>3, <2>4 DEF bad
<1> QED
  BY <1>1, <1>2

LEMMA FirstOfTwo ==
    ASSUME NEW a, NEW b
    PROVE  First(<<a, b>>) = "ok" <=> a = "ok" /\ b = "ok"
<1> DEFINE t == <<a, b>>
<1>1. DOMAIN t = 1..2 /\ t[1] = a /\ t[2] = b
  OBVIOUS
<1> HIDE DEF t
<1>2. First(t) = "ok" <=> \A i \in 1..2 : t[i] = "ok"
  BY <1>1, FirstIsOk
<1>3. (\A i \in 1..2 : t[i] = "ok") <=> t[1] = "ok" /\ t[2] = "ok"
  OBVIOUS
<1> QED
  BY <1>1, <1>2, <1>3 DEF t

LEMMA FirstOfSeven ==
    ASSUME NEW a, NEW b, NEW c, NEW d, NEW e, NEW f, NEW g
    PROVE  First(<<a, b, c, d, e, f, g>>) = "ok"
             <=> a = "ok" /\ b = "ok" /\ c = "ok" /\ d = "ok" /\ e = "ok" /\ f = "ok"
                 /\ g = "ok"
<1> DEFINE t == <<a, b, c, d, e, f, g>>
<1>1. /\ DOMAIN t = 1..7
      /\ t[1] = a /\ t[2] = b /\ t[3] = c /\ t[4] = d /\ t[5] = e /\ t[6] = f /\ t[7] = g
  OBVIOUS
<1> HIDE DEF t
<1>2. First(t) = "ok" <=> \A i \in 1..7 : t[i] = "ok"
  BY <1>1, FirstIsOk
<1>3. \A i \in 1..7 : i = 1 \/ i = 2 \/ i = 3 \/ i = 4 \/ i = 5 \/ i = 6 \/ i = 7
  OBVIOUS
<1>4. (\A i \in 1..7 : t[i] = "ok")
         <=> t[1] = "ok" /\ t[2] = "ok" /\ t[3] = "ok" /\ t[4] = "ok" /\ t[5] = "ok"
             /\ t[6] = "ok" /\ t[7] = "ok"
  BY <1>3
<1> QED
  BY <1>1, <1>2, <1>4 DEF t

LEMMA FirstOfEight ==
    ASSUME NEW a, NEW b, NEW c, NEW d, NEW e, NEW f, NEW g, NEW h
    PROVE  First(<<a, b, c, d, e, f, g, h>>) = "ok"
             <=> a = "ok" /\ b = "ok" /\ c = "ok" /\ d = "ok" /\ e = "ok" /\ f = "ok"
                 /\ g = "ok" /\ h = "ok"
<1> DEFINE t == <<a, b, c, d, e, f, g, h>>
<1>1. /\ DOMAIN t = 1..8
      /\ t[1] = a /\ t[2] = b /\ t[3] = c /\ t[4] = d /\ t[5] = e /\ t[6] = f /\ t[7] = g
      /\ t[8] = h
  OBVIOUS
<1> HIDE DEF t
<1>2. First(t) = "ok" <=> \A i \in 1..8 : t[i] = "ok"
  BY <1>1, FirstIsOk
<1>3. \A i \in 1..8 : i = 1 \/ i = 2 \/ i = 3 \/ i = 4 \/ i = 5 \/ i = 6 \/ i = 7 \/ i = 8
  OBVIOUS
<1>4. (\A i \in 1..8 : t[i] = "ok")
         <=> t[1] = "ok" /\ t[2] = "ok" /\ t[3] = "ok" /\ t[4] = "ok" /\ t[5] = "ok"
             /\ t[6] = "ok" /\ t[7] = "ok" /\ t[8] = "ok"
  BY <1>3
<1> QED
  BY <1>1, <1>2, <1>4 DEF t

-------------------------------------------------------------------------------
(***************************************************************************)
(* Each reader accepts what is good, and nothing else.                     *)
(***************************************************************************)
LEMMA TextRead ==
    ASSUME NEW v, IsValue(v)
    PROVE  /\ required_string(v) = "ok" <=> GoodText(v)
           /\ optional_string(v) = "ok" <=> MayBe(v, "string")
           /\ optional_bool(v) = "ok" <=> MayBe(v, "boolean")
           /\ Text(v) # "" <=> GoodText(v)
<1>1. CASE v = Missing
  <2>1. v.type = "missing"
    BY <1>1 DEF Missing
  <2>2. required_string(v) = "MissingField"
    BY <1>1, <2>1 DEF required_string
  <2> QED
    BY <2>1, <2>2 DEF optional_string, optional_bool, GoodText, MayBe, Text
<1>2. CASE v # Missing /\ v.type = "string"
  <2>1. required_string(v) = IF v.str = "" THEN "MissingField" ELSE "ok"
    BY <1>2 DEF required_string
  <2> QED
    BY <1>2, <2>1 DEF optional_string, optional_bool, GoodText, MayBe, Text
<1>3. CASE v # Missing /\ v.type # "string"
  <2>1. required_string(v) = "WrongType"
    BY <1>3 DEF required_string
  <2>2. v.type # "missing"
    BY <1>3 DEF IsValue
  <2> QED
    BY <1>3, <2>1, <2>2 DEF optional_string, optional_bool, GoodText, MayBe, Text
<1> QED
  BY <1>1, <1>2, <1>3

LEMMA TextsAreTold ==
    ASSUME NEW v, NEW w, IsValue(v), IsValue(w), GoodText(v), GoodText(w)
    PROVE  Text(v) = Text(w) <=> v = w
  BY DEF IsValue, GoodText, Text, Str

LEMMA TriggersRead ==
    ASSUME NEW v, IsValue(v), EachItem(v, IsValue)
    PROVE  optional_strings(v) = "ok"
             <=> /\ MayBe(v, "array")
                 /\ v.type = "array" => \A k \in DOMAIN v.items : GoodText(v.items[k])
<1>1. CASE v.type = "array"
  <2> DEFINE codes == [i \in DOMAIN v.items |-> required_string(v.items[i])]
  <2>1. DOMAIN v.items \subseteq Nat
    BY <1>1 DEF IsValue
  <2>2. DOMAIN codes = DOMAIN v.items
    OBVIOUS
  <2>3. First(codes) = "ok" <=> \A i \in DOMAIN codes : codes[i] = "ok"
    <3> HIDE DEF codes
    <3> QED
      BY <2>1, <2>2, FirstIsOk
  <2>4. \A i \in DOMAIN v.items : codes[i] = "ok" <=> GoodText(v.items[i])
    BY <1>1, TextRead DEF EachItem
  <2>5. optional_strings(v) = First(codes)
    BY <1>1 DEF optional_strings, Missing
  <2> HIDE DEF codes
  <2> QED
    BY <1>1, <2>2, <2>3, <2>4, <2>5 DEF MayBe
<1>2. CASE v.type # "array"
  BY <1>2 DEF optional_strings, IsValue, Missing, MayBe
<1> QED
  BY <1>1, <1>2

LEMMA ParamRead ==
    ASSUME NEW v, IsParam(v)
    PROVE  read_param(v) = "ok" <=> GoodParam(v)
<1>1. CASE v.type # "object"
  BY <1>1 DEF read_param, GoodParam
<1>2. CASE v.type = "object"
  <2> DEFINE p == v.fields
  <2>1. /\ IsValue(p.name) /\ IsValue(p.description) /\ IsValue(p.kind)
        /\ IsValue(p.flag) /\ IsValue(p.required)
    BY <1>2 DEF IsParam, HasFields, ParamKeys
  <2>2. read_param(v) = First(<<required_string(p.name), required_string(p.description),
                     required_string(p.kind), parse_kind(p.kind),
                     optional_string(p.flag), optional_bool(p.required),
                     FlagMatches(p)>>)
    BY <1>2 DEF read_param
  <2>3. GoodParam(v) <=>
           /\ GoodText(p.name) /\ GoodText(p.description)
           /\ GoodText(p.kind) /\ p.kind.str \in Kinds
           /\ MayBe(p.flag, "string") /\ MayBe(p.required, "boolean")
           /\ GoodText(p.flag) <=> p.kind.str \in {"flag", "option", "number"}
    BY <1>2 DEF GoodParam
  <2>4. FlagMatches(p) = "ok" <=> (carries_a_flag(Text(p.kind)) <=> Text(p.flag) # "")
    <3> DEFINE a == carries_a_flag(Text(p.kind))
               b == Text(p.flag) = ""
    <3>1. a \in BOOLEAN /\ b \in BOOLEAN
      BY DEF carries_a_flag
    <3>2. FlagMatches(p) = IF a = b THEN "FlagMismatch" ELSE "ok"
      BY DEF FlagMatches
    <3> HIDE DEF a, b
    <3>3. FlagMatches(p) = "ok" <=> (a <=> ~b)
      BY <3>1, <3>2, Zenon
    <3> QED
      BY <3>3 DEF a, b
  <2> HIDE DEF p
  <2>5. read_param(v) = "ok" <=>
           /\ required_string(p.name) = "ok" /\ required_string(p.description) = "ok"
           /\ required_string(p.kind) = "ok" /\ parse_kind(p.kind) = "ok"
           /\ optional_string(p.flag) = "ok" /\ optional_bool(p.required) = "ok"
           /\ FlagMatches(p) = "ok"
    BY <2>2, FirstOfSeven
  <2>6. GoodText(p.kind) =>
           (parse_kind(p.kind) = "ok" <=> p.kind.str \in Kinds) /\ Text(p.kind) = p.kind.str
    BY DEF GoodText, parse_kind, Text
  <2>7. Text(p.flag) # "" <=> GoodText(p.flag)
    BY <2>1, TextRead
  <2>8. /\ required_string(p.name) = "ok" <=> GoodText(p.name)
        /\ required_string(p.description) = "ok" <=> GoodText(p.description)
        /\ required_string(p.kind) = "ok" <=> GoodText(p.kind)
        /\ optional_string(p.flag) = "ok" <=> MayBe(p.flag, "string")
        /\ optional_bool(p.required) = "ok" <=> MayBe(p.required, "boolean")
    BY <2>1, TextRead
  <2>9. GoodText(p.kind) =>
           (carries_a_flag(Text(p.kind)) <=> p.kind.str \in {"flag", "option", "number"})
    BY <2>6 DEF carries_a_flag
  <2> QED
    BY <2>3, <2>4, <2>5, <2>6, <2>7, <2>8, <2>9
<1> QED
  BY <1>1, <1>2

LEMMA ParamsRead ==
    ASSUME NEW v, IsValue(v), EachItem(v, IsParam)
    PROVE  read_params(v) = "ok" <=> MayBe(v, "array") /\ GoodParams(v)
<1>1. CASE v.type = "array"
  <2> DEFINE items == v.items
             codes == [i \in DOMAIN items |-> ParamCode(items, i)]
             repeated(i) == \E j \in 1..(i - 1) :
                /\ items[j].type = "object" /\ Text(items[j].fields.name) # ""
                /\ items[i].type = "object" /\ Text(items[i].fields.name) # ""
                /\ items[j].fields.name = items[i].fields.name
  <2>1. PICK n \in Nat : DOMAIN items = 1..n
    BY <1>1 DEF IsValue
  <2>2. read_params(v) = First(codes)
    BY <1>1 DEF read_params, Missing
  <2>3. First(codes) = "ok" <=> \A i \in 1..n : codes[i] = "ok"
    <3>1. DOMAIN codes = 1..n
      BY <2>1
    <3> HIDE DEF codes
    <3> QED
      BY <2>1, <3>1, FirstIsOk
  <2>4. \A i \in 1..n : codes[i] = "ok" <=> GoodParam(items[i]) /\ ~repeated(i)
    <3> TAKE i \in 1..n
    <3>1. codes[i] = ParamCode(items, i)
      BY <2>1
    <3>2. ParamCode(items, i)
            = First(<<read_param(items[i]), IF repeated(i) THEN "DuplicateName" ELSE "ok">>)
      BY DEF ParamCode
    <3>3. read_param(items[i]) = "ok" <=> GoodParam(items[i])
      BY <1>1, <2>1, ParamRead DEF EachItem
    <3> HIDE DEF codes, repeated, items
    <3>4. ParamCode(items, i) = "ok" <=> read_param(items[i]) = "ok"
             /\ (IF repeated(i) THEN "DuplicateName" ELSE "ok") = "ok"
      BY <3>2, FirstOfTwo
    <3> QED
      BY <3>1, <3>3, <3>4
  <2>5. \A i \in 1..n : GoodParam(items[i]) =>
           items[i].type = "object" /\ Text(items[i].fields.name) # ""
    BY DEF GoodParam, GoodText, Text
  <2>6. (\A i \in 1..n : GoodParam(items[i])) =>
          ((\A i \in 1..n : ~repeated(i)) <=>
              \A i, j \in 1..n : items[i].fields.name = items[j].fields.name => i = j)
    <3> SUFFICES ASSUME \A i \in 1..n : GoodParam(items[i])
                 PROVE  (\A i \in 1..n : ~repeated(i)) <=>
                        \A i, j \in 1..n : items[i].fields.name = items[j].fields.name => i = j
      OBVIOUS
    <3>1. \A i \in 1..n, j \in 1..n : j < i => j \in 1..(i - 1)
      OBVIOUS
    <3>2. \A i \in 1..n : \A j \in 1..(i - 1) : j \in 1..n /\ j # i
      OBVIOUS
    <3>3. \A i \in 1..n, j \in 1..n : i = j \/ i < j \/ j < i
      OBVIOUS
    <3>4. ASSUME \A i \in 1..n : ~repeated(i),
                 NEW i \in 1..n, NEW j \in 1..n, items[i].fields.name = items[j].fields.name
          PROVE  i = j
      <4>1. ASSUME NEW k \in 1..n, NEW l \in 1..n, l < k,
                   items[k].fields.name = items[l].fields.name
            PROVE  FALSE
        <5>1. l \in 1..(k - 1) /\ ~repeated(k)
          BY <3>1, <3>4, <4>1
        <5> QED
          BY <2>5, <4>1, <5>1
      <4> QED
        BY <3>3, <3>4, <4>1
    <3>5. ASSUME \A i, j \in 1..n : items[i].fields.name = items[j].fields.name => i = j,
                 NEW i \in 1..n
          PROVE  ~repeated(i)
      BY <3>2, <3>5
    <3> QED
      BY <3>4, <3>5
  <2>7. GoodParams(v) <=>
          /\ \A i \in 1..n : GoodParam(items[i])
          /\ \A i, j \in 1..n : items[i].fields.name = items[j].fields.name => i = j
    BY <1>1, <2>1 DEF GoodParams
  <2> HIDE DEF codes, items, repeated
  <2> QED
    BY <1>1, <2>2, <2>3, <2>4, <2>6, <2>7 DEF MayBe
<1>2. CASE v.type # "array"
  BY <1>2 DEF read_params, IsValue, Missing, MayBe, GoodParams
<1> QED
  BY <1>1, <1>2

LEMMA SpecRead ==
    ASSUME NEW v, IsEntry(v)
    PROVE  read_spec(v) = "ok" <=> v.type = "object" /\ GoodFields(v.fields)
<1>1. CASE v.type # "object"
  BY <1>1 DEF read_spec
<1>2. CASE v.type = "object"
  <2> DEFINE e == v.fields
  <2>1. /\ IsValue(e.name) /\ IsValue(e.program) /\ IsValue(e.description)
        /\ IsValue(e.triggers) /\ IsValue(e.risky) /\ IsValue(e.in_process)
        /\ IsValue(e.params)
    BY <1>2 DEF IsEntry, HasFields, EntryKeys
  <2>2. EachItem(e.triggers, IsValue) /\ EachItem(e.params, IsParam)
    BY <1>2 DEF IsEntry
  <2>3. read_spec(v) = First(<<required_string(e.name), required_string(e.program),
                     required_string(e.description), optional_strings(e.triggers),
                     optional_bool(e.risky), optional_bool(e.in_process),
                     InProcessAllowed(e), read_params(e.params)>>)
    BY <1>2 DEF read_spec
  <2>4. InProcessAllowed(e) = "ok" <=> (IsTrue(e.in_process) => e.program = Str("cd"))
    BY DEF InProcessAllowed
  <2> HIDE DEF e
  <2>5. read_spec(v) = "ok" <=>
           /\ required_string(e.name) = "ok" /\ required_string(e.program) = "ok"
           /\ required_string(e.description) = "ok" /\ optional_strings(e.triggers) = "ok"
           /\ optional_bool(e.risky) = "ok" /\ optional_bool(e.in_process) = "ok"
           /\ InProcessAllowed(e) = "ok" /\ read_params(e.params) = "ok"
    BY <2>3, FirstOfEight
  <2>6. /\ required_string(e.name) = "ok" <=> GoodText(e.name)
        /\ required_string(e.program) = "ok" <=> GoodText(e.program)
        /\ required_string(e.description) = "ok" <=> GoodText(e.description)
        /\ optional_bool(e.risky) = "ok" <=> MayBe(e.risky, "boolean")
        /\ optional_bool(e.in_process) = "ok" <=> MayBe(e.in_process, "boolean")
    BY <2>1, TextRead
  <2>7. optional_strings(e.triggers) = "ok"
          <=> /\ MayBe(e.triggers, "array")
              /\ e.triggers.type = "array" =>
                    \A k \in DOMAIN e.triggers.items : GoodText(e.triggers.items[k])
    BY <2>1, <2>2, TriggersRead
  <2>8. read_params(e.params) = "ok" <=> MayBe(e.params, "array") /\ GoodParams(e.params)
    BY <2>1, <2>2, ParamsRead
  <2>9. GoodFields(e) <=>
           /\ required_string(e.name) = "ok" /\ required_string(e.program) = "ok"
           /\ required_string(e.description) = "ok" /\ optional_strings(e.triggers) = "ok"
           /\ optional_bool(e.risky) = "ok" /\ optional_bool(e.in_process) = "ok"
           /\ InProcessAllowed(e) = "ok" /\ read_params(e.params) = "ok"
    BY <2>4, <2>6, <2>7, <2>8 DEF GoodFields
  <2> QED
    BY <1>2, <2>5, <2>9 DEF e
<1> QED
  BY <1>1, <1>2

-------------------------------------------------------------------------------
(***************************************************************************)
(* The specs read so far are those of the first entries of the document,   *)
(* all of them good; the one that rejects it is the next.                  *)
(***************************************************************************)
SpecsIn(document) == {ToolSpec(document.items[i].fields) : i \in DOMAIN document.items}

Catalog ==
    /\ raw \in Documents
    /\ reader \in {"start", "entries", "accepted", "rejected"}
    /\ reader = "start" => mSpecs = <<>>
    /\ reader \in {"entries", "accepted"} \/ mSpecs # <<>> => raw.type = "array"
    /\ mSpecs \in Seq(SpecsIn(raw))
    /\ raw.type = "array" => Len(mSpecs) <= Len(raw.items)
    /\ \A i \in DOMAIN mSpecs :
          mSpecs[i] = ToolSpec(raw.items[i].fields) /\ GoodEntry(i)
    /\ reader = "accepted" =>
          Len(mSpecs) = Len(raw.items) /\ mSchemaJson = render_catalog(mSpecs)
    /\ (reader = "rejected" /\ raw.type = "array") =>
          error.entry = Len(mSpecs) + 1 /\ ~GoodEntry(error.entry)

LEMMA Items ==
    ASSUME Catalog, raw.type = "array"
    PROVE  /\ Len(raw.items) \in Nat /\ DOMAIN raw.items = 1..Len(raw.items)
           /\ \A i \in DOMAIN raw.items : IsEntry(raw.items[i])
  BY DocumentsAreJson DEF Catalog, EachItem, IsValue

LEMMA EntryNames ==
    ASSUME NEW v, IsEntry(v), v.type = "object", GoodFields(v.fields)
    PROVE  IsValue(v.fields.name) /\ GoodText(v.fields.name)
  BY DEF IsEntry, HasFields, EntryKeys, GoodFields

LEMMA WhatIsGood ==
    ASSUME NEW i
    PROVE  GoodEntry(i) <=>
              /\ raw.items[i].type = "object" /\ GoodFields(raw.items[i].fields)
              /\ \A j \in 1..(i - 1) :
                    raw.items[j].fields.name # raw.items[i].fields.name
  BY DEF GoodEntry, GoodFields

LEMMA SameDocument ==
    ASSUME raw' = raw, NEW i PROVE GoodEntry(i)' <=> GoodEntry(i)
  BY DEF GoodEntry

(***************************************************************************)
(* A name is known exactly if an entry before this one has it.             *)
(***************************************************************************)
LEMMA KnownNames ==
    ASSUME Catalog, More, Entry.type = "object", GoodFields(Entry.fields)
    PROVE  /\ Known(Text(Entry.fields.name)) <=>
                \E j \in 1..(Index - 1) : raw.items[j].fields.name = Entry.fields.name
           /\ GoodEntry(Index) <=> ~Known(Text(Entry.fields.name))
<1>1. raw.type = "array"
  BY DEF Catalog, More
<1>2. /\ Len(mSpecs) \in Nat /\ DOMAIN mSpecs = 1..Len(mSpecs)
      /\ Index = Len(mSpecs) + 1 /\ Index - 1 = Len(mSpecs)
  BY DEF Catalog, Index
<1>3. Index \in 1..Len(raw.items) /\ IsEntry(Entry)
  BY <1>1, <1>2, Items DEF More, Entry
<1>4. IsValue(Entry.fields.name) /\ GoodText(Entry.fields.name)
  BY <1>3, EntryNames
<1>5. ASSUME NEW j \in 1..Len(mSpecs)
      PROVE  mSpecs[j].name = Text(Entry.fields.name)
               <=> raw.items[j].fields.name = Entry.fields.name
  <2>1. mSpecs[j] = ToolSpec(raw.items[j].fields) /\ GoodEntry(j)
    BY <1>2 DEF Catalog
  <2>2. raw.items[j].type = "object" /\ GoodFields(raw.items[j].fields)
    BY <2>1, WhatIsGood
  <2>3. IsEntry(raw.items[j])
    <3>1. j \in DOMAIN raw.items
      BY <1>1, <1>2, <1>3, Items
    <3> QED
      BY <1>1, <3>1, Items
  <2>4. IsValue(raw.items[j].fields.name) /\ GoodText(raw.items[j].fields.name)
    BY <2>2, <2>3, EntryNames
  <2>5. mSpecs[j].name = Text(raw.items[j].fields.name)
    <3>1. ToolSpec(raw.items[j].fields).name = Text(raw.items[j].fields.name)
      BY DEF ToolSpec
    <3> QED
      BY <2>1, <3>1, Zenon
  <2> QED
    BY <1>4, <2>4, <2>5, TextsAreTold
<1>6. Known(Text(Entry.fields.name)) <=>
         \E j \in 1..(Index - 1) : raw.items[j].fields.name = Entry.fields.name
  BY <1>2, <1>5 DEF Known
<1>7. GoodEntry(Index) <=>
         \A j \in 1..(Index - 1) : raw.items[j].fields.name # Entry.fields.name
  BY WhatIsGood DEF Entry
<1> QED
  BY <1>6, <1>7

LEMMA CatalogInvInit == CatalogInit => Catalog
<1> SUFFICES ASSUME CatalogInit PROVE Catalog
  OBVIOUS
<1>1. mSpecs = <<>> /\ reader = "start" /\ raw \in Documents
  BY DEF CatalogInit
<1>2. <<>> \in Seq(SpecsIn(raw)) /\ Len(<<>>) = 0 /\ DOMAIN <<>> = {}
  OBVIOUS
<1>3. raw.type = "array" => Len(raw.items) \in Nat
  BY <1>1, DocumentsAreJson DEF IsValue
<1> QED
  BY <1>1, <1>2, <1>3 DEF Catalog

LEMMA ReadStep == ASSUME Catalog, ReadEntry PROVE Catalog'
<1>1. /\ mSpecs' = Append(mSpecs, ToolSpec(Entry.fields))
      /\ UNCHANGED <<raw, reader, mSchemaJson, error>>
      /\ reader = "entries" /\ Index <= Len(raw.items) /\ raw.type = "array"
  BY DEF ReadEntry, More, Catalog
<1>2. /\ Len(mSpecs) \in Nat /\ DOMAIN mSpecs = 1..Len(mSpecs)
      /\ mSpecs \in Seq(SpecsIn(raw)) /\ Index = Len(mSpecs) + 1
      /\ raw \in Documents
  BY DEF Catalog, Index
<1>3. Index \in DOMAIN raw.items /\ IsEntry(Entry)
  BY <1>1, <1>2, Items DEF Entry
<1>4. Entry.type = "object" /\ GoodFields(Entry.fields)
  BY <1>3, SpecRead DEF ReadEntry
<1>5. GoodEntry(Index)
  BY <1>4, KnownNames DEF ReadEntry
<1>6. ToolSpec(Entry.fields) \in SpecsIn(raw)
  BY <1>3 DEF SpecsIn, Entry
<1>7. \A i \in DOMAIN mSpecs :
         mSpecs[i] = ToolSpec(raw.items[i].fields) /\ GoodEntry(i)
  BY DEF Catalog
<1> DEFINE s == ToolSpec(Entry.fields)
           more == Append(mSpecs, s)
<1>8. s = ToolSpec(raw.items[Len(mSpecs) + 1].fields) /\ GoodEntry(Len(mSpecs) + 1)
  BY <1>2, <1>5 DEF Entry
<1> HIDE DEF s
<1>9. /\ more \in Seq(SpecsIn(raw)) /\ Len(more) = Len(mSpecs) + 1
      /\ DOMAIN more = 1..(Len(mSpecs) + 1) /\ more[Len(mSpecs) + 1] = s
      /\ \A i \in 1..Len(mSpecs) : more[i] = mSpecs[i]
  BY <1>2, <1>6 DEF s
<1>10. mSpecs' = more
  BY <1>1 DEF s
<1> HIDE DEF more
<1>11. \A i \in DOMAIN more : more[i] = ToolSpec(raw.items[i].fields) /\ GoodEntry(i)
  <2>1. \A i \in DOMAIN more : i \in 1..Len(mSpecs) \/ i = Len(mSpecs) + 1
    BY <1>2, <1>9
  <2> QED
    BY <1>2, <1>7, <1>8, <1>9, <2>1
<1>12. \A i : GoodEntry(i)' <=> GoodEntry(i)
  BY <1>1, SameDocument
<1> QED
  BY <1>1, <1>2, <1>9, <1>10, <1>11, <1>12 DEF Catalog

LEMMA RejectStep == ASSUME Catalog, BadEntry \/ RepeatedEntry PROVE Catalog'
<1>1. /\ reader' = "rejected" /\ error'.entry = Index
      /\ UNCHANGED <<raw, mSpecs, mSchemaJson>>
      /\ More
  BY DEF BadEntry, RepeatedEntry, Reject
<1>2. Index = Len(mSpecs) + 1 /\ Len(mSpecs) \in Nat /\ raw.type = "array"
  BY <1>1 DEF Catalog, Index, More
<1>3. IsEntry(Entry)
  BY <1>1, <1>2, Items DEF More, Entry
<1>4. ~GoodEntry(Index)
  <2>1. CASE BadEntry
    BY <1>3, <2>1, SpecRead, WhatIsGood DEF BadEntry, Entry
  <2>2. CASE RepeatedEntry
    <3>1. Entry.type = "object" /\ GoodFields(Entry.fields)
      BY <1>3, <2>2, SpecRead DEF RepeatedEntry
    <3> QED
      BY <1>1, <2>2, <3>1, KnownNames DEF RepeatedEntry
  <2> QED
    BY <2>1, <2>2
<1>5. \A i : GoodEntry(i)' <=> GoodEntry(i)
  BY <1>1, SameDocument
<1> QED
  BY <1>1, <1>2, <1>4, <1>5 DEF Catalog

LEMMA CatalogInvNext == ASSUME Catalog, CatalogNext PROVE Catalog'
<1>1. CASE Open
  <2>1. /\ reader' = "entries" /\ UNCHANGED <<raw, mSpecs, mSchemaJson, error>>
        /\ raw.type = "array"
    BY <1>1 DEF Open
  <2>2. \A i : GoodEntry(i)' <=> GoodEntry(i)
    BY <2>1, SameDocument
  <2> QED
    BY <2>1, <2>2 DEF Catalog
<1>2. CASE OpenFails
  <2>1. reader' = "rejected" /\ UNCHANGED <<raw, mSpecs, mSchemaJson>> /\ raw.type # "array"
    BY <1>2 DEF OpenFails, Reject
  <2>2. \A i : GoodEntry(i)' <=> GoodEntry(i)
    BY <2>1, SameDocument
  <2> QED
    BY <2>1, <2>2 DEF Catalog
<1>3. CASE Accept
  <2>1. /\ reader' = "accepted" /\ UNCHANGED <<raw, mSpecs, error>>
        /\ mSchemaJson' = render_catalog(mSpecs) /\ raw.type = "array"
        /\ Len(mSpecs) + 1 > Len(raw.items)
    BY <1>3 DEF Accept, Catalog, Index
  <2>2. Len(raw.items) \in Nat /\ Len(mSpecs) \in Nat /\ Len(mSpecs) <= Len(raw.items)
    BY <2>1, Items DEF Catalog
  <2>3. Len(mSpecs) = Len(raw.items)
    BY <2>1, <2>2
  <2>4. \A i : GoodEntry(i)' <=> GoodEntry(i)
    BY <2>1, SameDocument
  <2>5. mSchemaJson' = render_catalog(mSpecs')
    BY <2>1
  <2> QED
    BY <2>1, <2>3, <2>4, <2>5 DEF Catalog
<1> QED
  BY <1>1, <1>2, <1>3, ReadStep, RejectStep DEF CatalogNext

LEMMA CatalogStays == ASSUME Catalog, UNCHANGED catalogVars PROVE Catalog'
<1>1. UNCHANGED <<raw, reader, mSpecs, mSchemaJson, error>>
  BY DEF catalogVars
<1>2. \A i : GoodEntry(i)' <=> GoodEntry(i)
  BY <1>1, SameDocument
<1>3. render_catalog(mSpecs)' = render_catalog(mSpecs)
  BY <1>1 DEF render_catalog
<1> QED
  BY <1>1, <1>2, <1>3 DEF Catalog

LEMMA StepsOfTheCatalog ==
    ASSUME [Next]_vars
    PROVE  (CatalogNext /\ UNCHANGED callVars) \/ UNCHANGED catalogVars
  BY DEF Next, vars, Receive, UnknownTool, NotAnObject, BeginCommand, MissingArgument,
         LeftOut, Flag, Option, Number, Positional, PositionalList, BadArgument, Built,
         Terminated, Emit, Fails

LEMMA CatalogInvariance == Spec => []Catalog
<1>1. Init => Catalog
  BY CatalogInvInit DEF Init
<1>2. Catalog /\ [Next]_vars => Catalog'
  BY CatalogInvNext, CatalogStays, StepsOfTheCatalog
<1> QED
  BY <1>1, <1>2, PTL DEF Spec

(***************************************************************************)
(* A config file is accepted exactly if every entry is good, and rejected  *)
(* for its first that is not, however many entries it has and whatever is  *)
(* in them (tools.cpp:375-400).                                            *)
(***************************************************************************)
THEOREM BadEntriesReject == Spec => []FirstBadEntryRejects
<1>1. Catalog => FirstBadEntryRejects
  <2> SUFFICES ASSUME Catalog PROVE FirstBadEntryRejects
    OBVIOUS
  <2>1. Len(mSpecs) \in Nat /\ DOMAIN mSpecs = 1..Len(mSpecs)
    BY DEF Catalog
  <2>2. \A i \in 1..Len(mSpecs) : GoodEntry(i)
    BY <2>1 DEF Catalog
  <2>3. ASSUME reader = "accepted"
        PROVE  (\A i \in DOMAIN raw.items : GoodEntry(i)) /\ Len(mSpecs) = Len(raw.items)
    <3>1. raw.type = "array" /\ Len(mSpecs) = Len(raw.items)
      BY <2>3 DEF Catalog
    <3>2. DOMAIN raw.items = 1..Len(mSpecs)
      BY <3>1, Items
    <3> QED
      BY <2>2, <3>1, <3>2
  <2>4. ASSUME reader = "rejected", raw.type = "array"
        PROVE  ~GoodEntry(error.entry) /\ \A i \in 1..(error.entry - 1) : GoodEntry(i)
    <3>1. error.entry = Len(mSpecs) + 1 /\ ~GoodEntry(error.entry)
      BY <2>4 DEF Catalog
    <3>2. error.entry - 1 = Len(mSpecs)
      BY <2>1, <3>1
    <3> QED
      BY <2>2, <3>1, <3>2
  <2> QED
    BY <2>3, <2>4 DEF FirstBadEntryRejects
<1> QED
  BY <1>1, CatalogInvariance, PTL

(***************************************************************************)
(* What one spec has, seen from the entry it was made from.                *)
(***************************************************************************)
Sound(s) ==
    /\ s.program # ""
    /\ s.in_process => s.program = "cd"
    /\ \A k, l \in DOMAIN s.params : s.params[k].name = s.params[l].name => k = l
    /\ \A k \in DOMAIN s.params :
          /\ s.params[k].kind \in Kinds
          /\ carries_a_flag(s.params[k].kind) <=> s.params[k].flag # ""

LEMMA ParamsAreSound ==
    ASSUME NEW v, IsEntry(v), v.type = "object", GoodFields(v.fields)
    PROVE  /\ \E n \in Nat : DOMAIN ToolSpec(v.fields).params = 1..n
           /\ \E S : ToolSpec(v.fields).params \in Seq(S)
           /\ Sound(ToolSpec(v.fields))
<1> DEFINE e == v.fields
           s == ToolSpec(e)
<1>1. s.program = Text(e.program) /\ s.in_process = IsTrue(e.in_process)
  BY DEF ToolSpec
<1>2. GoodText(e.program) /\ (IsTrue(e.in_process) => e.program = Str("cd"))
  BY DEF GoodFields
<1>3. s.program # "" /\ (s.in_process => s.program = "cd")
  <2> HIDE DEF s, e
  <2>1. Text(e.program) # ""
    BY <1>2 DEF GoodText, Text
  <2>2. e.program = Str("cd") => Text(e.program) = "cd"
    BY DEF Text, Str
  <2> QED
    BY <1>1, <1>2, <2>1, <2>2, Zenon
<1>4. s.params = IF e.params = Missing THEN <<>>
                 ELSE [i \in DOMAIN e.params.items |-> ToolParam(e.params.items[i].fields)]
  BY DEF ToolSpec
<1>5. IsValue(e.params) /\ EachItem(e.params, IsParam)
  BY DEF IsEntry, HasFields, EntryKeys
<1>6. MayBe(e.params, "array") /\ GoodParams(e.params)
  BY DEF GoodFields
<1> HIDE DEF s, e
<1>7. CASE e.params = Missing
  <2>1. s.params = <<>> /\ <<>> \in Seq({}) /\ DOMAIN <<>> = 1..0 /\ 0 \in Nat /\ 1..0 = {}
    BY <1>4, <1>7
  <2> QED
    BY <2>1, <1>3 DEF Sound, s, e
<1>8. CASE e.params # Missing
  <2> DEFINE items == e.params.items
             params == [i \in DOMAIN items |-> ToolParam(items[i].fields)]
  <2>1. e.params.type = "array" /\ s.params = params
    BY <1>4, <1>5, <1>6, <1>8 DEF MayBe, IsValue
  <2>2. Len(items) \in Nat /\ DOMAIN items = 1..Len(items)
    BY <1>5, <2>1 DEF IsValue
  <2>3. /\ \A i \in DOMAIN items : GoodParam(items[i]) /\ IsParam(items[i])
        /\ \A i, j \in DOMAIN items : items[i].fields.name = items[j].fields.name => i = j
    BY <1>5, <1>6, <2>1 DEF GoodParams, EachItem
  <2> HIDE DEF items
  <2>4. ASSUME NEW i \in DOMAIN items
        PROVE  LET p == items[i].fields
               IN  /\ params[i] = ToolParam(p)
                   /\ IsValue(p.name) /\ GoodText(p.name)
                   /\ GoodText(p.kind) /\ p.kind.str \in Kinds
                   /\ GoodText(p.flag) <=> p.kind.str \in {"flag", "option", "number"}
    BY <2>3 DEF GoodParam, IsParam, HasFields, ParamKeys
  <2>5. ASSUME NEW i \in DOMAIN items
        PROVE  /\ params[i].name = Text(items[i].fields.name)
               /\ params[i].kind \in Kinds
               /\ carries_a_flag(params[i].kind) <=> params[i].flag # ""
    <3> DEFINE p == items[i].fields
    <3>1. /\ params[i].name = Text(p.name) /\ params[i].kind = Text(p.kind)
          /\ params[i].flag = Text(p.flag)
      BY <2>4 DEF ToolParam
    <3>2. Text(p.kind) = p.kind.str
      BY <2>4 DEF GoodText, Text
    <3>3. Text(p.flag) # "" <=> GoodText(p.flag)
      BY DEF GoodText, Text
    <3> QED
      BY <2>4, <3>1, <3>2, <3>3 DEF carries_a_flag
  <2>6. ASSUME NEW i \in DOMAIN items, NEW j \in DOMAIN items, params[i].name = params[j].name
        PROVE  i = j
    <3>1. Text(items[i].fields.name) = Text(items[j].fields.name)
      BY <2>5, <2>6
    <3>2. items[i].fields.name = items[j].fields.name
      BY <2>4, <3>1, TextsAreTold
    <3> QED
      BY <2>3, <3>2
  <2>7. DOMAIN params = 1..Len(items)
    BY <2>2
  <2>8. params \in Seq({params[i] : i \in 1..Len(items)})
    BY <2>2
  <2>9. DOMAIN params = DOMAIN items
    OBVIOUS
  <2> HIDE DEF params
  <2>10. Sound(s)
    BY <1>3, <2>1, <2>5, <2>6, <2>9 DEF Sound
  <2>11. \E n \in Nat : DOMAIN s.params = 1..n
    BY <2>1, <2>2, <2>7
  <2>12. \E S : s.params \in Seq(S)
    BY <2>1, <2>8
  <2> QED
    BY <2>10, <2>11, <2>12 DEF s, e
<1> QED
  BY <1>7, <1>8

LEMMA SpecsRead ==
    ASSUME Catalog
    PROVE  /\ \A i \in DOMAIN mSpecs :
                 Sound(mSpecs[i]) /\ (\E S : mSpecs[i].params \in Seq(S))
           /\ \A i, j \in DOMAIN mSpecs : mSpecs[i].name = mSpecs[j].name => i = j
<1>1. Len(mSpecs) \in Nat /\ DOMAIN mSpecs = 1..Len(mSpecs)
  BY DEF Catalog
<1>2. ASSUME NEW i \in DOMAIN mSpecs
      PROVE  /\ IsEntry(raw.items[i]) /\ raw.items[i].type = "object"
             /\ GoodFields(raw.items[i].fields) /\ mSpecs[i] = ToolSpec(raw.items[i].fields)
             /\ \A j \in 1..(i - 1) : raw.items[j].fields.name # raw.items[i].fields.name
  <2>1. mSpecs[i] = ToolSpec(raw.items[i].fields) /\ GoodEntry(i)
    BY DEF Catalog
  <2>2. raw.type = "array" /\ Len(mSpecs) <= Len(raw.items)
    <3>1. mSpecs # <<>>
      OBVIOUS
    <3> QED
      BY <3>1 DEF Catalog
  <2>3. i \in DOMAIN raw.items
    BY <1>1, <2>2, Items
  <2> QED
    BY <2>1, <2>2, <2>3, Items, WhatIsGood
<1>3. ASSUME NEW i \in DOMAIN mSpecs
      PROVE  Sound(mSpecs[i]) /\ (\E S : mSpecs[i].params \in Seq(S))
  BY <1>2, ParamsAreSound
<1>4. ASSUME NEW i \in DOMAIN mSpecs, NEW j \in DOMAIN mSpecs, j < i
      PROVE  mSpecs[i].name # mSpecs[j].name
  <2>1. mSpecs[i].name = Text(raw.items[i].fields.name)
        /\ mSpecs[j].name = Text(raw.items[j].fields.name)
    BY <1>2 DEF ToolSpec
  <2>2. j \in 1..(i - 1)
    BY <1>1, <1>4
  <2>3. raw.items[j].fields.name # raw.items[i].fields.name
    BY <1>2, <2>2
  <2>4. /\ IsValue(raw.items[i].fields.name) /\ GoodText(raw.items[i].fields.name)
        /\ IsValue(raw.items[j].fields.name) /\ GoodText(raw.items[j].fields.name)
    BY <1>2, EntryNames
  <2> QED
    BY <2>1, <2>3, <2>4, TextsAreTold
<1>5. \A i, j \in DOMAIN mSpecs : i = j \/ i < j \/ j < i
  BY <1>1
<1> QED
  BY <1>3, <1>4, <1>5

(***************************************************************************)
(* Every spec that is read keeps what the argv builder takes for granted,  *)
(* whatever the config file (tools.cpp:196, 243, 268-273, 392-394).        *)
(***************************************************************************)
THEOREM EverySpecIsSound == Spec => []SpecsAreSound
<1>1. Catalog => SpecsAreSound
  BY SpecsRead DEF Sound, SpecsAreSound
<1> QED
  BY <1>1, CatalogInvariance, PTL

-------------------------------------------------------------------------------
(***************************************************************************)
(* A parameter that the arguments give, if they must, with a value of its  *)
(* type that can be read; how many values stand in argv for it; a call     *)
(* that fits a spec.                                                       *)
(***************************************************************************)
Suits(v, type) == HasType(v, type) /\ ~Beyond(v, type)

FitsIn(given, p) ==
    /\ p.required => p.name \in DOMAIN given
    /\ p.name \in DOMAIN given => Suits(given[p.name], json_type(p.kind))

ValuesIn(given, p) ==
    IF p.name \notin DOMAIN given \/ p.kind = "flag" THEN 0
    ELSE IF p.kind = "positional_list" THEN Len(given[p.name].items) ELSE 1

Callable(specs, made) ==
    \E i \in DOMAIN specs :
        /\ specs[i].name = made.name /\ made.arguments.type = "object"
        /\ \A j \in DOMAIN specs[i].params :
              FitsIn(made.arguments.fields, specs[i].params[j])

(***************************************************************************)
(* What is in argv of the first n parameters.                              *)
(***************************************************************************)
ValuesOf(words, i) == {k \in DOMAIN words : words[k].param = i /\ words[k].what = "value"}

Behind(words, k, p) ==
    k > 1 /\ words[k - 1] = [param |-> words[k].param, what |-> "flag", text |-> p.flag]

Written(words, given, params, n) ==
    /\ \E S : words \in Seq(S)
    /\ \A k \in DOMAIN words :
          words[k].param \in 1..n /\ words[k].what \in {"flag", "value"}
    /\ \A k, l \in DOMAIN words : k < l => words[k].param <= words[l].param
    /\ \A i \in 1..n : Cardinality(ValuesOf(words, i)) = ValuesIn(given, params[i])
    /\ \A k \in DOMAIN words :
          words[k].what = "value" /\ carries_a_flag(params[words[k].param].kind)
             => Behind(words, k, params[words[k].param])

(***************************************************************************)
(* The builder has not begun, or is at the parameter next of the spec the  *)
(* call names: all before it fit, and what they give is in argv.  If it    *)
(* failed no spec fits the call.                                           *)
(***************************************************************************)
NotBegun == spec = NoSpec /\ next = 1 /\ args = <<>>

Begun ==
    /\ call.arguments.type = "object"
    /\ \E i \in DOMAIN mSpecs : mSpecs[i] = spec /\ spec.name = call.name
    /\ next \in 1..(Len(spec.params) + 1)
    /\ \A j \in 1..(next - 1) : FitsIn(Given, spec.params[j])
    /\ Written(args, Given, spec.params, next - 1)

Building ==
    /\ builder \in {"idle", "called", "params", "built", "failed"}
    /\ failure \in {"none", "UnknownTool", "BadToolCall", "MissingArgument"}
    /\ builder # "idle" => reader = "accepted" /\ call \in Calls
    /\ builder \in {"idle", "called"} => NotBegun
    /\ builder \in {"params", "built"} => Begun
    /\ NotBegun \/ Begun
    /\ builder = "built" => next > Len(spec.params)
    /\ builder = "failed" => ~Callable(mSpecs, call)

(***************************************************************************)
(* The spec that the call names is the only one of this name.              *)
(***************************************************************************)
LEMMA TheSpec ==
    ASSUME Catalog, Begun
    PROVE  /\ Sound(spec)
           /\ Len(spec.params) \in Nat /\ DOMAIN spec.params = 1..Len(spec.params)
           /\ \A i \in DOMAIN mSpecs : mSpecs[i].name = call.name => mSpecs[i] = spec
<1>1. PICK i \in DOMAIN mSpecs : mSpecs[i] = spec /\ spec.name = call.name
  BY DEF Begun
<1>2. Sound(spec) /\ \E S : spec.params \in Seq(S)
  BY <1>1, SpecsRead
<1>3. PICK S : spec.params \in Seq(S)
  BY <1>2
<1>4. \A j \in DOMAIN mSpecs : mSpecs[j].name = call.name => j = i
  BY <1>1, SpecsRead
<1> QED
  BY <1>1, <1>2, <1>3, <1>4

LEMMA NotCallable ==
    ASSUME Catalog, Begun, NEW j \in DOMAIN spec.params, ~FitsIn(Given, spec.params[j])
    PROVE  ~Callable(mSpecs, call)
<1>1. \A i \in DOMAIN mSpecs : mSpecs[i].name = call.name => mSpecs[i] = spec
  BY TheSpec
<1> QED
  BY <1>1 DEF Callable, Given

(***************************************************************************)
(* A value that can be read is one of the type the schema has for it, and  *)
(* no integer beyond int64.                                                *)
(***************************************************************************)
LEMMA ReadableFits ==
    ASSUME Param.kind \in Kinds
    PROVE  Readable <=> Suits(Value, json_type(Param.kind))
<1> DEFINE v == Value
           k == Param.kind
<1>1. Readable <=>
         \/ k = "flag" /\ v.type = "boolean"
         \/ k \in {"option", "positional"} /\ v.type = "string"
         \/ k = "number" /\ v.type = "integer" /\ FitsInt64(v.int)
         \/ k = "positional_list" /\ Texts(v)
  BY DEF Readable
<1> HIDE DEF v, k
<1>2. CASE k = "flag"
  <2>1. json_type(k) = "boolean"
    BY <1>2 DEF json_type
  <2>2. Suits(v, "boolean") <=> v.type = "boolean"
    BY DEF Suits, HasType, Beyond
  <2> QED
    BY <1>1, <1>2, <2>1, <2>2 DEF v, k
<1>3. CASE k = "option" \/ k = "positional"
  <2>1. json_type(k) = "string"
    BY <1>3 DEF json_type
  <2>2. Suits(v, "string") <=> v.type = "string"
    BY DEF Suits, HasType, Beyond
  <2> QED
    BY <1>1, <1>3, <2>1, <2>2 DEF v, k
<1>4. CASE k = "number"
  <2>1. json_type(k) = "integer"
    BY <1>4 DEF json_type
  <2>2. Suits(v, "integer") <=> v.type = "integer" /\ FitsInt64(v.int)
    BY DEF Suits, HasType, Beyond
  <2> QED
    BY <1>1, <1>4, <2>1, <2>2 DEF v, k
<1>5. CASE k = "positional_list"
  <2>1. json_type(k) = "array"
    BY <1>5 DEF json_type
  <2>2. Suits(v, "array") <=> Texts(v)
    BY DEF Suits, HasType, Beyond
  <2> QED
    BY <1>1, <1>5, <2>1, <2>2 DEF v, k
<1>6. k \in Kinds
  BY DEF k
<1> QED
  BY <1>2, <1>3, <1>4, <1>5, <1>6 DEF Kinds

-------------------------------------------------------------------------------
(***************************************************************************)
(* Words of the next parameter are added to argv: values are the words     *)
(* from lo on, and a spelling is before the value of a flagged kind.       *)
(***************************************************************************)
LEMMA WordsAdded ==
    ASSUME NEW a, NEW given, NEW params, NEW n \in Nat, Written(a, given, params, n),
           NEW T, NEW words \in Seq(T), NEW lo \in 1..(Len(words) + 1),
           \A k \in 1..Len(words) :
               words[k].param = n + 1 /\ words[k].what \in {"flag", "value"},
           \A k \in 1..Len(words) : words[k].what = "value" <=> lo <= k,
           Len(words) - lo + 1 = ValuesIn(given, params[n + 1]),
           carries_a_flag(params[n + 1].kind) =>
               \A k \in lo..Len(words) : Behind(words, k, params[n + 1])
    PROVE  Written(a \o words, given, params, n + 1)
<1> DEFINE y == a \o words
<1>1. PICK S : a \in Seq(S)
  BY DEF Written
<1>2. a \in Seq(S \cup T) /\ words \in Seq(S \cup T)
  BY <1>1
<1>3. /\ y \in Seq(S \cup T) /\ Len(y) = Len(a) + Len(words)
      /\ Len(a) \in Nat /\ Len(words) \in Nat
      /\ DOMAIN a = 1..Len(a) /\ DOMAIN y = 1..(Len(a) + Len(words))
      /\ \A k \in 1..Len(a) : y[k] = a[k]
  BY <1>1, <1>2
<1>4. \A k \in 1..Len(words) : y[Len(a) + k] = words[k]
  BY <1>1, <1>2, <1>3
<1> HIDE DEF y
<1>5. ASSUME NEW k \in DOMAIN y
      PROVE  \/ k \in 1..Len(a) /\ y[k] = a[k]
             \/ /\ k - Len(a) \in 1..Len(words) /\ y[k] = words[k - Len(a)]
                /\ k > Len(a) /\ k \in Int
  <2>1. CASE k \in 1..Len(a)
    BY <1>3, <2>1
  <2>2. CASE k \notin 1..Len(a)
    <3> DEFINE m == k - Len(a)
    <3>1. m \in 1..Len(words) /\ Len(a) + m = k /\ k > Len(a) /\ k \in Int
      <4>1. k \in 1..(Len(a) + Len(words)) /\ Len(a) \in Nat /\ Len(words) \in Nat
        BY <1>3
      <4>2. k > Len(a) /\ k \in Int
        BY <2>2, <4>1
      <4> QED
        BY <4>1, <4>2
    <3> HIDE DEF m
    <3>2. y[k] = words[m]
      BY <1>4, <3>1
    <3> QED
      BY <3>1, <3>2 DEF m
  <2> QED
    BY <2>1, <2>2
<1>6. \A k \in 1..Len(a) : /\ a[k].param \in 1..n /\ a[k].what \in {"flag", "value"}
                           /\ a[k].param # n + 1 /\ a[k].param \in Int
  BY <1>3 DEF Written
<1>7. \A k \in DOMAIN y :
         y[k].param \in 1..(n + 1) /\ y[k].what \in {"flag", "value"}
  BY <1>5, <1>6
<1>8. ASSUME NEW k \in DOMAIN y, NEW l \in DOMAIN y, k < l
      PROVE  y[k].param <= y[l].param
  <2>1. CASE l \in 1..Len(a) /\ y[l] = a[l]
    <3>1. k \in 1..Len(a) /\ y[k] = a[k]
      BY <1>3, <1>8, <2>1
    <3> QED
      BY <1>3, <1>8, <2>1, <3>1 DEF Written
  <2>2. CASE l - Len(a) \in 1..Len(words) /\ y[l] = words[l - Len(a)]
    <3>1. y[l].param = n + 1
      BY <2>2
    <3>2. y[k].param \in 1..(n + 1)
      BY <1>7
    <3> QED
      BY <3>1, <3>2
  <2> QED
    BY <1>5, <2>1, <2>2
<1>9. ASSUME NEW i \in 1..n
      PROVE  ValuesOf(y, i) = ValuesOf(a, i)
  <2>1. ASSUME NEW k \in DOMAIN y, y[k].param = i
        PROVE  k \in DOMAIN a /\ y[k] = a[k]
    <3>1. CASE k \in 1..Len(a) /\ y[k] = a[k]
      BY <1>3, <3>1
    <3>2. CASE k - Len(a) \in 1..Len(words) /\ y[k] = words[k - Len(a)]
      <4> DEFINE m == k - Len(a)
      <4>1. m \in 1..Len(words) /\ y[k] = words[m]
        BY <3>2
      <4> HIDE DEF m
      <4>2. y[k].param = n + 1
        BY <4>1
      <4> QED
        BY <2>1, <4>2
    <3> QED
      BY <1>5, <3>1, <3>2
  <2>2. \A k \in DOMAIN a : k \in DOMAIN y /\ y[k] = a[k]
    BY <1>3
  <2> QED
    BY <2>1, <2>2 DEF ValuesOf
<1>10. ValuesOf(y, n + 1) = (Len(a) + lo)..(Len(a) + Len(words))
  <2>1. ASSUME NEW k \in DOMAIN y, y[k].param = n + 1, y[k].what = "value"
        PROVE  k \in (Len(a) + lo)..(Len(a) + Len(words))
    <3>1. k - Len(a) \in 1..Len(words) /\ y[k] = words[k - Len(a)] /\ k \in Int
      BY <1>5, <1>6, <2>1
    <3>2. lo <= k - Len(a)
      BY <2>1, <3>1
    <3> QED
      BY <1>3, <3>1, <3>2
  <2>2. ASSUME NEW k \in (Len(a) + lo)..(Len(a) + Len(words))
        PROVE  k \in DOMAIN y /\ y[k].param = n + 1 /\ y[k].what = "value"
    <3> DEFINE m == k - Len(a)
    <3>1. m \in 1..Len(words) /\ lo <= m /\ Len(a) + m = k /\ k \in 1..(Len(a) + Len(words))
      BY <1>3
    <3> HIDE DEF m
    <3>2. y[k] = words[m]
      BY <1>4, <3>1
    <3> QED
      BY <1>3, <3>1, <3>2
  <2> QED
    BY <2>1, <2>2 DEF ValuesOf
<1>11. Cardinality(ValuesOf(y, n + 1)) = ValuesIn(given, params[n + 1])
  <2> DEFINE from == Len(a) + lo
             to == Len(a) + Len(words)
  <2>1. from \in Int /\ to \in Int
    BY <1>3
  <2>2. Cardinality(from..to) = IF from > to THEN 0 ELSE to - from + 1
    <3> HIDE DEF from, to
    <3> QED
      BY <2>1, FS_Interval
  <2>3. (IF from > to THEN 0 ELSE to - from + 1) = Len(words) - lo + 1
    BY <1>3
  <2> QED
    BY <1>10, <2>2, <2>3
<1>12. \A i \in 1..(n + 1) : Cardinality(ValuesOf(y, i)) = ValuesIn(given, params[i])
  <2>1. \A i \in 1..(n + 1) : i \in 1..n \/ i = n + 1
    OBVIOUS
  <2>2. \A i \in 1..n : Cardinality(ValuesOf(a, i)) = ValuesIn(given, params[i])
    BY DEF Written
  <2> QED
    BY <1>9, <1>11, <2>1, <2>2
<1>13. ASSUME NEW k \in DOMAIN y, y[k].what = "value",
              carries_a_flag(params[y[k].param].kind)
       PROVE  Behind(y, k, params[y[k].param])
  <2>1. CASE k \in 1..Len(a) /\ y[k] = a[k]
    <3>1. Behind(a, k, params[a[k].param])
      BY <1>3, <1>13, <2>1 DEF Written
    <3>2. k - 1 \in 1..Len(a)
      BY <1>3, <2>1, <3>1 DEF Behind
    <3> QED
      BY <1>3, <2>1, <3>1, <3>2 DEF Behind
  <2>2. CASE /\ k - Len(a) \in 1..Len(words) /\ y[k] = words[k - Len(a)]
             /\ k > Len(a) /\ k \in Int
    <3> DEFINE m == k - Len(a)
    <3>1. y[k] = words[m] /\ m \in 1..Len(words) /\ y[k].param = n + 1 /\ lo <= m
      BY <1>13, <2>2
    <3>2. m \in lo..Len(words)
      BY <3>1
    <3>3. Behind(words, m, params[n + 1])
      BY <1>13, <3>1, <3>2
    <3>4. m > 1 /\ m - 1 \in 1..Len(words) /\ Len(a) + (m - 1) = k - 1 /\ k > 1
      <4>1. m > 1
        BY <3>3 DEF Behind
      <4>2. m \in 1..Len(words) /\ m \in Int /\ Len(a) + m = k
        BY <1>3, <2>2
      <4> HIDE DEF m
      <4> QED
        BY <1>3, <4>1, <4>2
    <3>5. y[k - 1] = words[m - 1]
      BY <1>4, <3>4
    <3> HIDE DEF m
    <3>6. words[m - 1] = [param |-> words[m].param, what |-> "flag",
                          text |-> params[n + 1].flag]
      BY <3>3 DEF Behind
    <3> QED
      BY <3>1, <3>4, <3>5, <3>6 DEF Behind
  <2> QED
    BY <1>5, <2>1, <2>2
<1>14. \E U : y \in Seq(U)
  BY <1>3
<1> QED
  BY <1>7, <1>8, <1>12, <1>13, <1>14 DEF Written, y

(***************************************************************************)
(* A parameter whose words are added, once its value was found readable.   *)
(***************************************************************************)
LEMMA EmitStep ==
    ASSUME Catalog, Building, Provided, Readable,
           NEW T, NEW words \in Seq(T), Emit(words), NEW lo \in 1..(Len(words) + 1),
           \A k \in 1..Len(words) :
               words[k].param = next /\ words[k].what \in {"flag", "value"},
           \A k \in 1..Len(words) : words[k].what = "value" <=> lo <= k,
           Len(words) - lo + 1 = ValuesIn(Given, Param),
           carries_a_flag(Param.kind) =>
               \A k \in lo..Len(words) : Behind(words, k, Param)
    PROVE  Building'
<1>1. builder = "params" /\ next <= Len(spec.params) /\ Param.name \in DOMAIN Given
  BY DEF Provided, AtParam
<1>2. Begun
  BY <1>1 DEF Building
<1>3. /\ args' = args \o words /\ next' = next + 1
      /\ UNCHANGED <<call, builder, spec, failure, mSpecs, reader>>
  BY DEF Emit, catalogVars
<1>4. Sound(spec) /\ Len(spec.params) \in Nat /\ DOMAIN spec.params = 1..Len(spec.params)
  BY <1>2, TheSpec
<1>5. next \in 1..Len(spec.params) /\ next - 1 \in Nat /\ (next - 1) + 1 = next
  BY <1>1, <1>2, <1>4 DEF Begun
<1>6. FitsIn(Given, Param)
  <2>1. Param.kind \in Kinds
    BY <1>4, <1>5 DEF Sound, Param
  <2>2. Suits(Given[Param.name], json_type(Param.kind))
    BY <2>1, ReadableFits DEF Value
  <2> QED
    BY <1>1, <2>2 DEF FitsIn
<1> DEFINE n == next - 1
           params == spec.params
           given == Given
<1>7. /\ n \in Nat /\ n + 1 = next /\ params[n + 1] = Param
      /\ Written(args, given, params, n)
  BY <1>2, <1>5 DEF Begun, Param
<1>8. /\ \A k \in 1..Len(words) :
            words[k].param = n + 1 /\ words[k].what \in {"flag", "value"}
      /\ Len(words) - lo + 1 = ValuesIn(given, params[n + 1])
      /\ carries_a_flag(params[n + 1].kind) =>
            \A k \in lo..Len(words) : Behind(words, k, params[n + 1])
  BY <1>7
<1> HIDE DEF n, params, given
<1>9. Written(args \o words, given, params, n + 1)
  BY <1>7, <1>8, WordsAdded
<1>10. Written(args', Given', spec'.params, next' - 1)
  <2>1. next' - 1 = n + 1 /\ Given' = given /\ spec'.params = params
    BY <1>3, <1>5, <1>7 DEF Given, given, params
  <2> QED
    BY <1>3, <1>9, <2>1
<1>11. \A j \in 1..(next' - 1) : FitsIn(Given', spec'.params[j])
  <2>1. \A j \in 1..(next' - 1) : j \in 1..(next - 1) \/ j = next
    BY <1>3, <1>5
  <2>2. Given' = Given /\ spec' = spec /\ spec.params[next] = Param
    BY <1>3 DEF Given, Param
  <2> QED
    BY <1>2, <1>6, <2>1, <2>2 DEF Begun
<1>12. next' \in 1..(Len(spec'.params) + 1)
  BY <1>3, <1>4, <1>5
<1>13. Begun'
  BY <1>2, <1>3, <1>10, <1>11, <1>12 DEF Begun
<1> QED
  BY <1>1, <1>3, <1>13 DEF Building

-------------------------------------------------------------------------------
(***************************************************************************)
(* The kinds of parameter, one by one.                                     *)
(***************************************************************************)
LEMMA FlagStep == ASSUME Catalog, Building, Flag PROVE Building'
<1>1. Provided /\ Param.kind = "flag" /\ Value.type = "boolean"
  BY DEF Flag
<1>2. Readable
  BY <1>1 DEF Readable
<1>3. ValuesIn(Given, Param) = 0
  BY <1>1 DEF ValuesIn, Provided
<1> DEFINE words == IF Value.bool THEN <<Spelling>> ELSE <<>>
<1>4. /\ words \in Seq({Spelling}) /\ Len(words) \in Nat
      /\ \A k \in 1..Len(words) : words[k] = Spelling
  <2>1. words = <<Spelling>> \/ words = <<>>
    OBVIOUS
  <2>2. /\ <<Spelling>> \in Seq({Spelling}) /\ Len(<<Spelling>>) = 1
        /\ <<Spelling>>[1] = Spelling
    OBVIOUS
  <2>3. <<>> \in Seq({Spelling}) /\ Len(<<>>) = 0
    OBVIOUS
  <2> HIDE DEF words
  <2>4. CASE words = <<Spelling>>
    <3>1. \A k \in 1..1 : k = 1
      OBVIOUS
    <3> QED
      BY <2>2, <2>4, <3>1
  <2>5. CASE words = <<>>
    BY <2>3, <2>5
  <2> QED
    BY <2>1, <2>4, <2>5
<1>5. Emit(words)
  BY DEF Flag
<1> HIDE DEF words
<1>6. Spelling.param = next /\ Spelling.what = "flag"
  BY DEF Spelling
<1> DEFINE lo == Len(words) + 1
<1>7. /\ lo \in 1..(Len(words) + 1) /\ Len(words) - lo + 1 = ValuesIn(Given, Param)
      /\ \A k \in 1..Len(words) : ~(lo <= k)
      /\ lo..Len(words) = {}
  BY <1>3, <1>4
<1> HIDE DEF lo
<1>8. /\ \A k \in 1..Len(words) :
             words[k].param = next /\ words[k].what \in {"flag", "value"}
      /\ \A k \in 1..Len(words) : words[k].what = "value" <=> lo <= k
  BY <1>4, <1>6, <1>7
<1>9. \A k \in lo..Len(words) : Behind(words, k, Param)
  BY <1>7
<1> QED
  BY <1>1, <1>2, <1>4, <1>5, <1>7, <1>8, <1>9, EmitStep

(***************************************************************************)
(* A spelling and its value, and a value alone.                            *)
(***************************************************************************)
LEMMA SpelledStep ==
    ASSUME Catalog, Building, Provided, Readable, Param.kind \in {"option", "number"},
           NEW v, Emit(<<Spelling, ValueWord(v)>>)
    PROVE  Building'
<1> DEFINE e == Spelling
           f == ValueWord(v)
           words == <<e, f>>
<1>1. ValuesIn(Given, Param) = 1
  BY DEF ValuesIn, Provided
<1>2. /\ e = [param |-> next, what |-> "flag", text |-> Param.flag]
      /\ f.param = next /\ f.what = "value" /\ e.param = next /\ e.what = "flag"
  BY DEF Spelling, ValueWord
<1>3. Emit(words)
  OBVIOUS
<1> HIDE DEF e, f
<1>4. words \in Seq({e, f}) /\ Len(words) = 2 /\ words[1] = e /\ words[2] = f
  OBVIOUS
<1> HIDE DEF words
<1>5. \A k \in 1..2 : k = 1 \/ k = 2
  OBVIOUS
<1>6. /\ \A k \in 1..Len(words) :
             words[k].param = next /\ words[k].what \in {"flag", "value"}
      /\ \A k \in 1..Len(words) : words[k].what = "value" <=> 2 <= k
  BY <1>2, <1>4, <1>5
<1>7. 2 \in 1..(Len(words) + 1) /\ Len(words) - 2 + 1 = ValuesIn(Given, Param)
  BY <1>1, <1>4
<1>8. \A k \in 2..Len(words) : Behind(words, k, Param)
  <2>1. \A k \in 2..Len(words) : k = 2
    BY <1>4
  <2>2. Behind(words, 2, Param)
    BY <1>2, <1>4 DEF Behind
  <2> QED
    BY <2>1, <2>2
<1> QED
  BY <1>3, <1>4, <1>6, <1>7, <1>8, EmitStep

LEMMA ValueStep ==
    ASSUME Catalog, Building, Provided, Readable,
           Param.kind \in {"positional", "positional_list"},
           NEW T, NEW words \in Seq(T), Emit(words),
           \A k \in 1..Len(words) : words[k].param = next /\ words[k].what = "value",
           Len(words) = ValuesIn(Given, Param)
    PROVE  Building'
<1>1. Len(words) \in Nat
  OBVIOUS
<1>2. 1 \in 1..(Len(words) + 1) /\ Len(words) - 1 + 1 = ValuesIn(Given, Param)
  BY <1>1
<1>3. ~carries_a_flag(Param.kind)
  BY DEF carries_a_flag
<1>4. /\ \A k \in 1..Len(words) :
             words[k].param = next /\ words[k].what \in {"flag", "value"}
      /\ \A k \in 1..Len(words) : words[k].what = "value" <=> 1 <= k
  BY <1>1
<1> QED
  BY <1>2, <1>3, <1>4, EmitStep

LEMMA ListStep == ASSUME Catalog, Building, PositionalList PROVE Building'
<1>1. Provided /\ Param.kind = "positional_list" /\ Texts(Value)
  BY DEF PositionalList
<1>2. Readable
  BY <1>1 DEF Readable
<1> DEFINE items == Value.items
           words == [i \in DOMAIN items |-> ValueWord(items[i].str)]
<1>3. Len(items) \in Nat /\ DOMAIN items = 1..Len(items)
  <2>1. call \in Calls
    BY <1>1 DEF Building, Provided, AtParam
  <2>2. call.arguments.type = "object"
    BY <1>1 DEF Building, Begun, Provided, AtParam
  <2>3. IsValue(Value)
    BY <1>1, <2>1, <2>2, CallsAreJson DEF Provided, Value, Given
  <2> QED
    BY <1>1, <2>3 DEF Texts, IsValue
<1>4. ValuesIn(Given, Param) = Len(items)
  BY <1>1 DEF ValuesIn, Provided, Value
<1>5. Emit(words)
  BY DEF PositionalList
<1> HIDE DEF items
<1>6. words \in Seq({ValueWord(items[i].str) : i \in 1..Len(items)}) /\ Len(words) = Len(items)
  BY <1>3
<1>7. \A k \in 1..Len(words) : words[k] = ValueWord(items[k].str)
  BY <1>3, <1>6
<1> HIDE DEF words
<1>8. \A k \in 1..Len(words) : words[k].param = next /\ words[k].what = "value"
  <2>1. \A v : ValueWord(v).param = next /\ ValueWord(v).what = "value"
    BY DEF ValueWord
  <2> QED
    BY <1>7, <2>1
<1> QED
  BY <1>1, <1>2, <1>4, <1>5, <1>6, <1>8, ValueStep

LEMMA PositionalStep == ASSUME Catalog, Building, Positional PROVE Building'
<1>1. /\ Provided /\ Param.kind = "positional" /\ Value.type = "string"
      /\ Emit(<<ValueWord(Value.str)>>)
  BY DEF Positional
<1>2. Readable
  BY <1>1 DEF Readable
<1>3. ValuesIn(Given, Param) = 1
  BY <1>1 DEF ValuesIn, Provided
<1> DEFINE e == ValueWord(Value.str)
           words == <<e>>
<1>4. Emit(words) /\ e.param = next /\ e.what = "value"
  BY <1>1 DEF ValueWord
<1> HIDE DEF e
<1>5. words \in Seq({e}) /\ Len(words) = 1 /\ words[1] = e
  OBVIOUS
<1> HIDE DEF words
<1>6. \A k \in 1..Len(words) : words[k].param = next /\ words[k].what = "value"
  <2>1. \A k \in 1..Len(words) : k = 1
    BY <1>5
  <2>2. words[1].param = next /\ words[1].what = "value"
    <3>1. e.param = next /\ e.what = "value"
      BY <1>4
    <3> QED
      BY <1>5, <3>1
  <2> QED
    BY <2>1, <2>2
<1> QED
  BY <1>1, <1>2, <1>3, <1>4, <1>5, <1>6, ValueStep

(***************************************************************************)
(* A parameter that is left out and need not be there.                     *)
(***************************************************************************)
LEMMA LeftOutStep == ASSUME Catalog, Building, LeftOut PROVE Building'
<1>1. /\ builder = "params" /\ next <= Len(spec.params)
      /\ Param.name \notin DOMAIN Given /\ ~Param.required
      /\ next' = next + 1
      /\ UNCHANGED <<call, builder, spec, args, failure, mSpecs, reader>>
  BY DEF LeftOut, AtParam, catalogVars
<1>2. Begun
  BY <1>1 DEF Building
<1>3. Len(spec.params) \in Nat
  BY <1>2, TheSpec
<1>4. next \in 1..Len(spec.params) /\ next - 1 \in Nat /\ (next - 1) + 1 = next
  BY <1>1, <1>2, <1>3 DEF Begun
<1> DEFINE n == next - 1
           params == spec.params
           given == Given
<1>5. /\ n \in Nat /\ n + 1 = next /\ params[n + 1] = Param
      /\ Written(args, given, params, n)
  BY <1>2, <1>4 DEF Begun, Param
<1>6. ValuesIn(given, params[n + 1]) = 0
  <2>1. ValuesIn(Given, Param) = 0
    BY <1>1 DEF ValuesIn
  <2> QED
    BY <1>5, <2>1
<1> HIDE DEF n, params, given
<1>7. /\ <<>> \in Seq({}) /\ Len(<<>>) = 0 /\ 1 \in 1..(Len(<<>>) + 1)
      /\ 1..Len(<<>>) = {} /\ Len(<<>>) - 1 + 1 = 0
  OBVIOUS
<1>8. Written(args \o <<>>, given, params, n + 1)
  BY <1>5, <1>6, <1>7, WordsAdded
<1>9. args \o <<>> = args
  <2>1. PICK S : args \in Seq(S)
    BY <1>5 DEF Written
  <2> QED
    BY <2>1
<1>10. Written(args', Given', spec'.params, next' - 1)
  <2>1. next' - 1 = n + 1 /\ Given' = given /\ spec'.params = params
    BY <1>1, <1>4, <1>5 DEF Given, given, params
  <2> QED
    BY <1>1, <1>8, <1>9, <2>1
<1>11. \A j \in 1..(next' - 1) : FitsIn(Given', spec'.params[j])
  <2>1. \A j \in 1..(next' - 1) : j \in 1..(next - 1) \/ j = next
    BY <1>1, <1>4
  <2>2. Given' = Given /\ spec' = spec /\ spec.params[next] = Param
    BY <1>1 DEF Given, Param
  <2>3. FitsIn(Given, Param)
    BY <1>1 DEF FitsIn
  <2> QED
    BY <1>2, <2>1, <2>2, <2>3 DEF Begun
<1>12. next' \in 1..(Len(spec'.params) + 1)
  BY <1>1, <1>3, <1>4
<1>13. Begun'
  BY <1>1, <1>2, <1>10, <1>11, <1>12 DEF Begun
<1> QED
  BY <1>1, <1>13 DEF Building

-------------------------------------------------------------------------------
(***************************************************************************)
(* Steps that leave argv alone.                                            *)
(***************************************************************************)
LEMMA Same ==
    ASSUME UNCHANGED <<call, spec, next, args, mSpecs>>
    PROVE  (NotBegun' <=> NotBegun) /\ (Begun' <=> Begun)
           /\ (Callable(mSpecs, call)' <=> Callable(mSpecs, call))
<1>1. Given' = Given
  BY DEF Given
<1> QED
  BY <1>1 DEF NotBegun, Begun

LEMMA FailStep ==
    ASSUME Building, NEW code \in {"UnknownTool", "BadToolCall", "MissingArgument"},
           Fails(code), builder # "idle", ~Callable(mSpecs, call)
    PROVE  Building'
<1>1. /\ builder' = "failed" /\ failure' = code
      /\ UNCHANGED <<call, spec, next, args, mSpecs, reader>>
  BY DEF Fails, catalogVars
<1> QED
  BY <1>1, Same DEF Building

LEMMA FailingSteps ==
    ASSUME Catalog, Building,
           UnknownTool \/ NotAnObject \/ MissingArgument \/ BadArgument
    PROVE  Building'
<1>1. CASE UnknownTool
  <2>1. ~Callable(mSpecs, call)
    BY <1>1 DEF UnknownTool, Known, Callable
  <2> QED
    BY <1>1, <2>1, FailStep DEF UnknownTool
<1>2. CASE NotAnObject
  <2>1. ~Callable(mSpecs, call)
    BY <1>2 DEF NotAnObject, Callable
  <2> QED
    BY <1>2, <2>1, FailStep DEF NotAnObject
<1>3. ASSUME AtParam
      PROVE  /\ Begun /\ Param = spec.params[next] /\ next \in DOMAIN spec.params
             /\ Param.kind \in Kinds /\ builder = "params"
  <2>1. Begun /\ builder = "params" /\ next <= Len(spec.params)
    BY <1>3 DEF AtParam, Building
  <2>2. next \in DOMAIN spec.params
    BY <2>1, TheSpec DEF Begun
  <2> QED
    BY <2>1, <2>2, TheSpec DEF Param, Sound
<1>4. CASE MissingArgument
  <2>1. ~FitsIn(Given, Param) /\ AtParam
    BY <1>4 DEF MissingArgument, FitsIn
  <2>2. ~Callable(mSpecs, call)
    BY <1>3, <2>1, NotCallable
  <2> QED
    BY <1>3, <1>4, <2>1, <2>2, FailStep DEF MissingArgument
<1>5. CASE BadArgument
  <2>1. AtParam /\ Param.name \in DOMAIN Given /\ ~Readable
    BY <1>5 DEF BadArgument, Provided
  <2>2. ~Suits(Given[Param.name], json_type(Param.kind))
    BY <1>3, <2>1, ReadableFits DEF Value
  <2>3. ~FitsIn(Given, Param)
    BY <2>1, <2>2 DEF FitsIn
  <2>4. ~Callable(mSpecs, call)
    BY <1>3, <2>1, <2>3, NotCallable
  <2> QED
    BY <1>3, <1>5, <2>1, <2>4, FailStep DEF BadArgument
<1> QED
  BY <1>1, <1>2, <1>4, <1>5

LEMMA BeginStep == ASSUME Catalog, Building, BeginCommand PROVE Building'
<1>1. /\ builder = "called" /\ builder' = "params" /\ call.arguments.type = "object"
      /\ UNCHANGED <<call, next, args, failure, mSpecs, reader>>
  BY DEF BeginCommand, catalogVars
<1>2. PICK i \in DOMAIN mSpecs : mSpecs[i].name = call.name /\ spec' = mSpecs[i]
  BY DEF BeginCommand
<1>3. next = 1 /\ args = <<>>
  BY <1>1 DEF Building, NotBegun
<1>4. Len(spec'.params) \in Nat
  BY <1>2, SpecsRead
<1>5. Written(<<>>, Given', spec'.params, 0)
  <2>1. <<>> \in Seq({}) /\ DOMAIN <<>> = {} /\ 1..0 = {}
    OBVIOUS
  <2> QED
    BY <2>1 DEF Written
<1>6. next' \in 1..(Len(spec'.params) + 1) /\ next' - 1 = 0 /\ 1..(next' - 1) = {}
  BY <1>1, <1>3, <1>4
<1>7. Written(args', Given', spec'.params, next' - 1)
  BY <1>1, <1>3, <1>5, <1>6
<1>8. Begun'
  BY <1>1, <1>2, <1>6, <1>7 DEF Begun
<1> QED
  BY <1>1, <1>8 DEF Building

LEMMA ReceiveStep == ASSUME Building, Receive PROVE Building'
<1>1. /\ reader = "accepted" /\ builder = "idle" /\ call' \in Calls /\ builder' = "called"
      /\ UNCHANGED <<spec, next, args, failure, reader>>
  BY DEF Receive, catalogVars
<1> QED
  BY <1>1 DEF Building, NotBegun

LEMMA BuiltStep == ASSUME Building, Built PROVE Building'
<1>1. /\ builder = "params" /\ next > Len(spec.params) /\ builder' = "built"
      /\ UNCHANGED <<call, spec, next, args, failure, mSpecs, reader>>
  BY DEF Built, catalogVars
<1> QED
  BY <1>1, Same DEF Building

(***************************************************************************)
(* The catalog is read before any call comes, and then kept.               *)
(***************************************************************************)
LEMMA ReadingStep == ASSUME Building, CatalogNext, UNCHANGED callVars PROVE Building'
<1>1. reader \in {"start", "entries"}
  BY DEF CatalogNext, Open, OpenFails, ReadEntry, BadEntry, RepeatedEntry, Accept, More
<1>2. UNCHANGED <<call, builder, spec, next, args, failure>>
  BY DEF callVars
<1> QED
  BY <1>1, <1>2 DEF Building, NotBegun

LEMMA BuildingInit == Init => Building
  BY DEF Init, Building, NotBegun

LEMMA BuildingNext == Catalog /\ Building /\ [Next]_vars => Building'
<1> SUFFICES ASSUME Catalog, Building, [Next]_vars PROVE Building'
  OBVIOUS
<1>1. CASE CatalogNext /\ UNCHANGED callVars
  BY <1>1, ReadingStep
<1>2. CASE Receive \/ BeginCommand \/ Built
  BY <1>2, ReceiveStep, BeginStep, BuiltStep
<1>3. CASE UnknownTool \/ NotAnObject \/ MissingArgument \/ BadArgument
  BY <1>3, FailingSteps
<1>4. CASE LeftOut \/ Flag \/ Positional \/ PositionalList
  BY <1>4, LeftOutStep, FlagStep, PositionalStep, ListStep
<1>5. CASE Option
  <2>1. /\ Provided /\ Param.kind = "option" /\ Value.type = "string"
        /\ Emit(<<Spelling, ValueWord(Value.str)>>)
    BY <1>5 DEF Option
  <2>2. Readable
    BY <2>1 DEF Readable
  <2> QED
    BY <2>1, <2>2, SpelledStep
<1>6. CASE Number
  <2>1. /\ Provided /\ Param.kind = "number" /\ Value.type = "integer"
        /\ FitsInt64(Value.int) /\ Emit(<<Spelling, ValueWord(ToString(Value.int))>>)
    BY <1>6 DEF Number
  <2>2. Readable
    BY <2>1 DEF Readable
  <2> QED
    BY <2>1, <2>2, SpelledStep
<1>7. CASE UNCHANGED vars
  <2>1. /\ UNCHANGED <<call, spec, next, args, mSpecs>>
        /\ UNCHANGED <<builder, failure, reader>>
    BY <1>7 DEF vars, callVars, catalogVars
  <2> QED
    BY <2>1, Same DEF Building
<1> QED
  BY <1>1, <1>2, <1>3, <1>4, <1>5, <1>6, <1>7 DEF Next, Terminated

LEMMA Invariance == Spec => [](Catalog /\ Building)
<1>1. Catalog /\ [Next]_vars => Catalog'
  BY CatalogInvNext, CatalogStays, StepsOfTheCatalog
<1>2. Init => Catalog
  BY CatalogInvInit DEF Init
<1> QED
  BY <1>1, <1>2, BuildingInit, BuildingNext, PTL DEF Spec

-------------------------------------------------------------------------------
(***************************************************************************)
(* Every variable keeps to its type: argv has only words of parameters of  *)
(* the spec, and no call is looked at before there is a catalog            *)
(* (command.cpp:54-76).                                                    *)
(***************************************************************************)
THEOREM TypeCorrect == Spec => []TypeOK
<1>1. Catalog /\ Building => TypeOK
  <2> SUFFICES ASSUME Catalog, Building PROVE TypeOK
    OBVIOUS
  <2>1. CASE NotBegun
    <3>1. spec.params = <<>> /\ next = 1 /\ args = <<>>
      BY <2>1 DEF NotBegun, NoSpec
    <3>2. Len(<<>>) = 0 /\ DOMAIN <<>> = {} /\ 1 \in 1..(0 + 1)
      OBVIOUS
    <3> QED
      BY <3>1, <3>2 DEF TypeOK, Building, Catalog
  <2>2. CASE Begun
    <3>1. Len(spec.params) \in Nat /\ DOMAIN spec.params = 1..Len(spec.params)
          /\ next \in 1..(Len(spec.params) + 1)
      BY <2>2, TheSpec DEF Begun
    <3>2. \A i \in DOMAIN args :
             args[i].param \in 1..(next - 1) /\ args[i].what \in {"flag", "value"}
      BY <2>2 DEF Begun, Written
    <3>3. \A i \in DOMAIN args : args[i].param \in DOMAIN spec.params
      BY <3>1, <3>2
    <3> QED
      BY <3>1, <3>2, <3>3 DEF TypeOK, Building, Catalog
  <2> QED
    BY <2>1, <2>2 DEF Building
<1> QED
  BY <1>1, Invariance, PTL

(***************************************************************************)
(* Each value a call gives becomes one entry of argv, in the order of the  *)
(* declarations and directly behind its spelling, for tools of any number  *)
(* of parameters and lists of any length (command.cpp:76-126).             *)
(***************************************************************************)
THEOREM EachValueOnce == Spec => []OneEntryPerValue
<1>1. Catalog /\ Building => OneEntryPerValue
  <2> SUFFICES ASSUME Catalog, Building, builder = "built" PROVE OneEntryPerValue
    BY DEF OneEntryPerValue
  <2>1. Begun /\ next > Len(spec.params)
    BY DEF Building
  <2>2. Len(spec.params) \in Nat /\ DOMAIN spec.params = 1..Len(spec.params)
    BY <2>1, TheSpec
  <2>3. 1..(next - 1) = DOMAIN spec.params
    BY <2>1, <2>2 DEF Begun
  <2>4. Written(args, Given, spec.params, next - 1)
    BY <2>1 DEF Begun
  <2>5. \A i : EntriesOf(i, "value") = ValuesOf(args, i)
    BY DEF EntriesOf, ValuesOf
  <2>6. \A i \in DOMAIN spec.params : ValuesGiven(spec.params[i]) = ValuesIn(Given, spec.params[i])
    BY DEF ValuesGiven, ValuesIn
  <2>7. \A i \in DOMAIN spec.params :
           Cardinality(EntriesOf(i, "value")) = ValuesGiven(spec.params[i])
    BY <2>3, <2>4, <2>5, <2>6 DEF Written
  <2>8. \A k, l \in DOMAIN args : k < l => args[k].param <= args[l].param
    BY <2>4 DEF Written
  <2>9. \A k \in DOMAIN args :
           args[k].what = "value" /\ carries_a_flag(spec.params[args[k].param].kind)
             => Behind(args, k, spec.params[args[k].param])
    BY <2>4 DEF Written
  <2> QED
    BY <2>7, <2>8, <2>9 DEF OneEntryPerValue, Behind
<1> QED
  BY <1>1, Invariance, PTL

-------------------------------------------------------------------------------
(***************************************************************************)
(* What the schema says of a spec is what the builder asks of a call, if   *)
(* no integer is beyond int64.                                             *)
(***************************************************************************)
LEMMA SchemaOfSpec ==
    ASSUME NEW s, Sound(s)
    PROVE  FitsSchema(ToolSchema(s)) /\ ~BeyondInt64(ToolSchema(s)) <=>
              /\ call.arguments.type = "object"
              /\ \A j \in DOMAIN s.params : FitsIn(Given, s.params[j])
<1> DEFINE tool == ToolSchema(s)
           ps == {s.params[i] : i \in DOMAIN s.params}
           of(n) == CHOOSE p \in ps : p.name = n
<1>1. \A j \in DOMAIN s.params : of(s.params[j].name) = s.params[j]
  <2> SUFFICES ASSUME NEW j \in DOMAIN s.params
               PROVE  of(s.params[j].name) = s.params[j]
    OBVIOUS
  <2>1. s.params[j] \in ps
    OBVIOUS
  <2>2. \A p \in ps : p.name = s.params[j].name => p = s.params[j]
    BY DEF Sound
  <2> QED
    BY <2>1, <2>2
<1>2. /\ tool.required = {n \in Names(s.params) :
                      \E i \in DOMAIN s.params :
                         s.params[i].name = n /\ s.params[i].required}
      /\ tool.properties = [n \in Names(s.params) |-> json_type(of(n).kind)]
  BY DEF ToolSchema
<1> HIDE DEF tool, of
<1>3. \A n : n \in Names(s.params) <=> \E j \in DOMAIN s.params : s.params[j].name = n
  BY DEF Names
<1>4. tool.required \subseteq DOMAIN Given <=>
         \A j \in DOMAIN s.params :
            s.params[j].required => s.params[j].name \in DOMAIN Given
  BY <1>2, <1>3
<1>5. DOMAIN tool.properties = Names(s.params)
  BY <1>2
<1>6. \A j \in DOMAIN s.params :
         tool.properties[s.params[j].name] = json_type(s.params[j].kind)
  BY <1>1, <1>2, <1>3
<1>7. (\A n \in DOMAIN Given \cap DOMAIN tool.properties :
          Suits(Given[n], tool.properties[n])) <=>
      (\A j \in DOMAIN s.params : s.params[j].name \in DOMAIN Given =>
          Suits(Given[s.params[j].name], json_type(s.params[j].kind)))
  <2>1. ASSUME \A n \in DOMAIN Given \cap DOMAIN tool.properties :
                  Suits(Given[n], tool.properties[n]),
               NEW j \in DOMAIN s.params, s.params[j].name \in DOMAIN Given
        PROVE  Suits(Given[s.params[j].name], json_type(s.params[j].kind))
    <3>1. s.params[j].name \in DOMAIN Given \cap DOMAIN tool.properties
      BY <1>3, <1>5, <2>1
    <3> QED
      BY <1>6, <2>1, <3>1
  <2>2. ASSUME \A j \in DOMAIN s.params : s.params[j].name \in DOMAIN Given =>
                  Suits(Given[s.params[j].name], json_type(s.params[j].kind)),
               NEW n \in DOMAIN Given \cap DOMAIN tool.properties
        PROVE  Suits(Given[n], tool.properties[n])
    <3>1. PICK j \in DOMAIN s.params : s.params[j].name = n
      BY <1>3, <1>5
    <3>2. tool.properties[n] = json_type(s.params[j].kind)
      BY <1>6, <3>1
    <3>3. Suits(Given[n], json_type(s.params[j].kind))
      BY <2>2, <3>1
    <3> QED
      BY <3>2, <3>3
  <2> QED
    BY <2>1, <2>2
<1>8. FitsSchema(tool) /\ ~BeyondInt64(tool) <=>
         /\ call.arguments.type = "object"
         /\ tool.required \subseteq DOMAIN Given
         /\ \A n \in DOMAIN Given \cap DOMAIN tool.properties :
               Suits(Given[n], tool.properties[n])
  BY DEF FitsSchema, BeyondInt64, Suits
<1>9. FitsSchema(tool) /\ ~BeyondInt64(tool) <=>
         /\ call.arguments.type = "object"
         /\ \A j \in DOMAIN s.params : FitsIn(Given, s.params[j])
  BY <1>4, <1>7, <1>8 DEF FitsIn
<1> QED
  BY <1>9 DEF tool

(***************************************************************************)
(* Whatever catalog and call, a command is built exactly if the call fits  *)
(* the schema shown to the model, an integer without bounds included, and  *)
(* none of its integers is beyond int64: that is the one difference        *)
(* between what the schema admits and what the builder takes               *)
(* (tools.h:90-91, tools.cpp:288-289, command.cpp:54-126).                 *)
(***************************************************************************)
THEOREM SchemaIsWhatIsBuilt == Spec => []SchemaAndArgvAgree
<1>1. Catalog /\ Building => SchemaAndArgvAgree
  <2> SUFFICES ASSUME Catalog, Building, builder \in {"built", "failed"}
               PROVE  SchemaAndArgvAgree
    BY DEF SchemaAndArgvAgree
  <2>1. mSchemaJson = render_catalog(mSpecs)
    BY DEF Catalog, Building
  <2>2. /\ DOMAIN mSchemaJson = DOMAIN mSpecs
        /\ \A i \in DOMAIN mSpecs : mSchemaJson[i] = ToolSchema(mSpecs[i])
    BY <2>1 DEF render_catalog
  <2>3. \A i \in DOMAIN mSpecs :
           /\ mSchemaJson[i].name = mSpecs[i].name
           /\ FitsSchema(mSchemaJson[i]) /\ ~BeyondInt64(mSchemaJson[i]) <=>
                 /\ call.arguments.type = "object"
                 /\ \A j \in DOMAIN mSpecs[i].params : FitsIn(Given, mSpecs[i].params[j])
    <3> TAKE i \in DOMAIN mSpecs
    <3>1. Sound(mSpecs[i])
      BY SpecsRead
    <3>2. ToolSchema(mSpecs[i]).name = mSpecs[i].name
      BY DEF ToolSchema
    <3> QED
      BY <2>2, <3>1, <3>2, SchemaOfSpec
  <2>4. (\E i \in DOMAIN mSchemaJson :
            /\ mSchemaJson[i].name = call.name
            /\ FitsSchema(mSchemaJson[i]) /\ ~BeyondInt64(mSchemaJson[i]))
           <=> Callable(mSpecs, call)
    BY <2>2, <2>3 DEF Callable, Given
  <2>5. builder = "built" => Callable(mSpecs, call)
    <3> SUFFICES ASSUME builder = "built" PROVE Callable(mSpecs, call)
      OBVIOUS
    <3>1. Begun /\ next > Len(spec.params)
      BY DEF Building
    <3>2. \A j \in DOMAIN spec.params : j \in 1..(next - 1)
      BY <3>1, TheSpec DEF Begun
    <3> QED
      BY <3>1, <3>2 DEF Begun, Callable, Given
  <2>6. builder = "failed" => ~Callable(mSpecs, call)
    BY DEF Building
  <2> QED
    BY <2>4, <2>5, <2>6 DEF SchemaAndArgvAgree
<1> QED
  BY <1>1, Invariance, PTL
===============================================================================

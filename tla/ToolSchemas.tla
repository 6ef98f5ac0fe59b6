---- MODULE ToolSchemas ----
(***************************************************************************)
(* Schemas of tool inputs and outputs (tool_schemas.py): the validator,    *)
(* the sample and the corrupted payload it makes of a schema, and the edge *)
(* cases it derives from one.                                              *)
(*                                                                         *)
(* A schema is a record with the keywords it carries; `gt` and `lt` are    *)
(* exclusiveMinimum and exclusiveMaximum.  A value is tagged with its JSON *)
(* type: [is |-> "integer", n |-> 3], [is |-> "string", len |-> 7],        *)
(* [is |-> "array", of |-> <<..>>], [is |-> "object", has |-> [..]].  What *)
(* only matters for the text of a string (pattern, format) is left out.    *)
(***************************************************************************)
EXTENDS Integers, Sequences, FiniteSets, SequencesExt, Places

\* validate and example call themselves for the parts of a value or a schema.
CONSTANTS
  PartConforms(_, _, _),  \* Conforms, of a part of a value: its element or its field
  PartExample(_)          \* Example, of a part of a schema

Says(schema, keyword) == keyword \in DOMAIN schema
Number(type, n) == [is |-> type, n |-> n]
Text(len) == [is |-> "string", len |-> len]
Object(fields) == [is |-> "object", has |-> fields]
Null == [is |-> "null"]
NoFields == [f \in {} |-> Null]

\* Fields of an object schema, in order.
Properties(schema) == IF Says(schema, "properties") THEN schema.properties ELSE [f \in {} |-> NoFields]
Required(schema) == IF Says(schema, "required") THEN schema.required ELSE {}
Fields(schema) == SetToSeq(DOMAIN Properties(schema))

----------------------------------------------------------------------------
(* validate(): does a value conform?                                       *)

TypeIs(value, type) == value.is = type \/ (type = "number" /\ value.is = "integer")

\* With `partial`, fields may be missing: what is there is compared.
ConformsBy(Part(_, _, _), value, schema, partial) ==
  IF DOMAIN schema = {} THEN TRUE
  ELSE IF Says(schema, "enum") /\ value \notin ToSet(schema.enum) THEN FALSE
  ELSE IF Says(schema, "anyOf")
    THEN \E n \in DOMAIN schema.anyOf : Part(value, schema.anyOf[n], partial)
  ELSE
    /\ Says(schema, "type") => TypeIs(value, schema.type)
    /\ value.is = "object" =>
         /\ partial \/ Required(schema) \subseteq DOMAIN value.has
         /\ \A f \in DOMAIN Properties(schema) \cap DOMAIN value.has :
              Part(value.has[f], Properties(schema)[f], partial)
    /\ value.is = "array" =>
         /\ Says(schema, "items") =>
              \A n \in DOMAIN value.of : Part(value.of[n], schema.items, partial)
         /\ Says(schema, "minItems") => Len(value.of) >= schema.minItems
         /\ Says(schema, "maxItems") => Len(value.of) <= schema.maxItems
    /\ value.is = "string" =>
         /\ Says(schema, "minLength") => value.len >= schema.minLength
         /\ Says(schema, "maxLength") => value.len <= schema.maxLength
    /\ value.is \in {"integer", "number"} =>
         /\ Says(schema, "minimum") => value.n >= schema.minimum
         /\ Says(schema, "maximum") => value.n <= schema.maximum
         /\ Says(schema, "gt") => value.n > schema.gt
         /\ Says(schema, "lt") => value.n < schema.lt

Conforms(value, schema, partial) == ConformsBy(PartConforms, value, schema, partial)

----------------------------------------------------------------------------
(* example() and corrupt(): a payload that conforms, and one that does not.*)

NameLength == 7      \* of "example", or of a field
SampleNumber(schema) ==
  LET start == IF Says(schema, "default") THEN schema.default
               ELSE IF Says(schema, "minimum") THEN schema.minimum
               ELSE IF Says(schema, "gt") THEN schema.gt + 1 ELSE 1
      low == IF Says(schema, "maximum") /\ start > schema.maximum THEN schema.maximum ELSE start
  IN  IF Says(schema, "lt") /\ low >= schema.lt THEN schema.lt - 1 ELSE low

\* Repeated until it is long enough, then cut.
SampleLength(schema) ==
  LET min == IF Says(schema, "minLength") THEN schema.minLength ELSE 0
      len == IF NameLength >= min THEN NameLength
             ELSE (NameLength + 8) * ((min \div NameLength) + 1)
  IN  IF Says(schema, "maxLength") /\ len > schema.maxLength THEN schema.maxLength ELSE len

TypeOf(schema) ==
  IF Says(schema, "type") THEN schema.type
  ELSE IF Says(schema, "properties") THEN "object"
  ELSE IF Says(schema, "items") THEN "array" ELSE "string"

IsNull(schema) == Says(schema, "type") /\ schema.type = "null"

ExampleBy(Part(_), schema) ==
  IF DOMAIN schema = {} THEN Object(NoFields)
  ELSE IF Says(schema, "enum") THEN schema.enum[1]
  ELSE IF Says(schema, "anyOf")
    THEN LET real == SelectSeq(schema.anyOf, LAMBDA b : ~IsNull(b))
         IN  Part(IF real = <<>> THEN schema.anyOf[1] ELSE real[1])
  ELSE CASE TypeOf(schema) = "object" ->
              Object([f \in DOMAIN Properties(schema) |-> Part(Properties(schema)[f])])
         [] TypeOf(schema) = "array" ->
              LET item == Part(IF Says(schema, "items") THEN schema.items ELSE [type |-> "string"])
                  size == IF Says(schema, "minItems") /\ schema.minItems > 1 THEN schema.minItems ELSE 1
              IN  [is |-> "array", of |-> [n \in 1..size |-> item]]
         [] TypeOf(schema) = "string" -> Text(SampleLength(schema))
         [] TypeOf(schema) \in {"integer", "number"} -> Number(TypeOf(schema), SampleNumber(schema))
         [] TypeOf(schema) = "boolean" -> [is |-> "boolean"]
         [] OTHER -> Null

Example(schema) == ExampleBy(PartExample, schema)

\* Drops the first field, required or not.
CorruptFirst(schema) ==
  LET sample == Example(schema)
      there == DOMAIN sample.has
  IN  IF DOMAIN schema = {} THEN Object([error |-> Text(21)])
      ELSE IF sample.is # "object" \/ sample.has = NoFields THEN Text(12)
      ELSE Object([f \in there \ {SetToSeq(there)[1]} |-> sample.has[f]])

\* Drops a required field, else any field; a payload without fields becomes a text.
Corrupt(schema) ==
  LET sample == Example(schema)
      there == DOMAIN sample.has
      first == CHOOSE f \in there : Required(schema) \cap there # {} => f \in Required(schema)
  IN  IF DOMAIN schema = {} THEN Object([error |-> Text(21)])
      ELSE IF sample.is # "object" \/ sample.has = NoFields THEN Text(12)
      ELSE Object([f \in there \ {first} |-> sample.has[f]])

----------------------------------------------------------------------------
(* edge_cases(): what a user may get wrong about a tool, and its answer.   *)

EdgeKinds == <<"missing_required", "wrong_type", "out_of_enum", "boundary", "malformed_output">>
Limits == {"minimum", "maximum", "gt", "lt", "minLength", "maxLength", "minItems", "maxItems"}

HasEdge(kind, schema) ==
  CASE kind = "out_of_enum" -> Says(schema, "enum")
    [] kind = "wrong_type" ->
         /\ ~Says(schema, "enum")
         /\ Says(schema, "type")
         /\ schema.type \in {"integer", "number", "boolean", "object", "array"}
    [] kind = "boundary" -> \E limit \in Limits : Says(schema, limit)
    [] OTHER -> FALSE

EdgesOfKind(tool, kind) ==
  LET args == tool.args
      Of(fields) == [n \in DOMAIN fields |-> [kind |-> kind, field |-> fields[n]]]
  IN  CASE kind = "missing_required" -> Of(SetToSeq(Required(args)))
        [] kind = "malformed_output" ->
             IF Required(tool.output) # {} THEN <<[kind |-> kind, field |-> "output"]>> ELSE <<>>
        [] OTHER -> Of(Picked(Fields(args), {n \in DOMAIN Fields(args) : HasEdge(kind, Properties(args)[Fields(args)[n]])}))

\* Round robin: the first of every kind, then the second of every kind, ...
EdgeCases(tool) ==
  LET queue == [k \in DOMAIN EdgeKinds |-> EdgesOfKind(tool, EdgeKinds[k])]
      longest == CHOOSE n \in {Len(queue[k]) : k \in DOMAIN queue} : \A k \in DOMAIN queue : Len(queue[k]) <= n
      Round(n) == FlattenSeq([k \in DOMAIN queue |-> IF n <= Len(queue[k]) THEN <<queue[k][n]>> ELSE <<>>])
  IN  FlattenSeq([n \in 1..longest |-> Round(n)])

====

---- MODULE MCFixtures ----
EXTENDS Fixtures

\* A part is treated as the whole is.
RECURSIVE MCPartConforms(_, _, _), MCPartExample(_)
MCPartConforms(value, schema, partial) == ConformsBy(MCPartConforms, value, schema, partial)
MCPartExample(schema) == ExampleBy(MCPartExample, schema)

IntType == [type |-> "integer"]
Obj(props, req) == [type |-> "object", properties |-> props, required |-> req]
Args == Obj([id |-> [type |-> "integer", minimum |-> 1], name |-> [type |-> "string"],
             size |-> [enum |-> <<Text(1), Text(5)>>, type |-> "string"], gift |-> [type |-> "boolean"]], {"id", "name"})

Outputs ==
  {NoFields, IntType, [type |-> "array", items |-> IntType],
   Obj([id |-> IntType], {"id"}),
   Obj([id |-> IntType, total |-> [type |-> "number", gt |-> 0, lt |-> 9, minimum |-> 2]], {"total"}),
   Obj([code |-> [type |-> "string", minLength |-> 9, maxLength |-> 12],
        note |-> [anyOf |-> <<[type |-> "null"], [type |-> "string"]>>]], {"code"}),
   Obj([items |-> [type |-> "array", items |-> Obj([id |-> IntType], {"id"}), minItems |-> 2]], {"items"}),
   [type |-> "object", properties |-> [id |-> IntType]],
   [anyOf |-> <<[type |-> "null"], Obj([id |-> IntType], {"id"})>>]}

MCCatalogs == {[t \in {"search"} |-> [args |-> Args, output |-> out]] : out \in Outputs}
\* Every two keys take every pair of values.
MCMockings ==
  {[required |-> FALSE, strategies |-> FALSE, strategy |-> "default", onInvalid |-> "fallback"],
   [required |-> FALSE, strategies |-> TRUE, strategy |-> "degraded", onInvalid |-> "strict"],
   [required |-> TRUE, strategies |-> FALSE, strategy |-> "degraded", onInvalid |-> "strict"],
   [required |-> TRUE, strategies |-> TRUE, strategy |-> "default", onInvalid |-> "strict"],
   [required |-> TRUE, strategies |-> TRUE, strategy |-> "degraded", onInvalid |-> "fallback"]}

\* One that conforms to most of the schemas with an id, one to none of them.
MCValues == {Object([id |-> Number("integer", 5)]), Object([id |-> Text(3)])}
====

------------------------------- MODULE Schema -------------------------------
(***************************************************************************)
(* The schemas of a document, and the bodies internal/openapi makes up for *)
(* them: example builds a value for a schema, and what it builds is to     *)
(* satisfy the schema. Numbers in schemas are whole.                       *)
(***************************************************************************)
EXTENDS Observation

CONSTANTS
  Schemas,   \* the schemas documents hold, with every schema inside one
  Foreign    \* a reference out of the document

ASSUME SchemasAssumption ==
  /\ Nil \notin Schemas /\ Nil \notin Int
  /\ \A s \in Schemas :
       /\ s.props # Nil => \A name \in DOMAIN s.props : s.props[name] \in Schemas
       /\ s.allOf # Nil => s.allOf \in Seq(Schemas)
       /\ s.anyOf \in Seq(Schemas) /\ s.enum \in Seq(ToSet(s.enum))
       /\ s.items \in Schemas \cup {Nil}
       /\ s.minItems \in Int /\ s.minLength \in Int
       /\ {s.maxLength, s.min, s.max} \subseteq Int \cup {Nil}

\* A schema without any keyword; ref names another schema of the document.
Blank ==
  [ref |-> Nil, example |-> Nil, enum |-> <<>>, allOf |-> Nil, anyOf |-> <<>>,
   type |-> "", props |-> Nil, required |-> {}, readOnly |-> FALSE,
   items |-> Nil, minItems |-> 0, min |-> Nil, max |-> Nil, exclusive |-> FALSE,
   format |-> "", minLength |-> 0, maxLength |-> Nil]

\* 16 references in a row, then the last one is taken as it is. One that does
\* not start with #/ is no reference here: the node stays what it is.
MaxHops == 16

Hop(d, n) ==
  IF n = Nil THEN Nil
  ELSE IF n.ref \in {Nil, Foreign} THEN n
  ELSE IF n.ref \in DOMAIN d.schemas THEN d.schemas[n.ref] ELSE Nil

Resolve(d, node) ==
  LET at[hops \in 0 .. MaxHops] == IF hops = 0 THEN node ELSE Hop(d, at[hops - 1])
  IN  at[MaxHops]

SchemaType(s) == IF s.type = "" /\ s.props # Nil THEN "object" ELSE s.type

Prop(s, name) ==
  IF s.props = Nil THEN Nil ELSE IF name \in DOMAIN s.props THEN s.props[name] ELSE Nil

-----------------------------------------------------------------------------
(* example and stringExample *)

\* A text is its length once {{run_id}} is filled in, and whether it has one.
Text(length, unique) == [kind |-> "string", length |-> length, unique |-> unique]

Template(format) ==
  CASE format = "email" -> [filled |-> 40, plain |-> 23, unique |-> TRUE]
    [] format \in {"uri", "url"} -> [filled |-> 48, plain |-> 31, unique |-> TRUE]
    [] format = "date-time" -> [filled |-> 20, plain |-> 20, unique |-> FALSE]
    [] format = "date" -> [filled |-> 10, plain |-> 10, unique |-> FALSE]
    [] format = "ipv4" -> [filled |-> 9, plain |-> 9, unique |-> FALSE]
    [] format = "uuid" -> [filled |-> 36, plain |-> 36, unique |-> FALSE]
    [] OTHER -> [filled |-> 28, plain |-> 11, unique |-> TRUE]

Smaller(a, b) == IF a < b THEN a ELSE b
Larger(a, b) == IF a < b THEN b ELSE a

\* Mutant: the limit is compared with the text before the run id is filled in.
MutStringExample(s) ==
  LET t == Template(s.format)
      cut == IF s.maxLength = Nil THEN FALSE ELSE s.maxLength > 0 /\ t.filled - 6 > s.maxLength
      length == IF cut THEN Smaller(t.plain, s.maxLength) ELSE t.filled
  IN  Text(Larger(length, s.minLength), t.unique /\ ~cut)

\* A text that is too long is taken without its run id, then cut; one that is
\* too short is filled up.
StringExample(s) ==
  LET t == Template(s.format)
      cut == IF s.maxLength = Nil THEN FALSE ELSE s.maxLength > 0 /\ t.filled > s.maxLength
      length == IF cut THEN Smaller(t.plain, s.maxLength) ELSE t.filled
  IN  Text(Larger(length, s.minLength), t.unique /\ ~cut)

NumberExample(s) ==
  IF s.min # Nil THEN Number(IF s.exclusive THEN s.min + 1 ELSE s.min)
  ELSE IF s.max = Nil THEN Number(1) ELSE Number(Smaller(s.max, 1))

ReadOnly(d, s, name) ==
  LET p == Resolve(d, Prop(s, name)) IN IF p = Nil THEN FALSE ELSE p.readOnly

\* The required properties, or all of them if none is declared required,
\* without those the service fills in itself.
Sent(d, s) ==
  LET wanted == IF s.required # {} THEN s.required
                ELSE IF s.props = Nil THEN {} ELSE DOMAIN s.props
  IN  {name \in wanted : ~ReadOnly(d, s, name)}

\* Only objects are merged; the later part wins.
Merge(parts) ==
  LET fieldsOf(i) == IF parts[i].kind = "object" THEN DOMAIN parts[i].fields ELSE {}
      last(name) == CHOOSE i \in DOMAIN parts :
                      /\ name \in fieldsOf(i)
                      /\ \A j \in DOMAIN parts : name \in fieldsOf(j) => j <= i
  IN  Object([name \in UNION {fieldsOf(i) : i \in DOMAIN parts} |-> parts[last(name)].fields[name]])

\* What is built for a schema, given what is built for those inside it.
Built(d, s, of) ==
  IF s = Nil THEN Null
  ELSE IF s.example # Nil THEN s.example
  ELSE IF s.enum # <<>> THEN Head(s.enum)
  ELSE IF s.allOf # Nil THEN Merge([i \in DOMAIN s.allOf |-> of[s.allOf[i]]])
  ELSE IF s.anyOf # <<>> THEN of[Head(s.anyOf)]
  ELSE CASE SchemaType(s) = "object" -> Object([name \in Sent(d, s) |-> of[Prop(s, name)]])
         [] SchemaType(s) = "array" -> Array([i \in 1 .. Larger(1, s.minItems) |-> of[s.items]])
         [] SchemaType(s) \in {"integer", "number"} -> NumberExample(s)
         [] SchemaType(s) = "boolean" -> Boolean
         [] SchemaType(s) = "string" -> StringExample(s)
         [] OTHER -> Null

\* Nine schemas inside one another, then null.
MaxLevels == 9

Body(d, schema) ==
  LET made[left \in 0 .. MaxLevels] ==
        IF left = 0 THEN [n \in Schemas \cup {Nil} |-> Null]
        ELSE [n \in Schemas \cup {Nil} |-> Built(d, Resolve(d, n), made[left - 1])]
  IN  made[MaxLevels][schema]

-----------------------------------------------------------------------------
(* What JSON Schema says of a value, for the keywords example looks at. *)

\* A declared example or a list of values is the document's own word.
Declared(s) == s.example # Nil \/ s.enum # <<>>

Within(n, low, high) == (low # Nil => n >= low) /\ (high # Nil => n <= high)

\* The keywords that speak of the value itself.
Meets(d, s, v) ==
  LET type == SchemaType(s)
  IN  IF s = Nil THEN TRUE
      ELSE IF Declared(s) THEN s.example = Nil => v \in ToSet(s.enum)
      ELSE /\ type # "" => v.kind = (IF type = "integer" THEN "number" ELSE type)
           /\ type = "object" =>
                \A name \in s.required : name \in DOMAIN v.fields \/ ReadOnly(d, s, name)
           /\ type = "array" => Len(v.items) >= s.minItems
           /\ type = "string" => Within(v.length, s.minLength, s.maxLength)
           /\ type \in {"integer", "number"} =>
                Within(v.value, s.min, s.max) /\ (s.exclusive => v.value # s.min)

\* A schema and the value it has to hold for.
Claim(schema, value) == [schema |-> schema, value |-> value]

\* The keywords that speak of other schemas. One alternative of several is
\* enough; it is the first that example builds.
Claims(d, s, v) ==
  IF s = Nil THEN {} ELSE IF Declared(s) THEN {}
  ELSE (IF s.allOf = Nil THEN {} ELSE {Claim(s.allOf[i], v) : i \in DOMAIN s.allOf})
       \cup (IF s.anyOf = <<>> THEN {} ELSE {Claim(Head(s.anyOf), v)})
       \cup (IF SchemaType(s) # "object" \/ v.kind # "object" THEN {}
             ELSE {Claim(Prop(s, name), v.fields[name]) : name \in DOMAIN v.fields})
       \cup (IF SchemaType(s) # "array" \/ v.kind # "array" THEN {}
             ELSE {Claim(s.items, v.items[i]) : i \in DOMAIN v.items})

Satisfies(d, schema, value) ==
  LET claims[level \in 0 .. MaxLevels] ==
        IF level = 0 THEN {Claim(schema, value)}
        ELSE UNION {Claims(d, Resolve(d, c.schema), c.value) : c \in claims[level - 1]}
  IN  \A level \in 0 .. MaxLevels :
        \A c \in claims[level] : Meets(d, Resolve(d, c.schema), c.value)

-----------------------------------------------------------------------------
(* The schemas example has an answer for. *)

\* The schemas it opens to build a value.
Used(d, s) ==
  IF s = Nil THEN {} ELSE IF Declared(s) THEN {}
  ELSE IF s.allOf # Nil THEN ToSet(s.allOf)
  ELSE IF s.anyOf # <<>> THEN {Head(s.anyOf)}
  ELSE CASE SchemaType(s) = "object" -> {Prop(s, name) : name \in Sent(d, s)}
         [] SchemaType(s) = "array" -> {s.items}
         [] OTHER -> {}

\* An object with properties of its own.
Simple(s) ==
  IF s = Nil THEN FALSE
  ELSE ~Declared(s) /\ s.allOf = Nil /\ s.anyOf = <<>> /\ SchemaType(s) = "object"

Mentioned(s) == s.required \cup (IF s.props = Nil THEN {} ELSE DOMAIN s.props)

\* The schema is in the document, some value satisfies it, and its alternatives
\* and parts say it all: the parts are objects that do not mention a property
\* of another one.
Sound(d, s) ==
  IF s = Nil THEN TRUE
  ELSE IF s.ref # Nil THEN FALSE
  ELSE IF Declared(s) THEN TRUE
  ELSE IF s.allOf # Nil
  THEN /\ s.anyOf = <<>> /\ s.type \in {"", "object"} /\ s.props = Nil /\ s.required = {}
       /\ \A i, j \in DOMAIN s.allOf :
            LET p == Resolve(d, s.allOf[i])
                q == Resolve(d, s.allOf[j])
            IN  Simple(p) /\ Simple(q) /\ (i # j => Mentioned(p) \cap Mentioned(q) = {})
  ELSE IF s.anyOf # <<>> THEN SchemaType(s) = ""
  ELSE /\ SchemaType(s) \in
            {"", "null", "object", "array", "integer", "number", "boolean", "string"}
       /\ SchemaType(s) = "string" /\ s.maxLength # Nil =>
            s.maxLength > 0 /\ s.minLength <= s.maxLength
       /\ SchemaType(s) \in {"integer", "number"} /\ s.min # Nil /\ s.max # Nil =>
            (IF s.exclusive THEN s.min + 1 ELSE s.min) <= s.max

\* Every schema example opens is sound, and none is left where it stops.
Plain(d, schema) ==
  LET used[level \in 0 .. MaxLevels] ==
        IF level = 0 THEN {schema}
        ELSE UNION {Used(d, Resolve(d, n)) : n \in used[level - 1]}
  IN  /\ \A level \in 0 .. MaxLevels : \A n \in used[level] : Sound(d, Resolve(d, n))
      /\ \A n \in used[MaxLevels] : Resolve(d, n) = Nil
=============================================================================

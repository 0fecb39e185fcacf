----------------------------- MODULE MCDiscover -----------------------------
(* A small instance of Discover for TLC. *)
EXTENDS Discover

NameOrder == <<"count", "data", "id", "items", "meta", "page", "rest", "total", "user", "zero">>

-----------------------------------------------------------------------------
(* Schemas: example must satisfy every one of these. *)

Of(type) == [Blank EXCEPT !.type = type]
Ref(name) == [Blank EXCEPT !.ref = name]
Props(required, props) ==
  [Blank EXCEPT !.type = "object", !.required = required, !.props = props]

\* Limits on either side of every length example can produce.
Strings ==
  {[Of("string") EXCEPT !.format = f, !.minLength = low, !.maxLength = high] :
     f \in {"", "email", "uri", "date"}, low \in {0, 12, 29, 49},
     high \in {Nil, 10, 11, 12, 27, 28, 39, 40, 47, 48}}
\* Texts without a run id, and another name of a format.
PlainStrings ==
  {[Of("string") EXCEPT !.format = f, !.minLength = low, !.maxLength = high] :
     f \in {"date-time", "ipv4"}, low \in {0, 10, 21}, high \in {Nil, 8, 9, 19, 20}}
  \cup {[Of("string") EXCEPT !.format = "url", !.maxLength = high] : high \in {Nil, 47}}
SaneStrings ==
  {s \in Strings \cup PlainStrings :
     IF s.maxLength = Nil THEN TRUE ELSE s.minLength <= s.maxLength}

NumberSchemas ==
  {[Of(t) EXCEPT !.min = low, !.max = high, !.exclusive = x] :
     t \in {"integer", "number"}, low \in {Nil, -3, 0, 2}, high \in {Nil, -1, 0, 3}, x \in BOOLEAN}
SaneNumbers ==
  {s \in NumberSchemas :
     IF s.min = Nil THEN ~s.exclusive
     ELSE IF s.max = Nil THEN TRUE ELSE s.min + (IF s.exclusive THEN 1 ELSE 0) <= s.max}

ID == [Of("integer") EXCEPT !.readOnly = TRUE]
Deep == Props({"id", "user"}, [id |-> Ref("ID"), user |-> Ref("User"), rest |-> Ref("Deep")])

Shapes ==
  {Deep, Ref("Deep"), Of("boolean"), Of(""),
   [Of("array") EXCEPT !.items = Of("integer"), !.minItems = 2],
   [Of("array") EXCEPT !.items = Ref("User")],
   [Blank EXCEPT !.enum = <<Number(4), Number(5)>>],
   [Blank EXCEPT !.example = Null],
   [Blank EXCEPT !.allOf = <<Ref("User"), Props({}, [meta |-> Of("boolean")])>>],
   [Blank EXCEPT !.anyOf = <<Ref("User"), Of("boolean")>>],
   Props({}, [id |-> ID, count |-> Of("integer")])}

Named ==
  [User |-> Props({"data"}, [data |-> Of("string"), rest |-> Of("integer")]),
   ID |-> ID, Deep |-> Deep, Loop |-> Ref("Loop")]

\* A schema kept in another document.
Elsewhere == Props({"data"}, [data |-> Ref(Foreign)])

\* These, those with a name, and what is inside.
InSchema(s) == (IF s.props = Nil THEN {} ELSE Range(s.props)) \cup ToSet(s.anyOf)
               \cup (IF s.allOf = Nil THEN {} ELSE ToSet(s.allOf)) \cup ({s.items} \ {Nil})
WithSchemas(S) == S \cup UNION {InSchema(s) : s \in S}
AllSchemas == WithSchemas(WithSchemas(SaneStrings \cup SaneNumbers \cup Shapes \cup Range(Named) \cup {Elsewhere}))

-----------------------------------------------------------------------------
(* Documents *)

Path(words, spelling) == [words |-> words, spelling |-> spelling]
Operation(media, body) ==
  [parameters |-> <<>>, media |-> media, body |-> body, response |-> Nil]
Header(name, required) == [in |-> "header", name |-> name, required |-> required]
Item(words, spelling, ops) == [path |-> Path(words, spelling), parameters |-> <<>>, ops |-> ops]
Doc(dialect, paths) == [dialect |-> dialect, paths |-> paths, schemas |-> Named]

Gets(schema) == [Operation("none", Nil) EXCEPT !.response = schema]
Listed(words, spelling, schema, list) ==
  Item(words, spelling, [post |-> Operation("json", schema), get |-> Gets(list)])

BodyDocs ==
  {Doc("openapi", <<Listed(<<"a">>, 1, s, Of("array"))>>) : s \in SaneStrings \cup SaneNumbers \cup Shapes}

ListSchemas ==
  {Nil, Ref("Gone"), Ref("Loop"), Ref(Foreign), [Of("array") EXCEPT !.ref = Foreign], Of("array"), Of("integer"),
   Props({}, [items |-> Of("array"), total |-> Of("integer")]),
   Props({}, [items |-> Of("array"), data |-> Of("array")]),
   Props({}, [user |-> Of("array"), rest |-> Of("array")]),
   Props({}, [zero |-> Of("array")]),
   Props({}, [count |-> Of("string"), page |-> Of("integer")])}

ListDocs ==
  {Doc("openapi", <<Listed(<<"a">>, 1, Nil, s)>>) : s \in ListSchemas}

\* Two spellings of one name, a path parameter, a form, a write without a list,
\* a header the document requires, methods that change instead of adding.
NameDocs ==
  {Doc("openapi", <<Listed(<<"a", "b">>, 1, ID, Of("array")), Listed(<<"a", "b">>, 2, Nil, Nil)>>),
   Doc("openapi",
     <<Item(<<"a">>, 1, [post |-> Operation("other", Nil), get |-> Gets(Nil)]),
       [Listed(<<"a", "b", "id">>, 1, ID, Of("array"))
          EXCEPT !.parameters = <<Header("Version", TRUE), Header("Idempotency-Key", TRUE)>>]>>),
   Doc("openapi", <<Item(<<"a">>, 1, [put |-> Operation("json", ID), post |-> Operation("none", Nil),
                                      patch |-> Operation("none", Nil)])>>),
   Doc("openapi", <<Listed(<<"a">>, 1, Elsewhere, Of("array"))>>),
   Doc("swagger", <<Item(<<"a">>, 1, [post |-> Operation("other", Nil), get |-> Gets(Of("array"))])>>),
   Doc("swagger", <<Item(<<"a">>, 1, [get |-> Gets(Of("array"))])>>),
   Doc("1.2", <<>>)}

\* example has an answer for every schema of these documents.
ASSUME BodiesArePlain ==
  \A d \in BodyDocs : Plain(d, d.paths[1].ops["post"].body)

AllDocs == BodyDocs \cup ListDocs \cup NameDocs

-----------------------------------------------------------------------------
(* Live replies, command lines and folders *)

Items(n) == Array([i \in 1 .. n |-> Object([id |-> Number(1)])])

Roots ==
  {Null, Boolean, Items(1), Number(7), Number(Nil),
   Object([items |-> Items(2), total |-> Number(2)]),
   Object([items |-> Items(2), total |-> Number(Nil)]),
   Array(<<Items(1)>>),
   Object([items |-> Null, page |-> Number(1)]),
   Object([data |-> Object([items |-> Items(0)]), rest |-> Number(Nil)]),
   Object([meta |-> Object([user |-> Object([data |-> Object([count |-> Number(2)])])])]),
   Object([meta |-> Object([user |-> Object([data |-> Object([rest |->
     Object([count |-> Number(2)])])])])])}
AllReplies == {[root |-> r, more |-> m] : r \in Roots, m \in BOOLEAN}

\* A reply and what is inside it, five levels down.
Parts(v) == CASE v.kind = "object" -> Range(v.fields)
              [] v.kind = "array" -> ToSet(v.items)
              [] OTHER -> {}
WithParts(S) == S \cup UNION {Parts(v) : v \in S}
AllValues == WithParts(WithParts(WithParts(WithParts(WithParts(Roots)))))

Discovers ==
  [command |-> "discover", base |-> "given", spec |-> "none", out |-> Nil, force |-> FALSE,
   noKey |-> FALSE, params |-> [n \in {} |-> 1], headers |-> {}, pointer |-> <<>>, valid |-> TRUE,
   method |-> "post", path |-> Nil, body |-> Nil]

Inits ==
  {[Discovers EXCEPT !.command = "init", !.out = <<"recoverylab">>, !.force = f, !.pointer = p,
      !.valid = v, !.method = m, !.path = Path(<<"a">>, 1), !.body = b] :
     f \in BOOLEAN, p \in {<<>>, <<"total">>, <<"data", "items">>}, v \in BOOLEAN,
     m \in {"post", "delete"}, b \in {Nil, Null}}

CommandLines ==
  Inits \cup
  {Discovers,
   [Discovers EXCEPT !.force = TRUE, !.params = [id |-> "1"]],
   [Discovers EXCEPT !.valid = FALSE],
   [Discovers EXCEPT !.spec = "file", !.noKey = TRUE],
   [Discovers EXCEPT !.spec = "file", !.base = "none"],
   [Discovers EXCEPT !.spec = "url", !.base = "none", !.valid = FALSE]}

Folders ==
  {[f \in {} |-> "old"], [f \in {<<"post", "a">>, <<"recoverylab">>} |-> "old"]}
=============================================================================

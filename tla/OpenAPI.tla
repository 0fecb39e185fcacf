------------------------------ MODULE OpenAPI ------------------------------
(***************************************************************************)
(* internal/openapi: the write operations of a document and a guess at     *)
(* what counts their effect. A document is its paths in alphabetical order *)
(* and its named schemas. Where OpenAPI 3 and Swagger 2 keep a schema is   *)
(* left out.                                                               *)
(***************************************************************************)
EXTENDS Schema

CONSTANT Params    \* the words of a path that are parameters, such as {id}

-----------------------------------------------------------------------------
(* countGuess *)

TotalHints == <<"total", "totalElements", "total_count", "totalCount", "count">>
ListHints == <<"items", "data", "results", "content", "records", "rows">>
NoGuess == [pointer |-> <<>>, measure |-> ""]

FirstIn(names, S) ==
  LET found == SelectSeq(names, LAMBDA n : n \in S) IN IF found = <<>> THEN Nil ELSE Head(found)

\* A total beats a list, which may be only its first page.
CountGuess(doc, node) ==
  LET s == Resolve(doc, node)
      typed(type) == {n \in IF s.props = Nil THEN {} ELSE DOMAIN s.props :
                        LET p == Resolve(doc, s.props[n])
                        IN  IF p = Nil THEN FALSE ELSE SchemaType(p) = type}
      total == FirstIn(TotalHints, typed("integer"))
      list == FirstIn(ListHints \o Names, typed("array"))
  IN  IF s = Nil THEN NoGuess
      ELSE IF SchemaType(s) = "array" THEN [pointer |-> <<>>, measure |-> "length"]
      ELSE IF total # Nil THEN [pointer |-> <<total>>, measure |-> "value"]
      ELSE IF list # Nil THEN [pointer |-> <<list>>, measure |-> "length"]
      ELSE NoGuess

-----------------------------------------------------------------------------
(* Writes and endpoint *)

\* A path is its words and how it spells what stands between them.
Missing(path, given) == {w \in ToSet(path.words) : w \in Params \ DOMAIN given}

FillPath(path, given) ==
  [path EXCEPT !.words = [i \in DOMAIN path.words |->
     IF path.words[i] \in DOMAIN given THEN given[path.words[i]] ELSE path.words[i]]]

\* Required headers other than a key, which is added per run, and the
\* authorization, which is the caller's.
NeededHeaders(item, op) ==
  {p.name : p \in {q \in ToSet(item.parameters \o op.parameters) :
                     q.in = "header" /\ q.required}} \ {"Idempotency-Key", "Authorization"}

Endpoint(doc, item, method, given) ==
  LET op == item.ops[method]
      missing == Missing(item.path, given)
      unusable == doc.dialect = "openapi" /\ op.media = "other"
      listed == method = "post" /\ "get" \in DOMAIN item.ops
      skip == CASE missing # {} -> "parameter"
                [] missing = {} /\ unusable -> "not JSON"
                [] missing = {} /\ ~unusable /\ ~listed -> "no list"
                [] OTHER -> Nil
  IN  [method |-> method,
       path   |-> IF missing = {} THEN FillPath(item.path, given) ELSE item.path,
       schema |-> op.body,
       body   |-> IF op.media = "json" THEN Body(doc, op.body) ELSE Nil,
       headers |-> NeededHeaders(item, op),
       guess  |-> IF listed THEN CountGuess(doc, item.ops["get"].response) ELSE NoGuess,
       skip   |-> skip]

\* Every POST, PUT and PATCH, path by path.
Methods == <<"post", "put", "patch">>

WritesOf(doc, item, given) ==
  FlattenSeq([j \in DOMAIN Methods |->
    OnlyIf(Methods[j] \in DOMAIN item.ops, Endpoint(doc, item, Methods[j], given))])

Writes(doc, given) == FlattenSeq([i \in DOMAIN doc.paths |-> WritesOf(doc, doc.paths[i], given)])

Parses(doc) == IF doc = Nil THEN FALSE ELSE doc.dialect \in {"openapi", "swagger"}
=============================================================================

-------------------------- MODULE CollectionReads --------------------------
(***************************************************************************)
(* Reads of a collection: a filter is checked, its fields are collected    *)
(* for authorization, and it is compiled to SQL with numbered placeholders *)
(* (crud.rs, collection_reads.rs, cross_app.rs, publications.rs).          *)
(*                                                                         *)
(* A filter is a sequence of entries, as a JSON object is; a JSON value is *)
(* its kind and what it holds.  SQL is a sequence of tokens: keywords,     *)
(* parentheses and conditions, a condition naming its placeholders.        *)
(***************************************************************************)
EXTENDS Integers, Sequences, FiniteSets, SequencesExt

Types ==
  [id |-> "uuid", created_at |-> "timestamp", n |-> "number", amt |-> "decimal", name |-> "text",
   tags |-> "text[]", doc |-> "json", secret |-> "number", limit |-> "number"]
Sensitive == {"secret"}
\* No column is named like an operator.
Strays == {"$where"}
SystemFields == {"id", "created_at"}

Json(kind, v) == [j |-> kind, v |-> v, l |-> <<>>]
JsonList(kind, l) == [j |-> kind, v |-> 0, l |-> l]
FieldEntry(f, x) == [k |-> "field", f |-> f, x |-> x]
Logical(op, list) == [k |-> op, list |-> list]
Negated(c) == [k |-> "$not", c |-> c]
Operators(ops) == [j |-> "ops", ops |-> ops]
Operation(op, x) == [op |-> op, x |-> x]

Word(w) == [s |-> w]
Condition(f, op, ps) == [s |-> "cond", f |-> f, op |-> op, ps |-> ps]

\* What is compiled so far: pieces of SQL, the values bound, the last number used.
Started(binds, idx) == [ok |-> TRUE, pieces |-> <<>>, binds |-> binds, idx |-> idx]
Refusal == [ok |-> FALSE]
put(acc, piece) == [acc EXCEPT !.pieces = Append(@, piece)]
bindNext(acc, v) == [acc EXCEPT !.binds = Append(@, v), !.idx = @ + 1]

\* Pieces joined by a keyword, empty ones included.
joinedBy(pieces, sep) ==
  FoldLeft(LAMBDA out, i : IF i = 1 THEN pieces[1] ELSE out \o <<Word(sep)>> \o pieces[i],
           <<>>, [i \in 1 .. Len(pieces) |-> i])

-----------------------------------------------------------------------------
(***************************************************************************)
(* Compilation of a filter.                                                *)
(***************************************************************************)
\* A decimal takes an exact string.
refusedValue(f, x) == f \in DOMAIN Types /\ Types[f] = "decimal" /\ x.j # "str"

one(acc, f, op, x) ==
  IF refusedValue(f, x) THEN Refusal
  ELSE put(bindNext(acc, x.v), <<Condition(f, op, <<acc.idx + 1>>)>>)

\* One placeholder for each member of a list.
each(acc, f, op, xs, exact) ==
  IF exact /\ \E x \in ToSet(xs) : refusedValue(f, x) THEN Refusal
  ELSE put([acc EXCEPT !.binds = @ \o [i \in DOMAIN xs |-> xs[i].v], !.idx = @ + Len(xs)],
           <<Condition(f, op, [i \in DOMAIN xs |-> acc.idx + i])>>)

comparisonOf(op) ==
  [eq |-> "=", ne |-> "!=", gt |-> ">", gte |-> ">=", lt |-> "<", lte |-> "<="][op]

operation(acc, f, op, x) ==
  CASE op \in {"eq", "ne"} /\ x.j = "null" ->
         put(acc, <<Condition(f, IF op = "eq" THEN "IS NULL" ELSE "IS NOT NULL", <<>>)>>)
    [] op \in {"eq", "ne"} /\ x.j # "null" -> one(acc, f, comparisonOf(op), x)
    [] op \in {"gt", "gte", "lt", "lte"} -> one(acc, f, comparisonOf(op), x)
    [] op = "like" -> put(bindNext(acc, x.v), <<Condition(f, "LIKE", <<acc.idx + 1>>)>>)
    [] op \in {"in", "nin", "contains"} /\ x.j # "arr" -> Refusal
    [] op \in {"in", "nin"} /\ x.j = "arr" ->
         IF x.l = <<>> THEN put(acc, <<Word(IF op = "in" THEN "FALSE" ELSE "TRUE")>>)
         ELSE each(acc, f, IF op = "in" THEN "IN" ELSE "NOT IN", x.l, TRUE)
    [] op = "contains" /\ x.j = "arr" ->
         IF x.l = <<>> THEN acc
         ELSE IF f \in DOMAIN Types /\ Types[f] = "json"
         THEN put(bindNext(acc, [i \in DOMAIN x.l |-> x.l[i].v]), <<Condition(f, "@>", <<acc.idx + 1>>)>>)
         ELSE each(acc, f, "@> ARRAY", x.l, FALSE)
    [] op = "isNull" ->
         put(acc, <<Condition(f, IF x.j = "bool" /\ x.v = 0 THEN "IS NOT NULL" ELSE "IS NULL", <<>>)>>)
    [] OTHER -> Refusal

\* What b has built becomes one piece of a, between an opening and a closing.
closing(a, b, sep, open, close) ==
  IF b.ok THEN put([a EXCEPT !.binds = b.binds, !.idx = b.idx], open \o joinedBy(b.pieces, sep) \o close)
  ELSE Refusal

\* A sensitive field is no filter.
build_field_condition(acc, f, x) ==
  CASE f \in Sensitive -> Refusal
    [] f \notin Sensitive /\ x.j = "null" -> put(acc, <<Condition(f, "IS NULL", <<>>)>>)
    [] f \notin Sensitive /\ x.j = "ops" ->
         closing(acc, FoldLeft(LAMBDA a, o : IF a.ok THEN operation(a, f, o.op, o.x) ELSE Refusal,
                               Started(acc.binds, acc.idx), x.ops), "AND", <<>>, <<>>)
    [] f \notin Sensitive /\ x.j = "obj" ->
         put(bindNext(acc, x.l), <<Condition(f, "= jsonb", <<acc.idx + 1>>)>>)
    [] OTHER -> one(acc, f, "=", x)

RECURSIVE build_where_clause(_, _, _)

\* The clauses of a list, each compiled after the one before.
subs(acc, list) ==
  FoldLeft(LAMBDA a, c :
             IF a.ok THEN closing(a, build_where_clause(c, a.binds, a.idx), "AND", <<>>, <<>>) ELSE Refusal,
           Started(acc.binds, acc.idx), list)

build_logical(acc, op, list) ==
  IF list = <<>> THEN put(acc, <<Word("TRUE")>>)
  ELSE closing(acc, subs(acc, list), IF op = "$and" THEN "AND" ELSE "OR", <<Word("(")>>, <<Word(")")>>)

entry(acc, e) ==
  CASE e.k \in {"$and", "$or"} -> build_logical(acc, e.k, e.list)
    [] e.k = "$not" ->
         closing(acc, build_where_clause(e.c, acc.binds, acc.idx), "AND",
                 <<Word("NOT"), Word("(")>>, <<Word(")")>>)
    [] e.k = "field" -> build_field_condition(acc, e.f, e.x)

orTrue(b) == IF b.ok /\ b.pieces = <<>> THEN put(b, <<Word("TRUE")>>) ELSE b

\* The parts, to be joined by AND.
build_where_clause(clause, binds, idx) ==
  orTrue(FoldLeft(LAMBDA a, e : IF a.ok THEN entry(a, e) ELSE Refusal, Started(binds, idx), clause))

clauseSql(b) == joinedBy(b.pieces, "AND")

-----------------------------------------------------------------------------
(***************************************************************************)
(* The fields a request names, and reads and writes on a grant.  A request *)
(* holds the page options it has (each at most one) and its other entries. *)
(***************************************************************************)
RECURSIVE collect_filter_fields(_), collectPositive(_)
\* What is negated is passed over.
collectPositive(clause) ==
  UNION {CASE e.k = "field" -> {e.f} \ Strays
           [] e.k \in {"$and", "$or"} -> UNION {collectPositive(c) : c \in ToSet(e.list)}
           [] e.k = "$not" -> {}
         : e \in ToSet(clause)}

collect_filter_fields(clause) ==
  UNION {CASE e.k = "field" -> {e.f} \ Strays
           [] e.k \in {"$and", "$or"} -> UNION {collect_filter_fields(c) : c \in ToSet(e.list)}
           [] e.k = "$not" -> collect_filter_fields(e.c)
         : e \in ToSet(clause)}

query_field_names(clause, order) == collect_filter_fields(clause) \cup order

keyOf(e) == IF e.k = "field" THEN e.f ELSE e.k
optionKeys(r) ==
  {o \in {"where", "orderBy", "limit"} :
     CASE o = "where" -> r.where # <<>> [] o = "orderBy" -> r.order # {} [] o = "limit" -> r.limit # {}}
allKeys(r) == {keyOf(e) : e \in ToSet(r.rest)} \cup optionKeys(r)
clauseOf(r) == IF r.where = <<>> THEN <<>> ELSE r.where[1]
\* The whole request as a filter.
wholeClause(r) ==
  r.rest \o SetToSeq({FieldEntry(o, Json("num", 1)) : o \in optionKeys(r)})

remote_requested_fields(op, r) ==
  IF op \in {"findOne", "findAll"} THEN allKeys(r)
  ELSE IF op = "findPage" \/ optionKeys(r) # {} THEN query_field_names(clauseOf(r), r.order) ELSE allKeys(r)

readableFields(f) == f \in DOMAIN Types /\ f \notin Sensitive
Readable == {f \in DOMAIN Types : readableFields(f)}

\* The fields a grant is made for, the system's own with them; none if it is refused.
validate_requested_fields(requested) ==
  IF requested = {} \/ \E f \in requested : ~readableFields(f) THEN {} ELSE requested \cup SystemFields

validate_write_fields(actions, requested) ==
  IF actions \cap {"create", "update"} = {} \/ \E f \in requested : f \in SystemFields \/ ~readableFields(f) THEN {}
  ELSE requested

validate_sort_field(order) ==
  IF \E f \in order : readableFields(f) THEN order ELSE {"created_at"}

parse_query_options(r) == \A l \in r.limit : l \in 1 .. 1000

\* A read that is executed: its SQL and the column it is sorted by.
equality(op, r) ==
  IF \E f \in allKeys(r) : ~readableFields(f) THEN Refusal
  ELSE LET fs == SetToSeq(allKeys(r))
       IN [ok |-> TRUE, sort |-> IF op = "findOne" THEN {} ELSE {"created_at"},
           sql |-> joinedBy([i \in DOMAIN fs |-> <<Condition(fs[i], "=", <<i>>)>>], "AND")]

pageOf(r, uses, clause, built) ==
  IF \/ uses /\ r.rest # <<>>
     \/ \E f \in query_field_names(clause, r.order) : ~readableFields(f)
     \/ ~built.ok
     \/ ~parse_query_options(r)
  THEN Refusal
  ELSE [ok |-> TRUE, sql |-> clauseSql(built), sort |-> validate_sort_field(r.order)]

pageBy(r, uses, clause) == pageOf(r, uses, clause, build_where_clause(clause, <<>>, 0))

page(op, r) ==
  IF op = "findPage" \/ optionKeys(r) # {} THEN pageBy(r, TRUE, clauseOf(r)) ELSE pageBy(r, FALSE, r.rest)

\* An object keeps the keys allowed; a page is an object around its rows.
project_record(keys, snapshot) == keys \cap snapshot
project_query_result(keys, inner, snapshot) ==
  IF "data" \in keys THEN project_record(inner, snapshot) ELSE project_record(keys, snapshot)

\* A read for another application, and the fields its answer shows.
answeredWith(op, run, snapshot) ==
  IF ~run.ok THEN Refusal
  ELSE [ok |-> TRUE, sql |-> run.sql, sort |-> run.sort,
        shown |-> IF op \in {"findOne", "findAll"} THEN project_record(Readable, snapshot)
                  ELSE project_query_result({"data", "total"}, Readable, snapshot)]

remoteRead(op, r, snapshot) ==
  IF ~(remote_requested_fields(op, r) \subseteq snapshot) THEN Refusal
  ELSE answeredWith(op, IF op \in {"findOne", "findAll"} THEN equality(op, r) ELSE page(op, r), snapshot)

\* A mutation carries an object, an array of them, or an id with a patch.
remote_written_fields(op, m) ==
  CASE op = "create" /\ m.k = "object" -> m.objects[1]
    [] op = "bulk_create" /\ m.k = "array" -> UNION ToSet(m.objects)
    [] op = "update" /\ m.k = "patch" -> UNION ToSet(m.objects)
    [] OTHER -> {}

writable_object(object) == object # {} /\ \A f \in object : f \notin SystemFields /\ readableFields(f)

validateMutation(op, m, keyed) ==
  CASE op = "create" -> m.k = "object" /\ writable_object(m.objects[1])
    [] op = "bulk_create" ->
         ~keyed /\ m.k = "array" /\ m.objects # <<>> /\ \A o \in ToSet(m.objects) : writable_object(o)
    [] op = "update" -> m.k = "patch" /\ Len(m.objects) = 1 /\ writable_object(m.objects[1])
    [] op = "delete" -> m.k = "patch" /\ m.objects = <<>>

\* The columns an executed mutation assigns.
executeMutation(op, m, keyed) ==
  IF validateMutation(op, m, keyed) THEN [ok |-> TRUE, writes |-> UNION ToSet(m.objects)] ELSE Refusal

remoteWrite(op, m, keyed, writeSnapshot) ==
  IF \E f \in remote_written_fields(op, m) : f \notin writeSnapshot \/ f \in SystemFields THEN Refusal
  ELSE executeMutation(op, m, keyed)

-----------------------------------------------------------------------------
(***************************************************************************)
(* Publications: a predicate validated when it is declared, and conjoined  *)
(* with the caller's filter on every read.                                 *)
(***************************************************************************)
validate_filter_value(f, x) ==
  CASE x.j = "null" -> TRUE
    [] x.j # "null" /\ Types[f] = "number" -> x.j = "num"
    [] x.j # "null" /\ Types[f] \in {"text", "decimal", "uuid", "timestamp"} -> x.j = "str"
    [] OTHER -> FALSE

validContains(f, x) ==
  x.j = "arr" /\ x.l # <<>> /\ Types[f] = "text[]" /\ \A y \in ToSet(x.l) : y.j = "str"

validOperation(f, op, x) ==
  /\ x.j = "null" => op \in {"eq", "ne"}
  /\ CASE op = "isNull" -> x.j = "bool"
       [] op = "contains" -> validContains(f, x)
       [] op \in {"in", "nin"} ->
            x.j = "arr" /\ \A y \in ToSet(x.l) : y.j # "null" /\ validate_filter_value(f, y)
       [] op = "like" /\ Types[f] # "text" -> FALSE
       [] OTHER -> validate_filter_value(f, x)

RECURSIVE validate_filter(_)
validate_filter(clause) ==
  \A e \in ToSet(clause) :
    CASE e.k \in {"$and", "$or"} -> \A c \in ToSet(e.list) : validate_filter(c)
      [] e.k = "$not" -> validate_filter(e.c)
      [] e.k = "field" ->
           /\ e.f \in DOMAIN Types
           /\ CASE e.x.j = "ops" -> \A o \in ToSet(e.x.ops) : validOperation(e.f, o.op, o.x)
                [] e.x.j = "obj" -> e.x.l # <<>> /\ \A y \in ToSet(e.x.l) : validOperation(e.f, "other", y)
                [] OTHER -> validate_filter_value(e.f, e.x)

validate_provider(fs, clause) ==
  /\ \A f \in fs \cup query_field_names(clause, {}) : readableFields(f) /\ Types[f] # "json"
  /\ validate_filter(clause)
  /\ build_where_clause(clause, <<>>, 0).ok

withinFixed(fixed, requested) ==
  IF ~requested.ok THEN Refusal
  ELSE [ok |-> TRUE, binds |-> requested.binds,
        sql |-> <<Word("(")>> \o clauseSql(fixed) \o <<Word(")"), Word("AND"), Word("(")>>
                \o clauseSql(requested) \o <<Word(")")>>]

conjoin(fixed, filter) ==
  IF fixed.ok THEN withinFixed(fixed, build_where_clause(filter, fixed.binds, fixed.idx)) ELSE Refusal

published(predicate, filter) == conjoin(build_where_clause(predicate, <<>>, 0), filter)

\* A read-by-id locates a record without the identifier being published.
id_lookup(op, filter) == op = "findOne" /\ Len(filter) = 1 /\ keyOf(filter[1]) = "id"

\* What filter and order a publication and its grant let through.
outside(p, op, filter, order, grants) ==
  \/ \E f \in query_field_names(filter, order) :
       f \notin DOMAIN Types \/ (f \notin p.fields /\ ~(id_lookup(op, filter) /\ f = "id"))
  \/ id_lookup(op, filter) /\ filter[1].x.j # "str"
  \/ \E g \in ToSet(grants) :
       ~(query_field_names(filter, order) \cup query_field_names(p.where, {}) \subseteq g)

publicAnswer(shown, order, built) ==
  IF shown = {} \/ ~built.ok \/ ~(order \subseteq shown) THEN Refusal
  ELSE [ok |-> TRUE, sql |-> built.sql, binds |-> built.binds, shown |-> shown,
        sort |-> IF order = {} THEN {CHOOSE f \in shown : TRUE} ELSE order]

publicBy(p, op, filter, order, grants) ==
  IF outside(p, op, filter, order, grants) THEN Refusal
  ELSE publicAnswer({f \in p.fields : \A g \in ToSet(grants) : f \in g}, order, published(p.where, filter))

\* A public read of publication p; a publication of the application's own
\* entity has no grant.
publicationRead(p, op, r, grants) ==
  LET paged == op = "findPage" \/ (op = "find" /\ grants # <<>>)
      uses == paged /\ (op = "findPage" \/ optionKeys(r) # {})
  IN IF uses /\ (r.rest # <<>> \/ ~parse_query_options(r)) THEN Refusal
     ELSE IF uses THEN publicBy(p, op, clauseOf(r), r.order, grants)
     ELSE publicBy(p, op, wholeClause(r), {}, grants)
=============================================================================

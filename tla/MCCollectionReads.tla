------------------------- MODULE MCCollectionReads -------------------------
(***************************************************************************)
(* Filters grown entry by entry, compiled, and evaluated as PostgreSQL     *)
(* would; requests made of them, on a grant and on a publication.          *)
(***************************************************************************)
EXTENDS CollectionReads

CONSTANTS
  MaxGrowth,   \* entries and connectives added to a filter
  MaxAsked     \* those of a filter a request is made of

VARIABLES asked, growth,
          answer   \* what the Core makes of what is asked
readVars == <<asked, growth, answer>>

JNum(i) == Json("num", i)
JStr(i) == Json("str", i)
Arr(l) == JsonList("arr", l)
Op1(f, op, x) == FieldEntry(f, Operators(<<Operation(op, x)>>))
Nil == Json("null", 0)

Plain == {FieldEntry("n", JNum(1)), Op1("amt", "gte", JStr(1)), FieldEntry("amt", Nil)}
Entries ==
  Plain \cup
  {FieldEntry("secret", JNum(1)), FieldEntry("limit", JNum(1)), FieldEntry("id", JStr(1)),
   FieldEntry("amt", JNum(1)), FieldEntry("$where", JNum(1)), FieldEntry("n", JsonList("obj", <<JNum(1)>>)),
   Op1("n", "ne", Nil), Op1("n", "in", Arr(<<JNum(1), JNum(2)>>)), Op1("n", "in", Arr(<<>>)),
   Op1("n", "nin", Arr(<<JNum(1)>>)), Op1("n", "isNull", Json("bool", 0)), Op1("n", "isNull", JNum(0)),
   FieldEntry("n", Operators(<<Operation("gt", JNum(1)), Operation("lte", JNum(2))>>)),
   Op1("name", "like", JStr(1)), Op1("tags", "contains", Arr(<<JStr(1), JStr(2)>>)),
   Op1("tags", "contains", Arr(<<>>)), Op1("doc", "contains", Arr(<<JNum(1)>>)), Logical("$or", <<>>)}

Ops == {"find", "findOne", "findAll", "findPage"}
FieldGrants == {validate_requested_fields(fs) : fs \in {{"n"}, {"amt", "limit"}, {"n", "amt", "limit"}, {"secret"}}} \ {{}}
Bodies == {{"n"}, {"amt"}, {"id"}, {"n", "secret"}, {}}

Filter(c) == [what |-> "filter", c |-> c]
ReadRequest(op, where, order, limit, rest) ==
  [what |-> "request", op |-> op, where |-> where, order |-> order, limit |-> limit, rest |-> rest]
Mutation(op, k, objects) == [what |-> "write", op |-> op, k |-> k, objects |-> objects]

Mutations ==
  UNION {{Mutation(op, "object", <<a>>), Mutation(op, "array", <<a, b>>),
          Mutation(op, "patch", <<a>>), Mutation(op, "patch", <<>>)}
         : op \in {"create", "bulk_create", "update", "delete"}, a \in Bodies, b \in Bodies}

Publication(fs, clause) == [fields |-> fs, where |-> clause]
Published ==
  {Publication({"n"}, <<Op1("amt", "gte", JStr(1))>>),
   Publication({"amt", "limit"}, <<Logical("$or", <<<<FieldEntry("n", JNum(1))>>, <<FieldEntry("amt", Nil)>>>>)>>)}

\* A publication of the application's own entity has no grant.
GrantLists == {<<>>} \cup {<<g>> : g \in FieldGrants}
WriteGrants == {validate_write_fields({"create"}, fs) : fs \in {{"n"}, {"n", "amt"}}}

\* A filter is compiled, and may be declared as the predicate of a publication; a request is answered
\* on each grant and on each publication; a mutation is executed on each grant, with or without an
\* idempotency key.
answerTo(a) ==
  CASE a.what = "filter" ->
         [built |-> build_where_clause(a.c, <<>>, 0), declared |-> validate_provider({"n"}, a.c)]
    [] a.what = "request" ->
         [granted |-> [g \in FieldGrants |-> remoteRead(a.op, a, g)],
          public |-> [p \in Published, gs \in GrantLists |-> publicationRead(p, a.op, a, gs)]]
    [] a.what = "write" ->
         [done |-> [w \in WriteGrants, keyed \in BOOLEAN |-> remoteWrite(a.op, a, keyed, w)]]

CRInit ==
  /\ asked \in {Filter(<<e>>) : e \in Entries} \cup Mutations
  /\ growth = 0
  /\ answer = answerTo(asked)

\* What a filter grows by: anything at first, then the plainest.
Added == IF growth = 0 THEN Entries ELSE Plain

grow ==
  /\ asked.what = "filter" /\ growth < MaxGrowth
  /\ growth' = growth + 1
  /\ \/ \E e \in Added : asked' = Filter(Append(asked.c, e))
     \/ asked' = Filter(<<Negated(asked.c)>>)
     \/ \E op \in {"$and", "$or"}, e \in Added : asked' = Filter(<<Logical(op, <<<<e>>, asked.c>>)>>)
  /\ answer' = answerTo(asked')

ask ==
  /\ asked.what = "filter" /\ growth <= MaxAsked
  /\ \E op \in Ops, order \in {{}, {"amt"}}, limit \in {{}, {1001}} :
       \/ asked' = ReadRequest(op, <<asked.c>>, order, limit, <<>>)
       \/ asked' = ReadRequest(op, <<>>, order, limit, asked.c)
  /\ answer' = answerTo(asked')
  /\ UNCHANGED growth

CRNext == grow \/ ask
CRSpec == CRInit /\ [][CRNext]_readVars

-----------------------------------------------------------------------------
(***************************************************************************)
(* PostgreSQL: NOT binds tighter than AND, AND than OR; three truth values.*)
(* A column without a value is 0.                                          *)
(***************************************************************************)
SampleRows == [id : {1}, limit : {1}, n : {0, 1, 2}, amt : {0, 1}, name : {0, 1}, tags : {{}, {1, 2}}, doc : {{1}}]

not3(v) == CASE v = "T" -> "F" [] v = "F" -> "T" [] OTHER -> v
and3(a, b) == IF "bad" \in {a, b} THEN "bad" ELSE IF "F" \in {a, b} THEN "F" ELSE IF "N" \in {a, b} THEN "N" ELSE "T"
or3(a, b) == not3(and3(not3(a), not3(b)))
bool3(b) == IF b THEN "T" ELSE "F"

\* One test of a column: op applied to the values vs.
tested(row, f, op, vs) ==
  IF f \notin DOMAIN row \/ (op = "= jsonb" /\ f # "doc") THEN "bad"
  ELSE CASE f \in {"tags", "doc"} -> bool3(ToSet(vs) \subseteq row[f])
         [] op = "IS NULL" -> bool3(row[f] = 0)
         [] op = "IS NOT NULL" -> bool3(row[f] # 0)
         [] row[f] = 0 -> "N"
         [] op \in {"=", "LIKE", "IN"} -> bool3(row[f] \in ToSet(vs))
         [] op \in {"!=", "NOT IN"} -> bool3(row[f] \notin ToSet(vs))
         [] op = ">" -> bool3(row[f] > vs[1])
         [] op = ">=" -> bool3(row[f] >= vs[1])
         [] op = "<" -> bool3(row[f] < vs[1])
         [] op = "<=" -> bool3(row[f] <= vs[1])

condition(t, row, binds) ==
  IF \E p \in ToSet(t.ps) : p \notin DOMAIN binds THEN "bad"
  ELSE tested(row, t.f, t.op, IF t.op = "@>" THEN binds[t.ps[1]] ELSE [i \in DOMAIN t.ps |-> binds[t.ps[i]]])

tokenAt(ts, i) == IF i \in DOMAIN ts THEN ts[i].s ELSE "end"

\* What the tokens from i on say at a level (1 OR, 2 AND, 3 NOT), and where they end.
RECURSIVE says(_, _, _, _, _)
says(level, ts, i, row, binds) ==
  CASE level < 3 ->
         LET l == says(level + 1, ts, i, row, binds)
             r == says(level, ts, l.i + 1, row, binds)
         IN IF tokenAt(ts, l.i) # <<"OR", "AND">>[level] THEN l
            ELSE [v |-> IF level = 1 THEN or3(l.v, r.v) ELSE and3(l.v, r.v), i |-> r.i]
    [] level = 3 /\ tokenAt(ts, i) = "NOT" ->
         LET x == says(3, ts, i + 1, row, binds) IN [v |-> not3(x.v), i |-> x.i]
    [] level = 3 /\ tokenAt(ts, i) = "(" ->
         LET x == says(1, ts, i + 1, row, binds)
         IN [v |-> IF tokenAt(ts, x.i) = ")" THEN x.v ELSE "bad", i |-> x.i + 1]
    [] level = 3 /\ tokenAt(ts, i) \in {"TRUE", "FALSE"} -> [v |-> bool3(tokenAt(ts, i) = "TRUE"), i |-> i + 1]
    [] level = 3 /\ tokenAt(ts, i) = "cond" -> [v |-> condition(ts[i], row, binds), i |-> i + 1]
    [] OTHER -> [v |-> "bad", i |-> i]

statement(ts, row, binds) ==
  LET x == says(1, ts, 1, row, binds) IN IF x.i = Len(ts) + 1 THEN x.v ELSE "bad"

\* What a filter means, read off its tree.
all3(vs) == IF "bad" \in vs THEN "bad" ELSE IF "F" \in vs THEN "F" ELSE IF "N" \in vs THEN "N" ELSE "T"
values(x) == IF x.j = "arr" THEN [i \in DOMAIN x.l |-> x.l[i].v] ELSE <<x.v>>
intended(op, x) ==
  CASE op = "isNull" -> IF x.j = "bool" /\ x.v = 0 THEN "IS NOT NULL" ELSE "IS NULL"
    [] op \in {"eq", "ne"} /\ x.j = "null" -> IF op = "eq" THEN "IS NULL" ELSE "IS NOT NULL"
    [] op = "like" -> "LIKE"
    [] op \in {"in", "nin", "contains"} -> [in |-> "IN", nin |-> "NOT IN", contains |-> "@>"][op]
    [] OTHER -> comparisonOf(op)

meantOp(row, f, o) ==
  IF o.op \in {"in", "nin"} /\ o.x.l = <<>> THEN bool3(o.op = "nin")
  ELSE tested(row, f, intended(o.op, o.x), values(o.x))

RECURSIVE meant(_, _)
meant(clause, row) ==
  all3({CASE e.k = "$and" -> all3({meant(c, row) : c \in ToSet(e.list)})
          [] e.k = "$or" -> IF e.list = <<>> THEN "T" ELSE not3(all3({not3(meant(c, row)) : c \in ToSet(e.list)}))
          [] e.k = "$not" -> not3(meant(e.c, row))
          [] e.k = "field" /\ e.x.j = "ops" ->
               IF \A o \in ToSet(e.x.ops) : o.op = "contains" /\ o.x.l = <<>> THEN "bad"
               ELSE all3({meantOp(row, e.f, o) : o \in ToSet(e.x.ops)})
          [] e.k = "field" /\ e.x.j = "null" -> tested(row, e.f, "IS NULL", <<>>)
          [] e.k = "field" /\ e.x.j = "obj" -> tested(row, e.f, "= jsonb", <<>>)
          [] OTHER -> tested(row, e.f, "=", <<e.x.v>>)
        : e \in ToSet(clause)})

columns(ts) == {ts[i].f : i \in {j \in DOMAIN ts : ts[j].s = "cond"}} \cap DOMAIN Types

-----------------------------------------------------------------------------
\* The SQL built for a filter selects exactly the rows the filter's tree
\* describes: connectives nest, negation and NULL behave as written, and each
\* value reaches its own placeholder.  What the tree gives no meaning (an empty
\* $contains alone, an unknown column) PostgreSQL refuses rather than misreads
\* (crud.rs build_where_clause).
FilterMeansWhatItSays ==
  asked.what = "filter" =>
    LET b == answer.built
    IN b.ok => \A row \in SampleRows : statement(clauseSql(b), row, b.binds) = meant(asked.c, row)

\* A read for another application touches, by filter, by sort or by answer,
\* only fields its grant names, and never a sensitive one; a write assigns only
\* fields granted for writing (cross_app_operations.rs, collection_reads.rs).
NothingBeyondTheGrant ==
  /\ asked.what = "request" =>
       \A g \in FieldGrants :
         LET a == answer.granted[g]
         IN a.ok => columns(a.sql) \cup a.sort \cup a.shown \subseteq g \ Sensitive
  /\ asked.what = "write" =>
       \A w \in WriteGrants, keyed \in BOOLEAN :
         LET a == answer.done[w, keyed]
         IN a.ok => a.writes \subseteq w \ (Sensitive \cup SystemFields)

\* A public read returns only rows inside the publication's fixed predicate,
\* of those exactly the ones the caller's own filter asks for, and shows only
\* published fields the grant leaves (publication_reads.rs, published).
PublicReadStaysInside ==
  asked.what = "request" =>
    \A p \in Published, grants \in GrantLists :
      LET a == answer.public[p, grants]
          own == IF asked.where # <<>> THEN asked.where[1] ELSE wholeClause(asked)
      IN a.ok =>
           /\ a.shown \cup a.sort \subseteq p.fields
           /\ grants # <<>> => a.shown \cup a.sort \cup columns(a.sql) \subseteq grants[1]
           /\ \A row \in SampleRows :
                LET s == statement(a.sql, row, a.binds)
                IN s \in {"bad", and3(meant(p.where, row), meant(own, row))} /\ (s = "T" => meant(p.where, row) = "T")

RECURSIVE holdsObject(_)
holdsObject(clause) ==
  \E e \in ToSet(clause) :
    CASE e.k = "field" -> e.x.j = "obj"
      [] e.k = "$not" -> holdsObject(e.c)
      [] OTHER -> \E c \in ToSet(e.list) : holdsObject(c)

\* A predicate accepted when a publication is declared is one PostgreSQL
\* accepts at every read, on every row.  A plain object given for a value is
\* the exception: it is let through and compared as jsonb
\* (publications.rs validate_provider).
DeclaredPredicateRuns ==
  asked.what = "filter" /\ answer.declared /\ ~holdsObject(asked.c) =>
    LET b == answer.built
    IN \A row \in SampleRows : statement(clauseSql(b), row, b.binds) # "bad"

\* A read is exact: a filter that is accepted, from a request or from a declared query, runs in
\* PostgreSQL and selects the rows it describes, and no field and no row outside what the grant or
\* the publication lists takes part in it.
ReadsAreExact ==
  FilterMeansWhatItSays /\ DeclaredPredicateRuns /\ NothingBeyondTheGrant /\ PublicReadStaysInside
=============================================================================

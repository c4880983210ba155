---------------------------- MODULE RuleLanguage ----------------------------
(***************************************************************************)
(* The language of declarative rules: how a token sequence becomes a tree  *)
(* (parser.rs), how the tree is typed against the fields of the entity     *)
(* (typing.rs), and how it is emitted as SQL (emit.rs).                    *)
(*                                                                         *)
(* Tokens are what the lexer yields; characters, positions and messages    *)
(* are left out, and every refusal is Err.  A literal is a member of a     *)
(* small set: 'word' is no date, 'iso' spells one.                         *)
(***************************************************************************)
EXTENDS Integers, Sequences, FiniteSets, SequencesExt

CONSTANTS MAX_DEPTH, MAX_NODES, MAX_IN_ITEMS

\* One field of each type, as FieldType maps them.
FieldTy == [flag |-> "bool", qty |-> "float", amt |-> "numeric", name |-> "text",
            day |-> "date", at |-> "timestamp", doc |-> "json", ref |-> "uuid",
            tags |-> "array"]

Comparisons == {"=", "<>", "<", "<=", ">", ">="}
Functions1 == {"length", "btrim", "upper", "lower", "scale", "trunc", "abs",
               "jsonb_typeof", "jsonb_array_length"}
Texts == {"'word'", "'iso'", "'2 days'"}
Names == DOMAIN FieldTy \cup Functions1 \cup {"coalesce"}

Err == [k |-> "err"]
Field(n) == [k |-> "field", name |-> n]
Text(v) == [k |-> "text", v |-> v]
Number(v) == [k |-> "number", v |-> v]
Bool(v) == [k |-> "bool", v |-> v]
Interval == [k |-> "interval"]
Typed(t, v) == [k |-> "typed", ty |-> t, v |-> v]
Not(e) == [k |-> "not", e |-> e]
Neg(e) == [k |-> "neg", e |-> e]
Binary(op, l, r) == [k |-> "binary", op |-> op, l |-> l, r |-> r]
IsNull(e, neg) == [k |-> "isnull", e |-> e, neg |-> neg]
Between(e, lo, hi, neg) == [k |-> "between", e |-> e, lo |-> lo, hi |-> hi, neg |-> neg]
In(e, list, neg) == [k |-> "in", e |-> e, list |-> list, neg |-> neg]
Call(f, args) == [k |-> "call", f |-> f, args |-> args]
Finite(e) == [k |-> "finite", e |-> e]
ArrayWithin(n, vs) == [k |-> "within", name |-> n, vs |-> vs]

-----------------------------------------------------------------------------
(***************************************************************************)
(* The parser.  A step yields the tree read and the next token, or Err.    *)
(***************************************************************************)
peek(ts, i) == IF i <= Len(ts) THEN ts[i] ELSE "eof"
got(e, i) == [k |-> "got", e |-> e, i |-> i]
bad(r) == r.k = "err"

RECURSIVE read(_, _, _, _), loop(_, _, _, _), tests(_, _), items(_, _, _), arguments(_, _, _)

\* Sums bind before products.
joinsSwapped(level) ==
  CASE level = "or" -> {"OR"} [] level = "and" -> {"AND"} [] level = "other" -> {"~"}
    [] level = "additive" -> {"*"} [] level = "multiplicative" -> {"+", "-"}

\* The operators of a left-associative level, and the level of its operands.
joins(level) ==
  CASE level = "or" -> {"OR"} [] level = "and" -> {"AND"} [] level = "other" -> {"~"}
    [] level = "additive" -> {"+", "-"} [] level = "multiplicative" -> {"*"}

tighter(level) ==
  [or |-> "and", and |-> "not", other |-> "additive", additive |-> "multiplicative",
   multiplicative |-> "unary"][level]

\* or, and, other, additive, multiplicative: read one operand, then as many as
\* their operators join, folding to the left.
chain(level, ts, i, d) ==
  LET l == read(tighter(level), ts, i, d) IN IF bad(l) THEN Err ELSE loop(level, ts, l, d)

loop(level, ts, l, d) ==
  IF peek(ts, l.i) \notin joins(level) THEN l
  ELSE LET r == read(tighter(level), ts, l.i + 1, d)
       IN IF bad(r) THEN Err
          ELSE loop(level, ts, got(Binary(ts[l.i], l.e, r.e), r.i), d)

\* Nesting is bounded while descending.
nested(d) == d + 1 <= MAX_DEPTH

not(ts, i, d) ==
  IF peek(ts, i) # "NOT" THEN read("is", ts, i, d)
  ELSE IF ~nested(d) THEN Err
  ELSE LET e == read("not", ts, i + 1, d + 1) IN IF bad(e) THEN Err ELSE got(Not(e.e), e.i)

is(ts, i, d) ==
  LET e == read("comparison", ts, i, d) IN IF bad(e) THEN Err ELSE tests(ts, e)

tests(ts, e) ==
  IF peek(ts, e.i) # "IS" THEN e
  ELSE LET negated == peek(ts, e.i + 1) = "NOT"
           k == IF negated THEN e.i + 2 ELSE e.i + 1
       IN IF peek(ts, k) # "NULL" THEN Err
          ELSE tests(ts, got(IsNull(e.e, negated), k + 1))

\* Comparisons do not chain: the second one is left unread.
comparison(ts, i, d) ==
  LET l == read("range", ts, i, d)
  IN IF bad(l) \/ peek(ts, l.i) \notin Comparisons THEN l
     ELSE LET r == read("range", ts, l.i + 1, d)
          IN IF bad(r) THEN Err ELSE got(Binary(ts[l.i], l.e, r.e), r.i)

\* The bounds of BETWEEN are read above AND, so that its AND is its own.
range(ts, i, d) ==
  LET e == read("other", ts, i, d)
  IN IF bad(e) THEN Err
     ELSE LET neg == peek(ts, e.i) = "NOT" /\ peek(ts, e.i + 1) \in {"BETWEEN", "IN"}
              k == IF neg THEN e.i + 1 ELSE e.i
          IN CASE peek(ts, k) = "BETWEEN" ->
                    LET lo == read("other", ts, k + 1, d)
                    IN IF bad(lo) \/ peek(ts, lo.i) # "AND" THEN Err
                       ELSE LET hi == read("other", ts, lo.i + 1, d)
                            IN IF bad(hi) THEN Err
                               ELSE got(Between(e.e, lo.e, hi.e, neg), hi.i)
               [] peek(ts, k) = "IN" ->
                    IF peek(ts, k + 1) # "(" THEN Err
                    ELSE LET first == read("other", ts, k + 2, d)
                             list == IF bad(first) THEN Err
                                     ELSE items(ts, got(<<first.e>>, first.i), d)
                         IN IF bad(list) THEN Err
                            ELSE IF peek(ts, list.i) # ")" THEN Err
                            ELSE got(In(e.e, list.e, neg), list.i + 1)
               [] OTHER -> e

items(ts, list, d) ==
  IF peek(ts, list.i) # "," THEN list
  ELSE LET x == read("other", ts, list.i + 1, d)
       IN IF bad(x) \/ Len(list.e) = MAX_IN_ITEMS THEN Err
          ELSE items(ts, got(Append(list.e, x.e), x.i), d)

unary(ts, i, d) ==
  CASE peek(ts, i) = "-" ->
         IF ~nested(d) THEN Err
         ELSE LET e == read("unary", ts, i + 1, d + 1)
              IN IF bad(e) THEN Err ELSE got(Neg(e.e), e.i)
    [] peek(ts, i) = "+" -> Err
    [] OTHER -> read("atom", ts, i, d)

arguments(ts, list, d) ==
  IF peek(ts, list.i) # "," THEN list
  ELSE LET x == read("or", ts, list.i + 1, d)
       IN IF bad(x) THEN Err ELSE arguments(ts, got(Append(list.e, x.e), x.i), d)

call(f, ts, i, d) ==
  IF f \in DOMAIN FieldTy \/ ~nested(d) THEN Err
  ELSE LET first == read("or", ts, i, d + 1)
           args == IF bad(first) THEN Err
                   ELSE arguments(ts, got(<<first.e>>, first.i), d + 1)
       IN IF bad(args) THEN Err
          ELSE IF peek(ts, args.i) = ")"
                    /\ Len(args.e) = (IF f = "coalesce" THEN 2 ELSE 1)
          THEN got(Call(f, args.e), args.i + 1)
          ELSE Err

atom(ts, i, d) ==
  LET t == peek(ts, i) IN
  CASE t = "1" -> got(Number(t), i + 1)
    [] t \in Texts -> got(Text(t), i + 1)
    [] t \in {"TRUE", "FALSE"} -> got(Bool(t), i + 1)
    [] t = "INTERVAL" -> IF peek(ts, i + 1) = "'2 days'" THEN got(Interval, i + 2) ELSE Err
    [] t = "(" -> IF ~nested(d) THEN Err
                  ELSE LET e == read("or", ts, i + 1, d + 1)
                       IN IF bad(e) THEN Err
                          ELSE IF peek(ts, e.i) = ")" THEN got(e.e, e.i + 1) ELSE Err
    [] t \in Names /\ peek(ts, i + 1) # "(" -> got(Field(t), i + 1)
    [] t \in Names /\ peek(ts, i + 1) = "(" -> call(t, ts, i + 2, d)
    [] OTHER -> Err

read(level, ts, i, d) ==
  CASE level = "not" -> not(ts, i, d)
    [] level = "is" -> is(ts, i, d)
    [] level = "comparison" -> comparison(ts, i, d)
    [] level = "range" -> range(ts, i, d)
    [] level = "unary" -> unary(ts, i, d)
    [] level = "atom" -> atom(ts, i, d)
    [] OTHER -> chain(level, ts, i, d)

\* The subtrees of a node, in order.
kids(e) ==
  CASE e.k \in {"not", "neg", "isnull", "finite"} -> <<e.e>>
    [] e.k = "binary" -> <<e.l, e.r>>
    [] e.k = "between" -> <<e.e, e.lo, e.hi>>
    [] e.k = "in" -> <<e.e>> \o e.list
    [] e.k = "call" -> e.args
    [] OTHER -> <<>>

RECURSIVE nodes(_), fields(_)
nodes(e) == 1 + FoldLeft(LAMBDA n, c : n + nodes(c), 0, kids(e))

\* The fields a rule reads: what sensitive_scope and the tag look at.
fields(e) ==
  IF e.k \in {"field", "within"} THEN {e.name} ELSE UNION {fields(c) : c \in ToSet(kids(e))}

parse(ts) ==
  LET r == read("or", ts, 1, 0)
  IN IF bad(r) THEN Err
     ELSE IF peek(ts, r.i) # "eof" \/ nodes(r.e) > MAX_NODES THEN Err
     ELSE r.e

-----------------------------------------------------------------------------
(***************************************************************************)
(* The type checker.  It yields the resolved tree and its type, or Err.    *)
(***************************************************************************)
numeric(t) == t \in {"int", "float", "numeric", "numlit"}
textual(t) == t \in {"text", "textlit"}
orderable(t) == numeric(t) \/ t \in {"date", "timestamp", "interval"}

\* Same family, and never two literals.
compatible(a, b) ==
  /\ (numeric(a) /\ numeric(b)) \/ (textual(a) /\ textual(b)) \/ a = b
  /\ ~(a = "textlit" /\ b = "textlit")

arithmetic(a, b) ==
  CASE "float" \in {a, b} -> "float"
    [] "float" \notin {a, b} /\ "numeric" \in {a, b} -> "numeric"
    [] {"float", "numeric"} \cap {a, b} = {} /\ "int" \in {a, b} -> "int"
    [] OTHER -> "numlit"

typed(e, t) == [k |-> "typed as", e |-> e, ty |-> t]
must(ok, e, t) == IF ok THEN typed(e, t) ELSE Err

\* Only the unambiguous spelling of a date, a timestamp or a uuid.
typed_literal(t, v) == IF v = "'iso'" THEN typed(Typed(t, v), t) ELSE Err

RECURSIVE check(_)

\* The other side of a comparison; a string literal becomes one of the type
\* it is compared with.
unify(t, other) ==
  LET o == check(other)
      r == IF bad(o) THEN Err
           ELSE IF t \in {"date", "timestamp", "uuid"} /\ o.ty = "textlit"
           THEN typed_literal(t, o.e.v)
           ELSE o
  IN IF bad(r) THEN Err ELSE must(compatible(t, r.ty), r.e, r.ty)

is_literal(e) == e.k \in {"text", "number", "bool"} \/ (e.k = "neg" /\ e.e.k = "number")

\* A literal on the left takes its type from the right side.
compared(op, l, r0) ==
  LET flip == l.ty = "textlit"
      r == IF flip THEN check(r0) ELSE unify(l.ty, r0)
      x == IF ~flip THEN l ELSE IF bad(r) THEN Err ELSE unify(r.ty, l.e)
  IN IF bad(r) \/ bad(x) THEN Err
     ELSE must(/\ op \in {"=", "<>"} \/ (orderable(x.ty) /\ orderable(r.ty))
               /\ x.ty \notin {"json", "array"},
               Binary(op, x.e, r.e), "bool")

combined(op, l, r) ==
  CASE op = "-" /\ l.ty = "timestamp" /\ r.ty = "timestamp" -> typed(Binary(op, l.e, r.e), "interval")
    [] op = "-" /\ l.ty = "date" /\ r.ty = "date" -> typed(Binary(op, l.e, r.e), "int")
    [] OTHER -> must(numeric(l.ty) /\ numeric(r.ty), Binary(op, l.e, r.e), arithmetic(l.ty, r.ty))

binary(op, l0, r0) ==
  LET l == check(l0) IN
  IF bad(l) THEN Err
  ELSE CASE op \in Comparisons -> compared(op, l, r0)
         [] op = "~" -> must(l.ty = "text" /\ r0.k = "text", Binary(op, l.e, r0), "bool")
         [] OTHER ->
              LET r == check(r0)
              IN IF bad(r) THEN Err
                 ELSE IF op \in {"AND", "OR"}
                 THEN must(l.ty = "bool" /\ r.ty = "bool", Binary(op, l.e, r.e), "bool")
                 ELSE combined(op, l, r)

\* What a function takes and yields.
callTy(f, t) ==
  CASE f = "length" -> IF textual(t) THEN "int" ELSE "none"
    [] f \in {"btrim", "upper", "lower"} -> IF textual(t) THEN "text" ELSE "none"
    [] f = "scale" -> IF t = "numeric" THEN "int" ELSE "none"
    [] f = "trunc" -> IF t \in {"float", "numeric"} THEN t ELSE "none"
    [] f = "abs" -> IF t \in {"float", "numeric", "int"} THEN t ELSE "none"
    [] f = "jsonb_typeof" -> IF t = "json" THEN "text" ELSE "none"
    [] f = "jsonb_array_length" -> IF t = "json" THEN "int" ELSE "none"

called(f, args) ==
  LET first == check(args[1]) IN
  IF bad(first) THEN Err
  ELSE IF f # "coalesce"
  THEN must(callTy(f, first.ty) # "none", Call(f, <<first.e>>), callTy(f, first.ty))
  ELSE LET second == unify(first.ty, args[2])
       IN IF bad(second) \/ first.ty \in {"numlit", "textlit", "json", "array"} THEN Err
          ELSE typed(Call(f, <<first.e, second.e>>),
                     IF numeric(first.ty) THEN arithmetic(first.ty, second.ty) ELSE first.ty)

check(e) ==
  CASE e.k = "field" -> must(e.name \in DOMAIN FieldTy, e, FieldTy[e.name])
    [] e.k = "text" -> typed(e, "textlit")
    [] e.k = "number" -> typed(e, "numlit")
    [] e.k = "bool" -> typed(e, "bool")
    [] e.k = "interval" -> typed(e, "interval")
    [] e.k = "typed" -> typed(e, e.ty)
    [] e.k = "within" -> typed(e, "bool")
    [] e.k \in {"not", "neg", "isnull", "finite"} ->
         LET x == check(e.e)
         IN IF bad(x) THEN Err
            ELSE must((e.k = "not" => x.ty = "bool") /\ (e.k = "neg" => numeric(x.ty)),
                      [e EXCEPT !.e = x.e], IF e.k = "neg" THEN x.ty ELSE "bool")
    [] e.k = "binary" -> binary(e.op, e.l, e.r)
    [] e.k = "between" ->
         LET x == check(e.e)
             lo == IF bad(x) THEN Err ELSE unify(x.ty, e.lo)
             hi == IF bad(x) THEN Err ELSE unify(x.ty, e.hi)
         IN IF bad(lo) \/ bad(hi) THEN Err
            ELSE must(orderable(x.ty), Between(x.e, lo.e, hi.e, e.neg), "bool")
    [] e.k = "in" ->
         LET x == check(e.e)
             ys == [i \in DOMAIN e.list |-> IF bad(x) THEN Err ELSE unify(x.ty, e.list[i])]
         IN IF \E i \in DOMAIN ys : bad(ys[i]) \/ ~is_literal(e.list[i]) THEN Err
            ELSE must(numeric(x.ty) \/ textual(x.ty) \/ x.ty \in {"date", "uuid"},
                      In(x.e, [i \in DOMAIN ys |-> ys[i].e], e.neg), "bool")
    [] e.k = "call" -> called(e.f, e.args)

\* A check must be boolean.
boolean(e) == LET r == check(e) IN IF bad(r) \/ r.ty # "bool" THEN Err ELSE r.e

-----------------------------------------------------------------------------

(***************************************************************************)
(* Emission: every node in parentheses, so that nothing depends on         *)
(* precedence.  Quoting and qualification are left out.                    *)
(***************************************************************************)
negation(neg) == IF neg THEN <<"NOT">> ELSE <<>>

RECURSIVE sql(_)
listed(es) ==
  FoldLeft(LAMBDA out, e : IF out = <<>> THEN sql(e) ELSE out \o <<",">> \o sql(e), <<>>, es)

sql(e) ==
  CASE e.k = "field" -> <<e.name>>
    [] e.k \in {"text", "number", "bool"} -> <<e.v>>
    [] e.k = "typed" -> <<e.v, "::", e.ty>>
    [] e.k = "interval" -> <<"'2 days'", "::", "interval">>
    [] e.k = "not" -> <<"(", "NOT">> \o sql(e.e) \o <<")">>
    [] e.k = "neg" -> <<"(", "-">> \o sql(e.e) \o <<")">>
    [] e.k = "binary" -> <<"(">> \o sql(e.l) \o <<e.op>> \o sql(e.r) \o <<")">>
    [] e.k = "isnull" -> <<"(">> \o sql(e.e) \o <<"IS">> \o negation(e.neg) \o <<"NULL", ")">>
    [] e.k = "between" -> <<"(">> \o sql(e.e) \o negation(e.neg) \o <<"BETWEEN">> \o sql(e.lo)
                          \o <<"AND">> \o sql(e.hi) \o <<")">>
    [] e.k = "in" -> <<"(">> \o sql(e.e) \o negation(e.neg) \o <<"IN", "(">> \o listed(e.list)
                     \o <<")", ")">>
    [] e.k = "call" /\ e.f = "jsonb_array_length" ->
         <<"(", "CASE", "WHEN", "jsonb_typeof", "(">> \o listed(e.args) \o <<")", "=", "'array'", "THEN",
         e.f, "(">> \o listed(e.args) \o <<")", "END", ")">>
    [] e.k = "call" /\ e.f # "jsonb_array_length" -> <<e.f, "(">> \o listed(e.args) \o <<")">>
    [] e.k = "within" -> <<"(", e.name, "<@", "ARRAY">> \o SetToSeq(e.vs) \o <<")">>
    [] e.k = "finite" -> <<"(">> \o sql(e.e) \o <<"<", "'Infinity'", "AND">> \o sql(e.e)
                         \o <<">", "'-Infinity'", ")">>

-----------------------------------------------------------------------------
(***************************************************************************)
(* Field shorthands, compiled through the same trees.  A bound is what the *)
(* manifest holds: a JSON string or number, ok when it is well written.    *)
(***************************************************************************)
bound(ty, b) ==
  IF (ty = "numeric") # (b.json = "string") \/ ~b.ok THEN Err
  ELSE IF b.neg THEN Neg(Number(b.v)) ELSE Number(b.v)

boundOp(kind) == [min |-> ">=", max |-> "<=", xmin |-> ">", xmax |-> "<"][kind]
Bounding == {"min", "max", "xmin", "xmax"}

\* The kind of field a shorthand applies to.
applies(kind, ty) ==
  CASE kind \in Bounding \cup {"int"} -> ty \in {"float", "numeric"}
    [] kind = "scale" -> ty = "numeric"
    [] kind \in {"minlen", "maxlen", "notblank", "format", "pattern"} -> ty = "text"
    [] kind \in {"jsontype", "maxitems"} -> ty = "json"

\* PostgreSQL orders NaN and Infinity above every number.
guarded(this, test) == Binary("AND", test, Finite(this))

shorthandTree(this, kind, b, ty) ==
  CASE kind \in Bounding -> guarded(this, Binary(boundOp(kind), this, bound(ty, b)))
    [] kind = "int" -> guarded(this, Binary("=", this, Call("trunc", <<this>>)))
    [] kind = "scale" -> guarded(this, Binary("<=", Call("scale", <<this>>), Number(b.v)))
    [] kind = "minlen" -> Binary(">=", Call("length", <<this>>), Number(b.v))
    [] kind = "maxlen" -> Binary("<=", Call("length", <<this>>), Number(b.v))
    [] kind = "notblank" -> Binary(">", Call("length", <<Call("btrim", <<this>>)>>), Number("0"))
    [] kind \in {"format", "pattern"} -> Binary("~", this, Text("'word'"))
    [] kind = "jsontype" -> Binary("=", Call("jsonb_typeof", <<this>>), Text("'array'"))
    [] kind = "maxitems" -> Binary("<=", Call("jsonb_array_length", <<this>>), Number(b.v))

\* One shorthand of one field; that min_length stays below max_length is left out.
compile(field, kind, b) ==
  IF ~applies(kind, FieldTy[field]) THEN Err
  ELSE IF kind \in Bounding /\ bad(bound(FieldTy[field], b)) THEN Err
  ELSE IF kind \in {"format", "pattern", "jsontype"} /\ ~b.ok THEN Err
  ELSE boolean(shorthandTree(Field(field), kind, b, FieldTy[field]))

\* An enumeration, over an array or a scalar.
enum_check(field, values) ==
  IF FieldTy[field] = "array" THEN ArrayWithin(field, values)
  ELSE In(Field(field), [i \in 1 .. Cardinality(values) |-> Text(SetToSeq(values)[i])], FALSE)

-----------------------------------------------------------------------------
(***************************************************************************)
(* Patterns: the syntax tree regex-syntax yields, and the subset admitted. *)
(***************************************************************************)
MAX_REPEAT == 100
Atom(kind) == [k |-> "atom", kind |-> kind]
Repetition(n, p) == [k |-> "repetition", n |-> n, p |-> p]
Group(kind, p) == [k |-> "group", kind |-> kind, p |-> p]
Several(op, ps) == [k |-> op, ps |-> ps]

\* Characters, anchors and bracketed classes: literal_ok, class_ok, item_ok.
atom_ok(kind) ==
  kind \in {"empty", "dot", "perl", "verbatim", "meta", "tab", "^", "$", "range", "posix"}

RECURSIVE walk(_, _), walkInside(_, _)
\* A group starts over.
walkInside(p, repeated) ==
  CASE p.k = "atom" -> atom_ok(p.kind)
    [] p.k = "repetition" -> ~repeated /\ p.n <= MAX_REPEAT /\ walkInside(p.p, TRUE)
    [] p.k = "group" -> p.kind \in {"capture", "plain"} /\ walkInside(p.p, FALSE)
    [] p.k \in {"alternation", "concat"} -> \A q \in ToSet(p.ps) : walkInside(q, repeated)

walk(p, repeated) ==
  CASE p.k = "atom" -> atom_ok(p.kind)
    [] p.k = "repetition" -> ~repeated /\ p.n <= MAX_REPEAT /\ walk(p.p, TRUE)
    [] p.k = "group" -> p.kind \in {"capture", "plain"} /\ walk(p.p, repeated)
    [] p.k \in {"alternation", "concat"} -> \A q \in ToSet(p.ps) : walk(q, repeated)
=============================================================================

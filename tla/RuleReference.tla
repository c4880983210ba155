---------------------------- MODULE RuleReference ----------------------------
(***************************************************************************)
(* What rules are measured against: PostgreSQL's grammar, its operators    *)
(* and functions, the values a rule is evaluated on, and the meaning a     *)
(* manifest gives a shorthand.  None of it is the code of this repository. *)
(***************************************************************************)
EXTENDS RuleLanguage

Sequence(ss) == FoldLeft(LAMBDA out, s : out \o s, <<>>, ss)

-----------------------------------------------------------------------------
(***************************************************************************)
(* PostgreSQL's precedence, and a tree written with no parenthesis it does *)
(* not need.  IS, the comparisons, BETWEEN and IN do not associate.        *)
(***************************************************************************)
level(e) ==
  CASE e.k = "binary" /\ e.op = "OR" -> 1
    [] e.k = "binary" /\ e.op = "AND" -> 2
    [] e.k = "not" -> 3
    [] e.k = "isnull" -> 4
    [] e.k = "binary" /\ e.op \in Comparisons -> 5
    [] e.k \in {"between", "in"} -> 6
    [] e.k = "binary" /\ e.op = "~" -> 7
    [] e.k = "binary" /\ e.op \in {"+", "-"} -> 8
    [] e.k = "binary" /\ e.op = "*" -> 9
    [] e.k = "neg" -> 10
    [] OTHER -> 11

Alone == {4, 5, 6}

RECURSIVE written(_)
\* As an operand that must bind at least as tightly as l.
within(e, l) == IF level(e) >= l THEN written(e) ELSE <<"(">> \o written(e) \o <<")">>

commas(es, l) ==
  FoldLeft(LAMBDA out, e : IF out = <<>> THEN within(e, l) ELSE out \o <<",">> \o within(e, l),
           <<>>, es)

NotIf(neg) == IF neg THEN <<"NOT">> ELSE <<>>

written(e) ==
  LET l == level(e)
      up == IF l \in Alone THEN l + 1 ELSE l
  IN CASE e.k = "field" -> <<e.name>>
       [] e.k \in {"text", "number", "bool"} -> <<e.v>>
       [] e.k = "interval" -> <<"INTERVAL", "'2 days'">>
       [] e.k = "not" -> <<"NOT">> \o within(e.e, l)
       [] e.k = "neg" -> <<"-">> \o within(e.e, l)
       [] e.k = "isnull" -> within(e.e, up) \o <<"IS">> \o NotIf(e.neg) \o <<"NULL">>
       [] e.k = "binary" -> within(e.l, up) \o <<e.op>> \o within(e.r, l + 1)
       [] e.k = "between" -> Sequence(<<within(e.e, up), NotIf(e.neg), <<"BETWEEN">>,
                                        within(e.lo, up), <<"AND">>, within(e.hi, up)>>)
       [] e.k = "in" -> Sequence(<<within(e.e, up), NotIf(e.neg), <<"IN", "(">>,
                                   commas(e.list, 7), <<")">>>>)
       [] e.k = "call" -> <<e.f, "(">> \o commas(e.args, 1) \o <<")">>

-----------------------------------------------------------------------------
(***************************************************************************)
(* PostgreSQL's type of an emitted tree: the immutable operator or function *)
(* its operands select, "none" where there is none.  A string literal is   *)
(* unknown until an operand gives it a type, which its spelling must allow. *)
(***************************************************************************)
Numbers == {"int4", "numeric", "float8"}
promoted(a, b) == IF "float8" \in {a, b} THEN "float8" ELSE IF "numeric" \in {a, b} THEN "numeric" ELSE "int4"
reads(lit, t) == t \in {"text", "unknown"} \/ (t \in {"date", "timestamptz", "uuid"} /\ lit = "'iso'")

fieldPg == [flag |-> "bool", qty |-> "float8", amt |-> "numeric", name |-> "text", day |-> "date",
            at |-> "timestamptz", doc |-> "jsonb", ref |-> "uuid", tags |-> "text[]"]

RECURSIVE pgType(_)
\* The common type of two operands.
meets(l, r) ==
  LET a == pgType(l)
      b == pgType(r)
  IN CASE "none" \in {a, b} -> "none"
       [] a = "unknown" /\ b # "none" -> IF reads(l.v, b) THEN b ELSE "none"
       [] b = "unknown" /\ a \notin {"none", "unknown"} -> IF reads(r.v, a) THEN a ELSE "none"
       [] a \in Numbers /\ b \in Numbers -> promoted(a, b)
       [] a = b /\ a \notin Numbers \cup {"none", "unknown"} -> a
       [] OTHER -> "none"

Given(ok, t) == IF ok THEN t ELSE "none"

calledPg(f, t) ==
  CASE f \in {"length"} -> Given(t \in {"text", "unknown"}, "int4")
    [] f \in {"btrim", "upper", "lower"} -> Given(t \in {"text", "unknown"}, "text")
    [] f = "scale" -> Given(t \in {"numeric", "int4"}, "int4")
    [] f = "trunc" -> Given(t \in Numbers, IF t = "int4" THEN "float8" ELSE t)
    [] f = "abs" -> Given(t \in Numbers, t)
    [] f = "jsonb_typeof" -> Given(t = "jsonb", "text")
    [] f = "jsonb_array_length" -> Given(t = "jsonb", "int4")

pgType(e) ==
  CASE e.k = "field" -> fieldPg[e.name]
    [] e.k = "text" -> "unknown"
    [] e.k = "number" -> "int4"
    [] e.k \in {"bool", "within"} -> "bool"
    [] e.k = "interval" -> "interval"
    [] e.k = "typed" ->
         LET t == IF e.ty = "timestamp" THEN "timestamptz" ELSE e.ty IN Given(reads(e.v, t), t)
    [] e.k = "not" -> Given(pgType(e.e) = "bool", "bool")
    [] e.k = "neg" -> Given(pgType(e.e) \in Numbers, pgType(e.e))
    [] e.k = "isnull" -> Given(pgType(e.e) # "none", "bool")
    [] e.k = "finite" -> Given(pgType(e.e) \in Numbers, "bool")
    [] e.k = "binary" /\ e.op \in {"AND", "OR"} ->
         Given({pgType(e.l), pgType(e.r)} = {"bool"}, "bool")
    [] e.k = "binary" /\ e.op \in Comparisons ->
         Given(/\ meets(e.l, e.r) \notin {"none", "text[]"}
               /\ e.op \notin {"=", "<>"} => meets(e.l, e.r) \notin {"text", "unknown", "bool", "jsonb", "uuid"},
               "bool")
    [] e.k = "binary" /\ e.op = "~" -> Given(pgType(e.l) = "text" /\ pgType(e.r) = "unknown", "bool")
    [] e.k = "binary" /\ e.op \in {"+", "-", "*"} ->
         LET t == meets(e.l, e.r)
         IN CASE t \in Numbers -> t
              [] t = "date" /\ e.op = "-" -> "int4"
              [] t = "timestamptz" /\ e.op = "-" -> "interval"
              [] OTHER -> "none"
    [] e.k = "between" ->
         Given(\A x \in {e.lo, e.hi} : meets(e.e, x) \in Numbers \cup {"date", "timestamptz", "interval"},
               "bool")
    [] e.k = "in" -> Given(\A x \in ToSet(e.list) : meets(e.e, x) # "none", "bool")
    [] e.k = "call" /\ e.f = "coalesce" -> meets(e.args[1], e.args[2])
    [] e.k = "call" /\ e.f # "coalesce" -> calledPg(e.f, pgType(e.args[1]))

\* The type the checker assigned names the one PostgreSQL selects.
agrees(ty, pg) ==
  CASE ty = "int" -> pg \in {"int4", "numeric"}
    [] ty = "numlit" -> pg = "int4"
    [] ty = "textlit" -> pg = "unknown"
    [] ty = "float" -> pg = "float8"
    [] ty = "timestamp" -> pg = "timestamptz"
    [] ty = "json" -> pg = "jsonb"
    [] ty = "array" -> pg = "text[]"
    [] OTHER -> pg = ty

-----------------------------------------------------------------------------
(***************************************************************************)
(* The values of one field, and an emitted tree evaluated on one of them.  *)
(* A number counts tenths and keeps the scale it was written with; NaN and *)
(* the infinities are ordered as PostgreSQL orders them.                   *)
(***************************************************************************)
Null == [t |-> "null"]
Num(v, s) == [t |-> "num", v |-> v, s |-> s]
NaN == Num(1000, -1)
Infinity == Num(999, -1)
MinusInfinity == Num(-999, -1)
finite(x) == x.s >= 0
Str(len, kept, hit) == [t |-> "str", len |-> len, kept |-> kept, hit |-> hit]
JsonValue(kind, n) == [t |-> "json", kind |-> kind, n |-> n]
Elements(es) == [t |-> "els", es |-> es]
Truth(b) == [t |-> "bool", b |-> b]

ValuesOf(ty) ==
  {Null} \cup
  CASE ty = "float" -> {NaN, Infinity, MinusInfinity} \cup {Num(v, 0) : v \in {-10, 0, 5, 10, 20}}
    [] ty = "numeric" -> {NaN, Infinity, MinusInfinity, Num(10, 1), Num(15, 1)}
                         \cup {Num(v, 0) : v \in {-10, 0, 10, 20}}
    [] ty = "text" -> {Str(n, k, hit) : n \in 0 .. 2, k \in 0 .. 2, hit \in BOOLEAN}
    [] ty = "json" -> {JsonValue("array", n) : n \in 0 .. 2} \cup {JsonValue("object", 0), JsonValue("null", 0)}
    [] ty = "array" -> {Elements(es) : es \in SUBSET {"'word'", "'iso'", "NULL"}}
    [] OTHER -> {}

Tenths(v) == [d \in {"0", "1", "2"} |-> CASE d = "0" -> 0 [] d = "1" -> 10 [] d = "2" -> 20][v]

compares(op, a, b) ==
  CASE op = "=" -> a = b [] op = "<" -> a < b [] op = "<=" -> a <= b
    [] op = ">" -> a > b [] op = ">=" -> a >= b

\* AND over three values.
both(a, b) ==
  IF Truth(FALSE) \in {a, b} THEN Truth(FALSE) ELSE IF Null \in {a, b} THEN Null ELSE Truth(TRUE)

applied(f, x) ==
  CASE x = Null -> Null
    [] x # Null /\ f = "length" -> Num(10 * x.len, 0)
    [] x # Null /\ f = "btrim" -> [x EXCEPT !.len = x.kept]
    [] x # Null /\ f = "trunc" -> IF finite(x) THEN Num(10 * (x.v \div 10), 0) ELSE x
    [] x # Null /\ f = "scale" -> IF finite(x) THEN Num(10 * x.s, 0) ELSE Null
    [] x # Null /\ f = "jsonb_typeof" -> [t |-> "kind", v |-> x.kind]
    [] x # Null /\ f = "jsonb_array_length" -> IF x.kind = "array" THEN Num(10 * x.n, 0) ELSE Null

RECURSIVE value(_, _)
value(e, x) ==
  CASE e.k = "field" -> x
    [] e.k = "number" -> Num(Tenths(e.v), 0)
    [] e.k = "neg" -> Num(-value(e.e, x).v, 0)
    [] e.k = "call" -> applied(e.f, value(e.args[1], x))
    [] e.k = "finite" -> IF x = Null THEN Null ELSE Truth(finite(x))
    [] e.k = "within" -> IF x = Null THEN Null ELSE Truth(x.es \subseteq e.vs)
    [] e.k = "binary" /\ e.op = "AND" -> both(value(e.l, x), value(e.r, x))
    [] e.k = "binary" /\ e.op = "~" -> IF x = Null THEN Null ELSE Truth(x.hit)
    [] e.k = "binary" /\ e.op \in Comparisons ->
         LET a == value(e.l, x) IN
         CASE a = Null -> Null
           [] a # Null /\ e.r.k = "text" -> Truth(a.v = "array")
           [] OTHER -> LET b == value(e.r, x)
                       IN IF b = Null THEN Null ELSE Truth(compares(e.op, a.v, b.v))

\* A CHECK lets a row through unless it is false.
passes(e, x) == value(e, x) \in {Null, Truth(TRUE)}

signed(b) == IF b.neg THEN -Tenths(b.v) ELSE Tenths(b.v)

\* What the manifest means: a finite number inside the bound, a text of that
\* length, an array of that many items; nothing is said of a missing value.
means(kind, b, x) ==
  x = Null \/
  CASE kind \in Bounding -> finite(x) /\ compares(boundOp(kind), x.v, signed(b))
    [] kind = "int" -> finite(x) /\ x.v % 10 = 0
    [] kind = "scale" -> finite(x) /\ 10 * x.s <= Tenths(b.v)
    [] kind = "minlen" -> 10 * x.len >= Tenths(b.v)
    [] kind = "maxlen" -> 10 * x.len <= Tenths(b.v)
    [] kind = "notblank" -> x.kept > 0
    [] kind \in {"format", "pattern"} -> x.hit
    [] kind = "jsontype" -> x.kind = "array"
    [] kind = "maxitems" -> x.kind = "array" => 10 * x.n <= Tenths(b.v)

RECURSIVE starHeight(_)
\* How many repetitions enclose one another.
starHeight(p) ==
  CASE p.k = "atom" -> 0
    [] p.k = "repetition" -> 1 + starHeight(p.p)
    [] p.k = "group" -> starHeight(p.p)
    [] OTHER -> Max({starHeight(q) : q \in ToSet(p.ps)})
=============================================================================

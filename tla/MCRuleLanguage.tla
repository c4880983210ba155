--------------------------- MODULE MCRuleLanguage ---------------------------
(***************************************************************************)
(* Rules grow: a tree by wrapping it, a text by one token, a pattern by one *)
(* operator; a shorthand meets the values of its field.                    *)
(***************************************************************************)
EXTENDS RuleReference

CONSTANTS MaxWraps, MaxTokens, MaxPattern

VARIABLES subject, size,
          verdict   \* what the Core makes of the subject

langVars == <<subject, size, verdict>>

Leaves == {Field(n) : n \in DOMAIN FieldTy} \cup
          {Number("1"), Text("'word'"), Text("'iso'"), Bool("TRUE"), Interval}
BinaryOps == Comparisons \cup {"OR", "AND", "~", "+", "-", "*"}

\* Every way to put one more node around a tree.
Wraps(e) ==
  {Not(e), Neg(e), IsNull(e, TRUE), IsNull(e, FALSE)}
  \cup {Call(f, <<e>>) : f \in Functions1}
  \cup UNION {{Binary(op, e, x), Binary(op, x, e)} : op \in BinaryOps, x \in Leaves}
  \cup UNION {{Call("coalesce", <<e, x>>), Call("coalesce", <<x, e>>)} : x \in Leaves}
  \cup UNION {{Between(e, x, x, neg), Between(x, e, x, neg), Between(x, x, e, neg), In(e, <<x, x>>, neg),
               In(x, <<e>>, neg)} : x \in Leaves, neg \in BOOLEAN}

Words == {<<"qty">>, <<"NOT">>, <<"-">>, <<"*", "qty">>, <<"+", "qty">>, <<"=", "qty">>, <<"~", "'word'">>,
          <<"AND", "qty">>, <<"OR", "qty">>, <<"IS", "NULL">>, <<"IS", "NOT", "NULL">>,
          <<"BETWEEN", "qty", "AND", "qty">>, <<"NOT", "IN", "(", "1", ")">>}

Atoms == {"verbatim", "posix", "unicode"}
Patterned(p) ==
  {Repetition(n, p) : n \in {1, MAX_REPEAT, MAX_REPEAT + 1}}
  \cup {Group(kind, p) : kind \in {"capture", "plain", "named"}}
  \cup {Several(op, <<p, q>>) : op \in {"alternation", "concat"}, q \in {Atom("verbatim"), Repetition(1, Atom("dot"))}}

Kinds == {"min", "max", "xmin", "xmax", "int", "scale", "minlen", "maxlen", "notblank", "format",
          "jsontype", "maxitems"}
Bounds == [v : {"0", "1", "2"}, neg : BOOLEAN, json : {"string", "number"}, ok : BOOLEAN]

Tree(e) == [what |-> "tree", e |-> e]
Tokens(ts) == [what |-> "tokens", ts |-> ts]
Pattern(p) == [what |-> "pattern", p |-> p]
Short(f, kind, b, x) == [what |-> "short", f |-> f, kind |-> kind, b |-> b, x |-> x]
Enum(f, vs, x) == [what |-> "enum", f |-> f, vs |-> vs, x |-> x]

\* A rule is parsed, typed and emitted, and what was emitted is read again by PostgreSQL; a shorthand
\* or an enumeration is compiled; a pattern is walked.
verdictOn(s) ==
  CASE s.what = "tree" -> [parsed |-> parse(written(s.e)), checked |-> check(s.e), sql |-> sql(s.e),
                           again |-> parse(sql(s.e)), reads |-> fields(s.e)]
    [] s.what = "tokens" -> [parsed |-> parse(s.ts)]
    [] s.what = "pattern" -> [admitted |-> walk(s.p, FALSE)]
    [] s.what = "short" -> [rule |-> IF s.kind = "none" THEN Err ELSE compile(s.f, s.kind, s.b)]
    [] s.what = "enum" -> [rule |-> enum_check(s.f, s.vs)]

LangInit ==
  /\ size = 0
  /\ subject \in {Tree(e) : e \in Leaves} \cup {Tokens(<<>>)} \cup {Pattern(Atom(a)) : a \in Atoms}
                \cup {Short(f, "none", [v |-> "0", neg |-> FALSE, json |-> "string", ok |-> TRUE], Null)
                      : f \in {"qty", "amt", "name", "doc", "tags"}}
  /\ verdict = verdictOn(subject)

growTree ==
  /\ subject.what = "tree" /\ size < MaxWraps
  /\ \E e \in Wraps(subject.e) : ~bad(check(e)) /\ subject' = Tree(e)
  /\ size' = size + 1
  /\ verdict' = verdictOn(subject')

growTokens ==
  /\ subject.what = "tokens" /\ size < MaxTokens
  /\ \E w \in Words : subject' = Tokens(subject.ts \o w)
  /\ size' = size + 1
  /\ verdict' = verdictOn(subject')

growPattern ==
  /\ subject.what = "pattern" /\ size < MaxPattern
  /\ \E p \in Patterned(subject.p) : subject' = Pattern(p)
  /\ size' = size + 1
  /\ verdict' = verdictOn(subject')

declare ==
  /\ subject.what = "short" /\ size = 0
  /\ \/ \E kind \in Kinds, b \in Bounds, x \in ValuesOf(FieldTy[subject.f]) :
           subject' = Short(subject.f, kind, b, x)
     \/ /\ FieldTy[subject.f] = "array"
        /\ \E vs \in SUBSET {"'word'", "'iso'"} \ {{}}, x \in ValuesOf("array") :
             subject' = Enum(subject.f, vs, x)
  /\ size' = 1
  /\ verdict' = verdictOn(subject')

LangNext == growTree \/ growTokens \/ growPattern \/ declare
LangSpec == LangInit /\ [][LangNext]_langVars

-----------------------------------------------------------------------------
\* A tree written with only the parentheses PostgreSQL's precedence needs is
\* read back as that tree (parser.rs, every level).
ReadsBack ==
  subject.what = "tree" => verdict.parsed = subject.e

IsChained(ts) == \E i \in 1 .. Len(ts) - 2 : ts[i] = "NULL" /\ ts[i + 1] = "IS"

\* A text without other parentheses than those of IN that the parser accepts is one PostgreSQL reads
\* as the same tree; IS tests in a row are the one form PostgreSQL refuses.
ReadAsWritten ==
  subject.what = "tokens" /\ ~IsChained(subject.ts) =>
    bad(verdict.parsed) \/ written(verdict.parsed) = subject.ts

Reparsed(e) == e.k \notin {"typed", "interval", "finite", "within"}
RECURSIVE plainTree(_)
plainTree(e) ==
  /\ Reparsed(e) /\ (e.k = "call" => e.f # "jsonb_array_length")
  /\ \A c \in ToSet(kids(e)) : plainTree(c)

\* What is emitted for a rule is read back as that rule, and names exactly the fields the Core
\* believes it reads (ast.rs fields, by which a sensitive field is kept out of a rule).
EmittedIsTheRule ==
  subject.what = "tree" =>
    /\ plainTree(subject.e) => verdict.again = subject.e
    /\ verdict.reads = ToSet(verdict.sql) \cap DOMAIN FieldTy

\* Each operand of an accepted rule selects one immutable operator of
\* PostgreSQL, and the checker knows its type.
ResolvesInPostgres ==
  subject.what = "tree" =>
    agrees(verdict.checked.ty, pgType(verdict.checked.e))

\* A shorthand accepts exactly the values its manifest entry means, and an
\* enumeration exactly its members.
ShorthandMeansItself ==
  /\ subject.what = "short" /\ subject.kind # "none" =>
       bad(verdict.rule) \/ (passes(verdict.rule, subject.x) <=> means(subject.kind, subject.b, subject.x))
  /\ subject.what = "enum" =>
       (passes(verdict.rule, subject.x)
          <=> subject.x = Null \/ subject.x.es \subseteq subject.vs)

\* An admitted pattern repeats nothing inside a repetition.
PatternsAreFlat ==
  subject.what = "pattern" /\ verdict.admitted => starHeight(subject.p) <= 1

\* A rule is enforced as it was written: what the manifest says, what the parser takes it for, what
\* is emitted and what PostgreSQL reads and resolves are one rule.
EnforcedAsWritten ==
  /\ ReadsBack
  /\ ReadAsWritten
  /\ EmittedIsTheRule
  /\ ResolvesInPostgres
  /\ ShorthandMeansItself
  /\ PatternsAreFlat
=============================================================================

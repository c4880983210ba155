----------------------------- MODULE MCContent -----------------------------
(***************************************************************************)
(* What applications keep and how it is read, part by part: the filters of *)
(* a read, the rule language, the installation of rules, object storage    *)
(* and the tree of a bucket.  The parts share no state, so a behaviour is  *)
(* one of a single part while the others rest in an initial state.         *)
(***************************************************************************)
EXTENDS MCCollectionReads, MCRuleLanguage, RuleInstall, ObjectStorage, BucketTree, TLC

CONSTANTS Parts,   \* the parts a run explores
          q1, q2, q3, q4,
          g1, g2, g3, t1, t2, t3, top

VARIABLE part

-----------------------------------------------------------------------------
(* One table of two columns, two rules and two rows.                       *)

col(t) == [type |-> t, req |-> FALSE, dflt |-> "none", fk |-> "none"]
rule(k, cs, t, v) == [kind |-> k, reads |-> cs, type |-> t, bad |-> v]
man(a, b, r, s) == [cols |-> [c \in Columns |-> IF c = "a" THEN a ELSE b],
                    rules |-> [n \in Rules |-> IF n = "r" THEN r ELSE s],
                    sensitive |-> {}]

text == col("text")
aNotX == rule("check", {"a"}, "text", "x")
aNotBlank == rule("check", {"a"}, "text", "")
aOnce == rule("unique", {"a"}, "text", "x")
abNotX == rule("check", {"a", "b"}, "text", "x")

plain == man(text, NoColumn, aNotX, NoRule)
stricter == man(text, NoColumn, aNotBlank, NoRule)
unique == man(text, NoColumn, aNotX, aOnce)
keyed == man(text, NoColumn, NoRule, aOnce)
loose == man(text, NoColumn, NoRule, NoRule)

\* Columns that are required, defaulted, linked, retyped, added and dropped.
strict == man([text EXCEPT !.req = TRUE, !.dflt = "d"], [col("text") EXCEPT !.fk = "restrict"], aNotX, NoRule)
relaxed == man(text, [col("text") EXCEPT !.fk = "cascade"], abNotX, NoRule)
retyped == man(col("number"), NoColumn, rule("check", {"a"}, "number", "x"), NoRule)
firm == man([col("number") EXCEPT !.req = TRUE], NoColumn, NoRule, NoRule)
unlinked == man(strict.cols["a"], text, aNotX, NoRule)
secret == [strict EXCEPT !.rules = relaxed.rules, !.sensitive = {"b"}]

\* Rules replaced, added and dropped; one taken over from an older Core; and
\* columns that change under their rules.
MCStories ==
  {[first |-> plain, rest |-> {stricter, unique}, tag |-> "final"],
   [first |-> keyed, rest |-> {loose, unique}, tag |-> "final"],
   [first |-> unique, rest |-> {unique, stricter}, tag |-> "legacy"],
   [first |-> strict, rest |-> {relaxed, plain, secret, unlinked}, tag |-> "final"],
   [first |-> relaxed, rest |-> {strict}, tag |-> "final"],
   [first |-> plain, rest |-> {retyped}, tag |-> "legacy"],
   [first |-> strict, rest |-> {firm}, tag |-> "final"]}

\* The rule keeps its name and loses a column.
MCNarrowed == {[first |-> relaxed, rest |-> {plain}, tag |-> "final"]}

\* The rule is new, and so is the type of the column it reads.
MCRetyped == {[first |-> loose, rest |-> {retyped}, tag |-> "final"]}

-----------------------------------------------------------------------------
(* What four requests do to one object.                                    *)

StOps(w, x, y, z) == (q1 :> w) @@ (q2 :> x) @@ (q3 :> y) @@ (q4 :> z)
MCStDuties ==
    { StOps({"create"}, {"append"}, {"append"}, {"complete", "cancel"}),
      StOps({"create"}, {"append"}, {"complete"}, {"complete", "create"}),
      StOps({"create"}, {"append"}, {"create"}, {"append"}),
      StOps({"put"}, {"ipcGet", "get"}, {"delete"}, {"nonceGet", "get"}),
      StOps({"put"}, {"delete"}, {"delete"}, {"put"}),
      StOps({"ipcPut"}, {"noncePut"}, {"noncePut"}, {"get", "delete"}) }

-----------------------------------------------------------------------------
(* What three requests do to the tree of a bucket.                         *)

MCStartTree == (g1 :> top) @@ (g2 :> g1) @@ (g3 :> top)
BtOps(x, y, z) == (t1 :> x) @@ (t2 :> y) @@ (t3 :> z)
MCBtDuties ==
    { BtOps({"rename"}, {"rename"}, {"drop"}),
      BtOps({"rename"}, {"rename"}, {"mkdir"}),
      BtOps({"rename"}, {"mkdir"}, {"drop"}),
      BtOps({"put"}, {"drop"}, {"fetch"}),
      BtOps({"drop"}, {"drop"}, {"mkdir"}),
      BtOps({"put"}, {"dropBucket"}, {"makeBucket"}) }

-----------------------------------------------------------------------------
contentVars == <<part, readVars, langVars, installVars, storeVars, treeVars>>

ContentInit ==
  /\ part \in Parts
  /\ part = "reads" \/ (part # "reads" /\ asked = Mutation("delete", "patch", <<>>))
  /\ CRInit
  /\ part = "language" \/ (part # "language" /\ subject = Pattern(Atom("verbatim")))
  /\ LangInit
  /\ part = "rules" \/ (part # "rules" /\ story = [first |-> keyed, rest |-> {loose, unique}, tag |-> "final"])
  /\ RuleInit
  /\ part = "objects" \/ (part # "objects" /\ stDuty = StOps({"put"}, {"ipcGet", "get"}, {"delete"}, {"nonceGet", "get"}))
  /\ StoreInit
  /\ part = "tree" \/ (part # "tree" /\ btDuty = BtOps({"put"}, {"drop"}, {"fetch"}))
  /\ TreeInit

ContentNext ==
  /\ UNCHANGED part
  /\ \/ part = "reads" /\ CRNext /\ UNCHANGED <<langVars, installVars, storeVars, treeVars>>
     \/ part = "language" /\ LangNext /\ UNCHANGED <<readVars, installVars, storeVars, treeVars>>
     \/ part = "rules" /\ RuleNext /\ UNCHANGED <<readVars, langVars, storeVars, treeVars>>
     \/ part = "objects" /\ StoreNext /\ UNCHANGED <<readVars, langVars, installVars, treeVars>>
     \/ part = "tree" /\ TreeNext /\ UNCHANGED <<readVars, langVars, installVars, storeVars>>

ContentSpec == ContentInit /\ [][ContentNext]_contentVars

=============================================================================

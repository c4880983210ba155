----------------------------- MODULE RuleInstall -----------------------------
(***************************************************************************)
(* Installing a manifest over a table that is being written.               *)
(*                                                                         *)
(* One table of one application.  An installation preflights the rules of  *)
(* the new manifest, brings the columns to it in one transaction           *)
(* (schema_sync.rs), then reconciles checks and indexes with the database  *)
(* statement by statement (rules/reconcile.rs) and registers the manifest. *)
(* Between any two statements a writer may insert or delete rows, and the  *)
(* installation may stop for good: a lock timeout, a lost session, a       *)
(* crash.  Installations of one application exclude one another (the       *)
(* lifecycle lock), so there is one at a time.                             *)
(*                                                                         *)
(* A rule's definition is what it reads, the type of those columns and the *)
(* value it refuses; its source, parsed elsewhere, is not modelled here.   *)
(***************************************************************************)
EXTENDS Integers, FiniteSets

CONSTANTS Columns,       \* the columns a manifest may declare
          Rules,         \* the names of checks and indexes
          Values,        \* what a column may hold
          RowIds,        \* at most this many rows
          Stories,       \* what is installed first, and what may follow
          MaxInstalls,   \* installations begun
          MaxWrites,     \* rows inserted while they run
          MaxFaults      \* installations that stop between two statements

VARIABLES story,    \* the manifests of this behaviour
          cols,     \* the columns of the table, as introspected
          tuples,   \* its rows
          objects,  \* its checks and indexes, with their comments
          stored,   \* the manifest registered for the application
          serving,  \* the installation is active
          inst,     \* the installation in progress
          spent     \* installations, writes and faults so far

installVars == <<story, cols, tuples, objects, stored, serving, inst, spent>>

NullValue == "null"
NoColumn == [type |-> "none", req |-> FALSE, dflt |-> "none", fk |-> "none"]
NoRule == [kind |-> "none", reads |-> {}, type |-> "none", bad |-> "none"]
NoTuple == [c \in Columns |-> "none"]
Resting == [pc |-> "idle", man |-> "none", todo |-> {}, plan |-> "none",
            lefts |-> {}, drops |-> {}, cur |-> "none", verdict |-> "none"]

(***************************************************************************)
(* Rows and rules.                                                         *)
(***************************************************************************)
present(rows) == {i \in RowIds : rows[i] # NoTuple}

\* A rule is compiled for the types of the columns it reads: on others it is
\* SQLSTATE class 42, not a verdict.
evaluable(d, cs) == \A c \in d.reads : cs[c].type = d.type

\* count(*) WHERE (rule) IS FALSE, and the groups of duplicate keys.
violated(d, rows) ==
  \/ /\ d.kind = "check"
     /\ \E i \in present(rows) : \A c \in d.reads : rows[i][c] = d.bad
  \/ /\ d.kind = "unique"
     /\ \E i, j \in present(rows) : 
          i # j /\ \A c \in d.reads : rows[i][c] = rows[j][c] /\ rows[i][c] # NullValue

Objects == [rule : Rules, twin : BOOLEAN, def : [kind : {"check", "unique"},
              reads : SUBSET Columns, type : {"text", "number"}, bad : Values],
            tag : {"final", "pending", "legacy", "none"}, valid : BOOLEAN]

named(r) == {o \in objects : o.rule = r /\ ~o.twin}

\* What PostgreSQL makes a write obey.  A NOT VALID check binds new rows; an
\* index still being built may not refuse yet.
binding(o) == o.def.kind = "check" \/ o.valid

-----------------------------------------------------------------------------
(***************************************************************************)
(* compile_entity: the rules of a manifest that Core accepts.              *)
(***************************************************************************)
declared(m) == {r \in Rules : m.rules[r] # NoRule}

\* A rule touching a sensitive field may touch no other field; an index whose
\* predicate or expression touches one is refused.
sensitive_scope(m, d) ==
  d.reads \cap m.sensitive # {} => Cardinality(d.reads) = 1

\* Every field read is declared, with the type the rule was checked for.
field_types(m, d) == \A c \in d.reads : m.cols[c].type = d.type

compile_entity(m) ==
  \A r \in declared(m) : field_types(m, m.rules[r]) /\ sensitive_scope(m, m.rules[r])

-----------------------------------------------------------------------------
(***************************************************************************)
(* The columns.                                                            *)
(***************************************************************************)

\* What must change for one column: the differences of compute_diff.
columnDiff(have, want) ==
  IF have = NoColumn THEN IF want = NoColumn THEN {} ELSE {"add"}
  ELSE IF want = NoColumn THEN {"drop"}
  ELSE (IF have.type # want.type THEN {"alter_type"} ELSE {})
         \cup (IF want.req /\ ~have.req THEN {"set_not_null"}
               ELSE IF ~want.req /\ have.req THEN {"drop_not_null"} ELSE {})
         \cup (IF want.dflt # "none" /\ have.dflt # want.dflt THEN {"set_default"}
               ELSE IF want.dflt = "none" /\ have.dflt # "none" THEN {"drop_default"}
               ELSE {})
         \cup (IF have.fk # "none" /\ want.fk \notin {"none", have.fk}
               THEN {"replace_fk"} ELSE {})

compute_diff(cs, m) == [c \in Columns |-> columnDiff(cs[c], m.cols[c])]

\* The column after its phases: types, additions, nullability, defaults, keys.
\* A column added gets its foreign key later.  Retyping a column an old rule
\* reads may also fail, like any statement: see interrupt.
emit_ddl_phases(have, want, diff) ==
  IF "drop" \in diff THEN NoColumn
  ELSE IF "add" \in diff THEN [want EXCEPT !.fk = "none"]
  ELSE [type |-> IF "alter_type" \in diff THEN want.type ELSE have.type,
        req |-> (have.req \/ "set_not_null" \in diff) /\ "drop_not_null" \notin diff,
        dflt |-> IF diff \cap {"set_default", "drop_default"} # {} THEN want.dflt
                 ELSE have.dflt,
        fk |-> IF "replace_fk" \in diff THEN want.fk ELSE have.fk]

\* The USING clause: an empty text is no number and becomes NULL.
using_clause(v, to) == IF v = "" /\ to = "number" THEN NullValue ELSE v

\* A dropped column takes its values with it; an added one starts NULL: its
\* default is set afterwards and fills no row.
migrated(rows, diff, m) ==
  [i \in RowIds |-> IF rows[i] = NoTuple THEN NoTuple ELSE
     [c \in Columns |-> IF diff[c] \cap {"add", "drop"} # {} THEN NullValue
                        ELSE IF "alter_type" \in diff[c]
                        THEN using_clause(rows[i][c], m.cols[c].type) ELSE rows[i][c]]]

\* ALTER TABLE ... SET NOT NULL scans the rows.
requiredHold(rows, cs) ==
  \A i \in present(rows), c \in Columns : cs[c].req => rows[i][c] # NullValue

\* DROP COLUMN ... CASCADE takes the checks and indexes that read the column.
cascaded(diff) == {o \in objects : \E c \in o.def.reads : "drop" \in diff[c]}

-----------------------------------------------------------------------------
(***************************************************************************)
(* The plan.                                                               *)
(***************************************************************************)
\* Checks under a pending tag, twins, and indexes of ours left invalid.
leftovers(m) ==
  {o \in objects :
     \/ o.twin
     \/ o.def.kind = "check" /\ o.tag = "pending"
     \/ /\ o.def.kind = "unique" /\ ~o.valid
        /\ (o.rule \in declared(m) \/ o.tag # "none")}

\* The tag an older Core wrote is a hash of the source, which the manifest it
\* had stored must still declare.
was_declared(r, d) ==
  /\ stored.rules[r].kind = d.kind
  /\ stored.rules[r].reads = d.reads
  /\ stored.rules[r].bad = d.bad

planFor(r, m) ==
  LET kept == named(r) \ leftovers(m)
      d == m.rules[r]
  IN IF kept = {} THEN "create"
     ELSE LET o == CHOOSE x \in kept : TRUE
          IN IF o.tag = "final" /\ o.def = d /\ o.valid THEN "keep"
             ELSE IF /\ o.tag = "legacy" /\ o.valid
                     /\ o.def.reads = d.reads /\ o.def.bad = d.bad
                     /\ was_declared(r, d)
             THEN "adopt"
             ELSE "replace"

\* Managed objects the manifest no longer declares.
undeclared(m) ==
  {o \in objects : /\ o.rule \notin declared(m) /\ o.tag # "none"} \ leftovers(m)

plans(m) == [r \in declared(m) |-> planFor(r, m)]

\* preflight_table: a new or changed rule that existing rows already break.
preflight_table(m, p) ==
  {r \in declared(m) : /\ p[r] \in {"create", "replace"}
                       /\ evaluable(m.rules[r], cols)
                       /\ violated(m.rules[r], tuples)}

\* What the verify endpoint would report.
verify(m) ==
  {r \in declared(m) : planFor(r, m) # "keep"}
    \cup {o.rule : o \in leftovers(m) \cup undeclared(m)}

verify_all(m) == {c \in Columns : compute_diff(cols, m)[c] # {}} \cup verify(m)

-----------------------------------------------------------------------------
(***************************************************************************)
(* The installation.                                                       *)
(***************************************************************************)
RuleInit ==
  /\ story \in Stories
  /\ cols = story.first.cols
  /\ tuples = [i \in RowIds |-> NoTuple]
  /\ objects = {[rule |-> r, twin |-> FALSE, def |-> story.first.rules[r],
                 tag |-> story.tag, valid |-> TRUE] : r \in declared(story.first)}
  /\ stored = story.first
  /\ serving = TRUE
  /\ inst = Resting
  /\ spent = [installs |-> 0, writes |-> 0, faults |-> 0]

Now(pc) == inst.pc = pc
goes(pc) == inst' = [inst EXCEPT !.pc = pc]
stops(why) == inst' = [Resting EXCEPT !.verdict = why, !.man = inst.man]
sameRules == UNCHANGED <<story, stored, serving, spent>>

\* A refused manifest stops at validation, which changes nothing.
begin(m) ==
  /\ Now("idle")
  /\ spent.installs < MaxInstalls
  /\ compile_entity(m)
  /\ inst' = [Resting EXCEPT !.pc = "preflight", !.man = m]
  /\ spent' = [spent EXCEPT !.installs = @ + 1]
  /\ UNCHANGED <<story, cols, tuples, objects, stored, serving>>

\* Read-only, and before anything is revoked: a rule that cannot be evaluated
\* on the columns as they are is left to the second check.
preflight ==
  /\ Now("preflight")
  /\ IF preflight_table(inst.man, plans(inst.man)) # {} THEN stops("refused")
     ELSE goes("revoke")
  /\ sameRules /\ UNCHANGED <<cols, tuples, objects>>

\* Another contract ends the generation being served.
retireGeneration ==
  /\ Now("revoke")
  /\ serving' = (serving /\ inst.man = stored)
  /\ goes("sync")
  /\ UNCHANGED <<story, cols, tuples, objects, stored, spent>>

\* One transaction for the table: SET NOT NULL over a NULL undoes all of it.
sync_schema ==
  /\ Now("sync")
  /\ LET diff == compute_diff(cols, inst.man)
         after == [c \in Columns |-> emit_ddl_phases(cols[c], inst.man.cols[c], diff[c])]
         rows == migrated(tuples, diff, inst.man)
     IN IF requiredHold(rows, after)
        THEN /\ cols' = after
             /\ tuples' = rows
             /\ objects' = objects \ cascaded(diff)
             /\ goes("plan")
        ELSE stops("failed") /\ UNCHANGED <<cols, tuples, objects>>
  /\ sameRules

\* The plan is made once, from the catalog as it is now.
planning ==
  /\ Now("plan")
  /\ LET m == inst.man IN
       inst' = [inst EXCEPT !.pc = "leftovers", !.plan = plans(m),
                  !.todo = {r \in declared(m) : planFor(r, m) # "keep"},
                  !.lefts = leftovers(m), !.drops = undeclared(m)]
  /\ sameRules /\ UNCHANGED <<cols, tuples, objects>>

drop_leftovers ==
  /\ Now("leftovers")
  /\ objects' = objects \ inst.lefts
  /\ goes("recheck")
  /\ sameRules /\ UNCHANGED <<cols, tuples>>

\* The second preflight, for the whole application.
recheck ==
  /\ Now("recheck")
  /\ IF preflight_table(inst.man, inst.plan) # {} THEN stops("refused")
     ELSE goes("apply")
  /\ sameRules /\ UNCHANGED <<cols, tuples, objects>>

-----------------------------------------------------------------------------
(***************************************************************************)
(* Applying one rule.  `cur' is the rule being made; checks come before    *)
(* indexes, in any order among themselves.                                 *)
(***************************************************************************)
Making(pc, kind) == Now(pc) /\ inst.man.rules[inst.cur].kind = kind

fresh(twin, tag, ok) ==
  [rule |-> inst.cur, twin |-> twin, def |-> inst.man.rules[inst.cur],
   tag |-> tag, valid |-> ok]

\* The object being made: under its own name, or beside the one it replaces.
twinned == inst.plan[inst.cur] = "replace"
made == {o \in objects : o.rule = inst.cur /\ o.twin = twinned}

choose(r) ==
  /\ Now("apply")
  /\ r \in inst.todo
  /\ inst.man.rules[r].kind = "check"
       \/ \A s \in inst.todo : inst.man.rules[s].kind # "check"
  /\ inst' = [inst EXCEPT !.cur = r, !.todo = @ \ {r},
                !.pc = IF inst.plan[r] = "adopt" THEN "retag" ELSE "add"]
  /\ sameRules /\ UNCHANGED <<cols, tuples, objects>>

\* A legacy object proven equivalent: its comment is rewritten, no scan.
adopt ==
  /\ Now("retag")
  /\ objects' = {IF o.rule = inst.cur /\ ~o.twin
                 THEN [o EXCEPT !.tag = "final", !.def = inst.man.rules[inst.cur]]
                 ELSE o : o \in objects}
  /\ goes("apply")
  /\ sameRules /\ UNCHANGED <<cols, tuples>>

\* The old check dropped first, to make room for the new one.
add_check_over ==
  /\ Making("add", "check")
  /\ objects' = (objects \ named(inst.cur)) \cup {fresh(twinned, "pending", FALSE)}
  /\ goes("validate")
  /\ sameRules /\ UNCHANGED <<cols, tuples>>

\* ADD CONSTRAINT ... NOT VALID under a pending comment, committed.
add_check ==
  /\ Making("add", "check")
  /\ objects' = objects \cup {fresh(twinned, "pending", FALSE)}
  /\ goes("validate")
  /\ sameRules /\ UNCHANGED <<cols, tuples>>

\* The rule is taken as enforced without the scan.
validate_check_unscanned ==
  /\ Making("validate", "check")
  /\ objects' = (objects \ made) \cup {fresh(twinned, "pending", TRUE)}
  /\ goes("tag")
  /\ sameRules /\ UNCHANGED <<cols, tuples>>

\* VALIDATE CONSTRAINT scans every row.  Rows written since the preflight may
\* break the rule: the constraint is dropped and the installation ends.
validate_check ==
  /\ Making("validate", "check")
  /\ IF violated(inst.man.rules[inst.cur], tuples)
     THEN objects' = objects \ made /\ stops("refused")
     ELSE /\ objects' = (objects \ made) \cup {fresh(twinned, "pending", TRUE)}
          /\ goes("tag")
  /\ sameRules /\ UNCHANGED <<cols, tuples>>

\* build_index: at once on an empty table, CONCURRENTLY on any other.
build_index ==
  /\ Making("add", "unique")
  /\ objects' = objects \cup {fresh(twinned, "none", present(tuples) = {})}
  /\ goes(IF present(tuples) = {} THEN "tag" ELSE "validate")
  /\ sameRules /\ UNCHANGED <<cols, tuples>>

\* The concurrent build ends: a duplicate leaves it invalid, and it is dropped.
finish_index ==
  /\ Making("validate", "unique")
  /\ IF violated(inst.man.rules[inst.cur], tuples)
     THEN objects' = objects \ made /\ stops("refused")
     ELSE /\ objects' = (objects \ made) \cup {fresh(twinned, "none", TRUE)}
          /\ goes("tag")
  /\ sameRules /\ UNCHANGED <<cols, tuples>>

\* The final comment; for a replacement, one transaction also drops the old
\* object and renames the new one.
swap ==
  /\ Now("tag")
  /\ objects' = (objects \ (made \cup named(inst.cur))) \cup {fresh(FALSE, "final", TRUE)}
  /\ goes("apply")
  /\ sameRules /\ UNCHANGED <<cols, tuples>>

-----------------------------------------------------------------------------
drop_undeclared ==
  /\ Now("apply") /\ inst.todo = {}
  /\ objects' = objects \ inst.drops
  /\ goes("register")
  /\ sameRules /\ UNCHANGED <<cols, tuples>>

register_app ==
  /\ Now("register")
  /\ stored' = inst.man
  /\ goes("keys")
  /\ UNCHANGED <<story, cols, tuples, objects, serving, spent>>

\* generate_foreign_keys adds the keys that are missing, then the generation
\* is registered.
activateInstall ==
  /\ Now("keys")
  /\ cols' = [c \in Columns |->
       IF cols[c].fk = "none" THEN [cols[c] EXCEPT !.fk = inst.man.cols[c].fk] ELSE cols[c]]
  /\ serving' = TRUE
  /\ stops("installed")
  /\ UNCHANGED <<story, tuples, objects, stored, spent>>

\* A lock or statement timeout, a lost session, a crash: what was committed
\* stays, and the next installation starts again.
interrupt ==
  /\ ~Now("idle")
  /\ spent.faults < MaxFaults
  /\ stops("interrupted")
  /\ spent' = [spent EXCEPT !.faults = @ + 1]
  /\ UNCHANGED <<story, cols, tuples, objects, stored, serving>>

-----------------------------------------------------------------------------
(***************************************************************************)
(* Everyone else who writes the table: CRUD, worker SQL, imports.          *)
(***************************************************************************)
insertRow(i, t) ==
  /\ spent.writes < MaxWrites
  /\ tuples[i] = NoTuple
  /\ \A c \in Columns : IF cols[c] = NoColumn THEN t[c] = NullValue
                        ELSE cols[c].req => t[c] # NullValue
  /\ tuples' = [tuples EXCEPT ![i] = t]
  /\ \A o \in objects : binding(o) => 
       (o.def.kind = "check" => ~\A c \in o.def.reads : t[c] = o.def.bad)
       /\ (o.def.kind = "unique" => ~violated(o.def, tuples'))
  /\ spent' = [spent EXCEPT !.writes = @ + 1]
  /\ UNCHANGED <<story, cols, objects, stored, serving, inst>>

deleteRow(i) ==
  /\ tuples[i] # NoTuple
  /\ tuples' = [tuples EXCEPT ![i] = NoTuple]
  /\ UNCHANGED <<story, cols, objects, stored, serving, inst, spent>>

Reconciling ==
  \/ \E m \in story.rest : begin(m)
  \/ preflight \/ retireGeneration \/ sync_schema \/ planning
  \/ drop_leftovers \/ recheck
  \/ \E r \in Rules : choose(r)
  \/ adopt \/ add_check \/ validate_check \/ build_index \/ finish_index \/ swap
  \/ drop_undeclared \/ register_app \/ activateInstall

Writing ==
  \/ \E i \in RowIds, t \in [Columns -> Values \cup {NullValue}] : insertRow(i, t)
  \/ \E i \in RowIds : deleteRow(i)

RuleNext == Reconciling \/ interrupt \/ Writing

RuleSpec == RuleInit /\ [][RuleNext]_installVars

-----------------------------------------------------------------------------
(***************************************************************************)
(* Properties.                                                             *)
(***************************************************************************)
\* At most one object answers to a name, beside at most one twin of it.
RuleTypeOK ==
  /\ objects \subseteq Objects
  /\ \A o, p \in objects : o.rule = p.rule /\ o.twin = p.twin => o = p

\* An installation that reported success left every rule its manifest declares
\* enforced by a validated object, with no row that breaks one, whatever was
\* written while it ran and whatever earlier attempts left behind.
InstalledIsEnforced ==
  Now("idle") /\ inst.verdict = "installed" =>
    \A r \in declared(inst.man) :
      /\ \E o \in named(r) : o.def = inst.man.rules[r] /\ o.valid
      /\ ~violated(inst.man.rules[r], tuples)

\* After a successful installation every column has the type, nullability and
\* default the manifest declares and every reference it declares is there (one it
\* no longer declares stays: compute_diff compares two references or nothing),
\* and the verify endpoint has nothing to report: no rule would change again, and
\* no object that carries a tag of an interrupted attempt is left.
InstalledAsDeclared ==
  Now("idle") /\ inst.verdict = "installed" =>
    /\ \A c \in Columns : /\ cols[c] = [stored.cols[c] EXCEPT !.fk = cols[c].fk]
                         /\ stored.cols[c].fk \in {"none", cols[c].fk}
    /\ verify_all(stored) = {}

\* What docs/adr/0010 says of a crash between steps, "the next install cleans the
\* leftovers": an index made and not yet commented (apply) is unknown to an
\* installation whose manifest does not declare it, and goes on refusing rows.
LeftoversAreCleaned ==
  Now("idle") /\ inst.verdict = "installed" =>
    \A o \in objects : o.rule \in declared(stored)

enforced(r) == \E o \in named(r) : o.valid /\ o.tag \in {"final", "legacy"}

\* A rule in force that the manifest being installed still declares stays in
\* force through every step of the reconciliation, in its old version or its
\* new one: replacing a rule opens no window.
NoWindow ==
  [][\A r \in Rules :
       enforced(r) /\ ~Now("idle") /\ ~Now("sync") /\ r \in declared(inst.man)
         => enforced(r)']_installVars

\* The same with no exception for the columns (docs/adr/0010, Consequences):
\* a rule change never opens a window without enforcement.
NeverUnenforced ==
  [][\A r \in Rules :
       enforced(r) /\ ~Now("idle") /\ r \in declared(inst.man) => enforced(r)']_installVars

\* An installation refused because existing rows violate a rule has changed
\* nothing (rules/reconcile.rs, preflight_table): the columns are those of the
\* manifest still registered, and its installation still serves.
RefusalChangesNothing ==
  Now("idle") /\ inst.verdict = "refused" /\ spent.faults = 0 /\ spent.installs = 1 =>
    /\ cols = stored.cols
    /\ serving

\* After an installation that succeeded its rules hold of the rows, its columns are there, and
\* no tagged object is left that it does not declare.
InstalledRulesHold == RuleTypeOK /\ InstalledIsEnforced /\ InstalledAsDeclared
=============================================================================

------------------------------ MODULE RowAccess ------------------------------
(***************************************************************************)
(* Row access of one app: the ownership and sharing a manifest declares,   *)
(* the row-level-security plan compiled from them, the installation that   *)
(* replaces the plan, and the record routes that run under it.             *)
(*                                                                         *)
(* An entity's owner column holds a user id, links to the entity that      *)
(* carries the ownership, or is not declared.  A row keeps the two columns *)
(* that can own it: `by`, a user, and `up`, the key of a row of the        *)
(* entity's parent.  A `pass` row is a share: it lets the user who owns    *)
(* its grantee read what its subject (a desk) or its item (a folder)       *)
(* gives, while it is not revoked.                                         *)
(* Permission keys are abstracted to one role per user for every entity.   *)
(***************************************************************************)
EXTENDS Naturals, Sequences, FiniteSets

CONSTANTS
  Entities,      \* entity names; "desk" is one: the people sharing links to
  Tables,        \* the entities whose records the behaviours touch
  RowIds,        \* primary keys
  People,        \* users
  Declarations,  \* the contracts a manifest may declare
  Owners,        \* key -> the user who holds the rows of that key at first
  Filled,        \* which tables may hold rows at first
  RoleMixes,     \* which role each user has
  MaxOwnerChain, \* MAX_OWNER_CHAIN
  MaxSteps       \* bound on the record operations of one behaviour

Null == "null"
Gone == [there |-> FALSE, by |-> Null, up |-> Null]
RowOf(by, up) == [there |-> TRUE, by |-> by, up |-> up]
NoPass == [grantee |-> Null, subject |-> Null, item |-> Null, active |-> FALSE]

VARIABLES
  manifest,    \* rootcx_system.apps.manifest
  projection,  \* row_access_contracts
  plan,        \* the policies and resolvers in force
  active,      \* app_installations.active
  stage,       \* where the current installation is
  incoming,    \* the manifest it installs
  data,        \* entity -> key -> row
  pass,        \* the one share row
  roles,       \* user -> role
  seen,        \* the rows the last read returned, and to whom
  wrote,       \* the last writer, or Null
  steps

rowVars == <<manifest, projection, plan, active, stage, incoming, data, pass,
                roles, seen, wrote, steps>>

----------------------------------------------------------------------------
(* The contract: validation and compilation. *)

\* owner_parent: the entity the owner column links to.
Delegates(c, e) == c.owner[e] \in Entities
owner_field(c, e) == c.owner[e] # "none"

within(chain) == Len(chain) + 1 <= MaxOwnerChain

\* validate_owner_chains: from every delegating entity the chain must stay
\* loop-free, within the limit, and end on a column holding a user id.
validate_owner_chains(c) ==
  LET ok[chain \in Seq(Entities)] ==
        LET parent == c.owner[chain[Len(chain)]]
        IN  /\ \A k \in 1..Len(chain) : chain[k] # parent
            /\ within(chain)
            /\ owner_field(c, parent)
            /\ Delegates(c, parent) => ok[Append(chain, parent)]
  IN  \A e \in Entities : Delegates(c, e) => ok[<<e>>]

\* sharing::validate: the grantee (and the subject of an identity share) links
\* to an owned entity.
validate_share(c) == c.share # "none" => owner_field(c, "desk")

validate(c) == validate_owner_chains(c) /\ validate_share(c)

\* owner_chain: from the table to the entity holding a user id; <<>> is no
\* ownership, "bad" a chain that cannot be compiled.
owner_chain(c, e) ==
  LET walk[chain \in Seq(Entities)] ==
        LET last == chain[Len(chain)]
            parent == c.owner[last]
        IN  IF ~Delegates(c, last) THEN chain
            ELSE IF Len(chain) >= MaxOwnerChain \/ ~owner_field(c, parent)
                    \/ \E k \in 1..Len(chain) : chain[k] = parent
            THEN <<"bad">> ELSE walk[Append(chain, parent)]
  IN  IF owner_field(c, e) THEN walk[<<e>>] ELSE <<>>

compile(c) == [chain |-> [e \in Entities |-> owner_chain(c, e)], share |-> c.share]

\* The predicate and its resolvers: the keys of the chain's first entity whose
\* root row satisfies the comparison with the user column, one resolver per link.
keysOwnedBy(d, chain, who) ==
  LET n == Len(chain)
      own[k \in 1..n] ==
        IF k = n
        THEN {i \in RowIds : d[chain[n]][i].there /\ d[chain[n]][i].by \in who}
        ELSE {i \in RowIds : d[chain[k]][i].there /\ d[chain[k]][i].up \in own[k + 1]}
  IN  IF n = 0 THEN {} ELSE own[1]

ownKeys(p, d, u, e) == keysOwnedBy(d, p.chain[e], {u})

\* Mutant: a share row counts whatever its activeWhen column says.
livesForever(q) == q.grantee # Null
\* guard: the share row's activeWhen columns are null.
lives(q) == q.active

\* identity_select: the users the caller's live passes name as subjects, and the
\* rows whose owner column leads to one of them.
identities(p, d, q, u) ==
  IF lives(q) /\ q.grantee \in ownKeys(p, d, u, "desk")
  THEN {v \in People : q.subject \in ownKeys(p, d, v, "desk")} ELSE {}
identity_select(p, d, q, u, e) == keysOwnedBy(d, p.chain[e], identities(p, d, q, u))

\* resource_selects: the subject itself ("folder") and the targets linked to it
\* ("note" via `up`), whoever owns them.
resource_selects(p, d, q, u, e) ==
  IF lives(q) /\ q.grantee \in ownKeys(p, d, u, "desk")
  THEN CASE e = "folder" -> {i \in RowIds : d[e][i].there /\ i = q.item}
         [] e = "note" -> {i \in RowIds : d[e][i].there /\ q.item # Null /\ d[e][i].up = q.item}
         [] OTHER -> {}
  ELSE {}

shared(p, d, q, u, e) ==
  CASE p.share = "identity" -> identity_select(p, d, q, u, e)
    [] p.share = "resource" -> resource_selects(p, d, q, u, e)
    [] OTHER -> {}

\* check_access: nobody passes while the installation is not active.
gate(u, scope) == active /\ scope \in roles[u]

\* table_rls: the permissive policies of a command, joined by OR.
All(d, e) == {i \in RowIds : d[e][i].there}
selectable(p, d, u, e) ==
  (IF gate(u, "all") THEN All(d, e) ELSE {})
  \cup (IF gate(u, "own") THEN ownKeys(p, d, u, e) ELSE {})
  \cup (IF gate(u, "shared") THEN shared(p, d, pass, u, e) ELSE {})
writable(p, d, u, e) ==
  (IF gate(u, "all") THEN All(d, e) ELSE {})
  \cup (IF gate(u, "own") THEN ownKeys(p, d, u, e) ELSE {})

----------------------------------------------------------------------------
(* Installation: revoke, register the manifest, reconcile, activate. *)

NoRead == [by |-> Null, asked |-> {}, rows |-> {}]
Quiet == seen' = NoRead /\ wrote' = Null /\ UNCHANGED <<data, pass, roles, steps>>

\* Mutant: the running installation is kept while its contract is replaced.
revokeNothing(c) == active' = active
\* A changed contract revokes the installation before any of it is exposed; a
\* manifest that does not validate is refused before that.
revoke(c) == active' = FALSE
deactivate(c) ==
  /\ stage \in {"idle", "failed"} /\ c # manifest /\ validate(c)
  /\ revoke(c)
  /\ stage' = "register" /\ incoming' = c
  /\ Quiet /\ UNCHANGED <<manifest, projection, plan>>

\* The same manifest again, nothing revoked: a redeployment, or the retry of an
\* installation that did not finish.
redeploy ==
  /\ stage \in {"idle", "failed"}
  /\ stage' = "register" /\ incoming' = manifest
  /\ Quiet /\ UNCHANGED <<manifest, projection, plan, active>>

register_app ==
  /\ stage = "register"
  /\ manifest' = incoming /\ stage' = "govern"
  /\ Quiet /\ UNCHANGED <<projection, plan, active, incoming>>

\* row_access::install: the plan and its projection in one transaction.
reconcile(c) == plan' = compile(c)
install ==
  /\ stage = "govern"
  /\ reconcile(manifest)
  /\ projection' = manifest /\ stage' = "activate"
  /\ Quiet /\ UNCHANGED <<manifest, active, incoming>>

\* register_installation_tx: only the whole installation activates again.
activate ==
  /\ stage = "activate"
  /\ active' = TRUE /\ stage' = "idle"
  /\ Quiet /\ UNCHANGED <<manifest, projection, plan, incoming>>

\* A step fails or the process dies: what was done stays, nothing activates.
abandon ==
  /\ stage \notin {"idle", "failed"}
  /\ stage' = "failed"
  /\ Quiet /\ UNCHANGED <<manifest, projection, plan, active, incoming>>

\* govern_schema_tables replays the saved projection, not the manifest.
projected(m, p) == p
govern_schema_tables ==
  /\ stage \in {"idle", "failed"}
  /\ reconcile(projected(manifest, projection))
  /\ Quiet /\ UNCHANGED <<manifest, projection, active, stage, incoming>>

----------------------------------------------------------------------------
(* The record routes, each one transaction under the caller's identity. *)

Step == steps < MaxSteps /\ steps' = steps + 1
InForce == <<manifest, projection, plan, active, stage, incoming, pass, roles>>
Written(u, d) == data' = d /\ wrote' = u /\ seen' = NoRead

\* The link columns' foreign keys: note.up names a folder, folder.up a desk.
Links == [note |-> "folder", folder |-> "desk"]
Linked(d, e, row) == e \in DOMAIN Links /\ row.up # Null => d[Links[e]][row.up].there

\* create_record: WITH CHECK of the insert policies, and RETURNING reads the row.
create_record(u, e, i, row) ==
  LET d == [data EXCEPT ![e][i] = row]
  IN  /\ Step
      /\ ~data[e][i].there /\ Linked(data, e, row)
      /\ i \in writable(plan, d, u, e) \cap selectable(plan, d, u, e)
      /\ Written(u, d)
      /\ UNCHANGED InForce

\* bulk_insert: one statement; a record the policies refuse refuses them all.
bulk_insert(u, e, rows) ==
  LET d == [data EXCEPT ![e] = [i \in RowIds |-> IF i \in DOMAIN rows THEN rows[i] ELSE @[i]]]
  IN  /\ Step
      /\ \A i \in DOMAIN rows : ~data[e][i].there /\ Linked(data, e, rows[i])
      /\ DOMAIN rows \subseteq writable(plan, d, u, e) \cap selectable(plan, d, u, e)
      /\ Written(u, d)
      /\ UNCHANGED InForce

\* The route: a batch is not empty, and goes to one insert.
bulk_create_records(u, e, ks, r) == ks # {} /\ bulk_insert(u, e, [i \in ks |-> r])

\* Mutant: the row an update leaves behind is not vetted.
vetsNothing(u, e, i, d) == TRUE
\* The WITH CHECK clause of the update policies, and the SELECT policies that
\* RETURNING applies to the new row.
vets(u, e, i, d) == i \in writable(plan, d, u, e) \cap selectable(plan, d, u, e)

\* update_record: USING picks the row, the check vets what it becomes.
update_record(u, e, i, row) ==
  LET d == [data EXCEPT ![e][i] = row]
  IN  /\ Step
      /\ i \in writable(plan, data, u, e) \cap selectable(plan, data, u, e)
      /\ Linked(data, e, row)
      /\ vets(u, e, i, d)
      /\ Written(u, d)
      /\ UNCHANGED InForce

\* delete_record: USING, and the links to the row, of records and of the share,
\* are set to null (the default ON DELETE).
Unlinked(d, e, i) ==
  [f \in Entities |-> [k \in RowIds |->
     IF f \in DOMAIN Links /\ d[f][k].up = i /\ Links[f] = e
     THEN [d[f][k] EXCEPT !.up = Null] ELSE d[f][k]]]
UnlinkedPass(e, i) ==
  [pass EXCEPT !.grantee = IF e = "desk" /\ @ = i THEN Null ELSE @,
               !.subject = IF e = "desk" /\ @ = i THEN Null ELSE @,
               !.item = IF e = "folder" /\ @ = i THEN Null ELSE @]

delete_record(u, e, i) ==
  /\ Step
  /\ i \in writable(plan, data, u, e) \cap selectable(plan, data, u, e)
  /\ Written(u, Unlinked([data EXCEPT ![e][i] = Gone], e, i))
  /\ pass' = UnlinkedPass(e, i)
  /\ UNCHANGED <<manifest, projection, plan, active, stage, incoming, roles>>

\* A read answers what was asked of it, as far as the SELECT policies show it.
\* It changes no record, so the record operations of a behaviour may end with it.
Answer(u, asked) ==
  /\ steps < MaxSteps /\ steps' = MaxSteps
  /\ seen' = [by |-> u, asked |-> asked,
              rows |-> {p \in asked : p[2] \in selectable(plan, data, u, p[1])}]
  /\ wrote' = Null
  /\ UNCHANGED <<InForce, data>>
list_records(u, e) == Answer(u, {e} \X RowIds)
\* The records linked to one row, as a filter asks for them.
query_records(u, e, k) == Answer(u, {e} \X {i \in RowIds : data[e][i].up = k})
get_record(u, e, i) == Answer(u, {<<e, i>>})
federated_query(u) == Answer(u, Tables \X RowIds)

\* The app issues a share and later revokes it (activeWhen.isNull).
issuePass(g, s) ==
  /\ manifest.share # "none" /\ pass.grantee = Null
  /\ data["desk"][g].there /\ data["desk"][s].there /\ data["folder"][s].there
  /\ pass' = [grantee |-> g, subject |-> s, item |-> s, active |-> TRUE]
  /\ wrote' = Null /\ seen' = NoRead
  /\ Step
  /\ UNCHANGED <<manifest, projection, plan, active, stage, incoming, data, roles>>
revokePass ==
  /\ pass.active
  /\ pass' = [pass EXCEPT !.active = FALSE]
  /\ wrote' = Null /\ seen' = NoRead
  /\ UNCHANGED <<manifest, projection, plan, active, stage, incoming, data, roles, steps>>

----------------------------------------------------------------------------
RowInit ==
  /\ manifest \in {c \in Declarations : validate(c)}
  /\ incoming = manifest /\ projection = manifest /\ plan = compile(manifest)
  /\ active = TRUE /\ stage = "idle"
  /\ \E full \in Filled :
       data = [e \in Entities |-> [i \in RowIds |-> IF e \in full THEN RowOf(Owners[i], i) ELSE Gone]]
  /\ pass = NoPass /\ roles \in RoleMixes
  /\ seen = NoRead /\ wrote = Null /\ steps = 0

NewRows == {RowOf(b, i) : b \in People, i \in RowIds}
RowNext ==
  \/ \E c \in Declarations : deactivate(c)
  \/ redeploy \/ register_app \/ install \/ activate \/ abandon \/ govern_schema_tables
  \/ \E u \in People, e \in Tables, i \in RowIds :
       \/ delete_record(u, e, i)
       \/ \E r \in NewRows : create_record(u, e, i, r) \/ update_record(u, e, i, r)
  \/ \E u \in People, e \in Tables, r \in NewRows : bulk_create_records(u, e, RowIds, r)
  \/ \E u \in People, e \in Tables :
       list_records(u, e) \/ \E i \in RowIds : get_record(u, e, i) \/ query_records(u, e, i)
  \/ \E u \in People : federated_query(u)
  \/ \E g, s \in RowIds : issuePass(g, s)
  \/ revokePass
RowSpec == RowInit /\ [][RowNext]_rowVars

----------------------------------------------------------------------------
(* Reference definitions: ownership and sharing as facts about the data. *)

\* The user at the end of the links of a row, or Null.
RootOwner(c, d, e, i) ==
  LET up[n \in 0..Cardinality(Entities), x \in Entities, k \in RowIds \cup {Null}] ==
        IF k = Null \/ n = 0 THEN Null
        ELSE IF ~d[x][k].there THEN Null
        ELSE CASE c.owner[x] = "user" -> d[x][k].by
               [] c.owner[x] = "none" -> Null
               [] OTHER -> up[n - 1, c.owner[x], d[x][k].up]
  IN  up[Cardinality(Entities), e, i]

\* Whether the share in force gives a user a row.
Given(c, u, e, i) ==
  /\ pass.active
  /\ RootOwner(c, data, "desk", pass.grantee) = u
  /\ \/ /\ c.share = "identity"
        /\ RootOwner(c, data, e, i) # Null
        /\ RootOwner(c, data, e, i) = RootOwner(c, data, "desk", pass.subject)
     \/ c.share = "resource" /\ e = "folder" /\ i = pass.item
     \/ c.share = "resource" /\ e = "note" /\ pass.item # Null /\ data[e][i].up = pass.item

Confined(u) == "all" \notin roles[u]

----------------------------------------------------------------------------
(* Properties. *)

\* Rows are rows and the installation is at one of its steps.
RowTypeOK ==
  /\ stage \in {"idle", "register", "govern", "activate", "failed"}
  /\ \A e \in Entities, i \in RowIds : data[e][i] = Gone \/ data[e][i].there

\* An accepted contract always compiles: every owned entity's chain ends on a
\* column holding a user id, so no install fails on a contract it had accepted.
AcceptedContractsCompile ==
  \A e \in Entities : owner_field(incoming, e) =>
    LET chain == owner_chain(incoming, e)
    IN  chain # <<"bad">> /\ incoming.owner[chain[Len(chain)]] = "user"

\* While the app serves data, the policies in force are those of its registered
\* manifest, whatever installations failed, were retried or were replayed.
ServesItsContract == active => plan = compile(manifest)

\* "USING alone would still let a confined caller hand its own row to somebody
\* else": a caller with only its own scope never changes who owns a row that is
\* not its own, directly or through the rows it hangs from, and what it owned is
\* afterwards its own or nobody's.
ConfinedWritesStayHome ==
  [][wrote' # Null /\ data' # data /\ Confined(wrote') =>
       \A e \in Entities, i \in RowIds :
         LET before == RootOwner(manifest, data, e, i)
             after == RootOwner(manifest, data', e, i)
         IN  /\ before \notin {wrote', Null} => after = before
             /\ before = wrote' => after \in {wrote', Null}
             /\ before = Null => after \in {wrote', Null}]_rowVars

\* A confined reader is answered exactly with the rows that are its own and the
\* rows a live share gives it, ownership read off the data and not off its grants.
ReadsOwnAndShared ==
  seen.by # Null /\ Confined(seen.by) /\ active =>
    \A e \in Entities, i \in RowIds : <<e, i>> \in seen.asked =>
      (<<e, i>> \in seen.rows <=>
        /\ data[e][i].there
        /\ \/ "own" \in roles[seen.by] /\ RootOwner(manifest, data, e, i) = seen.by
           \/ "shared" \in roles[seen.by] /\ Given(manifest, seen.by, e, i))

\* A contract that is accepted compiles, is the one in force while the app serves
\* data, and lets a confined reader see what it says.
RowsFollowTheContract ==
  RowTypeOK /\ AcceptedContractsCompile /\ ServesItsContract /\ ReadsOwnAndShared
============================================================================

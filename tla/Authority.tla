----------------------------- MODULE Authority -----------------------------
(***************************************************************************)
(* Roles, permissions and their intersection: authority/perms.rs,          *)
(* policy.rs, routes.rs, the act-as gate (delegation/act_as.rs) and the    *)
(* SQL functions rbac/bootstrap.rs installs for row policies.              *)
(*                                                                         *)
(* A permission key is its ':'-separated segments and the row scope its    *)
(* last segment ends in.  Editors are concurrent administrators' requests; *)
(* each is a check followed by a write, on no common transaction.          *)
(***************************************************************************)
EXTENDS Integers, Sequences, FiniteSets

CONSTANTS
  Keys,             \* the permission keys in use
  Roles,            \* role names, other than the built-in admin
  Persons,          \* principals: humans, agents, service accounts
  Editors,          \* concurrent requests of administrators
  MAX_ROLE_DEPTH,   \* roles popped before expansion stops (64)
  Beginnings,       \* the tables a behaviour may begin with: [table, held, spent]
  Revisions,        \* what an edit may write: [parents, perms]
  MaxEdits          \* bound on edits in a behaviour

Scopes == {"all", "own", "shared"}
KeyShape(k) == /\ k = [path |-> k.path, scope |-> k.scope]
               /\ k.path \in Seq(STRING) /\ Len(k.path) > 0 /\ k.scope \in Scopes

ASSUME KeysAssumption == \A k \in Keys : KeyShape(k)
ASSUME TablesAssumption ==
  /\ \A b \in Beginnings : \A r \in DOMAIN b.table : b.table[r].perms \subseteq Keys
  /\ \A v \in Revisions : v.perms \subseteq Keys

VARIABLES table, held, edits, spentEdits
authVars == <<table, held, edits, spentEdits>>

-----------------------------------------------------------------------------
(***************************************************************************)
(* The permission lattice.                                                 *)
(***************************************************************************)
everything(p) == p.scope = "all" /\ p.path = <<"*">>
starred(p) == p.scope = "all" /\ Len(p.path) > 1 /\ p.path[Len(p.path)] = "*"

\* p grants what r requires: the same key, or a wildcard over its prefix.
covers(p, r) ==
  \/ everything(p)
  \/ p = r
  \/ /\ starred(p) /\ Len(r.path) >= Len(p.path)
     /\ \A i \in 1 .. Len(p.path) - 1 : r.path[i] = p.path[i]

has_permission(ps, r) == \E p \in ps : covers(p, r)

scoped(k, s) == [path |-> k.path, scope |-> s]

\* The disjoint scopes are taken for one.
meetAnyScope(k, other) ==
  CASE has_permission(other, k) -> {k}
    [] ~has_permission(other, k) /\ k.scope # "all" ->
         {k : x \in {s \in Scopes : has_permission(other, scoped(k, s))}}
    [] ~has_permission(other, k) /\ k.scope = "all" ->
         {scoped(k, "own") : x \in {y \in {1} : has_permission(other, scoped(k, "own"))}}

\* The weaker of a key and a grant, at most one key.
meet(k, other) ==
  CASE has_permission(other, k) -> {k}
    [] ~has_permission(other, k) /\ k.scope # "all" -> IF has_permission(other, scoped(k, "all")) THEN {k} ELSE {}
    [] ~has_permission(other, k) /\ k.scope = "all" ->
         IF has_permission(other, scoped(k, "own")) THEN {scoped(k, "own")} ELSE {}

intersect_permissions(a, b) ==
  CASE \E p \in a : everything(p) -> b
    [] (\A p \in a : ~everything(p)) /\ (\E p \in b : everything(p)) -> a
    [] OTHER -> (UNION {meet(p, b) : p \in a}) \cup (UNION {meet(p, a) : p \in b})

\* A scope is satisfied by itself or by the whole table.
satisfies(ps, k) == has_permission(ps, k) \/ (k.scope # "all" /\ has_permission(ps, scoped(k, "all")))

-----------------------------------------------------------------------------
(***************************************************************************)
(* Roles a principal has: the assigned ones and those they inherit from.   *)
(***************************************************************************)
Parents(t, r) == IF r \in DOMAIN t THEN t[r].parents ELSE <<>>

\* The parents of a role are taken in whether or not the role is known already.
popRepeating(t, w) ==
  IF w.stack = <<>> THEN w
  ELSE LET r == w.stack[Len(w.stack)]
       IN [stack |-> SubSeq(w.stack, 1, Len(w.stack) - 1) \o Parents(t, r), found |-> w.found \cup {r}]

\* One turn of the loop: a role off the stack, its parents not yet found on it.
pop(t, w) ==
  IF w.stack = <<>> THEN w
  ELSE LET r == w.stack[Len(w.stack)]
           rest == SubSeq(w.stack, 1, Len(w.stack) - 1)
           found == w.found \cup {r}
       IN [found |-> found,
           stack |-> IF r \in w.found THEN rest
                     ELSE rest \o SelectSeq(Parents(t, r), LAMBDA p : p \notin found)]

expansion(t, assigned) ==
  LET walk[n \in Nat] == IF n = 0 THEN [stack |-> assigned, found |-> {}] ELSE pop(t, walk[n - 1])
  IN walk[MAX_ROLE_DEPTH]
expand_roles(t, assigned) == expansion(t, assigned).found

\* Rows come in no particular order.
Orders(S) == {o \in [1 .. Cardinality(S) -> S] : S = {o[i] : i \in DOMAIN o}}
anOrder(S) == CHOOSE o \in [1 .. Cardinality(S) -> S] : S = {o[i] : i \in DOMAIN o}

permissionsOf(t, rs) == UNION {t[r].perms : r \in rs \cap DOMAIN t}
resolve_permissions(p) ==
  permissionsOf(table, expand_roles(table, anOrder(held[p])))

\* What row policies resolve: the roles of an unknown principal are none.
sqlHasPermission(p, k, o) == p \in DOMAIN held /\ has_permission(permissionsOf(table, expand_roles(table, o)), k)

\* Both sides' permissions are read, then narrowed.
effective_for_pair(agentPerms, delegPerms) == intersect_permissions(agentPerms, delegPerms)

\* The sides of the subset check are swapped.
actAsSwapped(human, target, managed, delegated, humanPerms, targetPerms) ==
  ~managed /\ (human = target \/ (delegated /\ \A p \in humanPerms : has_permission(targetPerms, p)))

\* A publication's principal is never impersonated; anyone else needs a standing
\* delegation and every permission of the target.
assert_can_act_as(human, target, managed, delegated, humanPerms, targetPerms) ==
  ~managed /\ (human = target \/ (delegated /\ \A p \in targetPerms : has_permission(humanPerms, p)))

-----------------------------------------------------------------------------
(***************************************************************************)
(* The administrator's requests.                                           *)
(***************************************************************************)
NoEdit == [op |-> "none"]

\* Roles reachable along inherits, in at least one step.
ParentSet(t, r) == {Parents(t, r)[i] : i \in DOMAIN Parents(t, r)}
ancestors(t, r) ==
  LET up[n \in Nat] ==
        IF n = 0 THEN ParentSet(t, r) ELSE LET S == up[n - 1] IN S \cup UNION {ParentSet(t, q) : q \in S}
  IN up[Cardinality(DOMAIN t)]

\* The search from role n, at its i-th parent: what has been visited, and what
\* is being visited (the path to n).
dfs_cycle(t) ==
  LET dfs[x \in [n : Roles, i : Nat, v : SUBSET Roles, s : SUBSET Roles]] ==
        IF x.i > Len(Parents(t, x.n)) THEN [cycle |-> FALSE, v |-> x.v]
        ELSE LET p == Parents(t, x.n)[x.i]
             IN IF p \in x.s THEN [cycle |-> TRUE, v |-> x.v]
                ELSE IF p \in x.v THEN dfs[[x EXCEPT !.i = @ + 1]]
                ELSE LET d == dfs[[n |-> p, i |-> 1, v |-> x.v \cup {p}, s |-> x.s \cup {p}]]
                     IN IF d.cycle THEN d ELSE dfs[[x EXCEPT !.i = @ + 1, !.v = d.v]]
  IN dfs

\* The roles are tried in the order o of a hash map's keys.
detectIn(t, o) ==
  LET try[n \in Nat] ==
        IF n = 0 THEN [cycle |-> FALSE, v |-> {}]
        ELSE LET before == try[n - 1]
             IN IF before.cycle \/ o[n] \in before.v THEN before
                ELSE dfs_cycle(t)[[n |-> o[n], i |-> 1, v |-> before.v \cup {o[n]}, s |-> {o[n]}]]
  IN try[Len(o)].cycle

detect_cycle(t) == detectIn(t, anOrder(DOMAIN t))

withRole(t, r, v) == [q \in DOMAIN t \cup {r} |-> IF q = r THEN v ELSE t[q]]
validate_hierarchy(t, r, v) == ~detect_cycle(withRole(t, r, v))

AuthInit ==
  /\ \E b \in Beginnings : table = b.table /\ held = b.held /\ spentEdits = b.spent
  /\ edits = [e \in Editors |-> NoEdit]

begins(e, request) ==
  /\ edits[e] = NoEdit /\ spentEdits < MaxEdits
  /\ edits' = [edits EXCEPT ![e] = request]
  /\ spentEdits' = spentEdits + 1
  /\ UNCHANGED <<table, held>>

ends(e) == edits' = [edits EXCEPT ![e] = NoEdit] /\ UNCHANGED spentEdits

\* create_role checks a hierarchy only when it inherits; the read is before the write.
checkCreate(e, r, v) ==
  /\ v.parents # <<>> => validate_hierarchy(table, r, v)
  /\ begins(e, [op |-> "create", role |-> r, v |-> v, seen |-> table])

create_role(e) ==
  /\ edits[e].op = "create"
  /\ table' = IF edits[e].role \in DOMAIN table THEN table ELSE withRole(table, edits[e].role, edits[e].v)
  /\ ends(e) /\ UNCHANGED held

\* The fields named in the body: without inherits no hierarchy is checked.
checkUpdate(e, r, v, fields) ==
  /\ "parents" \in fields => validate_hierarchy(table, r, v)
  /\ begins(e, [op |-> "update", role |-> r, v |-> v, fields |-> fields, seen |-> table])

revised(old, v, fields) ==
  [parents |-> IF "parents" \in fields THEN v.parents ELSE old.parents,
   perms |-> IF "perms" \in fields THEN v.perms ELSE old.perms]

update_role(e) ==
  /\ edits[e].op = "update"
  /\ LET q == edits[e]
     IN table' = IF q.role \in DOMAIN table
                 THEN withRole(table, q.role, revised(table[q.role], q.v, q.fields)) ELSE table
  /\ ends(e) /\ UNCHANGED held

\* The role goes first, its assignments in a statement of their own.
delete_role(e, r) ==
  /\ edits[e] = NoEdit /\ spentEdits < MaxEdits
  /\ r \in DOMAIN table
  /\ table' = [q \in DOMAIN table \ {r} |-> table[q]]
  /\ edits' = [edits EXCEPT ![e] = [op |-> "delete", role |-> r]]
  /\ spentEdits' = spentEdits + 1
  /\ UNCHANGED held

deleteAssignments(e) ==
  /\ edits[e].op = "delete"
  /\ held' = [p \in DOMAIN held |-> held[p] \ {edits[e].role}]
  /\ ends(e) /\ UNCHANGED table

checkAssign(e, p, r) ==
  /\ r \in DOMAIN table
  /\ begins(e, [op |-> "assign", role |-> r, person |-> p])

assign_role(e) ==
  /\ edits[e].op = "assign"
  /\ held' = [held EXCEPT ![edits[e].person] = @ \cup {edits[e].role}]
  /\ ends(e) /\ UNCHANGED table

revoke_role(p, r) ==
  /\ spentEdits < MaxEdits /\ r \in held[p]
  /\ held' = [held EXCEPT ![p] = @ \ {r}]
  /\ spentEdits' = spentEdits + 1
  /\ UNCHANGED <<table, edits>>

AuthNext ==
  \/ \E e \in Editors :
       \/ create_role(e) \/ update_role(e) \/ deleteAssignments(e) \/ assign_role(e)
       \/ \E r \in Roles : delete_role(e, r) \/ (\E p \in DOMAIN held : checkAssign(e, p, r))
       \/ \E r \in Roles, v \in Revisions :
            checkCreate(e, r, v) \/ (\E fields \in SUBSET {"parents", "perms"} \ {{}} : checkUpdate(e, r, v, fields))
  \/ \E p \in DOMAIN held, r \in Roles : revoke_role(p, r)

AuthSpec == AuthInit /\ [][AuthNext]_authVars

-----------------------------------------------------------------------------
AuthTypeOK ==
  /\ DOMAIN table \subseteq Roles
  /\ \A r \in DOMAIN table : table[r].perms \subseteq Keys
  /\ DOMAIN held \subseteq Persons /\ held \in [DOMAIN held -> SUBSET Roles]

\* A delegated agent's authority is exactly what the agent and its human both
\* have, row scopes included: it never exceeds either side, and a difference in
\* scope keeps the weaker one (perms.rs intersect_permissions, policy.rs
\* effective_for_pair).
NarrowingIsExact ==
  \A a, h \in DOMAIN held :
    LET ps == resolve_permissions(a)
        qs == resolve_permissions(h)
        both == effective_for_pair(ps, qs)
    IN \A k \in Keys : satisfies(both, k) <=> satisfies(ps, k) /\ satisfies(qs, k)

\* Whoever passes the act-as gate could do already whatever the target may do,
\* wildcards on either side included (act_as.rs assert_can_act_as).
ActingNeverEscalates ==
  \A h, t \in DOMAIN held, managed, delegated \in BOOLEAN :
    LET ps == resolve_permissions(h)
        qs == resolve_permissions(t)
    IN assert_can_act_as(h, t, managed, delegated, ps, qs) =>
         \A k \in Keys : has_permission(qs, k) => has_permission(ps, k)

\* The roles a principal reaches are found exactly, through diamonds and
\* through cycles that racing edits leave behind, as long as the inheritance
\* followed fits the bound; and then the gate in Core and the one in row
\* policies answer alike, in whatever order each reads the assignments
\* (perms.rs expand_roles, rbac/bootstrap.rs has_permission).
GatesAgree ==
  \A p \in DOMAIN held :
    LET reached == held[p] \cup UNION {ancestors(table, r) : r \in held[p]}
        pushes == UNION {{<<q, i>> : i \in DOMAIN Parents(table, q)} : q \in reached}
    IN Cardinality(held[p]) + Cardinality(pushes) <= MAX_ROLE_DEPTH =>
         LET ps == resolve_permissions(p)
         IN \A o \in Orders(held[p]) :
              /\ expand_roles(table, o) = reached
              /\ \A k \in Keys : sqlHasPermission(p, k, o) <=> has_permission(ps, k)

cyclic(t) == \E r \in DOMAIN t : r \in ancestors(t, r)

\* The search reports a cycle exactly when roles inherit from themselves,
\* directly or not, whatever the order of the map's keys; a diamond is none
\* (perms.rs detect_cycle).
CyclesAreFound ==
  \A o \in Orders(DOMAIN table) : detectIn(table, o) <=> cyclic(table)

\* The hierarchy of roles means one thing to everyone who reads it: to Core's
\* gate, to the gate of the row policies and to the check for cycles.
RolesAreResolved == AuthTypeOK /\ GatesAgree /\ CyclesAreFound
=============================================================================

--------------------------- MODULE CrossAppAccess ---------------------------
(***************************************************************************)
(* One app's access to another app's collections: installations, grants    *)
(* (governance/cross_app.rs), publications (governance/publications.rs)    *)
(* and the operations that run under them (cross_app_operations.rs,        *)
(* publication_reads.rs, DataAccess::begin in sql_proxy.rs).               *)
(*                                                                         *)
(* A process runs one request.  A request is one or more PostgreSQL        *)
(* transactions under read committed: it reads committed rows, buffers its *)
(* writes and holds its locks until it commits or rolls back.  Locks are   *)
(* the advisory locks on apps, grants and publications and the row locks   *)
(* on installations; a transaction that takes one lock only is one step.   *)
(* Two apps and one collection; the contract, the declaration of a         *)
(* publication and the frozen fields follow the installation, because a    *)
(* contract change rotates it.  Expiry is a clock that may pass any time.  *)
(***************************************************************************)
EXTENDS Integers, FiniteSets, FiniteSetsExt

CONSTANTS Procs,   \* requests in flight
          NGrants, \* bound: grants ever created
          NPubs,   \* bound: publications ever approved; mix.limit lowers both for one behaviour
          MaxGen,  \* bound: installations of one app
          MaxVer,  \* bound: version after which no transition is requested
          Mixes    \* the requests a behaviour may consist of, what apps declare, and what is
                   \* approved before it starts

Apps == 1..2
Grants == 1..NGrants
Pubs == 1..NPubs
Live == {"pending", "active", "disabled"}

(* An app declares a publication name once, for one provider.              *)
Declared(m) == m.declared \cup {m.pubs[u] : u \in DOMAIN m.pubs}

ASSUME AccessAssumption ==
  /\ NGrants \in Nat /\ NPubs \in Nat /\ MaxGen \in Nat \ {0} /\ MaxVer \in Nat
  /\ \A m \in Mixes :
       /\ m.limit \in 0..NGrants /\ m.consumers \subseteq Apps
       /\ \A g \in DOMAIN m.grants : m.grants[g] \in Apps \X Apps
       /\ Declared(m) \subseteq Apps \X Apps
       /\ \A d, e \in Declared(m) : d[1] = e[1] => d = e

VARIABLES mix,    \* the requests of this behaviour
          inst,   \* app -> its newest installation, and its row in apps
          grants, \* cross_app_collection_grants
          pubs,   \* publications
          proc    \* process -> its request

accessVars == <<mix, inst, grants, pubs, proc>>

NoRow == [st |-> "none", ver |-> 0, cons |-> 1, prov |-> 2, cg |-> 0, pg |-> 0, due |-> "never"]
NoAuth == [id |-> 0, ver |-> 0, cg |-> 0, pg |-> 0]
Idle == [op |-> "none", pc |-> "idle", cons |-> 1, prov |-> 2, id |-> 0, auth |-> NoAuth,
         pub |-> NoAuth, holds |-> {}, todo |-> {}, wr |-> {}, write |-> FALSE,
         durable |-> FALSE, success |-> FALSE, answer |-> "none"]

Modes == {"S", "X"}
Resources == {<<"app", a, 0>> : a \in Apps} \cup
             {<<"inst", a, n>> : a \in Apps, n \in 0..MaxGen} \cup
             {<<"approval", a, n>> : a \in Apps, n \in 0..MaxGen} \cup
             {<<"grant", g, 0>> : g \in Grants} \cup {<<"pub", p, 0>> : p \in Pubs}

Row == [st : Live \cup {"none", "revoked", "expired"}, ver : Nat, cons : Apps, prov : Apps,
        cg : 0..MaxGen, pg : 0..MaxGen, due : {"never", "later", "due"}]
Rows(ids) == [ids -> Row]

Ops == {"none", "install", "uninstall", "workflow", "create", "approve", "enable", "disable",
        "revoke", "view", "operate", "agent", "publish", "pubDisable", "pubEnable", "pubRevoke",
        "published"}
Places == {"idle", "done", "app", "deactivate", "grants", "cleanup", "callbacks", "register",
           "createApps", "create1", "create2", "matching", "sweep", "transition", "authorize",
           "lockGrant", "authorizeAgent", "agent", "provider", "audit", "approve1", "approve2",
           "approval", "supersede", "change1", "change2", "changeApproval", "change", "resolve1",
           "resolve2", "find", "resolvePub", "read1", "read2", "readPub", "recheck"}
Auths == [id : Nat, ver : Nat, cg : 0..MaxGen, pg : 0..MaxGen]
Requests == [op : Ops, pc : Places, cons : Apps, prov : Apps, id : Nat, auth : Auths, pub : Auths,
             holds : SUBSET (Resources \X Modes), todo : SUBSET Grants, wr : SUBSET Grants,
             write : BOOLEAN, durable : BOOLEAN, success : BOOLEAN, answer : {"none", "ok", "error"}]

(* Type correctness of the tables and of the requests in flight.           *)
AccessTypeOK ==
  /\ mix \in Mixes
  /\ inst \in [Apps -> [gen : 0..MaxGen, active : BOOLEAN, row : BOOLEAN]]
  /\ grants \in Rows(Grants) /\ pubs \in Rows(Pubs)
  /\ proc \in [Procs -> Requests]

(* A row approved before the behaviour starts, for a consumer and provider.*)
Approved(pair) == [NoRow EXCEPT !.st = "active", !.ver = 1, !.cons = pair[1], !.prov = pair[2],
                                !.cg = 1, !.pg = 1, !.due = "later"]

AccessInit ==
  /\ mix \in Mixes
  /\ inst = [a \in Apps |-> [gen |-> 1, active |-> TRUE, row |-> TRUE]]
  /\ grants = [g \in Grants |-> IF g \in DOMAIN mix.grants THEN Approved(mix.grants[g]) ELSE NoRow]
  /\ pubs = [u \in Pubs |-> IF u \in DOMAIN mix.pubs THEN Approved(mix.pubs[u]) ELSE NoRow]
  /\ proc = [p \in Procs |-> Idle]

(***************************************************************************)
(* Locks.                                                                  *)
(***************************************************************************)
appLock(a) == <<"app", a, 0>>
grantLock(g) == <<"grant", g, 0>>
pubLock(u) == <<"pub", u, 0>>
instRow(a, n) == <<"inst", a, n>>

(* lock_installations takes the two rows in the order of their app ids.    *)
lower(x) == IF x.cons <= x.prov THEN x.cons ELSE x.prov
upper(x) == IF x.cons <= x.prov THEN x.prov ELSE x.cons

(* Grants are locked in the order of their ids.                            *)
nextOfUnsorted(x) == IF x.op = "uninstall" THEN Max(x.todo) ELSE Min(x.todo)
nextOf(x) == Min(x.todo)

genOf(r, a) == IF a = r.cons THEN r.cg ELSE r.pg

(* The lock a request asks for where it stands: the row of the active      *)
(* installation (installation_tx, resolve_installation_tx, the UPDATE of   *)
(* deactivate_installation_tx), the rows a publication froze, or the       *)
(* advisory lock of an app, a grant, a publication or its approval.        *)
Want(p) ==
  LET x == proc[p]
      active(a, m) == IF inst[a].active THEN {<<instRow(a, inst[a].gen), m>>} ELSE {}
      frozen(a) == {<<instRow(a, genOf(pubs[x.id], a)), "S">>}
  IN CASE x.pc = "app" -> {<<appLock(x.cons), "X">>}
       [] x.pc = "deactivate" -> active(x.cons, "X")
       [] x.pc = "create1" -> active(x.cons, "X")
       [] x.pc = "create2" -> active(x.prov, "X")
       [] x.pc \in {"approve1", "resolve1", "read1"} -> active(lower(x), "S")
       [] x.pc \in {"approve2", "resolve2", "read2"} -> active(upper(x), "S")
       [] x.pc = "agent" -> active(x.prov, "S")
       [] x.pc = "change1" -> frozen(lower(x))
       [] x.pc = "change2" -> frozen(upper(x))
       [] x.pc \in {"approval", "changeApproval"} ->
            {<<<<"approval", x.cons, x.pub.cg>>, "X">>}
       [] x.pc \in {"supersede", "change"} -> {<<pubLock(x.pub.id), "X">>}
       [] x.pc \in {"resolvePub", "readPub"} -> {<<pubLock(x.pub.id), "S">>}
       [] x.pc \in {"sweep", "matching", "grants"} /\ x.todo # {} ->
            {<<grantLock(nextOf(x)), "X">>}
       [] x.pc = "lockGrant" -> {<<grantLock(x.auth.id), "X">>}
       [] x.pc = "transition" -> {<<grantLock(x.id), "X">>}
       [] OTHER -> {}

Blockers(p) ==
  {q \in Procs \ {p} : \E w \in Want(p), h \in proc[q].holds :
                          h[1] = w[1] /\ (h[2] = "X" \/ w[2] = "X")}
Granted(p) == Blockers(p) = {}

(* PostgreSQL ends a deadlock by failing one of the transactions in it.    *)
Deadlocked(S) == S # {} /\ \A p \in S : Blockers(p) \cap S # {}

(***************************************************************************)
(* Steps of a request.                                                     *)
(***************************************************************************)
at(p, pc) == proc[p].pc = pc /\ Granted(p)
To(p, x) == proc' = [proc EXCEPT ![p] = x] /\ UNCHANGED mix
Only(p, x) == To(p, x) /\ UNCHANGED <<inst, grants, pubs>>

(* The lock is taken and the request goes on.                              *)
took(p, pc) == [proc[p] EXCEPT !.holds = @ \cup Want(p), !.pc = pc]

(* The end of a transaction: its locks go; a lifecycle request keeps its   *)
(* session lock on the app until it returns.                               *)
ended(x, pc) == [x EXCEPT !.pc = pc, !.todo = {}, !.wr = {},
                          !.holds = {h \in x.holds : h[1][1] = "app" /\ x.op # "create"}]
answered(x, answer) == IF x.op \in {"operate", "agent", "published"}
                       THEN [ended(x, "done") EXCEPT !.holds = {}, !.answer = answer] ELSE Idle
Fails(p) == Only(p, answered(proc[p], "error"))

(* A database error, an audit that cannot be written, a request refused by *)
(* a check, a deadline or a caller that hangs up end a request anywhere:   *)
(* the transaction in progress rolls back.                                 *)
Breaks(p) == proc[p].pc \notin {"idle", "done"} /\ Fails(p)

Return(p) == proc[p].pc = "done" /\ Only(p, Idle)

Installed(a) == inst[a].active /\ inst[a].row
Current(r) == /\ Installed(r.cons) /\ Installed(r.prov)
              /\ r.cg = inst[r.cons].gen /\ r.pg = inst[r.prov].gen
Lapsed(r) == r.due = "due"
Matches(r, x) == r.cons = x.cons /\ r.prov = x.prov
Frozen(i, r) == [id |-> i, ver |-> r.ver, cg |-> r.cg, pg |-> r.pg]

bumped(r, st) == [r EXCEPT !.st = st, !.ver = @ + 1, !.due = IF st \in Live THEN @ ELSE "never"]
marked(S, st) == [g \in Grants |-> IF g \in S THEN bumped(grants[g], st) ELSE grants[g]]

Clock(rows, i) == rows[i].due = "later" /\ rows[i].st \in Live

(* Time passes the expiry of a grant or of a publication.                  *)
Expires ==
  /\ UNCHANGED <<mix, inst, proc>>
  /\ \/ \E g \in Grants : Clock(grants, g) /\ grants' = [grants EXCEPT ![g].due = "due"]
                          /\ UNCHANGED pubs
     \/ \E u \in Pubs : Clock(pubs, u) /\ pubs' = [pubs EXCEPT ![u].due = "due"]
                        /\ UNCHANGED grants

(***************************************************************************)
(* Expiry and lifecycle: grants are locked in ascending order.             *)
(***************************************************************************)
Overdue == {g \in Grants : grants[g].st \in Live /\ Lapsed(grants[g])}

(* One round of the loop of expire_grants_tx or deactivate_installation_tx *)
(* : the row is read again under the lock.                                 *)
NextGrant(p) ==
  LET x == proc[p]  g == nextOf(x)
      hit == grants[g].st \in Live /\ (x.pc = "grants" \/ Lapsed(grants[g]))
  IN /\ x.pc \in {"sweep", "matching", "grants"} /\ x.todo # {} /\ Granted(p)
     /\ Only(p, [took(p, x.pc) EXCEPT !.todo = @ \ {g}, !.wr = IF hit THEN @ \cup {g} ELSE @])

(* expire_stale_grants commits before the request that called it goes on.  *)
SweepDone(p) ==
  LET x == proc[p] IN
  /\ at(p, "sweep") /\ x.todo = {}
  /\ grants' = marked(x.wr, "expired")
  /\ To(p, IF x.op = "view" THEN answered(x, "ok")
           ELSE ended(x, IF x.op \in {"approve", "enable"} THEN "transition" ELSE "authorize"))
  /\ UNCHANGED <<inst, pubs>>

(* install_app, uninstall_app and the deletion of a workflow hold the app  *)
(* lock to their end.  A changed contract rotates the installation.        *)
HoldApp(p) ==
  LET a == proc[p].cons IN
  /\ at(p, "app")
  /\ \/ proc[p].op # "install" /\ Only(p, took(p, "deactivate"))
     \/ proc[p].op = "install" /\ inst[a].row /\ inst[a].gen < MaxGen
        /\ Only(p, took(p, "deactivate"))
     \/ proc[p].op = "install" /\ Only(p, took(p, "callbacks"))
     \/ proc[p].op = "install" /\ Installed(a) /\ Only(p, answered(proc[p], "ok"))

DeactivateAsConsumer(p) ==
  /\ at(p, "deactivate")
  /\ Only(p, [took(p, "grants") EXCEPT !.todo =
                {g \in Grants : grants[g].st \in Live /\ grants[g].cons = proc[p].cons}])
Deactivate(p) ==
  /\ at(p, "deactivate")
  /\ Only(p, [took(p, "grants") EXCEPT !.todo =
                {g \in Grants : grants[g].st \in Live /\ proc[p].cons \in {grants[g].cons, grants[g].prov}}])

Deactivated(p) ==
  LET x == proc[p] IN
  /\ at(p, "grants") /\ x.todo = {}
  /\ grants' = marked(x.wr, "revoked")
  /\ inst' = [inst EXCEPT ![x.cons].active = FALSE, ![x.cons].row = @ /\ x.op # "workflow"]
  /\ To(p, IF x.op = "workflow" THEN answered(x, "ok")
           ELSE ended(x, IF x.op = "install" THEN "callbacks" ELSE "cleanup"))
  /\ UNCHANGED pubs

Cleanup(p) ==
  /\ at(p, "cleanup") /\ inst' = [inst EXCEPT ![proc[p].cons].row = FALSE]
  /\ To(p, answered(proc[p], "ok")) /\ UNCHANGED <<grants, pubs>>

(* Schema, register_app, extension callbacks: each commits on its own.     *)
Callbacks(p) ==
  /\ at(p, "callbacks") /\ inst' = [inst EXCEPT ![proc[p].cons].row = TRUE]
  /\ To(p, [proc[p] EXCEPT !.pc = "register"]) /\ UNCHANGED <<grants, pubs>>

register_installation(p) ==
  LET a == proc[p].cons IN
  /\ at(p, "register") /\ (inst[a].active \/ inst[a].gen < MaxGen)
  /\ inst' = IF inst[a].active THEN inst
             ELSE [inst EXCEPT ![a].gen = @ + 1, ![a].active = TRUE]
  /\ To(p, answered(proc[p], "ok")) /\ UNCHANGED <<grants, pubs>>

(***************************************************************************)
(* Administration of grants.                                               *)
(***************************************************************************)
(* begin_grant_creation tries both app locks and lets go when one is busy. *)
LockBothApps(p) ==
  LET held == {<<appLock(proc[p].cons), "X">>, <<appLock(proc[p].prov), "X">>} IN
  /\ proc[p].pc = "createApps"
  /\ \A q \in Procs \ {p} : proc[q].holds \cap held = {}
  /\ Only(p, [proc[p] EXCEPT !.holds = held, !.pc = "create1"])

LockConsumer(p) ==
  at(p, "create1") /\ IF inst[proc[p].cons].active THEN Only(p, took(p, "create2")) ELSE Fails(p)

LockProvider(p) ==
  /\ at(p, "create2")
  /\ IF inst[proc[p].prov].active
     THEN Only(p, [took(p, "matching") EXCEPT !.todo =
                     {g \in Overdue : Matches(grants[g], proc[p]) /\ Current(grants[g])}])
     ELSE Fails(p)

(* The ids are handed out in order: only their order of locking matters.   *)
(* The index allows one pending or active grant per pair of installations. *)
Taken(rows, c, d) == \E g \in Grants : /\ rows[g].st \in {"pending", "active"}
                                       /\ rows[g].cons = c /\ rows[g].prov = d
                                       /\ Current(rows[g])

Insert(p) ==
  LET x == proc[p]  swept == marked(x.wr, "expired") IN
  /\ at(p, "matching") /\ x.todo = {}
  /\ IF Taken(swept, x.cons, x.prov) \/ ~inst[x.prov].row THEN Fails(p)
     ELSE \E g \in 1..mix.limit, due \in {"never", "later"} :
            /\ grants[g].st = "none" /\ \A h \in 1..(g - 1) : grants[h].st # "none"
            /\ grants' = [swept EXCEPT ![g] =
                 [st |-> "pending", ver |-> 1, cons |-> x.cons, prov |-> x.prov,
                  cg |-> inst[x.cons].gen, pg |-> inst[x.prov].gen, due |-> due]]
            /\ To(p, answered(x, "ok")) /\ UNCHANGED <<inst, pubs>>

(* approve_grant, disable_grant, enable_grant and revoke_grant.            *)
Transition(p) ==
  LET x == proc[p]  r == grants[x.id]
      next == IF x.op = "approve" /\ r.st = "pending" /\ ~Lapsed(r) THEN "active"
              ELSE IF x.op = "disable" /\ r.st \in {"active", "disabled"} THEN "disabled"
              ELSE IF x.op = "enable" /\ r.st = "disabled" /\ ~Lapsed(r)
                      /\ ~Taken(grants, r.cons, r.prov) THEN "active"
              ELSE IF x.op = "revoke" /\ r.st \in Live THEN "revoked" ELSE "conflict"
  IN /\ at(p, "transition")
     /\ IF next = "conflict" THEN Fails(p)
        ELSE /\ grants' = [grants EXCEPT ![x.id] = bumped(r, next)]
             /\ To(p, answered(x, "ok")) /\ UNCHANGED <<inst, pubs>>

(***************************************************************************)
(* Operations: authorize, then lock and check again in the transaction     *)
(* that does the work.                                                     *)
(***************************************************************************)
GrantValid(x) ==
  LET r == grants[x.auth.id] IN
  /\ r.st = "active" /\ ~Lapsed(r) /\ Current(r) /\ Matches(r, x)
  /\ Frozen(x.auth.id, r) = x.auth

OpenGrants(x) == {g \in Grants : /\ grants[g].st = "active" /\ ~Lapsed(grants[g])
                                 /\ Matches(grants[g], x) /\ Current(grants[g])}

(* authorize_cross_app_operation, then "started" is audited.               *)
Authorize(p) ==
  LET x == proc[p] IN
  /\ at(p, "authorize") /\ x.op = "operate"
  /\ \/ OpenGrants(x) = {} /\ Fails(p)
     \/ \E g \in OpenGrants(x) :
          Only(p, [x EXCEPT !.auth = Frozen(g, grants[g]), !.pc = "lockGrant"])

(* A published read of another app needs a grant of the same installations.*)
AuthorizePublished(p) ==
  LET x == proc[p] IN
  /\ at(p, "authorize") /\ x.op = "published"
  /\ \/ OpenGrants(x) = {} /\ Fails(p)
     \/ \E g \in OpenGrants(x) :
          IF grants[g].cg = x.pub.cg /\ grants[g].pg = x.pub.pg
          THEN Only(p, [x EXCEPT !.auth = Frozen(g, grants[g]), !.pc = "read1"])
          ELSE Fails(p)

(* authorize_agent_collection, and the FOR SHARE of DataAccess::begin: the *)
(* types read before the lock must be those of the installation.           *)
AuthorizeAgent(p) ==
  /\ at(p, "authorizeAgent")
  /\ IF Installed(proc[p].prov)
     THEN Only(p, [proc[p] EXCEPT !.auth.pg = inst[proc[p].prov].gen, !.pc = "agent"])
     ELSE Fails(p)

LockInstallation(p) ==
  /\ at(p, "agent")
  /\ IF Installed(proc[p].prov) /\ inst[proc[p].prov].gen = proc[p].auth.pg
     THEN Only(p, took(p, "provider")) ELSE Fails(p)

(* lock_cross_app_read_in_tx.                                              *)
LockGrantBlindly(p) ==
  /\ at(p, "lockGrant")
  /\ Only(p, took(p, IF proc[p].op = "operate" THEN "provider" ELSE "recheck"))
LockGrant(p) ==
  /\ at(p, "lockGrant")
  /\ IF GrantValid(proc[p])
     THEN Only(p, took(p, IF proc[p].op = "operate" THEN "provider" ELSE "recheck"))
     ELSE Fails(p)

(* The work commits: a mutation with its success audit, a read before it.  *)
(* The answer may be lost after the commit happened.                       *)
Commit(p) ==
  LET x == [proc[p] EXCEPT !.durable = TRUE] IN
  /\ at(p, "provider") /\ x.op # "published"
  /\ \/ x.write /\ \E answer \in {"ok", "error"} :
          Only(p, answered([x EXCEPT !.success = TRUE], answer))
     \/ ~x.write /\ Only(p, ended(x, "audit"))

CommitPublished(p) ==
  /\ at(p, "provider") /\ proc[p].op = "published"
  /\ \E answer \in {"ok", "error"} :
       Only(p, answered([proc[p] EXCEPT !.durable = TRUE, !.success = TRUE], answer))

AuditRead(p) == at(p, "audit") /\ Only(p, answered([proc[p] EXCEPT !.success = TRUE], "ok"))

(***************************************************************************)
(* Publications.                                                           *)
(***************************************************************************)
PubValid(x) ==
  LET r == pubs[x.pub.id] IN
  r.st = "active" /\ ~Lapsed(r) /\ Frozen(x.pub.id, r) = x.pub /\ Current(r)

LiveOf(a, n) == {u \in Pubs : pubs[u].st \in Live /\ pubs[u].cons = a /\ pubs[u].cg = n}

(* installation_tx: the row of the active installation, shared.            *)
ShareRow(p) ==
  LET x == proc[p]
      next == [approve1 |-> "approve2", approve2 |-> "approval", resolve1 |-> "resolve2",
               resolve2 |-> "find", read1 |-> "read2", read2 |-> "readPub"]
      app == IF x.pc \in {"approve1", "resolve1", "read1"} THEN lower(x) ELSE upper(x)
      same == /\ x.pub.cg = inst[x.cons].gen /\ inst[x.cons].active
              /\ x.pub.pg = inst[x.prov].gen /\ inst[x.prov].active
  IN /\ x.pc \in DOMAIN next /\ Granted(p)
     /\ IF inst[app].active /\ (x.pc \in {"approve2", "read2"} => same)
        THEN Only(p, took(p, next[x.pc])) ELSE Fails(p)

Publish(p, rows) ==
  \E u \in Pubs, due \in {"never", "later"} :
    /\ pubs[u].st = "none" /\ u <= mix.limit
    /\ pubs' = [rows EXCEPT ![u] =
         [st |-> "active", ver |-> 1, cons |-> proc[p].cons, prov |-> proc[p].prov,
          cg |-> proc[p].pub.cg, pg |-> proc[p].pub.pg, due |-> due]]
    /\ To(p, answered(proc[p], "ok")) /\ UNCHANGED <<inst, grants>>

(* approve_publication, under the lock of the name: a disabled publication *)
(* or one already approved is a conflict, another one is superseded.       *)
ApprovePublication(p) ==
  LET x == proc[p]  old == LiveOf(x.cons, x.pub.cg) IN
  /\ at(p, "approval")
  /\ \/ old = {} /\ Publish(p, pubs)
     \/ \E u \in old :
          IF pubs[u].st = "disabled" \/ (~Lapsed(pubs[u]) /\ pubs[u].pg = x.pub.pg)
          THEN Fails(p) ELSE Only(p, [took(p, "supersede") EXCEPT !.pub.id = u])

Supersede(p) ==
  LET u == proc[p].pub.id IN
  /\ at(p, "supersede")
  /\ Publish(p, [pubs EXCEPT ![u] = bumped(@, IF Lapsed(@) THEN "expired" ELSE "revoked")])

(* transition_publication locks the frozen installations, which may be     *)
(* retired; enabling needs them current.                                   *)
ShareFrozen(p) ==
  \/ at(p, "change1") /\ Only(p, took(p, "change2"))
  \/ /\ at(p, "change2")
     /\ IF proc[p].op = "pubEnable" /\ ~Current(pubs[proc[p].id])
        THEN Fails(p) ELSE Only(p, took(p, "changeApproval"))
  \/ at(p, "changeApproval") /\ Only(p, took(p, "change"))

ChangePublication(p) ==
  LET x == proc[p]  r == pubs[x.id]
      next == IF r.st \notin Live THEN "conflict" ELSE IF Lapsed(r) THEN "expired"
              ELSE IF x.op = "pubDisable" /\ r.st = "active" THEN "disabled"
              ELSE IF x.op = "pubEnable" /\ r.st = "disabled" /\ Current(r) THEN "active"
              ELSE IF x.op = "pubRevoke" THEN "revoked" ELSE "conflict"
  IN /\ at(p, "change")
     /\ IF next = "conflict" THEN Fails(p)
        ELSE /\ pubs' = [pubs EXCEPT ![x.id] = bumped(r, next)]
             /\ To(p, answered(x, IF next = "expired" THEN "error" ELSE "ok"))
             /\ UNCHANGED <<inst, grants>>

(* resolve: the publication the name stands for, locked and validated,     *)
(* then released; the read that follows locks everything again.            *)
FindPublication(p) ==
  LET x == proc[p]
      open == {u \in LiveOf(x.cons, inst[x.cons].gen) : pubs[u].st = "active" /\ ~Lapsed(pubs[u])}
  IN /\ at(p, "find")
     /\ \/ open = {} /\ Fails(p)
        \/ \E u \in open : Only(p, [x EXCEPT !.pub = Frozen(u, pubs[u]), !.pc = "resolvePub"])

ResolvePublication(p) ==
  LET x == proc[p] IN
  /\ at(p, "resolvePub")
  /\ IF ~PubValid(x) THEN Fails(p)
     ELSE IF x.cons = x.prov THEN Only(p, ended(x, "read1"))
     ELSE Only(p, [ended(x, "sweep") EXCEPT !.todo = Overdue])

(* lock_in_tx of the read, and once more after the wait for the grant.     *)
LockPublication(p) ==
  \/ /\ at(p, "readPub")
     /\ IF PubValid(proc[p])
        THEN Only(p, took(p, IF proc[p].cons = proc[p].prov THEN "provider" ELSE "lockGrant"))
        ELSE Fails(p)
  \/ /\ at(p, "recheck")
     /\ IF PubValid(proc[p]) THEN Only(p, [proc[p] EXCEPT !.pc = "provider"]) ELSE Fails(p)

(***************************************************************************)
(* Requests.                                                               *)
(***************************************************************************)
Start(p, op, pc, c, d) == [Idle EXCEPT !.op = op, !.pc = pc, !.cons = c, !.prov = d]

Request(p) ==
  /\ proc[p].pc = "idle"
  /\ \/ \E op \in mix.ops[p] \cap {"install", "uninstall", "workflow"}, a \in Apps :
          Only(p, Start(p, op, "app", a, a))
     \/ \E op \in mix.ops[p] \cap {"approve", "enable"}, g \in Grants :
          /\ grants[g].st # "none" /\ grants[g].ver <= MaxVer
          /\ Only(p, [Start(p, op, "sweep", 1, 2) EXCEPT !.id = g, !.todo = Overdue])
     \/ \E op \in mix.ops[p] \cap {"disable", "revoke"}, g \in Grants :
          /\ grants[g].st # "none" /\ grants[g].ver <= MaxVer
          /\ Only(p, [Start(p, op, "transition", 1, 2) EXCEPT !.id = g])
     \/ "view" \in mix.ops[p] /\ Only(p, [Start(p, "view", "sweep", 1, 2) EXCEPT !.todo = Overdue])
     \/ "create" \in mix.ops[p] /\ \E c \in mix.consumers :
          Only(p, Start(p, "create", "createApps", c, 3 - c))
     \/ "operate" \in mix.ops[p] /\ \E c \in mix.consumers, w \in BOOLEAN :
          Only(p, [Start(p, "operate", "sweep", c, 3 - c) EXCEPT !.write = w, !.todo = Overdue])
     \/ "agent" \in mix.ops[p] /\ \E c \in mix.consumers, w \in BOOLEAN :
          Only(p, [Start(p, "agent", "authorizeAgent", c, 3 - c) EXCEPT !.write = w])
     \/ "publish" \in mix.ops[p] /\ \E d \in mix.declared :
          Only(p, [Start(p, "publish", "approve1", d[1], d[2]) EXCEPT
                     !.pub = [NoAuth EXCEPT !.cg = inst[d[1]].gen, !.pg = inst[d[2]].gen]])
     \/ \E op \in mix.ops[p] \cap {"pubDisable", "pubEnable", "pubRevoke"}, u \in Pubs :
          /\ pubs[u].st \in Live /\ pubs[u].ver <= MaxVer
          /\ Only(p, [Start(p, op, "change1", pubs[u].cons, pubs[u].prov) EXCEPT
                        !.id = u, !.pub = Frozen(u, pubs[u])])
     \/ "published" \in mix.ops[p] /\ \E u \in Pubs :
          /\ pubs[u].st # "none"
          /\ Only(p, Start(p, "published", "resolve1", pubs[u].cons, pubs[u].prov))

Work(p) ==
  \/ NextGrant(p) \/ SweepDone(p) \/ HoldApp(p) \/ Deactivate(p) \/ Deactivated(p)
  \/ Cleanup(p) \/ Callbacks(p) \/ register_installation(p)
  \/ LockBothApps(p) \/ LockConsumer(p) \/ LockProvider(p) \/ Insert(p) \/ Transition(p)
  \/ Authorize(p) \/ AuthorizePublished(p) \/ AuthorizeAgent(p) \/ LockInstallation(p) \/ LockGrant(p)
  \/ Commit(p) \/ CommitPublished(p) \/ AuditRead(p)
  \/ ShareRow(p) \/ ApprovePublication(p) \/ Supersede(p) \/ ShareFrozen(p)
  \/ ChangePublication(p) \/ FindPublication(p) \/ ResolvePublication(p) \/ LockPublication(p)

AccessNext == Expires \/ \E p \in Procs : Request(p) \/ Work(p) \/ Return(p) \/ Breaks(p)

AccessSpec == AccessInit /\ [][AccessNext]_accessVars

(***************************************************************************)
(* Properties.                                                             *)
(***************************************************************************)
(* A transition, an expiry or an uninstall that has committed is a         *)
(* barrier: work that commits commits under a grant, a publication and     *)
(* installations that are still, at that moment, exactly the ones it was   *)
(* authorized by (lock_cross_app_read_in_tx, lock_in_tx, FOR SHARE).       *)
CommitsUnderAuthority ==
  [][\A p \in Procs :
       LET x == proc[p] IN
       x.pc = "provider" /\ proc'[p].durable =>
         /\ x.auth.id # 0 => /\ grants[x.auth.id].st = "active" /\ Current(grants[x.auth.id])
                             /\ Frozen(x.auth.id, grants[x.auth.id]) = x.auth
         /\ x.pub.id # 0 => /\ pubs[x.pub.id].st = "active" /\ Current(pubs[x.pub.id])
                            /\ Frozen(x.pub.id, pubs[x.pub.id]) = x.pub
         /\ x.op = "agent" => Installed(x.prov) /\ inst[x.prov].gen = x.auth.pg]_accessVars

(* A reinstallation revives nothing: a grant that is not terminal belongs  *)
(* to the two installations that are active now.                           *)
LiveGrantsAreCurrent ==
  \A g \in Grants : grants[g].st \in Live =>
    /\ inst[grants[g].cons].active /\ grants[g].cg = inst[grants[g].cons].gen
    /\ inst[grants[g].prov].active /\ grants[g].pg = inst[grants[g].prov].gen

(* A mutation is durable exactly when its success audit is, and nobody is  *)
(* given a result that was not audited.                                    *)
AuditedBeforeAnswered ==
  \A p \in Procs : proc[p].pc = "done" /\ proc[p].op \in {"operate", "agent", "published"} =>
    /\ proc[p].answer = "ok" => proc[p].success
    /\ proc[p].write => (proc[p].durable <=> proc[p].success)

(* Locks are asked for in an order that avoids deadlock: no set of         *)
(* requests waits for itself.                                              *)
NoDeadlock == ~\E S \in SUBSET Procs : Deadlocked(S)

(* Whenever requests do wait for each other, one of them creates a grant:  *)
(* lifecycle, transitions, operations and publications take installations, *)
(* publications and grants in one order.                                   *)
OnlyCreationDeadlocks ==
  \A S \in SUBSET Procs : Deadlocked(S) => \E p \in S : proc[p].op = "create"

(* No authority of an installation that is gone is left to be used, and    *)
(* what was done under one is on record with its result.                   *)
GrantsAreAccountable == AccessTypeOK /\ LiveGrantsAreCurrent /\ AuditedBeforeAnswered
=============================================================================

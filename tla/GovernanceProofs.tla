-------------------------- MODULE GovernanceProofs --------------------------
(***************************************************************************)
(* Proofs about Authority, for every set of keys, and about AppRelease,    *)
(* for any number of administrators, executions, contents, manifests,      *)
(* revisions, installations and approvals.                                 *)
(***************************************************************************)
EXTENDS Authority, AppRelease, TLAPS

(* Zenon proves every leaf that does not cite SMTT or PTL.                 *)
USE ZenonT(60)

(***************************************************************************)
(* The permission lattice: narrowing is exact and the act-as gate never    *)
(* escalates.                                                              *)
(***************************************************************************)
\* A grant of a grant is a grant: wildcards compose (perms.rs has_permission).
LEMMA CoversTransitive ==
  ASSUME NEW p, NEW q, NEW r, KeyShape(p), KeyShape(q), KeyShape(r), covers(p, q), covers(q, r)
  PROVE  covers(p, r)
<1>1. CASE everything(p) BY <1>1 DEF covers
<1>2. CASE p = q BY <1>2
<1>3. CASE q = r BY <1>3
<1>4. CASE starred(p) /\ everything(q)
  BY SMTT(30), <1>4 DEF covers, starred, everything, KeyShape
<1>5. CASE /\ starred(p) /\ Len(q.path) >= Len(p.path)
           /\ \A i \in 1 .. Len(p.path) - 1 : q.path[i] = p.path[i]
           /\ starred(q) /\ Len(r.path) >= Len(q.path)
           /\ \A i \in 1 .. Len(q.path) - 1 : r.path[i] = q.path[i]
  <2>1. Len(p.path) \in Nat /\ Len(q.path) \in Nat /\ Len(r.path) \in Nat
    BY SMTT(30) DEF KeyShape
  <2>2. \A i \in 1 .. Len(p.path) - 1 : i \in 1 .. Len(q.path) - 1
    BY SMTT(30), <1>5, <2>1
  <2>3. Len(r.path) >= Len(p.path)
    BY SMTT(30), <1>5, <2>1
  <2>4. \A i \in 1 .. Len(p.path) - 1 : r.path[i] = p.path[i]
    BY <1>5, <2>2
  <2> QED BY <1>5, <2>3, <2>4 DEF covers
<1> QED BY <1>1, <1>2, <1>3, <1>4, <1>5 DEF covers

\* Two grants of one key are comparable: one of them grants the other.
LEMMA CoversComparable ==
  ASSUME NEW p, NEW q, NEW r, KeyShape(p), KeyShape(q), KeyShape(r), covers(p, r), covers(q, r)
  PROVE  covers(p, q) \/ covers(q, p)
<1>1. CASE everything(p) \/ everything(q) BY <1>1 DEF covers
<1>2. CASE p = r \/ q = r BY <1>2
<1>3. CASE /\ starred(p) /\ Len(r.path) >= Len(p.path)
           /\ \A i \in 1 .. Len(p.path) - 1 : r.path[i] = p.path[i]
           /\ starred(q) /\ Len(r.path) >= Len(q.path)
           /\ \A i \in 1 .. Len(q.path) - 1 : r.path[i] = q.path[i]
  <2>1. Len(p.path) \in Nat /\ Len(q.path) \in Nat
    BY SMTT(30) DEF KeyShape
  <2>2. CASE Len(p.path) <= Len(q.path)
    <3>1. \A i \in 1 .. Len(p.path) - 1 : q.path[i] = p.path[i]
      BY SMTT(30), <1>3, <2>1, <2>2
    <3> QED BY <1>3, <2>1, <2>2, <3>1 DEF covers
  <2>3. CASE Len(q.path) <= Len(p.path)
    <3>1. \A i \in 1 .. Len(q.path) - 1 : p.path[i] = q.path[i]
      BY SMTT(30), <1>3, <2>1, <2>3
    <3> QED BY <1>3, <2>1, <2>3, <3>1 DEF covers
  <2> QED BY SMTT(30), <2>1, <2>2, <2>3
<1> QED BY <1>1, <1>2, <1>3 DEF covers

\* A row scope's key has its table's key for a base; a wildcard sees no scope.
LEMMA ScopedShape ==
  ASSUME NEW k, KeyShape(k), NEW s \in Scopes
  PROVE  /\ KeyShape(scoped(k, s))
         /\ scoped(k, s).scope = s
         /\ k.scope = "all" => scoped(k, "all") = k
         /\ scoped(scoped(k, s), "all") = scoped(k, "all")
BY DEF KeyShape, scoped, Scopes

LEMMA WildcardsIgnoreScope ==
  ASSUME NEW p, NEW k, KeyShape(p), KeyShape(k), NEW s \in Scopes, covers(p, scoped(k, s)), p # scoped(k, s)
  PROVE  \A t \in Scopes : covers(p, scoped(k, t)) /\ covers(p, k)
BY DEF covers, scoped, starred, everything, KeyShape

\* A key of a row scope grants itself only.
LEMMA ScopedCoversItself ==
  ASSUME NEW p, NEW k, covers(p, k), p.scope # "all"
  PROVE  k = p
BY DEF covers, everything, starred

\* Whatever a set grants, a set that grants all of it grants.
LEMMA HasTransitive ==
  ASSUME NEW ps, NEW q, NEW r, \A p \in ps : KeyShape(p), KeyShape(q), KeyShape(r),
         has_permission(ps, q), covers(q, r)
  PROVE  has_permission(ps, r)
BY CoversTransitive DEF has_permission

\* What meet keeps of a key is at most what the key and the other side grant
\* (perms.rs meet).
LEMMA MeetIsBelow ==
  ASSUME NEW a, NEW b, \A p \in a : KeyShape(p), \A p \in b : KeyShape(p),
         NEW k \in a, NEW m \in meet(k, b), NEW r, KeyShape(r), covers(m, r)
  PROVE  satisfies(a, r) /\ satisfies(b, r)
<1>0. KeyShape(k) OBVIOUS
<1>1. CASE has_permission(b, k) /\ m = k
  <2>1. has_permission(a, r) BY <1>1 DEF has_permission
  <2>2. has_permission(b, r) BY <1>0, <1>1, HasTransitive
  <2> QED BY <2>1, <2>2 DEF satisfies
<1>2. CASE k.scope # "all" /\ m = k /\ has_permission(b, scoped(k, "all"))
  <2>1. r = k BY <1>2, ScopedCoversItself
  <2>2. covers(k, k) BY DEF covers
  <2> QED BY <1>2, <2>1, <2>2 DEF satisfies, has_permission
<1>3. CASE k.scope = "all" /\ m = scoped(k, "own") /\ has_permission(b, m)
  <2>1. m.scope = "own" /\ scoped(m, "all") = k
    BY <1>0, <1>3, ScopedShape DEF Scopes
  <2>2. r = m BY <1>3, <2>1, ScopedCoversItself
  <2>3. covers(k, k) BY DEF covers
  <2> QED BY <1>3, <2>1, <2>2, <2>3 DEF satisfies, has_permission
<1>4. \/ has_permission(b, k) /\ m = k
      \/ k.scope # "all" /\ m = k /\ has_permission(b, scoped(k, "all"))
      \/ k.scope = "all" /\ m = scoped(k, "own") /\ has_permission(b, m)
  BY DEF meet
<1> QED BY <1>1, <1>2, <1>3, <1>4

\* A key some grant of the other side grants survives whole.
LEMMA MeetKeepsGranted ==
  ASSUME NEW k, NEW b, has_permission(b, k)
  PROVE  k \in meet(k, b)
BY DEF meet

\* A row scope's key survives where the other side has the table.
LEMMA MeetKeepsScoped ==
  ASSUME NEW k, NEW b, k.scope # "all", has_permission(b, scoped(k, "all"))
  PROVE  k \in meet(k, b)
BY DEF meet

\* Neither side grants everything: the two early returns are not taken.
Plain(a, b) == (\A p \in a : ~everything(p)) /\ (\A p \in b : ~everything(p))

\* Past the early returns, the intersection is what meet keeps of either side.
LEMMA IntersectionMembers ==
  ASSUME NEW a, NEW b, Plain(a, b)
  PROVE  /\ \A k \in a : meet(k, b) \subseteq intersect_permissions(a, b)
         /\ \A k \in b : meet(k, a) \subseteq intersect_permissions(a, b)
         /\ \A m \in intersect_permissions(a, b) :
              (\E k \in a : m \in meet(k, b)) \/ (\E k \in b : m \in meet(k, a))
BY DEF Plain, intersect_permissions

\* Where both sides grant a key, one of the two grants is in the intersection.
LEMMA CommonGrantSurvives ==
  ASSUME NEW a, NEW b, \A p \in a : KeyShape(p), \A p \in b : KeyShape(p), Plain(a, b),
         NEW r, KeyShape(r), has_permission(a, r), has_permission(b, r)
  PROVE  has_permission(intersect_permissions(a, b), r)
<1>1. PICK p \in a : covers(p, r) BY DEF has_permission
<1>2. PICK q \in b : covers(q, r) BY DEF has_permission
<1>3. CASE covers(p, q)
  <2>1. q \in meet(q, a) BY <1>3, MeetKeepsGranted DEF has_permission
  <2> QED BY <1>2, <2>1, IntersectionMembers DEF has_permission
<1>4. CASE covers(q, p)
  <2>1. p \in meet(p, b) BY <1>4, MeetKeepsGranted DEF has_permission
  <2> QED BY <1>1, <2>1, IntersectionMembers DEF has_permission
<1> QED BY <1>1, <1>2, <1>3, <1>4, CoversComparable

\* A scope one side has and a table the other side has leave the scope, or more.
LEMMA ScopeSurvives ==
  ASSUME NEW a, NEW b, \A p \in a : KeyShape(p), \A p \in b : KeyShape(p), Plain(a, b),
         NEW I, \A k \in a : meet(k, b) \subseteq I, \A k \in b : meet(k, a) \subseteq I,
         NEW r, KeyShape(r), r.scope # "all",
         has_permission(a, r), has_permission(b, scoped(r, "all"))
  PROVE  satisfies(I, r)
<1>1. PICK p \in a : covers(p, r) BY DEF has_permission
<1>2. CASE p = r
  <2>1. r \in meet(r, b) BY MeetKeepsScoped
  <2>2. r \in I BY <1>1, <1>2, <2>1
  <2> QED BY <2>2 DEF satisfies, has_permission, covers
<1>3. CASE p # r
  <2>1. KeyShape(scoped(r, "all")) /\ scoped(r, "all").scope = "all"
    BY ScopedShape DEF Scopes
  <2>2. covers(p, scoped(r, "all"))
    BY <1>1, <1>3 DEF covers, scoped, starred, everything, KeyShape
  <2>3. PICK q \in b : covers(q, scoped(r, "all")) BY DEF has_permission
  <2>4. CASE covers(p, q)
    <3>1. q \in I BY <2>4, <2>3, MeetKeepsGranted DEF has_permission
    <3> QED BY <2>3, <3>1 DEF satisfies, has_permission
  <2>5. CASE covers(q, p)
    <3>1. p \in I BY <2>5, <2>3, MeetKeepsGranted DEF has_permission
    <3> QED BY <1>1, <3>1 DEF satisfies, has_permission
  <2> QED BY <2>1, <2>2, <2>3, <2>4, <2>5, CoversComparable
<1> QED BY <1>2, <1>3

\* The intersection satisfies a key exactly when both sides do: it exceeds
\* neither, and where they disagree on scope the weaker one is kept (perms.rs
\* intersect_permissions).
LEMMA IntersectionIsMeet ==
  ASSUME NEW a, NEW b, \A p \in a : KeyShape(p), \A p \in b : KeyShape(p), NEW r, KeyShape(r)
  PROVE  satisfies(intersect_permissions(a, b), r) <=> satisfies(a, r) /\ satisfies(b, r)
<1> DEFINE I == intersect_permissions(a, b)
           t == scoped(r, "all")
<1>0. KeyShape(t) /\ t.scope = "all" /\ (r.scope = "all" => t = r)
  BY ScopedShape DEF Scopes
<1>1. CASE \E p \in a : everything(p)
  BY <1>1 DEF intersect_permissions, satisfies, has_permission, covers
<1>2. CASE (\A p \in a : ~everything(p)) /\ (\E p \in b : everything(p))
  BY <1>2 DEF intersect_permissions, satisfies, has_permission, covers
<1>3. CASE Plain(a, b)
  <2>1. \A x : KeyShape(x) /\ has_permission(I, x) => satisfies(a, x) /\ satisfies(b, x)
    <3> SUFFICES ASSUME NEW x, KeyShape(x), has_permission(I, x)
                 PROVE  satisfies(a, x) /\ satisfies(b, x)
      OBVIOUS
    <3>1. PICK m \in I : covers(m, x) BY DEF has_permission
    <3>2. (\E k \in a : m \in meet(k, b)) \/ (\E k \in b : m \in meet(k, a))
      BY <1>3, IntersectionMembers
    <3> QED BY <3>1, <3>2, MeetIsBelow
  <2>2. ASSUME satisfies(I, r) PROVE satisfies(a, r) /\ satisfies(b, r)
    <3>1. CASE has_permission(I, r) BY <2>1, <3>1
    <3>2. CASE r.scope # "all" /\ has_permission(I, t)
      <4>1. satisfies(a, t) /\ satisfies(b, t) BY <1>0, <2>1, <3>2
      <4>2. has_permission(a, t) /\ has_permission(b, t) BY <1>0, <4>1 DEF satisfies
      <4> QED BY <3>2, <4>2 DEF satisfies
    <3> QED BY <2>2, <3>1, <3>2 DEF satisfies
  <2>3. ASSUME satisfies(a, r), satisfies(b, r) PROVE satisfies(I, r)
    <3> DEFINE J == intersect_permissions(b, a)
    <3>0. /\ \A k \in a : meet(k, b) \subseteq I
          /\ \A k \in b : meet(k, a) \subseteq I
      BY <1>3, IntersectionMembers
    <3>1. CASE has_permission(a, r) /\ has_permission(b, r)
      BY <1>3, <3>1, CommonGrantSurvives DEF satisfies
    <3>2. CASE r.scope # "all" /\ has_permission(a, t) /\ has_permission(b, t)
      BY <1>0, <1>3, <3>2, CommonGrantSurvives DEF satisfies
    <3>3. CASE r.scope # "all" /\ has_permission(a, r) /\ has_permission(b, t)
      BY <1>3, <3>0, <3>3, ScopeSurvives
    <3>4. CASE r.scope # "all" /\ has_permission(b, r) /\ has_permission(a, t)
      <4>1. Plain(b, a) BY <1>3 DEF Plain
      <4> QED BY <3>0, <3>4, <4>1, ScopeSurvives
    <3> QED BY <2>3, <3>1, <3>2, <3>3, <3>4 DEF satisfies
  <2> QED BY <2>2, <2>3
<1> QED BY <1>1, <1>2, <1>3 DEF Plain

-----------------------------------------------------------------------------
\* Every permission stored, or about to be stored by an edit, is a key.
AuthInv ==
  /\ \A r \in DOMAIN table : table[r].perms \subseteq Keys
  /\ edits = [e \in Editors |-> edits[e]]
  /\ \A e \in Editors : edits[e].op \in {"create", "update"} => edits[e].v.perms \subseteq Keys

\* Writing a role of keys leaves a table of keys.
LEMMA WithRoleKeepsKeys ==
  ASSUME NEW t, \A q \in DOMAIN t : t[q].perms \subseteq Keys, NEW r, NEW v, v.perms \subseteq Keys
  PROVE  \A q \in DOMAIN withRole(t, r, v) : withRole(t, r, v)[q].perms \subseteq Keys
BY DEF withRole

\* The tables a behaviour begins with hold keys.
LEMMA AuthInvInit == AuthInit => AuthInv
BY SMTT(30), TablesAssumption DEF AuthInit, AuthInv, NoEdit

\* No request of an administrator stores anything but keys.
LEMMA AuthInvStep == AuthInv /\ [AuthNext]_authVars => AuthInv'
<1> SUFFICES ASSUME AuthInv, [AuthNext]_authVars PROVE AuthInv'
  OBVIOUS
<1> USE DEF AuthInv
<1>1. ASSUME NEW e \in Editors, create_role(e) PROVE AuthInv'
  BY <1>1, WithRoleKeepsKeys DEF create_role, ends, NoEdit
<1>2. ASSUME NEW e \in Editors, update_role(e) PROVE AuthInv'
  <2> DEFINE q == edits[e]
             new == revised(table[q.role], q.v, q.fields)
  <2>1. table' = IF q.role \in DOMAIN table THEN withRole(table, q.role, new) ELSE table
    BY <1>2 DEF update_role
  <2>2. q.role \in DOMAIN table => new.perms \subseteq Keys
    BY <1>2 DEF update_role, revised
  <2>3. \A x \in DOMAIN table' : table'[x].perms \subseteq Keys
    BY <2>1, <2>2, WithRoleKeepsKeys
  <2> QED BY <1>2, <2>3 DEF update_role, ends, NoEdit
<1>3. ASSUME NEW e \in Editors, deleteAssignments(e) PROVE AuthInv'
  BY <1>3 DEF deleteAssignments, ends, NoEdit
<1>4. ASSUME NEW e \in Editors, assign_role(e) PROVE AuthInv'
  BY <1>4 DEF assign_role, ends, NoEdit
<1>5. ASSUME NEW e \in Editors, NEW r \in Roles, delete_role(e, r) PROVE AuthInv'
  BY <1>5 DEF delete_role
<1>6. ASSUME NEW e \in Editors, NEW p \in DOMAIN held, NEW r \in Roles, checkAssign(e, p, r) PROVE AuthInv'
  BY <1>6 DEF checkAssign, begins
<1>7. ASSUME NEW e \in Editors, NEW r \in Roles, NEW v \in Revisions, checkCreate(e, r, v) PROVE AuthInv'
  BY <1>7, TablesAssumption DEF checkCreate, begins
<1>8. ASSUME NEW e \in Editors, NEW r \in Roles, NEW v \in Revisions, NEW fields, checkUpdate(e, r, v, fields) PROVE AuthInv'
  BY <1>8, TablesAssumption DEF checkUpdate, begins
<1>9. ASSUME NEW p \in DOMAIN held, NEW r \in Roles, revoke_role(p, r) PROVE AuthInv'
  BY <1>9 DEF revoke_role
<1>10. CASE UNCHANGED authVars
  BY <1>10 DEF authVars
<1> QED BY <1>1, <1>2, <1>3, <1>4, <1>5, <1>6, <1>7, <1>8, <1>9, <1>10 DEF AuthNext

\* What anyone resolves to consists of keys, whatever the expansion found.
LEMMA ResolvedAreKeys ==
  ASSUME AuthInv, NEW u
  PROVE  \A k \in resolve_permissions(u) : KeyShape(k)
<1>1. \A S : permissionsOf(table, S) \subseteq Keys
  BY DEF AuthInv, permissionsOf
<1>2. resolve_permissions(u) \subseteq Keys
  BY <1>1 DEF resolve_permissions
<1> QED BY <1>2, KeysAssumption

\* For every set of keys, roles and principals: a delegated agent's authority
\* is exactly what agent and human both have (policy.rs effective_for_pair).
THEOREM DelegatedAuthorityIsExact == AuthSpec => []NarrowingIsExact
<1>1. AuthInv => NarrowingIsExact
  <2> SUFFICES ASSUME AuthInv, NEW a \in DOMAIN held, NEW h \in DOMAIN held, NEW k \in Keys
               PROVE  satisfies(effective_for_pair(resolve_permissions(a), resolve_permissions(h)), k)
                        <=> satisfies(resolve_permissions(a), k) /\ satisfies(resolve_permissions(h), k)
    BY DEF NarrowingIsExact
  <2> QED BY ResolvedAreKeys, IntersectionIsMeet, KeysAssumption DEF effective_for_pair
<1> QED BY <1>1, AuthInvInit, AuthInvStep, PTL DEF AuthSpec

\* For every set of keys, roles and principals: who may act as a target could
\* do alone whatever the target may (act_as.rs assert_can_act_as).
THEOREM ActAsGateIsSound == AuthSpec => []ActingNeverEscalates
<1>1. AuthInv => ActingNeverEscalates
  <2> SUFFICES ASSUME AuthInv, NEW h \in DOMAIN held, NEW t \in DOMAIN held,
                      NEW managed \in BOOLEAN, NEW delegated \in BOOLEAN,
                      assert_can_act_as(h, t, managed, delegated, resolve_permissions(h), resolve_permissions(t)),
                      NEW k \in Keys, has_permission(resolve_permissions(t), k)
               PROVE  has_permission(resolve_permissions(h), k)
    BY DEF ActingNeverEscalates
  <2>1. CASE h = t BY <2>1
  <2>2. CASE \A p \in resolve_permissions(t) : has_permission(resolve_permissions(h), p)
    <3>1. PICK q \in resolve_permissions(t) : covers(q, k) BY DEF has_permission
    <3>2. KeyShape(q) /\ KeyShape(k) BY ResolvedAreKeys, KeysAssumption
    <3>3. has_permission(resolve_permissions(h), q) BY <2>2
    <3> QED BY <3>1, <3>2, <3>3, ResolvedAreKeys, HasTransitive
  <2> QED BY <2>1, <2>2 DEF assert_can_act_as
<1> QED BY <1>1, AuthInvInit, AuthInvStep, PTL DEF AuthSpec

(***************************************************************************)
(* The inductive invariant.  The lifecycle lock makes the requests that    *)
(* change the tables exclude each other, so what the holder of the lock    *)
(* has found or done is still so when it goes on; a revision names one     *)
(* manifest for as long as its installation is active; and a transaction   *)
(* of an execution keeps its approval from being revoked.                  *)
(***************************************************************************)
Rows == {"release", "installation", "approval"} \X Nat
Ops == {"none", "copy", "deploy", "install", "catalog", "uninstall", "inspect", "approve", "revoke"}
Places == {"idle", "stage", "preflight", "lockRelease", "replace", "lockInstallation", "deactivate",
           "cosmetic", "callbacks", "register", "cleanup", "removeDir", "redeploy", "swap",
           "activate", "settle", "inspect", "snapshot", "seal", "contract", "approve", "revoke"}
Phases == {"idle", "config", "slot", "artifact", "recheck", "spawn", "running", "bindRelease",
           "bindApproval", "inTx", "finish"}
SomeManifest == Manifests \cup {NoManifest}
Request == [op : Ops, pc : Places, man : SomeManifest, code : Codes \cup {0}, rev : Nat,
            prev : Bytes, locks : SUBSET Rows]
Approval == [live : BOOLEAN, rev : 0..MaxRev, digest : Bytes, inst : 0..MaxInst,
             man : SomeManifest, seen : SomeManifest]
Execution == [pc : Phases, ok : 0..MaxOk, code : Bytes, audited : BOOLEAN, locks : SUBSET Rows]

(* The tables, the disk and the requests are records of their kind.        *)
Tables ==
  /\ duty \in Duties
  /\ app \in [row : BOOLEAN, man : Manifests, inst : 0..MaxInst, active : BOOLEAN]
  /\ release \in [rev : 0..MaxRev, digest : Bytes] /\ revs \in 0..MaxRev
  /\ dir \in Bytes /\ sealed \in [0..MaxRev -> Bytes]
  /\ approvals \in [Oks -> Approval]
  /\ review \in [rev : 0..MaxRev, digest : Bytes, inst : 0..MaxInst, man : SomeManifest]
  /\ adm \in [Admins -> Request]
  /\ run \in [Runs -> Execution]

(* The lifecycle lock has one holder.                                      *)
Outside == {"idle", "redeploy", "removeDir"}
OneHolder ==
  \A p, q \in Admins : adm[p].pc \notin Outside /\ adm[q].pc \notin Outside => p = q

NoneLive == \A i \in Oks : ~approvals[i].live

(* What a request x relies on from one of its transactions to the next.    *)
Kind(x) ==
  /\ x.pc \in {"preflight", "cosmetic", "callbacks", "register"} => x.op \in {"install", "catalog"}
  /\ x.pc \in {"lockRelease", "replace"} => x.op \in {"install", "catalog", "deploy", "copy"}
  /\ x.pc \in {"lockInstallation", "deactivate"} => x.op \in {"install", "catalog", "uninstall"}
  /\ (x.pc = "redeploy" => x.op = "copy") /\ (x.pc = "stage" => x.op = "deploy")
  /\ x.op \in {"install", "catalog"} => x.man \in Manifests
Reviewed(x) ==
  /\ x.rev = release.rev /\ x.rev = review.rev
  /\ release.digest = review.digest /\ release.digest # 0
  /\ app.inst = review.inst /\ app.row /\ app.active
Relies(x) ==
  /\ x.pc \in {"swap", "activate", "settle", "cosmetic", "cleanup"} => NoneLive
  /\ x.pc \in {"swap", "activate", "settle"} => x.rev # 0
  /\ x.pc = "cosmetic" => release.rev = 0 \/ review.rev < release.rev
  /\ x.pc = "callbacks" /\ app.active => app.man = x.man
  /\ x.pc = "register" => app.row
  /\ x.pc = "cleanup" => ~app.active
  /\ x.pc \in {"seal", "contract", "approve"} => Reviewed(x)
RequestsFit == \A p \in Admins : Kind(adm[p]) /\ Relies(adm[p])

(* A revision and an installation stand for the manifest that was reviewed *)
(* with them.                                                              *)
ReviewFits ==
  /\ review.rev <= revs /\ release.rev <= revs /\ review.inst <= app.inst
  /\ release.rev = 0 => release.digest = 0
  /\ app.active => app.row
  /\ app.active /\ app.inst = review.inst /\ release.rev = review.rev /\ release.rev # 0
       => app.man = review.man

ApprovalsFit ==
  /\ LiveApprovalIsCurrent
  /\ ApprovedAsReviewed
  /\ \A i \in Oks : approvals[i].live => approvals[i].digest # 0

(* What an execution has checked, and holds.                               *)
Armed == {"running", "bindRelease", "bindApproval", "inTx"}
ExecutionFits(e) ==
  /\ run[e].pc # "idle" => run[e].ok \in Oks /\ mine(e).digest # 0
  /\ run[e].pc \in {"recheck", "spawn"} => sealed[mine(e).rev] = mine(e).digest
  /\ run[e].pc \in {"artifact", "recheck", "spawn"} \cup Armed => run[e].audited
  /\ run[e].pc \in Armed => run[e].code = mine(e).digest
  /\ run[e].pc = "inTx" => mine(e).live /\ okRow(run[e].ok) \in run[e].locks
  /\ run[e].pc # "inTx" => \A i \in Oks : okRow(i) \notin run[e].locks
ExecutionsFit == \A e \in Runs : ExecutionFits(e)

ReleaseInv ==
  Tables /\ OneHolder /\ RequestsFit /\ ReviewFits /\ ApprovalsFit /\ ExecutionsFit

(***************************************************************************)
(* Lemmas about the tables.                                                *)
(***************************************************************************)
(* A request or an execution that is over relies on nothing.               *)
LEMMA OverRequest ==
  /\ NoDuty \in Request /\ NoDuty.pc = "idle" /\ Kind(NoDuty)
  /\ NoRun \in Execution /\ NoRun.pc = "idle" /\ NoRun.locks = {}
<1>1. {} \in SUBSET Rows OBVIOUS
<1>2. NoDuty \in Request BY <1>1 DEF NoDuty, Request, Ops, Places, SomeManifest, Bytes
<1>3. NoRun \in Execution BY SMTT(30), <1>1, ReleaseAssumption DEF NoRun, Execution, Phases, Bytes
<1>4. NoDuty.pc = "idle" /\ Kind(NoDuty) BY DEF NoDuty, Kind
<1>5. NoRun.pc = "idle" /\ NoRun.locks = {} BY DEF NoRun
<1> QED BY <1>2, <1>3, <1>4, <1>5

(* The initial state satisfies the invariant.                              *)
LEMMA ReleaseInitial == ReleaseInit => ReleaseInv
<1> SUFFICES ASSUME ReleaseInit PROVE ReleaseInv OBVIOUS
<1>1. /\ (CHOOSE n \in Manifests : TRUE) \in Manifests
      /\ (CHOOSE d \in Codes : TRUE) \in Codes
  BY ReleaseAssumption
<1>2. /\ app.man \in Manifests /\ app.row /\ app.active /\ app.inst = 1
      /\ app \in [row : BOOLEAN, man : Manifests, inst : 0..MaxInst, active : BOOLEAN]
  BY SMTT(30), <1>1, ReleaseAssumption DEF ReleaseInit
<1>3. /\ release \in [rev : 0..MaxRev, digest : Bytes] /\ revs \in 0..MaxRev /\ dir \in Bytes
      /\ release.rev <= revs /\ (release.rev = 0 => release.digest = 0)
  BY SMTT(30), <1>1, ReleaseAssumption DEF ReleaseInit, Bytes
<1>4. NoApproval \in Approval /\ ~NoApproval.live /\ NoApproval.man = NoApproval.seen
  BY SMTT(30), ReleaseAssumption DEF NoApproval, Approval, SomeManifest, Bytes
<1>5. Tables
  BY SMTT(30), <1>2, <1>3, <1>4, OverRequest, ReleaseAssumption
  DEF ReleaseInit, Tables, NoReview, SomeManifest, Bytes
<1>6. OneHolder /\ RequestsFit BY OverRequest DEF ReleaseInit, OneHolder, Outside, RequestsFit, Relies
<1>7. ReviewFits BY SMTT(30), <1>2, <1>3 DEF ReleaseInit, ReviewFits, NoReview
<1>8. ApprovalsFit
  BY <1>4 DEF ReleaseInit, ApprovalsFit, LiveApprovalIsCurrent, ApprovedAsReviewed
<1>9. ExecutionsFit BY OverRequest DEF ReleaseInit, ExecutionsFit, ExecutionFits, Armed
<1> QED BY <1>5, <1>6, <1>7, <1>8, <1>9 DEF ReleaseInv

(* A request that goes on keeps everything but its place and its locks.    *)
LEMMA MovedRequest ==
  ASSUME adm \in [Admins -> Request], NEW p \in Admins, NEW pc \in Places
  PROVE  /\ moved(p, pc) \in Request
         /\ moved(p, pc).pc = pc
         /\ moved(p, pc).op = adm[p].op /\ moved(p, pc).man = adm[p].man
         /\ moved(p, pc).code = adm[p].code /\ moved(p, pc).rev = adm[p].rev
         /\ moved(p, pc).prev = adm[p].prev
BY DEF moved, Request

(* While one request holds the lock the others rely on no table, so it may *)
(* change them all.                                                        *)
LEMMA HolderMoves ==
  ASSUME ReleaseInv, NEW p \in Admins, adm[p].pc \notin Outside,
         adm' \in [Admins -> Request], \A q \in Admins \ {p} : adm'[q] = adm[q],
         Kind(adm[p])', Relies(adm[p])'
  PROVE  OneHolder' /\ RequestsFit'
<1>1. \A q \in Admins \ {p} : adm'[q].pc \in Outside BY DEF ReleaseInv, OneHolder
<1>2. \A q \in Admins \ {p} : Kind(adm[q])'
  BY DEF ReleaseInv, RequestsFit, Kind
<1>3. \A q \in Admins \ {p} : Relies(adm[q])' BY <1>1 DEF Outside, Relies
<1> QED BY <1>1, <1>2, <1>3 DEF OneHolder, RequestsFit

(* A request that does not hold the lock leaves what the holder relies on. *)
LEMMA OutsiderMoves ==
  ASSUME ReleaseInv, NEW p \in Admins,
         adm' \in [Admins -> Request], \A q \in Admins \ {p} : adm'[q] = adm[q],
         UNCHANGED <<app, release, approvals, review>>,
         Kind(adm[p])', Relies(adm[p])', adm'[p].pc \in Outside \/ Holding = {}
  PROVE  OneHolder' /\ RequestsFit'
<1>1. \A q \in Admins \ {p} : Kind(adm[q])' BY DEF ReleaseInv, RequestsFit, Kind
<1>2. \A q \in Admins \ {p} : Relies(adm[q])'
  BY SMTT(30) DEF ReleaseInv, RequestsFit, Relies, NoneLive, Reviewed
<1>3. OneHolder' BY DEF ReleaseInv, OneHolder, Holding, Outside
<1> QED BY <1>1, <1>2, <1>3 DEF RequestsFit

(* Approvals are revoked, never rewritten.                                 *)
LEMMA RevokedApprovals ==
  ASSUME approvals \in [Oks -> Approval]
  PROVE  /\ revoked \in [Oks -> Approval]
         /\ \A i \in Oks : /\ ~revoked[i].live
                           /\ revoked[i].rev = approvals[i].rev
                           /\ revoked[i].digest = approvals[i].digest
                           /\ revoked[i].man = approvals[i].man
                           /\ revoked[i].seen = approvals[i].seen
BY DEF revoked, Approval

(* Executions keep what they checked while approvals and artifacts only    *)
(* grow, and no approval is revoked under a transaction.                   *)
LEMMA ExecutionsKept ==
  ASSUME ReleaseInv, UNCHANGED run,
         \A i \in Oks : approvals[i].digest # 0 =>
           approvals'[i].digest = approvals[i].digest /\ approvals'[i].rev = approvals[i].rev,
         \A r \in 0..MaxRev : sealed[r] # 0 => sealed'[r] = sealed[r],
         UNCHANGED approvals \/ FreeOfRuns(liveRows)
  PROVE  ExecutionsFit'
<1> SUFFICES ASSUME NEW e \in Runs PROVE ExecutionFits(e)' BY DEF ExecutionsFit
<1>1. ExecutionFits(e) BY DEF ReleaseInv, ExecutionsFit
<1>2. CASE run[e].pc = "idle" BY <1>1, <1>2 DEF ExecutionFits, Armed
<1>3. CASE run[e].pc # "idle"
  <2>1. /\ run[e].ok \in Oks /\ mine(e).digest # 0
        /\ mine(e)'.digest = mine(e).digest /\ mine(e)'.rev = mine(e).rev
    BY <1>1, <1>3 DEF ExecutionFits, mine
  <2>2. mine(e).rev \in 0..MaxRev BY <2>1 DEF ReleaseInv, Tables, mine, Approval
  <2>3. sealed[mine(e).rev] = mine(e).digest => (sealed[mine(e).rev] = mine(e).digest)'
    BY <2>1, <2>2
  <2>4. run[e].pc = "inTx" => UNCHANGED approvals
    <3> SUFFICES ASSUME run[e].pc = "inTx", FreeOfRuns(liveRows) PROVE FALSE OBVIOUS
    <3>1. okRow(run[e].ok) \in liveRows \cap run[e].locks
      BY <1>1, <2>1 DEF ExecutionFits, liveRows, mine
    <3> QED BY <3>1 DEF FreeOfRuns
  <2>5. run[e].pc = "inTx" => mine(e)'.live BY <1>1, <2>4 DEF ExecutionFits, mine
  <2> QED BY <1>1, <2>1, <2>3, <2>5 DEF ExecutionFits
<1> QED BY <1>2, <1>3

(***************************************************************************)
(* The requests of administrators preserve the invariant.                  *)
(***************************************************************************)
(* Replacing one administrator's request.                                  *)
LEMMA AdmUpdate ==
  ASSUME ReleaseInv, NEW p \in Admins, NEW x \in Request, Adm(p, x)
  PROVE  /\ adm' \in [Admins -> Request] /\ adm'[p] = x
         /\ \A q \in Admins \ {p} : adm'[q] = adm[q]
BY DEF ReleaseInv, Tables, Adm

(* A step that changes only requests keeps what is said of everything else.*)
LEMMA TablesStay ==
  ASSUME ReleaseInv, adm' \in [Admins -> Request],
         UNCHANGED <<duty, app, release, revs, dir, sealed, approvals, run, review>>
  PROVE  Tables' /\ ReviewFits' /\ ApprovalsFit' /\ ExecutionsFit'
<1>1. Tables' BY DEF ReleaseInv, Tables
<1>2. ReviewFits' BY DEF ReleaseInv, ReviewFits
<1>3. ApprovalsFit'
  BY DEF ReleaseInv, ApprovalsFit, LiveApprovalIsCurrent, ApprovedAsReviewed, CURRENT_APPROVAL
<1>4. ExecutionsFit' BY DEF ReleaseInv, ExecutionsFit, ExecutionFits, mine
<1> QED BY <1>1, <1>2, <1>3, <1>4

(* The holder of the lock goes on to x without touching a table.           *)
LEMMA HolderGoesOn ==
  ASSUME ReleaseInv, NEW p \in Admins, adm[p].pc \notin Outside,
         NEW x \in Request, AdmOnly(p, x), Kind(x), Relies(x)
  PROVE  ReleaseInv'
<1>1. /\ adm' \in [Admins -> Request] /\ adm'[p] = x
      /\ \A q \in Admins \ {p} : adm'[q] = adm[q]
  BY AdmUpdate DEF AdmOnly
<1>2. Kind(adm[p])' BY <1>1 DEF Kind
<1>3. Relies(adm[p])' BY <1>1 DEF AdmOnly, Relies, NoneLive, Reviewed
<1>4. OneHolder' /\ RequestsFit' BY <1>1, <1>2, <1>3, HolderMoves
<1> QED BY <1>1, <1>4, TablesStay DEF AdmOnly, ReleaseInv

(* A request starts, or goes on to the copy of its backend.                *)
LEMMA AcquireKeeps ==
  ASSUME ReleaseInv, NEW p \in Admins, Acquire(p)
  PROVE  ReleaseInv'
<1> DEFINE first == [deploy |-> "stage", install |-> "preflight", catalog |-> "preflight",
                     uninstall |-> "lockInstallation", inspect |-> "inspect",
                     approve |-> "snapshot", revoke |-> "revoke"]
           begun(op, m, c) == [NoDuty EXCEPT !.op = op, !.pc = first[op], !.man = m, !.code = c]
<1>1. adm[p] \in Request /\ duty \in Duties BY DEF ReleaseInv, Tables
<1>2. CASE \E op \in duty.ops[p] :
           \E m \in IF op \in {"install", "catalog"} THEN Manifests ELSE {NoManifest},
              c \in IF op \in {"deploy", "catalog"} THEN Codes ELSE {0} :
             AdmOnly(p, begun(op, m, c))
  <2>1. PICK op \in duty.ops[p] :
          \E m \in IF op \in {"install", "catalog"} THEN Manifests ELSE {NoManifest},
             c \in IF op \in {"deploy", "catalog"} THEN Codes ELSE {0} :
               AdmOnly(p, begun(op, m, c))
    BY <1>2
  <2>2. PICK m \in IF op \in {"install", "catalog"} THEN Manifests ELSE {NoManifest},
             c \in IF op \in {"deploy", "catalog"} THEN Codes ELSE {0} :
               AdmOnly(p, begun(op, m, c))
    BY <2>1
  <2>3. op \in {"deploy", "install", "catalog", "uninstall", "inspect", "approve", "revoke"}
    BY <1>1, ReleaseAssumption
  <2>4. first[op] \in {"stage", "preflight", "lockInstallation", "inspect", "snapshot", "revoke"}
    BY SMTT(30), <2>3
  <2>5. /\ op \in {"install", "catalog"} => m \in Manifests
        /\ first[op] = "stage" => op = "deploy"
        /\ first[op] = "preflight" => op \in {"install", "catalog"}
        /\ first[op] = "lockInstallation" => op = "uninstall"
        /\ m \in SomeManifest /\ c \in Codes \cup {0}
    BY SMTT(30), <2>3 DEF SomeManifest
  <2> HIDE DEF first
  <2>6. /\ begun(op, m, c).op = op /\ begun(op, m, c).pc = first[op]
        /\ begun(op, m, c).man = m /\ begun(op, m, c) \in Request
    BY <2>3, <2>4, <2>5, OverRequest DEF Request, NoDuty, Ops, Places
  <2>7. Kind(begun(op, m, c)) BY <2>4, <2>5, <2>6 DEF Kind
  <2>8. /\ adm' \in [Admins -> Request] /\ adm'[p] = begun(op, m, c)
        /\ \A q \in Admins \ {p} : adm'[q] = adm[q]
    BY <2>2, <2>6, AdmUpdate DEF AdmOnly
  <2> HIDE DEF begun
  <2>9. Kind(adm[p])' /\ Relies(adm[p])' BY <2>6, <2>7, <2>4, <2>8 DEF Kind, Relies
  <2>10. OneHolder' /\ RequestsFit'
    BY <2>2, <2>8, <2>9, OutsiderMoves DEF Acquire, AdmOnly
  <2> QED BY <2>2, <2>8, <2>10, TablesStay DEF AdmOnly, ReleaseInv
<1>3. CASE adm[p].pc = "redeploy" /\ AdmOnly(p, moved(p, "lockRelease"))
  <2>1. /\ moved(p, "lockRelease") \in Request /\ moved(p, "lockRelease").pc = "lockRelease"
        /\ moved(p, "lockRelease").op = adm[p].op /\ moved(p, "lockRelease").man = adm[p].man
    BY SMTT(30), MovedRequest DEF ReleaseInv, Tables, Places
  <2>2. /\ adm' \in [Admins -> Request] /\ adm'[p] = moved(p, "lockRelease")
        /\ \A q \in Admins \ {p} : adm'[q] = adm[q]
    BY <1>3, <2>1, AdmUpdate DEF AdmOnly
  <2>3. adm[p].op = "copy" BY <1>3 DEF ReleaseInv, RequestsFit, Kind
  <2>4. Kind(adm[p])' /\ Relies(adm[p])'
    BY <2>1, <2>2, <2>3 DEF Kind, Relies
  <2>5. OneHolder' /\ RequestsFit'
    BY <1>3, <2>2, <2>4, OutsiderMoves DEF Acquire, AdmOnly
  <2> QED BY <1>3, <2>2, <2>5, TablesStay DEF AdmOnly, ReleaseInv
<1> QED BY <1>2, <1>3 DEF Acquire

(* A request that fails rolls its transaction back.                        *)
LEMMA FailureKeeps ==
  ASSUME ReleaseInv, NEW p \in Admins, AdmFails(p)
  PROVE  ReleaseInv'
<1>1. /\ adm' \in [Admins -> Request] /\ adm'[p] = NoDuty
      /\ \A q \in Admins \ {p} : adm'[q] = adm[q]
  BY OverRequest, AdmUpdate DEF AdmFails, AdmOnly
<1>2. Kind(adm[p])' /\ Relies(adm[p])' BY <1>1, OverRequest DEF Kind, Relies
<1>3. OneHolder' /\ RequestsFit'
  BY <1>1, <1>2, OverRequest, OutsiderMoves DEF AdmFails, AdmOnly, Outside
<1> QED BY <1>1, <1>3, TablesStay DEF AdmFails, AdmOnly, ReleaseInv

(* Steps of the holder that only read the tables and take row locks.       *)
LEMMA ReadingKeeps ==
  ASSUME ReleaseInv, NEW p \in Admins,
         Preflight(p) \/ LockRelease(p) \/ LockActive(p) \/ Stage(p) \/ Snapshot(p) \/ Contract(p)
  PROVE  ReleaseInv'
<1>1. adm[p] \in Request /\ Kind(adm[p]) /\ Relies(adm[p])
  BY DEF ReleaseInv, Tables, RequestsFit
<1>2. CASE Preflight(p)
  <2>1. app.active => app.row BY DEF ReleaseInv, ReviewFits
  <2> DEFINE pc == IF app.row /\ app.man # adm[p].man THEN "lockRelease" ELSE "callbacks"
  <2>2. moved(p, pc) \in Request /\ moved(p, pc).pc = pc /\ moved(p, pc).op = adm[p].op
        /\ moved(p, pc).man = adm[p].man
    BY SMTT(30), MovedRequest DEF ReleaseInv, Tables, Places
  <2>3. Kind(moved(p, pc)) BY <1>1, <1>2, <2>2 DEF Preflight, Kind
  <2>4. Relies(moved(p, pc)) BY <2>1, <2>2 DEF Relies
  <2> QED BY <1>2, <2>2, <2>3, <2>4, HolderGoesOn DEF Preflight, Outside
<1>3. CASE LockRelease(p)
  <2> DEFINE x == [adm[p] EXCEPT !.pc = "replace", !.locks = {releaseRow}]
  <2>1. releaseRow \in Rows BY DEF releaseRow, Rows
  <2>2. x \in Request /\ x.pc = "replace" /\ x.op = adm[p].op /\ x.man = adm[p].man
    BY <1>1, <2>1 DEF Request, Places
  <2>3. Kind(x) BY <1>1, <1>3, <2>2 DEF LockRelease, Kind
  <2>4. Relies(x) BY <2>2 DEF Relies
  <2> QED BY <1>3, <2>2, <2>3, <2>4, HolderGoesOn DEF LockRelease, Outside
<1>4. CASE LockActive(p)
  <2> DEFINE rows == IF app.active THEN {activeRow(app.inst)} ELSE {}
             x == [adm[p] EXCEPT !.pc = "deactivate", !.locks = rows]
  <2>1. rows \subseteq Rows BY SMTT(30) DEF activeRow, Rows, ReleaseInv, Tables
  <2> HIDE DEF rows
  <2>2. x \in Request /\ x.pc = "deactivate" /\ x.op = adm[p].op /\ x.man = adm[p].man
    BY <1>1, <2>1 DEF Request, Places
  <2>3. Kind(x) BY <1>1, <1>4, <2>2 DEF LockActive, Kind
  <2>4. Relies(x) BY <2>2 DEF Relies
  <2>5. AdmOnly(p, x) BY <1>4 DEF LockActive, rows
  <2> QED BY <1>4, <2>2, <2>3, <2>4, <2>5, HolderGoesOn DEF LockActive, Outside
<1>5. CASE Stage(p)
  <2>1. moved(p, "lockRelease") \in Request /\ moved(p, "lockRelease").pc = "lockRelease"
        /\ moved(p, "lockRelease").op = adm[p].op /\ moved(p, "lockRelease").man = adm[p].man
    BY SMTT(30), MovedRequest DEF ReleaseInv, Tables, Places
  <2>2. Kind(moved(p, "lockRelease")) BY <1>1, <1>5, <2>1 DEF Stage, Kind
  <2>3. Relies(moved(p, "lockRelease")) BY <2>1 DEF Relies
  <2> QED BY <1>5, <2>1, <2>2, <2>3, HolderGoesOn DEF Stage, Outside
<1>6. CASE Snapshot(p)
  <2> DEFINE x == [moved(p, "seal") EXCEPT !.rev = release.rev]
  <2>1. moved(p, "seal") \in Request /\ moved(p, "seal").pc = "seal"
        /\ moved(p, "seal").op = adm[p].op /\ moved(p, "seal").man = adm[p].man
    BY SMTT(30), MovedRequest DEF ReleaseInv, Tables, Places
  <2>2. release.rev \in Nat BY SMTT(30) DEF ReleaseInv, Tables
  <2>3. x \in Request /\ x.pc = "seal" /\ x.op = adm[p].op /\ x.man = adm[p].man
        /\ x.rev = release.rev
    BY <2>1, <2>2 DEF Request
  <2>4. Kind(x) BY <1>1, <2>3 DEF Kind
  <2>5. Relies(x) BY <1>6, <2>3 DEF Relies, Reviewed, Snapshot
  <2>6. AdmOnly(p, x) BY <1>6 DEF Snapshot
  <2> QED BY <1>6, <2>3, <2>4, <2>5, <2>6, HolderGoesOn DEF Snapshot, Outside
<1>7. CASE Contract(p)
  <2>1. moved(p, "approve") \in Request /\ moved(p, "approve").pc = "approve"
        /\ moved(p, "approve").op = adm[p].op /\ moved(p, "approve").man = adm[p].man
        /\ moved(p, "approve").rev = adm[p].rev
    BY SMTT(30), MovedRequest DEF ReleaseInv, Tables, Places
  <2>2. Kind(moved(p, "approve")) BY <1>1, <2>1 DEF Kind
  <2>3. Relies(moved(p, "approve")) BY <1>1, <1>7, <2>1 DEF Relies, Reviewed, Contract
  <2>4. Relies(NoDuty) BY OverRequest DEF Relies
  <2> QED BY <1>7, <2>1, <2>2, <2>3, <2>4, OverRequest, HolderGoesOn DEF Contract, Outside
<1> QED BY <1>2, <1>3, <1>4, <1>5, <1>6, <1>7

(* What the invariant says of one request.                                 *)
LEMMA RequestFits ==
  ASSUME ReleaseInv, NEW p \in Admins
  PROVE  adm[p] \in Request /\ Kind(adm[p]) /\ Relies(adm[p])
BY DEF ReleaseInv, Tables, RequestsFit

(* When all approvals are revoked nothing is left for the tables to match. *)
LEMMA RevocationKeeps ==
  ASSUME ReleaseInv, approvals' = revoked, FreeOfRuns(liveRows), UNCHANGED <<sealed, run>>
  PROVE  /\ approvals' \in [Oks -> Approval] /\ NoneLive' /\ ApprovalsFit' /\ ExecutionsFit'
<1>1. approvals \in [Oks -> Approval] BY DEF ReleaseInv, Tables
<1>2. approvals' \in [Oks -> Approval] /\ NoneLive' BY <1>1, RevokedApprovals DEF NoneLive
<1>3. ApprovalsFit'
  BY <1>1, <1>2, RevokedApprovals
  DEF ReleaseInv, ApprovalsFit, LiveApprovalIsCurrent, ApprovedAsReviewed, NoneLive
<1>4. ExecutionsFit' BY <1>1, RevokedApprovals, ExecutionsKept
<1> QED BY <1>2, <1>3, <1>4

(* When none is live the tables may change under the approvals.            *)
LEMMA NoneLiveKeeps ==
  ASSUME ReleaseInv, NoneLive, UNCHANGED <<approvals, sealed, run>>
  PROVE  ApprovalsFit' /\ ExecutionsFit' /\ NoneLive'
<1>1. NoneLive' BY DEF NoneLive
<1>2. ApprovalsFit'
  BY <1>1 DEF ReleaseInv, ApprovalsFit, LiveApprovalIsCurrent, ApprovedAsReviewed, NoneLive
<1>3. ExecutionsFit' BY ExecutionsKept
<1> QED BY <1>1, <1>2, <1>3

(* Only an active installation has live approvals.                         *)
LEMMA InactiveHasNone ==
  ASSUME ReleaseInv, ~app.active
  PROVE  NoneLive
BY DEF ReleaseInv, ApprovalsFit, LiveApprovalIsCurrent, CURRENT_APPROVAL, NoneLive

(* begin_deployment and the rotation of install_app.                       *)
LEMMA ReplaceKeeps ==
  ASSUME ReleaseInv, NEW p \in Admins, Replace(p)
  PROVE  ReleaseInv'
<1> DEFINE deploys == adm[p].op \in {"deploy", "copy"}
           pc == IF deploys THEN "swap"
                 ELSE IF app.man.contract # adm[p].man.contract THEN "lockInstallation"
                 ELSE IF app.active THEN "cosmetic" ELSE "callbacks"
           x == [moved(p, pc) EXCEPT !.rev = revs + 1]
<1>1. adm[p] \in Request /\ Kind(adm[p]) /\ adm[p].pc = "replace"
  BY RequestFits DEF Replace
<1>2. /\ release \in [rev : 0..MaxRev, digest : Bytes] /\ revs \in 0..MaxRev
      /\ review.rev <= revs /\ review.rev \in Nat /\ release.rev <= revs
      /\ duty.revs \in 0..MaxRev
  BY SMTT(30), ReleaseAssumption DEF ReleaseInv, Tables, ReviewFits
<1>3. approvals' \in [Oks -> Approval] /\ NoneLive' /\ ApprovalsFit' /\ ExecutionsFit'
  BY RevocationKeeps DEF Replace
<1>4. pc \in {"swap", "lockInstallation", "cosmetic", "callbacks"} OBVIOUS
<1>5. /\ moved(p, pc) \in Request /\ moved(p, pc).pc = pc
      /\ moved(p, pc).op = adm[p].op /\ moved(p, pc).man = adm[p].man
  BY SMTT(30), <1>4, MovedRequest DEF ReleaseInv, Tables, Places
<1>6. x \in Request /\ x.pc = pc /\ x.op = adm[p].op /\ x.man = adm[p].man /\ x.rev = revs + 1
  BY SMTT(30), <1>2, <1>5 DEF Request
<1>7. Adm(p, x) BY DEF Replace
<1>8. /\ adm' \in [Admins -> Request] /\ adm'[p] = x
      /\ \A q \in Admins \ {p} : adm'[q] = adm[q]
  BY <1>6, <1>7, AdmUpdate
<1>9. \/ ~deploys /\ release.rev = 0 /\ UNCHANGED <<release, revs>>
      \/ /\ revs < duty.revs /\ revs' = revs + 1
         /\ release' = [rev |-> revs + 1, digest |-> IF deploys THEN 0 ELSE release.digest]
  BY DEF Replace
<1>10. /\ release' \in [rev : 0..MaxRev, digest : Bytes] /\ revs' \in 0..MaxRev
       /\ release'.rev = 0 \/ review.rev < release'.rev
       /\ review.rev <= revs' /\ release'.rev <= revs'
       /\ release'.rev = 0 => release'.digest = 0
       /\ release'.rev # 0 => review.rev < release'.rev
  BY SMTT(30), <1>2, <1>9, ReleaseAssumption DEF Bytes, ReleaseInv, ReviewFits
<1>11. UNCHANGED <<duty, app, dir, sealed, run, review>> BY DEF Replace
<1>12. Kind(adm[p])'
  <2>1. adm'[p].op = adm[p].op /\ adm'[p].man = adm[p].man BY <1>6, <1>8
  <2>2. adm'[p].pc \in {"swap", "lockInstallation", "cosmetic", "callbacks"} BY <1>4, <1>6, <1>8
  <2>3. adm'[p].pc # "swap" => adm[p].op \notin {"deploy", "copy"} BY <1>6, <1>8
  <2> QED BY <1>1, <2>1, <2>2, <2>3 DEF Kind
<1>13. Relies(adm[p])'
  <2>1. adm'[p].pc = "callbacks" => ~app.active BY SMTT(30), <1>6, <1>8
  <2>2. adm'[p].pc \in {"swap", "lockInstallation", "cosmetic", "callbacks"} BY <1>4, <1>6, <1>8
  <2>3. adm'[p].rev # 0 BY SMTT(30), <1>2, <1>6, <1>8
  <2> QED BY <2>1, <2>2, <2>3, <1>3, <1>10, <1>11 DEF Relies
<1>14. OneHolder' /\ RequestsFit'
  BY <1>1, <1>8, <1>12, <1>13, HolderMoves DEF Outside
<1>15. Tables' BY <1>3, <1>8, <1>10, <1>11 DEF ReleaseInv, Tables
<1>16. ReviewFits' BY SMTT(30), <1>2, <1>10, <1>11 DEF ReleaseInv, ReviewFits
<1> QED BY <1>3, <1>14, <1>15, <1>16 DEF ReleaseInv

(* deactivate_installation_tx.                                             *)
LEMMA RetireKeeps ==
  ASSUME ReleaseInv, NEW p \in Admins, Retire(p)
  PROVE  ReleaseInv'
<1> DEFINE pc == IF adm[p].op = "uninstall" THEN "cleanup" ELSE "callbacks"
<1>1. adm[p] \in Request /\ Kind(adm[p]) /\ adm[p].pc = "deactivate"
  BY RequestFits DEF Retire
<1>2. approvals' \in [Oks -> Approval] /\ NoneLive' /\ ApprovalsFit' /\ ExecutionsFit'
  BY RevocationKeeps DEF Retire
<1>3. /\ moved(p, pc) \in Request /\ moved(p, pc).pc = pc
      /\ moved(p, pc).op = adm[p].op /\ moved(p, pc).man = adm[p].man
  BY SMTT(30), MovedRequest DEF ReleaseInv, Tables, Places
<1>4. /\ adm' \in [Admins -> Request] /\ adm'[p] = moved(p, pc)
      /\ \A q \in Admins \ {p} : adm'[q] = adm[q]
  BY <1>3, AdmUpdate DEF Retire
<1>5. /\ app' \in [row : BOOLEAN, man : Manifests, inst : 0..MaxInst, active : BOOLEAN]
      /\ ~app'.active /\ app'.inst = app.inst
  BY DEF Retire, ReleaseInv, Tables
<1>6. UNCHANGED <<duty, release, revs, dir, sealed, run, review>> BY DEF Retire
<1>7. Kind(adm[p])' BY <1>1, <1>3, <1>4 DEF Kind
<1>8. Relies(adm[p])' BY <1>2, <1>3, <1>4, <1>5 DEF Relies
<1>9. OneHolder' /\ RequestsFit' BY <1>1, <1>4, <1>7, <1>8, HolderMoves DEF Outside
<1>10. Tables' BY <1>2, <1>4, <1>5, <1>6 DEF ReleaseInv, Tables
<1>11. ReviewFits' BY <1>5, <1>6 DEF ReleaseInv, ReviewFits
<1> QED BY <1>2, <1>9, <1>10, <1>11 DEF ReleaseInv

(* What deploy_from_catalog goes on to once it has installed.              *)
LEMMA InstalledRequest ==
  ASSUME ReleaseInv, NEW p \in Admins
  PROVE  installed(p) \in Request /\ installed(p).pc \in Outside /\ Kind(installed(p))
<1>1. adm[p] \in Request BY RequestFits
<1>2. CASE adm[p].op # "catalog" BY <1>2, OverRequest DEF installed, Outside
<1>3. CASE adm[p].op = "catalog"
  <2> DEFINE x == [NoDuty EXCEPT !.op = "copy", !.pc = "redeploy", !.code = adm[p].code]
  <2>1. x \in Request /\ x.pc = "redeploy" /\ x.op = "copy"
    BY <1>1, OverRequest DEF Request, NoDuty, Ops, Places
  <2>2. Kind(x) BY <2>1 DEF Kind
  <2>3. installed(p) = x BY <1>3 DEF installed
  <2> QED BY <2>1, <2>2, <2>3 DEF Outside
<1> QED BY <1>2, <1>3

(* A request that gives the lock back relies on nothing.                   *)
LEMMA OutsideRelies ==
  ASSUME NEW p \in Admins, adm'[p].pc \in Outside
  PROVE  Relies(adm[p])'
BY DEF Outside, Relies

(* register_app and register_installation.                                 *)
LEMMA RegistrationKeeps ==
  ASSUME ReleaseInv, NEW p \in Admins, Cosmetic(p) \/ RunCallbacks(p) \/ Register(p)
  PROVE  ReleaseInv'
<1>1. adm[p] \in Request /\ Kind(adm[p]) /\ Relies(adm[p]) /\ adm[p].pc \notin Outside
  BY RequestFits DEF Cosmetic, RunCallbacks, Register, Outside
<1>2. app \in [row : BOOLEAN, man : Manifests, inst : 0..MaxInst, active : BOOLEAN]
  BY DEF ReleaseInv, Tables
<1>3. UNCHANGED <<duty, release, revs, dir, sealed, approvals, run, review>>
  BY DEF Cosmetic, RunCallbacks, Register
<1>4. adm[p].man \in Manifests BY <1>1 DEF Cosmetic, RunCallbacks, Register, Kind
<1>5. installed(p) \in Request /\ installed(p).pc \in Outside /\ Kind(installed(p))
  BY InstalledRequest
<1>6. CASE Cosmetic(p)
  <2>1. /\ adm' \in [Admins -> Request] /\ adm'[p] = installed(p)
        /\ \A q \in Admins \ {p} : adm'[q] = adm[q]
    BY <1>5, <1>6, AdmUpdate DEF Cosmetic
  <2>2. /\ app' \in [row : BOOLEAN, man : Manifests, inst : 0..MaxInst, active : BOOLEAN]
        /\ app'.row = app.row /\ app'.active = app.active /\ app'.inst = app.inst
    BY <1>2, <1>4, <1>6 DEF Cosmetic
  <2>3. NoneLive /\ (release.rev = 0 \/ review.rev < release.rev)
    BY <1>1, <1>6 DEF Cosmetic, Relies
  <2>4. Kind(adm[p])' /\ Relies(adm[p])' BY <1>5, <2>1, OutsideRelies DEF Kind
  <2>5. OneHolder' /\ RequestsFit' BY <1>1, <2>1, <2>4, HolderMoves
  <2>6. ApprovalsFit' /\ ExecutionsFit' BY <1>3, <2>3, NoneLiveKeeps
  <2>7. Tables' BY <1>3, <2>1, <2>2 DEF ReleaseInv, Tables
  <2>8. ReviewFits'
    <3>1. release.rev \in Nat /\ review.rev \in Nat BY SMTT(30) DEF ReleaseInv, Tables
    <3> QED BY SMTT(30), <1>3, <2>2, <2>3, <3>1 DEF ReleaseInv, ReviewFits
  <2> QED BY <2>5, <2>6, <2>7, <2>8 DEF ReleaseInv
<1>7. CASE RunCallbacks(p)
  <2>1. /\ moved(p, "register") \in Request /\ moved(p, "register").pc = "register"
        /\ moved(p, "register").op = adm[p].op /\ moved(p, "register").man = adm[p].man
    BY SMTT(30), MovedRequest DEF ReleaseInv, Tables, Places
  <2>2. /\ adm' \in [Admins -> Request] /\ adm'[p] = moved(p, "register")
        /\ \A q \in Admins \ {p} : adm'[q] = adm[q]
    BY <1>7, <2>1, AdmUpdate DEF RunCallbacks
  <2>3. /\ app' \in [row : BOOLEAN, man : Manifests, inst : 0..MaxInst, active : BOOLEAN]
        /\ app'.row /\ app'.active = app.active /\ app'.inst = app.inst
    BY <1>2, <1>4, <1>7 DEF RunCallbacks
  <2>4. app.active => app' = app
    <3>1. app.active => app.row /\ app.man = adm[p].man
      BY <1>1, <1>7 DEF RunCallbacks, Relies, ReleaseInv, ReviewFits
    <3>2. app' = [app EXCEPT !.row = TRUE, !.man = adm[p].man] BY <1>7 DEF RunCallbacks
    <3>3. app.active => app.row = TRUE BY <3>1, <1>2
    <3> QED BY <1>2, <3>1, <3>2, <3>3
  <2>5. Kind(adm[p])' BY <1>1, <1>7, <2>1, <2>2 DEF RunCallbacks, Kind
  <2>6. Relies(adm[p])' BY <2>1, <2>2, <2>3 DEF Relies
  <2>7. OneHolder' /\ RequestsFit' BY <1>1, <2>2, <2>5, <2>6, HolderMoves
  <2>8. ApprovalsFit' /\ ExecutionsFit'
    <3>1. CASE app.active
      BY <1>3, <2>4, <3>1, ExecutionsKept
      DEF ReleaseInv, ApprovalsFit, LiveApprovalIsCurrent, ApprovedAsReviewed, CURRENT_APPROVAL
    <3>2. CASE ~app.active BY <1>3, <3>2, InactiveHasNone, NoneLiveKeeps
    <3> QED BY <3>1, <3>2
  <2>9. Tables' BY <1>3, <2>2, <2>3 DEF ReleaseInv, Tables
  <2>10. ReviewFits' BY <1>3, <2>3, <2>4 DEF ReleaseInv, ReviewFits
  <2> QED BY <2>7, <2>8, <2>9, <2>10 DEF ReleaseInv
<1>8. CASE Register(p)
  <2>1. /\ adm' \in [Admins -> Request] /\ adm'[p] = installed(p)
        /\ \A q \in Admins \ {p} : adm'[q] = adm[q]
    BY <1>5, <1>8, AdmUpdate DEF Register
  <2>2. Kind(adm[p])' /\ Relies(adm[p])' BY <1>5, <2>1, OutsideRelies DEF Kind
  <2>3. OneHolder' /\ RequestsFit' BY <1>1, <2>1, <2>2, HolderMoves
  <2>4. CASE app.active
    <3>1. UNCHANGED app BY <1>8, <2>4 DEF Register
    <3> QED BY <1>3, <2>1, <2>3, <3>1, TablesStay DEF ReleaseInv
  <2>5. CASE ~app.active
    <3>1. /\ app' = [app EXCEPT !.active = TRUE, !.inst = @ + 1] /\ app.inst < MaxInst
      BY <1>8, <2>5 DEF Register
    <3>2. app.inst + 1 \in 0..MaxInst BY SMTT(30), <1>2, <3>1, ReleaseAssumption
    <3>3. /\ app' \in [row : BOOLEAN, man : Manifests, inst : 0..MaxInst, active : BOOLEAN]
          /\ app'.row = app.row /\ app'.inst = app.inst + 1
      BY <1>2, <3>1, <3>2
    <3>4. app.row BY <1>1, <1>8 DEF Register, Relies
    <3>5. ApprovalsFit' /\ ExecutionsFit' BY <1>3, <2>5, InactiveHasNone, NoneLiveKeeps
    <3>6. Tables' BY <1>3, <2>1, <3>3 DEF ReleaseInv, Tables
    <3>7. review.inst \in Nat /\ app.inst \in Nat /\ review.inst <= app.inst
      BY SMTT(30) DEF ReleaseInv, Tables, ReviewFits
    <3>8. ReviewFits' BY SMTT(30), <1>3, <3>3, <3>4, <3>7 DEF ReleaseInv, ReviewFits
    <3> QED BY <2>3, <3>5, <3>6, <3>8 DEF ReleaseInv
  <2> QED BY <2>4, <2>5
<1> QED BY <1>6, <1>7, <1>8

(* Steps of the holder that change neither app nor approvals and only the  *)
(* disk, or nothing, besides its request.                                  *)
LEMMA DiskKeeps ==
  ASSUME ReleaseInv, dir' \in Bytes, adm' \in [Admins -> Request], OneHolder', RequestsFit',
         UNCHANGED <<duty, app, release, revs, sealed, approvals, run, review>>
  PROVE  ReleaseInv'
<1>1. Tables' BY DEF ReleaseInv, Tables
<1>2. ReviewFits' BY DEF ReleaseInv, ReviewFits
<1>3. ApprovalsFit'
  BY DEF ReleaseInv, ApprovalsFit, LiveApprovalIsCurrent, ApprovedAsReviewed, CURRENT_APPROVAL
<1>4. ExecutionsFit' BY ExecutionsKept
<1> QED BY <1>1, <1>2, <1>3, <1>4 DEF ReleaseInv

(* The end of uninstall_app, and the directory that goes after the lock.   *)
LEMMA UninstallKeeps ==
  ASSUME ReleaseInv, NEW p \in Admins, Unregister(p) \/ RemoveDir(p)
  PROVE  ReleaseInv'
<1>1. adm[p] \in Request /\ Kind(adm[p]) /\ Relies(adm[p]) BY RequestFits
<1>2. CASE Unregister(p)
  <2>1. /\ moved(p, "removeDir") \in Request /\ moved(p, "removeDir").pc = "removeDir"
        /\ moved(p, "removeDir").op = adm[p].op /\ moved(p, "removeDir").man = adm[p].man
    BY SMTT(30), MovedRequest DEF ReleaseInv, Tables, Places
  <2>2. /\ adm' \in [Admins -> Request] /\ adm'[p] = moved(p, "removeDir")
        /\ \A q \in Admins \ {p} : adm'[q] = adm[q]
    BY <1>2, <2>1, AdmUpdate DEF Unregister
  <2>3. /\ app' \in [row : BOOLEAN, man : Manifests, inst : 0..MaxInst, active : BOOLEAN]
        /\ app'.active = app.active /\ app'.inst = app.inst /\ app'.man = app.man
    BY <1>2 DEF Unregister, ReleaseInv, Tables
  <2>4. NoneLive /\ ~app.active BY <1>1, <1>2 DEF Unregister, Relies
  <2>5. UNCHANGED <<duty, release, revs, dir, sealed, approvals, run, review>>
    BY <1>2 DEF Unregister
  <2>6. Kind(adm[p])' BY <1>1, <2>1, <2>2 DEF Kind
  <2>7. Relies(adm[p])' BY <2>1, <2>2, OutsideRelies DEF Outside
  <2>8. OneHolder' /\ RequestsFit' BY <1>2, <2>2, <2>6, <2>7, HolderMoves DEF Unregister, Outside
  <2>9. ApprovalsFit' /\ ExecutionsFit' BY <2>4, <2>5, NoneLiveKeeps
  <2>10. Tables' BY <2>2, <2>3, <2>5 DEF ReleaseInv, Tables
  <2>11. ReviewFits' BY <2>3, <2>4, <2>5 DEF ReleaseInv, ReviewFits
  <2> QED BY <2>8, <2>9, <2>10, <2>11 DEF ReleaseInv
<1>3. CASE RemoveDir(p)
  <2>1. /\ adm' \in [Admins -> Request] /\ adm'[p] = NoDuty
        /\ \A q \in Admins \ {p} : adm'[q] = adm[q]
    BY <1>3, OverRequest, AdmUpdate DEF RemoveDir
  <2>2. UNCHANGED <<duty, app, release, revs, sealed, approvals, run, review>> /\ dir' = 0
    BY <1>3 DEF RemoveDir
  <2>3. Kind(adm[p])' BY <2>1, OverRequest DEF Kind
  <2>4. Relies(adm[p])' BY <2>1, OverRequest, OutsideRelies DEF Outside
  <2>5. OneHolder' /\ RequestsFit'
    BY <2>1, <2>2, <2>3, <2>4, OverRequest, OutsiderMoves DEF Outside
  <2> QED BY <2>1, <2>2, <2>5, DiskKeeps DEF Bytes
<1> QED BY <1>2, <1>3

(* The directory is swapped and its content activated, or put back.        *)
LEMMA SwapKeeps ==
  ASSUME ReleaseInv, NEW p \in Admins, Swap(p) \/ Activate(p)
  PROVE  ReleaseInv'
<1>1. /\ adm[p] \in Request /\ Kind(adm[p]) /\ Relies(adm[p]) /\ adm[p].pc \in {"swap", "activate"}
      /\ dir \in Bytes
  BY RequestFits DEF Swap, Activate, ReleaseInv, Tables
<1>2. UNCHANGED <<duty, app, release, revs, sealed, approvals, run, review>>
  BY DEF Swap, Activate
<1>3. adm[p].prev \in Bytes /\ adm[p].code \in Bytes /\ 0 \in Bytes /\ Torn \in Bytes
  BY <1>1 DEF Request, Bytes
<1>4. NoneLive /\ adm[p].rev # 0 BY <1>1 DEF Relies
<1>5. CASE Swap(p)
  <2> DEFINE x == [moved(p, "activate") EXCEPT !.prev = dir]
  <2>1. /\ moved(p, "activate") \in Request /\ moved(p, "activate").pc = "activate"
        /\ moved(p, "activate").op = adm[p].op /\ moved(p, "activate").man = adm[p].man
        /\ moved(p, "activate").rev = adm[p].rev
    BY SMTT(30), MovedRequest DEF ReleaseInv, Tables, Places
  <2>2. /\ x \in Request /\ x.pc = "activate" /\ x.op = adm[p].op /\ x.man = adm[p].man
        /\ x.rev = adm[p].rev
    BY <1>1, <2>1 DEF Request
  <2>3. /\ adm' \in [Admins -> Request] /\ adm'[p] = x
        /\ \A q \in Admins \ {p} : adm'[q] = adm[q]
    BY <1>5, <2>2, AdmUpdate DEF Swap
  <2>4. Kind(adm[p])' BY <1>1, <2>2, <2>3 DEF Kind
  <2>5. Relies(adm[p])' BY <1>2, <1>4, <2>2, <2>3 DEF Relies, NoneLive
  <2>6. OneHolder' /\ RequestsFit' BY <1>1, <2>3, <2>4, <2>5, HolderMoves DEF Outside
  <2> QED BY <1>2, <1>3, <1>5, <2>3, <2>6, DiskKeeps DEF Swap
<1>6. CASE Activate(p) /\ Adm(p, moved(p, "settle"))
  <2>1. /\ moved(p, "settle") \in Request /\ moved(p, "settle").pc = "settle"
        /\ moved(p, "settle").op = adm[p].op /\ moved(p, "settle").man = adm[p].man
        /\ moved(p, "settle").rev = adm[p].rev
    BY SMTT(30), MovedRequest DEF ReleaseInv, Tables, Places
  <2>2. /\ adm' \in [Admins -> Request] /\ adm'[p] = moved(p, "settle")
        /\ \A q \in Admins \ {p} : adm'[q] = adm[q]
    BY <1>6, <2>1, AdmUpdate
  <2>3. Kind(adm[p])' BY <1>1, <2>1, <2>2 DEF Kind
  <2>4. Relies(adm[p])' BY <1>2, <1>4, <2>1, <2>2 DEF Relies, NoneLive
  <2>5. OneHolder' /\ RequestsFit' BY <1>1, <2>2, <2>3, <2>4, HolderMoves DEF Outside
  <2>6. dir' \in Bytes BY <1>3, <1>6 DEF Activate
  <2> QED BY <1>2, <2>2, <2>5, <2>6, DiskKeeps
<1>7. CASE Activate(p) /\ Adm(p, NoDuty)
  <2>1. /\ adm' \in [Admins -> Request] /\ adm'[p] = NoDuty
        /\ \A q \in Admins \ {p} : adm'[q] = adm[q]
    BY <1>7, OverRequest, AdmUpdate
  <2>2. Kind(adm[p])' BY <2>1, OverRequest DEF Kind
  <2>3. Relies(adm[p])' BY <2>1, OverRequest, OutsideRelies DEF Outside
  <2>4. OneHolder' /\ RequestsFit' BY <1>1, <2>1, <2>2, <2>3, HolderMoves DEF Outside
  <2>5. dir' \in Bytes BY <1>3, <1>7 DEF Activate
  <2> QED BY <1>2, <2>1, <2>4, <2>5, DiskKeeps
<1> QED BY <1>5, <1>6, <1>7 DEF Activate

(* The release, the review and the approvals as the holder leaves them.    *)
LEMMA OverKeeps ==
  ASSUME ReleaseInv, NEW p \in Admins, adm[p].pc \notin Outside, Adm(p, NoDuty)
  PROVE  adm' \in [Admins -> Request] /\ OneHolder' /\ RequestsFit'
<1>1. /\ adm' \in [Admins -> Request] /\ adm'[p] = NoDuty
      /\ \A q \in Admins \ {p} : adm'[q] = adm[q]
  BY OverRequest, AdmUpdate
<1>2. Kind(adm[p])' BY <1>1, OverRequest DEF Kind
<1>3. Relies(adm[p])' BY <1>1, OverRequest, OutsideRelies DEF Outside
<1> QED BY <1>1, <1>2, <1>3, HolderMoves

(* finish_deployment records the digest of the revision it began.          *)
LEMMA SettleKeeps ==
  ASSUME ReleaseInv, NEW p \in Admins, finish_deployment(p)
  PROVE  ReleaseInv'
<1>1. adm[p].pc = "settle" /\ NoneLive /\ adm[p].rev # 0
  BY RequestFits DEF finish_deployment, Relies
<1>2. UNCHANGED <<duty, app, revs, dir, sealed, approvals, run, review>>
  BY DEF finish_deployment
<1>3. adm' \in [Admins -> Request] /\ OneHolder' /\ RequestsFit'
  BY <1>1, OverKeeps DEF finish_deployment, Outside
<1>4. ApprovalsFit' /\ ExecutionsFit' BY <1>1, <1>2, NoneLiveKeeps
<1>5. /\ release' \in [rev : 0..MaxRev, digest : Bytes] /\ release'.rev = release.rev
      /\ release.rev = 0 => release' = release
  BY <1>1 DEF finish_deployment, ReleaseInv, Tables
<1>6. Tables' BY <1>2, <1>3, <1>5 DEF ReleaseInv, Tables
<1>7. ReviewFits' BY <1>2, <1>5 DEF ReleaseInv, ReviewFits
<1> QED BY <1>3, <1>4, <1>6, <1>7 DEF ReleaseInv

(* inspect answers with what is current.                                   *)
LEMMA InspectKeeps ==
  ASSUME ReleaseInv, NEW p \in Admins, Inspect(p)
  PROVE  ReleaseInv'
<1>1. UNCHANGED <<duty, app, release, revs, dir, sealed, approvals, run>> BY DEF Inspect
<1>2. adm' \in [Admins -> Request] /\ OneHolder' /\ RequestsFit'
  BY OverKeeps DEF Inspect, Outside
<1>3. /\ review'.rev = release.rev /\ review'.inst = app.inst /\ review'.man = app.man
      /\ review' \in [rev : 0..MaxRev, digest : Bytes, inst : 0..MaxInst, man : SomeManifest]
  BY DEF Inspect, ReleaseInv, Tables, SomeManifest
<1>4. Tables' BY <1>1, <1>2, <1>3 DEF ReleaseInv, Tables
<1>5. ReviewFits'
  <2>1. app.inst \in Int BY SMTT(30) DEF ReleaseInv, Tables
  <2> QED BY SMTT(30), <1>1, <1>3, <2>1 DEF ReleaseInv, ReviewFits
<1>6. ApprovalsFit'
  BY <1>1 DEF ReleaseInv, ApprovalsFit, LiveApprovalIsCurrent, ApprovedAsReviewed, CURRENT_APPROVAL
<1>7. ExecutionsFit' BY <1>1, ExecutionsKept
<1> QED BY <1>2, <1>4, <1>5, <1>6, <1>7 DEF ReleaseInv

(* An artifact is sealed once.                                             *)
LEMMA SealKeeps ==
  ASSUME ReleaseInv, NEW p \in Admins, seal(p)
  PROVE  ReleaseInv'
<1>1. /\ adm[p] \in Request /\ Kind(adm[p]) /\ adm[p].pc = "seal" /\ Reviewed(adm[p])
  BY RequestFits DEF seal, Relies
<1>2. UNCHANGED <<duty, app, release, revs, dir, approvals, run, review>> BY DEF seal
<1>3. /\ moved(p, "contract") \in Request /\ moved(p, "contract").pc = "contract"
      /\ moved(p, "contract").op = adm[p].op /\ moved(p, "contract").man = adm[p].man
      /\ moved(p, "contract").rev = adm[p].rev
  BY SMTT(30), MovedRequest DEF ReleaseInv, Tables, Places
<1>4. /\ adm' \in [Admins -> Request] /\ adm'[p] = moved(p, "contract")
      /\ \A q \in Admins \ {p} : adm'[q] = adm[q]
  BY <1>3, AdmUpdate DEF seal
<1>5. Kind(adm[p])' BY <1>1, <1>3, <1>4 DEF Kind
<1>6. Relies(adm[p])' BY <1>1, <1>2, <1>3, <1>4 DEF Relies, Reviewed
<1>7. OneHolder' /\ RequestsFit' BY <1>1, <1>4, <1>5, <1>6, HolderMoves DEF Outside
<1>8. /\ sealed' = [sealed EXCEPT ![adm[p].rev] = review.digest]
      /\ sealed[adm[p].rev] # 0 => sealed[adm[p].rev] = review.digest
      /\ sealed \in [0..MaxRev -> Bytes] /\ review.digest \in Bytes
  BY DEF seal, ReleaseInv, Tables
<1>9. /\ sealed' \in [0..MaxRev -> Bytes]
      /\ \A r \in 0..MaxRev : sealed[r] # 0 => sealed'[r] = sealed[r]
  BY <1>8
<1>10. ExecutionsFit' BY <1>2, <1>9, ExecutionsKept
<1>11. Tables' BY <1>2, <1>4, <1>9 DEF ReleaseInv, Tables
<1>12. ReviewFits' BY <1>2 DEF ReleaseInv, ReviewFits
<1>13. ApprovalsFit'
  BY <1>2 DEF ReleaseInv, ApprovalsFit, LiveApprovalIsCurrent, ApprovedAsReviewed, CURRENT_APPROVAL
<1> QED BY <1>7, <1>10, <1>11, <1>12, <1>13 DEF ReleaseInv

(* approve records what was reviewed, in place of every earlier approval.  *)
LEMMA ApproveKeeps ==
  ASSUME ReleaseInv, NEW p \in Admins, Approve(p)
  PROVE  ReleaseInv'
<1>1. PICK i \in Oks :
        /\ adm[p].pc = "approve" /\ FreeOfRuns(liveRows) /\ approvals[i] = NoApproval
        /\ approvals' = [revoked EXCEPT ![i] =
             [live |-> TRUE, rev |-> adm[p].rev, digest |-> review.digest,
              inst |-> review.inst, man |-> app.man, seen |-> review.man]]
        /\ Adm(p, NoDuty) /\ UNCHANGED <<duty, app, release, revs, dir, sealed, run, review>>
  BY DEF Approve
<1>2. Reviewed(adm[p]) BY <1>1, RequestFits DEF Relies
<1>3. adm' \in [Admins -> Request] /\ OneHolder' /\ RequestsFit'
  BY <1>1, OverKeeps DEF Outside
<1>4. /\ approvals \in [Oks -> Approval] /\ release.rev \in 0..MaxRev /\ review.digest \in Bytes
      /\ review.inst \in 0..MaxInst /\ app.man \in Manifests /\ review.man \in SomeManifest
  BY DEF ReleaseInv, Tables
<1>5. app.man = review.man
  BY <1>2 DEF ReleaseInv, ReviewFits, Reviewed
<1> DEFINE g == [live |-> TRUE, rev |-> adm[p].rev, digest |-> review.digest,
                 inst |-> review.inst, man |-> app.man, seen |-> review.man]
<1>6. /\ g \in Approval /\ g.live /\ g.rev = release.rev /\ g.digest = release.digest
      /\ g.inst = app.inst /\ g.man = app.man /\ g.seen = app.man /\ g.digest # 0
  BY <1>2, <1>4, <1>5 DEF Reviewed, Approval, SomeManifest
<1> HIDE DEF g
<1>7. approvals' = [revoked EXCEPT ![i] = g] BY <1>1 DEF g
<1>8. /\ approvals' \in [Oks -> Approval] /\ approvals'[i] = g
      /\ \A j \in Oks \ {i} : approvals'[j] = revoked[j]
  BY <1>4, <1>6, <1>7, RevokedApprovals
<1>9. approvals[i].digest = 0
  <2>1. NoApproval.digest = 0 BY DEF NoApproval
  <2>2. approvals[i] = NoApproval BY <1>1
  <2> QED BY <2>1, <2>2
<1>10. ExecutionsFit'
  <2>1. \A j \in Oks : approvals[j].digest # 0 =>
          approvals'[j].digest = approvals[j].digest /\ approvals'[j].rev = approvals[j].rev
    BY <1>4, <1>8, <1>9, RevokedApprovals
  <2> QED BY <1>1, <2>1, ExecutionsKept
<1>11. ApprovalsFit'
  <2>1. \A j \in Oks : approvals'[j].live => j = i BY <1>4, <1>8, RevokedApprovals
  <2>2. CURRENT_APPROVAL(i)' BY <1>1, <1>2, <1>6, <1>8 DEF CURRENT_APPROVAL, Reviewed
  <2>3. LiveApprovalIsCurrent' BY <2>1, <2>2 DEF LiveApprovalIsCurrent
  <2>4. ApprovedAsReviewed'
    BY SMTT(30), <1>4, <1>6, <1>8, RevokedApprovals DEF ApprovedAsReviewed, ReleaseInv, ApprovalsFit
  <2>5. \A j \in Oks : approvals'[j].live => approvals'[j].digest # 0 BY <1>6, <1>8, <2>1
  <2> QED BY <2>3, <2>4, <2>5 DEF ApprovalsFit
<1>12. Tables' BY <1>1, <1>3, <1>8 DEF ReleaseInv, Tables
<1>13. ReviewFits' BY <1>1 DEF ReleaseInv, ReviewFits
<1> QED BY <1>3, <1>10, <1>11, <1>12, <1>13 DEF ReleaseInv

(* revoke.                                                                 *)
LEMMA RevokeKeeps ==
  ASSUME ReleaseInv, NEW p \in Admins, Revoke(p)
  PROVE  ReleaseInv'
<1>1. UNCHANGED <<duty, app, release, revs, dir, sealed, run, review>> BY DEF Revoke
<1>2. adm' \in [Admins -> Request] /\ OneHolder' /\ RequestsFit'
  BY OverKeeps DEF Revoke, Outside
<1>3. approvals' \in [Oks -> Approval] /\ ApprovalsFit' /\ ExecutionsFit'
  BY RevocationKeeps DEF Revoke
<1>4. Tables' BY <1>1, <1>2, <1>3 DEF ReleaseInv, Tables
<1>5. ReviewFits' BY <1>1 DEF ReleaseInv, ReviewFits
<1> QED BY <1>2, <1>3, <1>4, <1>5 DEF ReleaseInv

(***************************************************************************)
(* Executions preserve the invariant.                                      *)
(***************************************************************************)
(* An execution changes its own state only.                                *)
LEMMA ExecutionMoves ==
  ASSUME ReleaseInv, NEW e \in Runs, NEW x \in Execution, Run(e, x), ExecutionFits(e)'
  PROVE  ReleaseInv'
<1>1. UNCHANGED <<duty, app, release, revs, dir, sealed, approvals, adm, review>> BY DEF Run
<1>2. run' \in [Runs -> Execution] /\ \A f \in Runs \ {e} : run'[f] = run[f]
  BY DEF Run, ReleaseInv, Tables
<1>3. Tables' BY <1>1, <1>2 DEF ReleaseInv, Tables
<1>4. OneHolder' BY <1>1 DEF ReleaseInv, OneHolder
<1>5. RequestsFit'
  BY SMTT(30), <1>1 DEF ReleaseInv, RequestsFit, Kind, Relies, NoneLive, Reviewed
<1>6. ReviewFits' BY <1>1 DEF ReleaseInv, ReviewFits
<1>7. ApprovalsFit'
  BY <1>1 DEF ReleaseInv, ApprovalsFit, LiveApprovalIsCurrent, ApprovedAsReviewed, CURRENT_APPROVAL
<1>8. \A f \in Runs \ {e} : ExecutionFits(f)'
  BY SMTT(30), <1>1, <1>2 DEF ReleaseInv, ExecutionsFit, ExecutionFits, mine
<1>9. ExecutionsFit' BY <1>8 DEF ExecutionsFit
<1> QED BY <1>3, <1>4, <1>5, <1>6, <1>7, <1>9 DEF ReleaseInv

(* An execution that is over holds nothing.                                *)
LEMMA ExecutionEnds ==
  ASSUME ReleaseInv, NEW e \in Runs, Run(e, NoRun)
  PROVE  ReleaseInv'
<1>1. run'[e] = NoRun BY DEF Run, ReleaseInv, Tables
<1>2. ExecutionFits(e)' BY <1>1, OverRequest DEF ExecutionFits, Armed
<1> QED BY <1>2, OverRequest, ExecutionMoves

(* An execution at its next phase, with no locks.                          *)
LEMMA NextPhase ==
  ASSUME ReleaseInv, NEW e \in Runs, NEW pc \in Phases
  PROVE  /\ to(e, pc) \in Execution /\ to(e, pc).pc = pc /\ to(e, pc).locks = {}
         /\ to(e, pc).ok = run[e].ok /\ to(e, pc).code = run[e].code
         /\ to(e, pc).audited = run[e].audited
BY DEF to, Execution, ReleaseInv, Tables

(* The checks before a process is spawned.                                 *)
LEMMA PreparingKeeps ==
  ASSUME ReleaseInv, NEW e \in Runs,
         Resolve(e) \/ Configure(e) \/ StartExecution(e) \/ VerifyArtifact(e) \/ Recheck(e)
  PROVE  ReleaseInv'
<1>1. run[e] \in Execution /\ ExecutionFits(e) BY DEF ReleaseInv, Tables, ExecutionsFit
<1>2. CASE Resolve(e)
  <2>1. PICK i \in Oks : CURRENT_APPROVAL(i) /\ Run(e, [NoRun EXCEPT !.pc = "config", !.ok = i])
    BY <1>2 DEF Resolve
  <2> DEFINE x == [NoRun EXCEPT !.pc = "config", !.ok = i]
  <2>2. approvals[i].digest # 0
    BY <2>1 DEF CURRENT_APPROVAL, ReleaseInv, ApprovalsFit
  <2>3. x \in Execution /\ x.pc = "config" /\ x.ok = i /\ x.locks = {}
    <3>1. i \in 0..MaxOk BY SMTT(30), ReleaseAssumption DEF Oks
    <3> QED BY <3>1, OverRequest DEF Execution, Phases
  <2> HIDE DEF x
  <2>4. Run(e, x) BY <2>1 DEF x
  <2>5. run'[e] = x /\ UNCHANGED approvals BY <2>4 DEF Run, ReleaseInv, Tables
  <2>6. ExecutionFits(e)' BY <2>2, <2>3, <2>5 DEF ExecutionFits, Armed, mine
  <2> QED BY <2>3, <2>4, <2>6, ExecutionMoves
<1>3. CASE Configure(e)
  <2>1. CASE Run(e, to(e, "slot"))
    <3>1. /\ to(e, "slot") \in Execution /\ to(e, "slot").pc = "slot"
          /\ to(e, "slot").locks = {} /\ to(e, "slot").ok = run[e].ok
      BY SMTT(30), NextPhase DEF Phases
    <3>2. run'[e] = to(e, "slot") /\ UNCHANGED approvals BY <2>1 DEF Run, ReleaseInv, Tables
    <3>3. ExecutionFits(e)'
      BY <1>1, <1>3, <3>1, <3>2 DEF Configure, runAt, ExecutionFits, Armed, mine
    <3> QED BY <2>1, <3>1, <3>3, ExecutionMoves
  <2> QED BY <1>3, <2>1, ExecutionEnds DEF Configure
<1>4. CASE StartExecution(e)
  <2> DEFINE x == [to(e, "artifact") EXCEPT !.audited = TRUE]
  <2>1. CASE Run(e, x)
    <3>1. /\ to(e, "artifact") \in Execution /\ to(e, "artifact").pc = "artifact"
          /\ to(e, "artifact").locks = {} /\ to(e, "artifact").ok = run[e].ok
      BY NextPhase DEF Phases
    <3>2. /\ x \in Execution /\ x.pc = "artifact" /\ x.locks = {} /\ x.ok = run[e].ok
          /\ x.audited
      BY <3>1 DEF Execution
    <3> HIDE DEF x
    <3>3. run'[e] = x /\ UNCHANGED approvals BY <2>1 DEF Run, ReleaseInv, Tables
    <3>4. ExecutionFits(e)'
      BY <1>1, <1>4, <3>2, <3>3 DEF StartExecution, runAt, ExecutionFits, Armed, mine
    <3> QED BY <2>1, <3>2, <3>4, ExecutionMoves
  <2> QED BY <1>4, <2>1, ExecutionEnds DEF StartExecution
<1>5. CASE VerifyArtifact(e)
  <2> DEFINE pc == IF sealed[mine(e).rev] = mine(e).digest THEN "recheck" ELSE "finish"
  <2>1. /\ to(e, pc) \in Execution /\ to(e, pc).pc = pc /\ to(e, pc).locks = {}
        /\ to(e, pc).ok = run[e].ok /\ to(e, pc).audited = run[e].audited
    BY NextPhase DEF Phases
  <2>2. Run(e, to(e, pc)) BY <1>5 DEF VerifyArtifact
  <2>3. run'[e] = to(e, pc) /\ UNCHANGED <<approvals, sealed>>
    BY <2>2 DEF Run, ReleaseInv, Tables
  <2>4. ExecutionFits(e)'
    BY <1>1, <1>5, <2>1, <2>3 DEF VerifyArtifact, runAt, ExecutionFits, Armed, mine
  <2> QED BY <2>1, <2>2, <2>4, ExecutionMoves
<1>6. CASE Recheck(e)
  <2> DEFINE pc == IF CURRENT_APPROVAL(run[e].ok) THEN "spawn" ELSE "finish"
  <2>1. /\ to(e, pc) \in Execution /\ to(e, pc).pc = pc /\ to(e, pc).locks = {}
        /\ to(e, pc).ok = run[e].ok /\ to(e, pc).audited = run[e].audited
    BY NextPhase DEF Phases
  <2>2. Run(e, to(e, pc)) BY <1>6 DEF Recheck
  <2>3. run'[e] = to(e, pc) /\ UNCHANGED <<approvals, sealed>>
    BY <2>2 DEF Run, ReleaseInv, Tables
  <2>4. ExecutionFits(e)'
    BY <1>1, <1>6, <2>1, <2>3 DEF Recheck, runAt, ExecutionFits, Armed, mine
  <2> QED BY <2>1, <2>2, <2>4, ExecutionMoves
<1> QED BY <1>2, <1>3, <1>4, <1>5, <1>6

(* The process runs the artifact that was verified.                        *)
LEMMA SpawnKeeps ==
  ASSUME ReleaseInv, NEW e \in Runs, SpawnApproved(e)
  PROVE  ReleaseInv'
<1>1. run[e] \in Execution /\ ExecutionFits(e) /\ run[e].pc = "spawn"
  BY DEF ReleaseInv, Tables, ExecutionsFit, SpawnApproved, runAt
<1>2. /\ run[e].ok \in Oks /\ mine(e).digest # 0 /\ sealed[mine(e).rev] = mine(e).digest
      /\ run[e].audited
  BY <1>1 DEF ExecutionFits
<1>3. mine(e).digest \in Bytes BY <1>2 DEF mine, ReleaseInv, Tables, Approval
<1> DEFINE x == [to(e, "running") EXCEPT !.code = sealed[mine(e).rev]]
<1>4. /\ to(e, "running") \in Execution /\ to(e, "running").pc = "running"
      /\ to(e, "running").locks = {} /\ to(e, "running").ok = run[e].ok
      /\ to(e, "running").audited = run[e].audited
  BY NextPhase DEF Phases
<1>5. /\ x \in Execution /\ x.pc = "running" /\ x.locks = {} /\ x.ok = run[e].ok
      /\ x.audited = run[e].audited /\ x.code = mine(e).digest
  BY <1>2, <1>3, <1>4 DEF Execution
<1>6. Run(e, x) BY DEF SpawnApproved
<1> HIDE DEF x
<1>7. run'[e] = x /\ UNCHANGED <<approvals, sealed>> BY <1>6 DEF Run, ReleaseInv, Tables
<1>8. ExecutionFits(e)' BY <1>2, <1>5, <1>7 DEF ExecutionFits, Armed, mine
<1> QED BY <1>5, <1>6, <1>8, ExecutionMoves

(* bind_context takes one more row.                                        *)
Bound(e, row, pc) == [run[e] EXCEPT !.pc = pc, !.locks = @ \cup {row}]
LEMMA BoundExecution ==
  ASSUME ReleaseInv, NEW e \in Runs, NEW row \in Rows, NEW pc \in Phases
  PROVE  /\ Bound(e, row, pc) \in Execution /\ Bound(e, row, pc).pc = pc
         /\ Bound(e, row, pc).locks = run[e].locks \cup {row}
         /\ Bound(e, row, pc).ok = run[e].ok /\ Bound(e, row, pc).code = run[e].code
         /\ Bound(e, row, pc).audited = run[e].audited
<1>1. run[e] \in Execution BY DEF ReleaseInv, Tables
<1>2. run[e].locks \cup {row} \in SUBSET Rows BY <1>1 DEF Execution
<1> QED BY <1>1, <1>2 DEF Execution, Bound

(* A transaction gathers its locks; the approval's comes last, and only    *)
(* while the approval is current.                                          *)
LEMMA BindingKeeps ==
  ASSUME ReleaseInv, NEW e \in Runs, BindInstallation(e) \/ BindRelease(e) \/ BindApproval(e)
  PROVE  ReleaseInv'
<1>1. /\ run[e] \in Execution /\ ExecutionFits(e)
      /\ run[e].pc \in {"running", "bindRelease", "bindApproval"}
  BY DEF ReleaseInv, Tables, ExecutionsFit, BindInstallation, BindRelease, BindApproval, Bind, runAt
<1>2. /\ run[e].ok \in Oks /\ mine(e).digest # 0 /\ run[e].audited
      /\ run[e].code = mine(e).digest /\ \A i \in Oks : okRow(i) \notin run[e].locks
  BY <1>1 DEF ExecutionFits, Armed
<1>3. CASE BindInstallation(e) \/ BindRelease(e)
  <2>1. PICK row \in Rows, pc \in {"bindRelease", "bindApproval"} :
          /\ Run(e, Bound(e, row, pc))
          /\ \A i \in Oks : okRow(i) # row
    <3>1. activeRow(mine(e).inst) \in Rows /\ \A i \in Oks : okRow(i) # activeRow(mine(e).inst)
      BY SMTT(30), <1>2 DEF Rows, activeRow, okRow, mine, ReleaseInv, Tables, Approval
    <3>2. releaseRow \in Rows /\ \A i \in Oks : okRow(i) # releaseRow
      BY DEF Rows, releaseRow, okRow
    <3> QED BY <1>3, <3>1, <3>2 DEF BindInstallation, BindRelease, Bind, Bound
  <2> DEFINE x == Bound(e, row, pc)
  <2>2. /\ x \in Execution /\ x.pc = pc /\ x.locks = run[e].locks \cup {row}
        /\ x.ok = run[e].ok /\ x.code = run[e].code /\ x.audited = run[e].audited
    BY SMTT(30), BoundExecution DEF Phases
  <2>3. Run(e, x) BY <2>1
  <2> HIDE DEF x
  <2>4. run'[e] = x /\ UNCHANGED <<approvals, sealed>> BY <2>3 DEF Run, ReleaseInv, Tables
  <2>5. ExecutionFits(e)' BY <1>2, <2>1, <2>2, <2>4 DEF ExecutionFits, Armed, mine
  <2> QED BY <2>2, <2>3, <2>5, ExecutionMoves
<1>4. CASE BindApproval(e) /\ CURRENT_APPROVAL(run[e].ok)
  <2> DEFINE x == Bound(e, okRow(run[e].ok), "inTx")
  <2>1. okRow(run[e].ok) \in Rows BY SMTT(30), <1>2 DEF Rows, okRow, Oks
  <2>2. /\ x \in Execution /\ x.pc = "inTx" /\ x.locks = run[e].locks \cup {okRow(run[e].ok)}
        /\ x.ok = run[e].ok /\ x.code = run[e].code /\ x.audited = run[e].audited
    BY SMTT(30), <2>1, BoundExecution DEF Phases
  <2>3. Run(e, x) BY <1>4 DEF BindApproval, Bind, Bound
  <2> HIDE DEF x
  <2>4. run'[e] = x /\ UNCHANGED <<approvals, sealed>> BY <2>3 DEF Run, ReleaseInv, Tables
  <2>5. mine(e).live BY <1>4 DEF CURRENT_APPROVAL, mine
  <2>6. ExecutionFits(e)' BY <1>2, <2>2, <2>4, <2>5 DEF ExecutionFits, Armed, mine
  <2> QED BY <2>2, <2>3, <2>6, ExecutionMoves
<1>5. CASE BindApproval(e) /\ ~CURRENT_APPROVAL(run[e].ok)
  <2>1. /\ to(e, "running") \in Execution /\ to(e, "running").pc = "running"
        /\ to(e, "running").locks = {} /\ to(e, "running").ok = run[e].ok
        /\ to(e, "running").code = run[e].code /\ to(e, "running").audited = run[e].audited
    BY NextPhase DEF Phases
  <2>2. Run(e, to(e, "running")) BY <1>5 DEF BindApproval
  <2>3. run'[e] = to(e, "running") /\ UNCHANGED <<approvals, sealed>>
    BY <2>2 DEF Run, ReleaseInv, Tables
  <2>4. ExecutionFits(e)' BY <1>2, <2>1, <2>3 DEF ExecutionFits, Armed, mine
  <2> QED BY <2>1, <2>2, <2>4, ExecutionMoves
<1> QED BY <1>3, <1>4, <1>5

(* A transaction commits, the worker is stopped, the execution recorded.   *)
LEMMA EndingKeeps ==
  ASSUME ReleaseInv, NEW e \in Runs, CommitData(e) \/ StopRun(e) \/ FinishExecution(e)
  PROVE  ReleaseInv'
<1>1. CASE CommitData(e) \/ StopRun(e)
  <2>1. run[e] \in Execution /\ ExecutionFits(e) /\ run[e].pc \in Armed
    BY <1>1 DEF ReleaseInv, Tables, ExecutionsFit, CommitData, StopRun, runAt, Armed
  <2>2. PICK pc \in {"running", "finish"} : Run(e, to(e, pc)) BY <1>1 DEF CommitData, StopRun
  <2>3. /\ to(e, pc) \in Execution /\ to(e, pc).pc = pc /\ to(e, pc).locks = {}
        /\ to(e, pc).ok = run[e].ok /\ to(e, pc).code = run[e].code
        /\ to(e, pc).audited = run[e].audited
    BY SMTT(30), NextPhase DEF Phases
  <2>4. run'[e] = to(e, pc) /\ UNCHANGED <<approvals, sealed>>
    BY <2>2 DEF Run, ReleaseInv, Tables
  <2>5. /\ run[e].ok \in Oks /\ mine(e).digest # 0 /\ run[e].audited
        /\ run[e].code = mine(e).digest
    BY <2>1 DEF ExecutionFits, Armed
  <2>6. ExecutionFits(e)' BY <2>3, <2>4, <2>5 DEF ExecutionFits, Armed, mine
  <2> QED BY <2>2, <2>3, <2>6, ExecutionMoves
<1>2. CASE FinishExecution(e) BY <1>2, ExecutionEnds DEF FinishExecution
<1> QED BY <1>1, <1>2

(***************************************************************************)
(* The invariant and what follows from it.                                 *)
(***************************************************************************)
(* Every step of the specification keeps the invariant.                    *)
LEMMA ReleaseStep == ReleaseInv /\ [ReleaseNext]_relVars => ReleaseInv'
<1> SUFFICES ASSUME ReleaseInv, [ReleaseNext]_relVars PROVE ReleaseInv' OBVIOUS
<1>1. ASSUME NEW p \in Admins, Administer(p) PROVE ReleaseInv'
  BY <1>1, AcquireKeeps, FailureKeeps, ReadingKeeps, ReplaceKeeps, RetireKeeps, RegistrationKeeps,
     UninstallKeeps, SwapKeeps, SettleKeeps, InspectKeeps, SealKeeps, ApproveKeeps, RevokeKeeps
  DEF Administer
<1>2. ASSUME NEW e \in Runs, Execute(e) PROVE ReleaseInv'
  BY <1>2, PreparingKeeps, SpawnKeeps, BindingKeeps, EndingKeeps DEF Execute
<1>3. CASE DirChanges
  <2>1. /\ dir' \in Bytes /\ UNCHANGED <<duty, app, release, revs, sealed, approvals, run, review>>
        /\ UNCHANGED adm
    BY <1>3 DEF DirChanges, Bytes
  <2>2. adm' \in [Admins -> Request] BY <2>1 DEF ReleaseInv, Tables
  <2>3. OneHolder' BY <2>1 DEF ReleaseInv, OneHolder
  <2>4. RequestsFit' BY SMTT(30), <2>1 DEF ReleaseInv, RequestsFit, Kind, Relies, NoneLive, Reviewed
  <2> QED BY <2>1, <2>2, <2>3, <2>4, DiskKeeps
<1>4. CASE CoreDies
  <2>1. /\ adm' = [p \in Admins |-> NoDuty] /\ run' = [e \in Runs |-> NoRun]
        /\ UNCHANGED <<duty, app, release, revs, dir, sealed, approvals, review>>
    BY <1>4 DEF CoreDies
  <2>2. Tables' BY <2>1, OverRequest DEF ReleaseInv, Tables
  <2>3. OneHolder' BY <2>1, OverRequest DEF OneHolder, Outside
  <2>4. RequestsFit' BY <2>1, OverRequest DEF RequestsFit, Kind, Relies
  <2>5. ReviewFits' BY <2>1 DEF ReleaseInv, ReviewFits
  <2>6. ApprovalsFit'
    BY <2>1 DEF ReleaseInv, ApprovalsFit, LiveApprovalIsCurrent, ApprovedAsReviewed, CURRENT_APPROVAL
  <2>7. ExecutionsFit' BY <2>1, OverRequest DEF ExecutionsFit, ExecutionFits, Armed
  <2> QED BY <2>2, <2>3, <2>4, <2>5, <2>6, <2>7 DEF ReleaseInv
<1>5. CASE UNCHANGED relVars
  <2>1. UNCHANGED <<duty, app, release, revs, dir, sealed, approvals, run, review, adm>>
    BY <1>5 DEF relVars
  <2>2. adm' \in [Admins -> Request] BY <2>1 DEF ReleaseInv, Tables
  <2>3. OneHolder' BY <2>1 DEF ReleaseInv, OneHolder
  <2>4. RequestsFit' BY <2>1 DEF ReleaseInv, RequestsFit, Kind, Relies, NoneLive, Reviewed
  <2> QED BY <2>1, <2>2, <2>3, <2>4, TablesStay DEF ReleaseInv
<1> QED BY <1>1, <1>2, <1>3, <1>4, <1>5 DEF ReleaseNext

(* The inductive invariant holds of every reachable state.                 *)
THEOREM ReleaseInvariant == ReleaseSpec => []ReleaseInv
BY ReleaseInitial, ReleaseStep, PTL DEF ReleaseSpec

(* The invariant gives each conjunct of ReleaseIsSound.                    *)
LEMMA InvariantIsSound == ReleaseInv => ReleaseIsSound
<1> SUFFICES ASSUME ReleaseInv PROVE ReleaseIsSound OBVIOUS
<1>1. ReleaseTypeOK BY DEF ReleaseInv, Tables, ReleaseTypeOK, Approval, Execution
<1>2. LiveApprovalIsCurrent /\ ApprovedAsReviewed BY DEF ReleaseInv, ApprovalsFit
<1>3. RunsReviewedCode BY DEF ReleaseInv, ExecutionsFit, ExecutionFits, Armed, RunsReviewedCode
<1>4. LocksNeverCross
  <2> SUFFICES ASSUME NEW p \in Admins, NEW e \in Runs, run[e].locks \cap liveRows # {}
               PROVE  adm[p].locks \cap waitsFor(e) = {}
    BY DEF LocksNeverCross
  <2>1. PICK i \in Oks : okRow(i) \in run[e].locks BY DEF liveRows
  <2>2. run[e].pc = "inTx" BY <2>1 DEF ReleaseInv, ExecutionsFit, ExecutionFits
  <2> QED BY <2>2 DEF waitsFor, runAt
<1> QED BY <1>1, <1>2, <1>3, <1>4 DEF ReleaseIsSound

(* From the review to the running process nothing changes hands unseen,    *)
(* and administrators and executions never wait for each other: for any    *)
(* number of both, and of revisions, installations and approvals           *)
(* (approved_actions, worker_manager.rs, worker.rs spawn_worker).          *)
THEOREM ReleaseSound == ReleaseSpec => []ReleaseIsSound
BY ReleaseInvariant, InvariantIsSound, PTL

(* A transaction of an approved action commits only while its approval,    *)
(* its release, its installation and its manifest are the approved ones    *)
(* (bind_context).                                                         *)
THEOREM CommitsOnlyWhileApproved == ReleaseSpec => CommitsWhileApproved
<1>1. ReleaseInv /\ [ReleaseNext]_relVars =>
        [\A e \in Runs : runAt(e, "inTx") /\ run'[e].pc = "running" =>
           CURRENT_APPROVAL(run[e].ok)]_relVars
  <2> SUFFICES ASSUME ReleaseInv, NEW e \in Runs, runAt(e, "inTx")
               PROVE  CURRENT_APPROVAL(run[e].ok)
    OBVIOUS
  <2>1. run[e].ok \in Oks /\ approvals[run[e].ok].live
    BY DEF ReleaseInv, ExecutionsFit, ExecutionFits, runAt, mine
  <2> QED BY <2>1 DEF ReleaseInv, ApprovalsFit, LiveApprovalIsCurrent
<1> QED BY <1>1, ReleaseInvariant, PTL DEF ReleaseSpec, CommitsWhileApproved
=============================================================================

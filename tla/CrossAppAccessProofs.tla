------------------------ MODULE CrossAppAccessProofs ------------------------
(***************************************************************************)
(* Proofs about CrossAppAccess, for any number of requests in flight,      *)
(* grants, publications, installations and mixes of requests.              *)
(***************************************************************************)
EXTENDS CrossAppAccess, NaturalsInduction, WellFoundedInduction, TLAPS

(* Zenon proves every leaf that does not cite SMTT or PTL.                 *)
USE ZenonT(60)

(***************************************************************************)
(* The inductive invariant.  What a request found under a lock stays so    *)
(* until it lets go, because whoever would change it needs that lock in a  *)
(* conflicting mode: the app lock for an installation, the installation's  *)
(* row for its retirement, the lock of a grant or a publication for its    *)
(* row.                                                                    *)
(***************************************************************************)
X(x, r) == <<r, "X">> \in x.holds
S(x, r) == <<r, "S">> \in x.holds

(* Two requests hold the same resource only if both share it.              *)
LocksExclude ==
  \A p, q \in Procs : p # q =>
    \A h \in proc[p].holds, k \in proc[q].holds : h[1] = k[1] => h[2] = "S" /\ k[2] = "S"

(* An active installation has its row in apps.                             *)
ActiveIsThere == \A a \in Apps : inst[a].active => inst[a].row

(* A publication is one that the apps of this behaviour declare.           *)
PubsDeclared == \A u \in Pubs : pubs[u].st # "none" => <<pubs[u].cons, pubs[u].prov>> \in Declared(mix)

Lifecycle == {"install", "uninstall", "workflow"}
Finding == {"resolve1", "resolve2", "find", "resolvePub"}
Reading == {"read1", "read2", "readPub", "lockGrant", "recheck", "provider"}

(* Where a request of each kind may stand.                                 *)
Placed(x) ==
  \/ x.op = "none" /\ x.pc = "idle"
  \/ /\ x.op \in Lifecycle
     /\ x.pc \in {"app", "deactivate", "grants", "cleanup", "callbacks", "register"}
  \/ x.op = "create" /\ x.pc \in {"createApps", "create1", "create2", "matching"}
  \/ x.op \in {"approve", "enable", "disable", "revoke"} /\ x.pc = "transition"
  \/ x.op \in {"approve", "enable", "view"} /\ x.pc = "sweep"
  \/ x.op = "operate" /\ x.pc \in {"sweep", "authorize", "lockGrant", "provider", "audit", "done"}
  \/ x.op = "agent" /\ x.pc \in {"authorizeAgent", "agent", "provider", "audit", "done"}
  \/ x.op = "publish" /\ x.pc \in {"approve1", "approve2", "approval", "supersede"}
  \/ /\ x.op \in {"pubDisable", "pubEnable", "pubRevoke"}
     /\ x.pc \in {"change1", "change2", "changeApproval", "change"}
  \/ x.op = "published" /\ x.pc \in Finding \cup {"sweep", "authorize", "done"} \cup Reading

(* The rows a request names exist.                                         *)
Named(x) ==
  /\ x.op \in {"approve", "enable", "disable", "revoke"} => x.id \in Grants
  /\ x.op \in {"pubDisable", "pubEnable", "pubRevoke"} => x.id \in Pubs /\ x.pub.id = x.id
  /\ x.pc = "supersede" => x.pub.id \in Pubs /\ pubs[x.pub.id].st # "none"
  /\ x.op \in {"operate", "agent"} => x.pub.id = 0
  /\ x.op = "agent" => x.auth.id = 0
  /\ x.op = "operate" /\ x.pc \in {"lockGrant", "provider"} => x.auth.id \in Grants
  /\ x.op \in {"publish", "published"} => <<x.cons, x.prov>> \in Declared(mix)
  /\ x.op = "published" =>
       /\ x.pc \in {"resolvePub", "sweep", "authorize"} \cup Reading =>
            /\ x.pub.id \in Pubs
            /\ pubs[x.pub.id].st # "none" /\ pubs[x.pub.id].cons = x.cons
       /\ x.pc \in Finding \/ (x.pc \in Reading /\ x.cons = x.prov) => x.auth.id = 0
       /\ x.pc \in Reading /\ x.cons # x.prov => x.auth.id \in Grants
       /\ x.pc \in {"sweep", "authorize", "lockGrant", "recheck"} => x.cons # x.prov

(* A result is durable only once it is audited, reads excepted.            *)
Recorded(x) ==
  /\ x.pc \notin {"audit", "done"} => ~x.durable /\ ~x.success
  /\ x.pc = "audit" => x.durable /\ ~x.success /\ ~x.write
  /\ x.pc = "done" => /\ x.answer = "ok" => x.success
                      /\ x.write => (x.durable <=> x.success)

(* Lifecycle and creation hold the locks of their apps, and nobody shares  *)
(* one.                                                                    *)
HoldsApps(x) ==
  /\ \A h \in x.holds : h[1][1] = "app" => h[2] = "X"
  /\ x.op \in Lifecycle /\ x.pc # "app" => X(x, appLock(x.cons))
  /\ x.op = "create" /\ x.pc # "createApps" => X(x, appLock(x.cons)) /\ X(x, appLock(x.prov))

(* What is about to be marked is locked and still live.                    *)
HoldsMarked(x) ==
  /\ \A g \in x.wr : X(x, grantLock(g)) /\ grants[g].st \in Live
  /\ x.pc = "createApps" => x.wr = {}

(* A request that retires an installation misses no grant of it; one that  *)
(* installs has the row in apps; one that creates has both installations.  *)
Retires(x) ==
  /\ x.pc = "grants" =>
       /\ inst[x.cons].active => X(x, instRow(x.cons, inst[x.cons].gen))
       /\ \A g \in Grants : /\ grants[g].st \in Live
                            /\ x.cons \in {grants[g].cons, grants[g].prov}
                            => g \in x.todo \cup x.wr
  /\ x.pc = "cleanup" => ~inst[x.cons].active
  /\ x.pc = "register" => inst[x.cons].row
Creates(x) ==
  /\ x.pc \in {"create2", "matching"} => inst[x.cons].active
  /\ x.pc = "matching" => inst[x.prov].active

(* The authority of an operation is locked and as it was found.            *)
UnderGrant(x) ==
  x.pc = "recheck" \/ (x.pc = "provider" /\ x.auth.id # 0) =>
    /\ X(x, grantLock(x.auth.id)) /\ grants[x.auth.id].st = "active"
    /\ Frozen(x.auth.id, grants[x.auth.id]) = x.auth
Shares(x, a) == inst[a].active /\ S(x, instRow(a, inst[a].gen))
UnderInstallations(x) ==
  /\ x.pc = "read2" => Shares(x, lower(x))
  /\ x.op = "published" /\ x.pc \in {"readPub", "lockGrant", "recheck", "provider"} =>
       /\ Shares(x, x.cons) /\ Shares(x, x.prov)
       /\ x.pub.cg = inst[x.cons].gen /\ x.pub.pg = inst[x.prov].gen
  /\ x.op = "agent" /\ x.pc = "provider" =>
       Shares(x, x.prov) /\ inst[x.prov].gen = x.auth.pg
UnderPublication(x) ==
  x.op = "published" /\ x.pc \in {"lockGrant", "recheck", "provider"} =>
    /\ S(x, pubLock(x.pub.id)) /\ pubs[x.pub.id].st = "active"
    /\ Frozen(x.pub.id, pubs[x.pub.id]) = x.pub

Fits(x) ==
  /\ Placed(x) /\ Named(x) /\ Recorded(x) /\ HoldsApps(x) /\ HoldsMarked(x)
  /\ Retires(x) /\ Creates(x)
  /\ UnderGrant(x) /\ UnderInstallations(x) /\ UnderPublication(x)

AccessInv ==
  /\ AccessTypeOK /\ LiveGrantsAreCurrent /\ ActiveIsThere /\ PubsDeclared /\ LocksExclude
  /\ \A p \in Procs : Fits(proc[p])

(***************************************************************************)
(* Locks.                                                                  *)
(***************************************************************************)
(* The least id of a set of grants is in the set, so lock_grants locks     *)
(* what it means to.                                                       *)
LEMMA NextInTodo ==
  ASSUME NEW T \in SUBSET Grants, T # {}
  PROVE  Min(T) \in T
<1>1. T \subseteq Nat
  BY SMTT(30), AccessAssumption DEF Grants
<1>2. PICK m \in T : \A k \in T : <<k, m>> \notin OpToRel(<, Nat)
  BY <1>1, WFMin, NatLessThanWellFounded
<1>3. \A k \in T : ~(k < m)
  BY <1>1, <1>2 DEF OpToRel
<1>4. \A k \in T : m =< k
  BY SMTT(30), <1>1, <1>3
<1>. QED
  BY <1>4 DEF Min

(* The lock a request asks for, by where it stands: an app, an active      *)
(* installation, the ones a publication froze, an approval, a publication, *)
(* a grant, or none.                                                       *)
LEMMA WantApp ==
  ASSUME NEW p \in Procs, proc[p].pc = "app"
  PROVE  Want(p) = {<<appLock(proc[p].cons), "X">>}
BY DEF Want

Active(a, m) == IF inst[a].active THEN {<<instRow(a, inst[a].gen), m>>} ELSE {}

LEMMA WantRow ==
  ASSUME NEW p \in Procs
  PROVE  /\ proc[p].pc \in {"deactivate", "create1"} => Want(p) = Active(proc[p].cons, "X")
         /\ proc[p].pc = "create2" => Want(p) = Active(proc[p].prov, "X")
         /\ proc[p].pc \in {"approve1", "resolve1", "read1"} => Want(p) = Active(lower(proc[p]), "S")
         /\ proc[p].pc \in {"approve2", "resolve2", "read2"} => Want(p) = Active(upper(proc[p]), "S")
         /\ proc[p].pc = "agent" => Want(p) = Active(proc[p].prov, "S")
BY DEF Want, Active

LEMMA WantFrozen ==
  ASSUME NEW p \in Procs, NEW a, a = IF proc[p].pc = "change1" THEN lower(proc[p]) ELSE upper(proc[p]),
         proc[p].pc \in {"change1", "change2"}
  PROVE  Want(p) = {<<instRow(a, genOf(pubs[proc[p].id], a)), "S">>}
BY DEF Want

LEMMA WantApproval ==
  ASSUME NEW p \in Procs, proc[p].pc \in {"approval", "changeApproval"}
  PROVE  Want(p) = {<<<<"approval", proc[p].cons, proc[p].pub.cg>>, "X">>}
BY DEF Want

LEMMA WantPub ==
  ASSUME NEW p \in Procs
  PROVE  /\ proc[p].pc \in {"supersede", "change"} => Want(p) = {<<pubLock(proc[p].pub.id), "X">>}
         /\ proc[p].pc \in {"resolvePub", "readPub"} => Want(p) = {<<pubLock(proc[p].pub.id), "S">>}
BY DEF Want

LEMMA WantGrant ==
  ASSUME NEW p \in Procs
  PROVE  /\ proc[p].pc \in {"sweep", "matching", "grants"} =>
              Want(p) = IF proc[p].todo # {} THEN {<<grantLock(nextOf(proc[p])), "X">>} ELSE {}
         /\ proc[p].pc = "lockGrant" => Want(p) = {<<grantLock(proc[p].auth.id), "X">>}
         /\ proc[p].pc = "transition" => Want(p) = {<<grantLock(proc[p].id), "X">>}
BY DEF Want

LEMMA WantNone ==
  ASSUME NEW p \in Procs,
         proc[p].pc \in {"idle", "done", "cleanup", "callbacks", "register", "createApps",
                         "authorize", "authorizeAgent", "provider", "audit", "find", "recheck"}
  PROVE  Want(p) = {}
BY DEF Want

(* A request asks only for locks that exist, and never shares an app.      *)
LEMMA WantType ==
  ASSUME AccessInv, NEW p \in Procs
  PROVE  /\ Want(p) \subseteq Resources \X Modes
         /\ \A w \in Want(p) : w[1][1] = "app" => w[2] = "X"
<1>. DEFINE x == proc[p]
<1>1. /\ x \in Requests /\ Placed(x) /\ Named(x)
      /\ inst \in [Apps -> [gen : 0..MaxGen, active : BOOLEAN, row : BOOLEAN]]
      /\ pubs \in Rows(Pubs)
  BY DEF AccessInv, AccessTypeOK, Fits
<1>2. /\ x.pc \in Places /\ x.cons \in Apps /\ x.prov \in Apps /\ x.pub.cg \in 0..MaxGen
      /\ x.todo \in SUBSET Grants
  BY <1>1 DEF Requests, Auths
<1>3. lower(x) \in Apps /\ upper(x) \in Apps
  BY <1>2 DEF lower, upper
<1>4. \A a \in Apps : inst[a].gen \in 0..MaxGen
  BY <1>1
<1>5. \A u \in Pubs, a \in Apps : genOf(pubs[u], a) \in 0..MaxGen
  BY <1>1 DEF Rows, Row, genOf
<1>6. /\ \A a \in Apps : appLock(a) \in Resources
      /\ \A a \in Apps, n \in 0..MaxGen :
           instRow(a, n) \in Resources /\ <<"approval", a, n>> \in Resources
      /\ \A g \in Grants : grantLock(g) \in Resources
      /\ \A u \in Pubs : pubLock(u) \in Resources
  BY SMTT(30) DEF Resources, appLock, instRow, grantLock, pubLock
<1>7. /\ x.pc \in {"change1", "change2"} => x.id \in Pubs
      /\ x.pc \in {"supersede", "change", "resolvePub", "readPub"} => x.pub.id \in Pubs
      /\ x.pc = "lockGrant" => x.auth.id \in Grants
      /\ x.pc = "transition" => x.id \in Grants
  BY <1>1 DEF Placed, Named, Lifecycle, Reading, Finding
<1>8. x.todo # {} => nextOf(x) \in Grants
  BY <1>2, NextInTodo DEF nextOf
<1>. DEFINE Good(w) == w \in Resources \X Modes /\ (w[1][1] = "app" => w[2] = "X")
<1>9. \A a \in Apps : Good(<<appLock(a), "X">>)
  BY <1>6 DEF appLock, Modes
<1>10. \A a \in Apps, n \in 0..MaxGen, m \in Modes : Good(<<instRow(a, n), m>>)
  BY <1>6 DEF instRow
<1>11. \A a \in Apps, n \in 0..MaxGen : Good(<<<<"approval", a, n>>, "X">>)
  BY <1>6 DEF Modes
<1>12. \A g \in Grants : Good(<<grantLock(g), "X">>)
  BY <1>6 DEF grantLock, Modes
<1>13. \A u \in Pubs, m \in Modes : Good(<<pubLock(u), m>>)
  BY <1>6 DEF pubLock
<1>. HIDE DEF x, Good
<1>14. \A w \in Want(p) : Good(w)
  <2>1. ASSUME NEW a \in Apps, NEW m \in Modes, Want(p) = Active(a, m)
        PROVE  \A w \in Want(p) : Good(w)
    BY SMTT(30), <2>1, <1>4, <1>10 DEF Active
  <2>2. "X" \in Modes /\ "S" \in Modes
    BY DEF Modes
  <2>3. CASE x.pc \in {"deactivate", "create1"}
    BY <2>1, <2>2, <2>3, <1>2, WantRow DEF x
  <2>4. CASE x.pc = "create2"
    BY <2>1, <2>2, <2>4, <1>2, WantRow DEF x
  <2>5. CASE x.pc = "agent"
    BY <2>1, <2>2, <2>5, <1>2, WantRow DEF x
  <2>6. CASE x.pc \in {"approve1", "resolve1", "read1"}
    BY <2>1, <2>2, <2>6, <1>3, WantRow DEF x
  <2>7. CASE x.pc \in {"approve2", "resolve2", "read2"}
    BY <2>1, <2>2, <2>7, <1>3, WantRow DEF x
  <2>8. CASE x.pc = "app"
    BY <2>8, <1>2, <1>9, WantApp DEF x
  <2>9. CASE x.pc \in {"change1", "change2"}
    <3>. DEFINE a == IF x.pc = "change1" THEN lower(x) ELSE upper(x)
    <3>1. a \in Apps
      BY <1>3
    <3>2. Want(p) = {<<instRow(a, genOf(pubs[x.id], a)), "S">>}
      BY <2>9, WantFrozen DEF x
    <3>. HIDE DEF a
    <3>3. genOf(pubs[x.id], a) \in 0..MaxGen
      BY <1>5, <1>7, <2>9, <3>1
    <3>. QED
      BY <1>10, <2>2, <3>1, <3>2, <3>3
  <2>10. CASE x.pc \in {"approval", "changeApproval"}
    BY <2>10, <1>2, <1>11, WantApproval DEF x
  <2>11. CASE x.pc \in {"supersede", "change"}
    BY SMTT(30), <2>11, <2>2, <1>7, <1>13, WantPub DEF x
  <2>12. CASE x.pc \in {"resolvePub", "readPub"}
    BY <2>12, <2>2, <1>7, <1>13, WantPub DEF x
  <2>13. CASE x.pc \in {"sweep", "matching", "grants"}
    BY <2>13, <1>8, <1>12, WantGrant DEF x
  <2>14. CASE x.pc \in {"lockGrant", "transition"}
    BY <2>14, <1>7, <1>12, WantGrant DEF x
  <2>15. CASE x.pc \in {"idle", "done", "cleanup", "callbacks", "register", "createApps",
                        "authorize", "authorizeAgent", "provider", "audit", "find", "recheck"}
    BY <2>15, WantNone DEF x
  <2>. QED
    BY <1>2, <2>3, <2>4, <2>5, <2>6, <2>7, <2>8, <2>9, <2>10, <2>11, <2>12, <2>13, <2>14, <2>15
    DEF Places
<1>. QED
  BY <1>14 DEF Good

(* No other request holds h in a way that excludes it.                     *)
Free(p, h) == \A q \in Procs : q # p =>
                \A k \in proc[q].holds : h[1] = k[1] => h[2] = "S" /\ k[2] = "S"

(* What a request is granted is free, and so is what it holds already.     *)
LEMMA GrantedIsFree ==
  ASSUME AccessInv, NEW p \in Procs
  PROVE  /\ \A h \in proc[p].holds : Free(p, h)
         /\ Granted(p) => \A w \in Want(p) : Free(p, w)
<1>1. \A h \in proc[p].holds : Free(p, h)
  BY DEF AccessInv, LocksExclude, Free
<1>2. ASSUME Granted(p), NEW w \in Want(p), NEW q \in Procs, q # p, NEW k \in proc[q].holds,
             w[1] = k[1]
      PROVE  w[2] = "S" /\ k[2] = "S"
  <2>1. ~(k[2] = "X" \/ w[2] = "X")
    BY <1>2 DEF Granted, Blockers
  <2>2. w[2] \in Modes
    BY <1>2, WantType
  <2>3. k \in Resources \X Modes
    BY <1>2 DEF AccessInv, AccessTypeOK, Requests
  <2>. QED
    BY <2>1, <2>2, <2>3 DEF Modes
<1>. QED
  BY <1>1, <1>2 DEF Free

(* Locks that are free when they are taken keep the requests apart.        *)
LEMMA LocksStep ==
  ASSUME AccessInv, NEW p \in Procs, NEW x, proc' = [proc EXCEPT ![p] = x],
         \A h \in x.holds : Free(p, h)
  PROVE  LocksExclude'
<1>1. proc \in [Procs -> Requests]
  BY DEF AccessInv, AccessTypeOK
<1>2. proc'[p] = x /\ \A q \in Procs : q # p => proc'[q] = proc[q]
  BY <1>1
<1>3. ASSUME NEW q \in Procs, NEW r \in Procs, q # r,
             NEW h \in proc'[q].holds, NEW k \in proc'[r].holds, h[1] = k[1]
      PROVE  h[2] = "S" /\ k[2] = "S"
  <2>1. CASE q = p
    BY SMTT(30), <2>1, <1>2, <1>3 DEF Free
  <2>2. CASE r = p
    BY SMTT(30), <2>2, <1>2, <1>3 DEF Free
  <2>3. CASE q # p /\ r # p
    BY SMTT(30), <2>3, <1>2, <1>3 DEF AccessInv, LocksExclude
  <2>. QED
    BY <2>1, <2>2, <2>3
<1>. QED
  BY <1>3 DEF LocksExclude

(***************************************************************************)
(* Requests: what the steps that every action is made of do to one.        *)
(***************************************************************************)
(* A request keeps everything but its place, its locks and its work list.  *)
Same(x, y) ==
  /\ x.op = y.op /\ x.cons = y.cons /\ x.prov = y.prov /\ x.id = y.id
  /\ x.auth = y.auth /\ x.pub = y.pub /\ x.write = y.write
  /\ x.durable = y.durable /\ x.success = y.success

(* took adds the lock asked for.                                           *)
LEMMA TookIs ==
  ASSUME AccessInv, NEW p \in Procs, NEW pc \in Places
  PROVE  /\ took(p, pc) \in Requests /\ Same(took(p, pc), proc[p])
         /\ took(p, pc).pc = pc /\ took(p, pc).holds = proc[p].holds \cup Want(p)
         /\ took(p, pc).todo = proc[p].todo /\ took(p, pc).wr = proc[p].wr
         /\ took(p, pc).answer = proc[p].answer
<1>1. proc[p] \in Requests
  BY DEF AccessInv, AccessTypeOK
<1>2. Want(p) \subseteq Resources \X Modes
  BY WantType
<1>. QED
  BY <1>1, <1>2 DEF took, Requests, Same

(* ended keeps the app locks of a lifecycle request and nothing else.      *)
LEMMA EndedIs ==
  ASSUME NEW x \in Requests, NEW pc \in Places
  PROVE  /\ ended(x, pc) \in Requests /\ Same(ended(x, pc), x)
         /\ ended(x, pc).pc = pc /\ ended(x, pc).todo = {} /\ ended(x, pc).wr = {}
         /\ ended(x, pc).holds = {h \in x.holds : h[1][1] = "app" /\ x.op # "create"}
         /\ ended(x, pc).answer = x.answer
BY DEF ended, Requests, Same

(* A request that answers an operation lets go of everything; the others   *)
(* are over.                                                               *)
LEMMA AnsweredIs ==
  ASSUME NEW x \in Requests, NEW a \in {"ok", "error"}
  PROVE  LET y == answered(x, a) IN
         /\ y \in Requests
         /\ x.op \in {"operate", "agent", "published"} =>
              /\ Same(y, x) /\ y.pc = "done" /\ y.answer = a
              /\ y.todo = {} /\ y.wr = {} /\ y.holds = {}
         /\ x.op \notin {"operate", "agent", "published"} => y = Idle
<1>1. "done" \in Places
  BY DEF Places
<1>2. Idle \in Requests
  BY SMTT(30), AccessAssumption DEF Idle, NoAuth, Requests, Auths, Ops, Places, Apps
<1>3. ended(x, "done") \in Requests /\ Same(ended(x, "done"), x)
      /\ ended(x, "done").todo = {} /\ ended(x, "done").wr = {} /\ ended(x, "done").pc = "done"
  BY <1>1, EndedIs
<1>4. CASE x.op \in {"operate", "agent", "published"}
  <2>. DEFINE e == ended(x, "done")
  <2>1. answered(x, a) = [e EXCEPT !.holds = {}, !.answer = a]
    BY <1>4 DEF answered
  <2>. HIDE DEF e
  <2>2. e \in Requests /\ Same(e, x) /\ e.todo = {} /\ e.wr = {} /\ e.pc = "done"
    BY <1>3 DEF e
  <2>3. [e EXCEPT !.holds = {}, !.answer = a] \in Requests
    BY <2>2 DEF Requests
  <2>. QED
    BY SMTT(30), <1>4, <2>1, <2>2, <2>3 DEF Requests, Same
<1>5. CASE x.op \notin {"operate", "agent", "published"}
  BY <1>2, <1>5 DEF answered
<1>. QED
  BY <1>4, <1>5

(* A request that is over relies on nothing.                               *)
LEMMA IdleFits == Idle \in Requests /\ Fits(Idle) /\ Idle.holds = {}
<1>1. Idle \in Requests
  BY SMTT(30), AccessAssumption DEF Idle, NoAuth, Requests, Auths, Ops, Places, Apps
<1>2. /\ Idle.op = "none" /\ Idle.pc = "idle" /\ Idle.holds = {} /\ Idle.wr = {}
      /\ Idle.durable = FALSE /\ Idle.success = FALSE
  BY DEF Idle
<1>3. Placed(Idle) /\ Named(Idle) /\ Recorded(Idle)
  BY <1>2 DEF Placed, Named, Recorded
<1>4. HoldsApps(Idle) /\ HoldsMarked(Idle) /\ Retires(Idle) /\ Creates(Idle)
  BY <1>2 DEF HoldsApps, HoldsMarked, Retires, Creates, Lifecycle
<1>5. UnderGrant(Idle) /\ UnderInstallations(Idle) /\ UnderPublication(Idle)
  BY <1>2 DEF UnderGrant, UnderInstallations, UnderPublication
<1>. QED
  BY <1>1, <1>2, <1>3, <1>4, <1>5 DEF Fits

(* An answer relies on nothing but its own record.                         *)
LEMMA DoneFits ==
  ASSUME NEW y, y.op \in {"operate", "agent", "published"}, y.pc = "done",
         y.holds = {}, y.wr = {}, Named(y), Recorded(y)
  PROVE  Fits(y)
<1>1. Placed(y)
  BY DEF Placed
<1>2. HoldsApps(y) /\ HoldsMarked(y) /\ Retires(y) /\ Creates(y)
  BY DEF HoldsApps, HoldsMarked, Retires, Creates, Lifecycle
<1>3. UnderGrant(y) /\ UnderInstallations(y) /\ UnderPublication(y)
  BY DEF UnderGrant, UnderInstallations, UnderPublication
<1>. QED
  BY <1>1, <1>2, <1>3 DEF Fits

(* A step that changes one request and no table.                           *)
LEMMA OnlyStep ==
  ASSUME AccessInv, NEW p \in Procs, NEW x \in Requests, Only(p, x), Fits(x),
         \A h \in x.holds : Free(p, h)
  PROVE  AccessInv'
<1>1. /\ proc' = [proc EXCEPT ![p] = x] /\ mix' = mix
      /\ inst' = inst /\ grants' = grants /\ pubs' = pubs
  BY DEF Only, To
<1>2. proc \in [Procs -> Requests]
  BY DEF AccessInv, AccessTypeOK
<1>3. AccessTypeOK'
  BY <1>1, <1>2 DEF AccessInv, AccessTypeOK
<1>4. LiveGrantsAreCurrent' /\ ActiveIsThere' /\ PubsDeclared'
  BY <1>1 DEF AccessInv, LiveGrantsAreCurrent, ActiveIsThere, PubsDeclared
<1>5. LocksExclude'
  BY <1>1, LocksStep
<1>6. ASSUME NEW q \in Procs
      PROVE  Fits(proc[q])'
  <2>1. Fits(proc'[q])
    BY <1>1, <1>2 DEF AccessInv
  <2>2. Placed(proc[q])' /\ Recorded(proc[q])' /\ HoldsApps(proc[q])'
    BY <2>1 DEF Fits, Placed, Recorded, HoldsApps, X
  <2>3. Named(proc[q])'
    BY <1>1, <2>1 DEF Fits, Named
  <2>4. HoldsMarked(proc[q])' /\ Creates(proc[q])'
    BY <1>1, <2>1 DEF Fits, HoldsMarked, Creates, X
  <2>5. Retires(proc[q])'
    BY <1>1, <2>1 DEF Fits, Retires, X
  <2>6. UnderGrant(proc[q])' /\ UnderPublication(proc[q])'
    BY <1>1, <2>1 DEF Fits, UnderGrant, UnderPublication, X, S
  <2>7. UnderInstallations(proc[q])'
    BY <1>1, <2>1 DEF Fits, UnderInstallations, Shares, S
  <2>. QED
    BY <2>2, <2>3, <2>4, <2>5, <2>6, <2>7 DEF Fits
<1>. QED
  BY <1>3, <1>4, <1>5, <1>6 DEF AccessInv

(* A step that takes the lock asked for and goes on.                       *)
LEMMA TakeStep ==
  ASSUME AccessInv, NEW p \in Procs, NEW pc \in Places, Granted(p), Only(p, took(p, pc)),
         Fits(took(p, pc))
  PROVE  AccessInv'
<1>1. took(p, pc) \in Requests /\ took(p, pc).holds = proc[p].holds \cup Want(p)
  BY TookIs
<1>2. \A h \in took(p, pc).holds : Free(p, h)
  BY <1>1, GrantedIsFree
<1>. QED
  BY <1>1, <1>2, OnlyStep

(* A step that ends a request with an answer.                              *)
LEMMA AnswerStep ==
  ASSUME AccessInv, NEW p \in Procs, NEW x \in Requests, NEW a \in {"ok", "error"},
         Only(p, answered(x, a)), Named(x), x.pc # "done",
         x.op \in {"operate", "agent", "published"} =>
           (a = "ok" => x.success) /\ (x.write => (x.durable <=> x.success))
  PROVE  AccessInv'
<1>. DEFINE y == answered(x, a)
<1>1. y \in Requests
  BY AnsweredIs
<1>2. CASE x.op \in {"operate", "agent", "published"}
  <2>1. Same(y, x) /\ y.pc = "done" /\ y.answer = a /\ y.holds = {} /\ y.wr = {}
    BY <1>2, AnsweredIs
  <2>. HIDE DEF y
  <2>2. Named(y)
    BY <1>2, <2>1 DEF Named, Same, Reading, Finding
  <2>3. Recorded(y)
    BY <1>2, <2>1 DEF Recorded, Same
  <2>4. Fits(y)
    BY SMTT(30), <1>2, <2>1, <2>2, <2>3, DoneFits DEF Same
  <2>. QED
    BY <1>1, <2>1, <2>4, OnlyStep DEF y
<1>3. CASE x.op \notin {"operate", "agent", "published"}
  <2>1. y = Idle
    BY <1>3, AnsweredIs
  <2>. QED
    BY <1>1, <2>1, IdleFits, OnlyStep
<1>. QED
  BY <1>2, <1>3

(* A request that fails anywhere leaves the tables and the other requests  *)
(* as they are, and a mutation that fails is neither durable nor audited.  *)
LEMMA FailsStep ==
  ASSUME AccessInv, NEW p \in Procs, Fails(p), proc[p].pc # "done"
  PROVE  AccessInv'
<1>1. proc[p] \in Requests /\ Named(proc[p]) /\ Recorded(proc[p])
  BY DEF AccessInv, AccessTypeOK, Fits
<1>2. proc[p].write => (proc[p].durable <=> proc[p].success)
  BY <1>1 DEF Recorded
<1>3. Only(p, answered(proc[p], "error"))
  BY DEF Fails
<1>. QED
  BY <1>1, <1>2, <1>3, AnswerStep

(***************************************************************************)
(* Steps that take locks or move on.                                       *)
(***************************************************************************)
(* The places where a request relies on what it has locked or found.       *)
Relying == {"grants", "cleanup", "register", "create2", "matching", "read2", "readPub", "lockGrant",
            "recheck", "provider"}

(* Elsewhere it relies on nothing in the tables but what it will mark.     *)
LEMMA QuietFits ==
  ASSUME NEW y, y.pc \notin Relying, Placed(y), Named(y), Recorded(y), HoldsApps(y), HoldsMarked(y)
  PROVE  Fits(y)
<1>1. Retires(y) /\ Creates(y)
  BY DEF Retires, Creates, Relying
<1>2. UnderGrant(y) /\ UnderInstallations(y) /\ UnderPublication(y)
  BY DEF UnderGrant, UnderInstallations, UnderPublication, Relying
<1>. QED
  BY <1>1, <1>2 DEF Fits

(* A request on its way has recorded nothing, and a lock more takes none   *)
(* of its locks away.                                                      *)
LEMMA TookKeeps ==
  ASSUME AccessInv, NEW p \in Procs, NEW pc \in Places, pc \notin {"audit", "done", "createApps"},
         proc[p].pc \notin {"audit", "done", "createApps"}
  PROVE  Recorded(took(p, pc)) /\ HoldsApps(took(p, pc)) /\ HoldsMarked(took(p, pc))
<1>. DEFINE y == took(p, pc)
            x == proc[p]
<1>1. /\ Same(y, x) /\ y.pc = pc /\ y.holds = x.holds \cup Want(p) /\ y.wr = x.wr
  BY TookIs
<1>2. Recorded(x) /\ HoldsApps(x) /\ HoldsMarked(x) /\ Placed(x)
  BY DEF AccessInv, Fits
<1>3. \A w \in Want(p) : w[1][1] = "app" => w[2] = "X"
  BY WantType
<1>4. x.pc = "app" => <<appLock(x.cons), "X">> \in Want(p)
  BY WantApp
<1>. HIDE DEF x, y
<1>5. x.pc \notin {"audit", "done", "createApps"}
  BY DEF x
<1>6. Recorded(y)
  BY <1>1, <1>2, <1>5 DEF Recorded, Same
<1>7. HoldsApps(y)
  BY <1>1, <1>2, <1>3, <1>4, <1>5 DEF HoldsApps, Same, X
<1>8. HoldsMarked(y)
  BY <1>1, <1>2, <1>5 DEF HoldsMarked, X
<1>. QED
  BY <1>6, <1>7, <1>8 DEF y

(* A lock more for a request that relies on nothing yet.                   *)
LEMMA QuietTake ==
  ASSUME AccessInv, NEW p \in Procs, NEW pc \in Places \ Relying, pc \notin {"audit", "done", "createApps"},
         proc[p].pc \notin {"audit", "done", "createApps"}, Granted(p), Only(p, took(p, pc)),
         Placed(took(p, pc)), Named(took(p, pc))
  PROVE  AccessInv'
<1>1. took(p, pc).pc = pc
  BY TookIs
<1>2. Fits(took(p, pc))
  BY <1>1, TookKeeps, QuietFits
<1>. QED
  BY <1>2, TakeStep

(* HoldApp: install, uninstall or the deletion of a workflow has the lock. *)
LEMMA HoldAppStep ==
  ASSUME AccessInv, NEW p \in Procs, HoldApp(p)
  PROVE  AccessInv'
<1>1. /\ proc[p].pc = "app" /\ Granted(p) /\ Placed(proc[p]) /\ Named(proc[p])
      /\ proc[p] \in Requests
  BY DEF HoldApp, at, AccessInv, AccessTypeOK, Fits
<1>2. proc[p].op \in Lifecycle
  BY <1>1 DEF Placed, Finding, Reading
<1>3. ASSUME NEW pc \in {"deactivate", "callbacks"}, Only(p, took(p, pc))
      PROVE  AccessInv'
  <2>1. pc \in Places \ Relying /\ pc \notin {"audit", "done", "createApps"}
    BY <1>3 DEF Places, Relying
  <2>2. Same(took(p, pc), proc[p]) /\ took(p, pc).pc = pc
    BY <2>1, TookIs
  <2>3. Placed(took(p, pc)) /\ Named(took(p, pc))
    BY <1>2, <1>3, <2>2 DEF Placed, Named, Same, Lifecycle
  <2>. QED
    BY <1>1, <1>3, <2>1, <2>3, QuietTake
<1>4. ASSUME Only(p, answered(proc[p], "ok"))
      PROVE  AccessInv'
  <2>1. proc[p].op \notin {"operate", "agent", "published"}
    BY <1>2 DEF Lifecycle
  <2>. QED
    BY <1>1, <1>4, <2>1, AnswerStep
<1>. QED
  BY <1>3, <1>4 DEF HoldApp

(* LockConsumer: the consumer's installation is locked and active.         *)
LEMMA LockConsumerStep ==
  ASSUME AccessInv, NEW p \in Procs, LockConsumer(p)
  PROVE  AccessInv'
<1>. DEFINE y == took(p, "create2")
<1>1. /\ proc[p].pc = "create1" /\ Granted(p) /\ Placed(proc[p])
  BY DEF LockConsumer, at, AccessInv, Fits
<1>2. proc[p].op = "create"
  BY <1>1 DEF Placed, Finding, Reading
<1>3. CASE Only(p, y) /\ inst[proc[p].cons].active
  <2>1. "create2" \in Places
    BY DEF Places
  <2>2. Same(y, proc[p]) /\ y.pc = "create2"
    BY <2>1, TookIs
  <2>3. Recorded(y) /\ HoldsApps(y) /\ HoldsMarked(y)
    BY <1>1, <2>1, TookKeeps
  <2>4. Placed(y) /\ Named(y) /\ Retires(y) /\ Creates(y)
    BY <1>2, <1>3, <2>2 DEF Placed, Named, Same, Retires, Creates
  <2>5. UnderGrant(y) /\ UnderInstallations(y) /\ UnderPublication(y)
    BY <1>2, <2>2 DEF UnderGrant, UnderInstallations, UnderPublication, Same
  <2>. QED
    BY <1>1, <1>3, <2>1, <2>3, <2>4, <2>5, TakeStep DEF Fits
<1>4. CASE Fails(p)
  BY <1>1, <1>4, FailsStep
<1>. QED
  BY <1>3, <1>4 DEF LockConsumer

(* Deactivate: every grant of the installation that may be used is on the  *)
(* list, and nobody can add one while the request holds the app lock.      *)
LEMMA DeactivateStep ==
  ASSUME AccessInv, NEW p \in Procs, Deactivate(p)
  PROVE  AccessInv'
<1>. DEFINE x == proc[p]
            T == {g \in Grants : grants[g].st \in Live /\ x.cons \in {grants[g].cons, grants[g].prov}}
            t == took(p, "grants")
            y == [t EXCEPT !.todo = T]
<1>1. x.pc = "deactivate" /\ Granted(p) /\ Placed(x) /\ Named(x) /\ Only(p, y)
  BY DEF Deactivate, at, AccessInv, Fits
<1>2. x.op \in Lifecycle
  BY <1>1 DEF Placed, Finding, Reading
<1>3. "grants" \in Places
  BY DEF Places
<1>4. /\ t \in Requests /\ Same(t, x) /\ t.pc = "grants" /\ t.holds = x.holds \cup Want(p)
      /\ t.wr = x.wr
  BY <1>3, TookIs
<1>5. Recorded(t) /\ HoldsApps(t) /\ HoldsMarked(t)
  BY <1>1, <1>3, TookKeeps
<1>6. inst[x.cons].active => <<instRow(x.cons, inst[x.cons].gen), "X">> \in Want(p)
  BY <1>1, WantRow DEF Active
<1>7. T \in SUBSET Grants
  OBVIOUS
<1>. HIDE DEF t
<1>8. y \in Requests
  BY <1>4, <1>7 DEF Requests
<1>9. Same(y, x) /\ y.pc = "grants" /\ y.holds = t.holds /\ y.wr = t.wr /\ y.todo = T
  BY <1>4, <1>8 DEF Requests, Same
<1>10. Same(y, t)
  BY <1>4, <1>9 DEF Same
<1>. HIDE DEF y, T
<1>11. Placed(y) /\ Named(y) /\ Recorded(y)
  BY <1>2, <1>4, <1>5, <1>9, <1>10 DEF Placed, Named, Recorded, Same, Lifecycle
<1>12. HoldsApps(y) /\ HoldsMarked(y)
  BY <1>4, <1>5, <1>9, <1>10 DEF HoldsApps, HoldsMarked, X, Same
<1>13. Retires(y)
  <2>1. inst[y.cons].active => X(y, instRow(y.cons, inst[y.cons].gen))
    BY <1>4, <1>6, <1>9 DEF X, Same
  <2>2. \A g \in Grants : grants[g].st \in Live /\ y.cons \in {grants[g].cons, grants[g].prov}
                          => g \in y.todo
    BY <1>9 DEF T, Same
  <2>. QED
    BY <1>9, <2>1, <2>2 DEF Retires
<1>14. Creates(y) /\ UnderGrant(y) /\ UnderInstallations(y) /\ UnderPublication(y)
  BY <1>9 DEF Creates, UnderGrant, UnderInstallations, UnderPublication
<1>15. \A h \in y.holds : Free(p, h)
  BY <1>1, <1>4, <1>9, GrantedIsFree
<1>. QED
  BY <1>1, <1>8, <1>11, <1>12, <1>13, <1>14, <1>15, OnlyStep DEF Fits

(* LockProvider: both installations are locked and active.                 *)
LEMMA LockProviderStep ==
  ASSUME AccessInv, NEW p \in Procs, LockProvider(p)
  PROVE  AccessInv'
<1>. DEFINE x == proc[p]
            T == {g \in Overdue : Matches(grants[g], x) /\ Current(grants[g])}
            t == took(p, "matching")
            y == [t EXCEPT !.todo = T]
<1>1. x.pc = "create2" /\ Granted(p) /\ Placed(x) /\ Named(x) /\ Creates(x)
  BY DEF LockProvider, at, AccessInv, Fits
<1>2. x.op = "create"
  BY <1>1 DEF Placed, Finding, Reading
<1>3. CASE inst[x.prov].active /\ Only(p, y)
  <2>1. "matching" \in Places
    BY DEF Places
  <2>2. /\ t \in Requests /\ Same(t, x) /\ t.pc = "matching" /\ t.holds = x.holds \cup Want(p)
        /\ t.wr = x.wr
    BY <2>1, TookIs
  <2>3. Recorded(t) /\ HoldsApps(t) /\ HoldsMarked(t)
    BY <1>1, <2>1, TookKeeps
  <2>4. T \in SUBSET Grants
    BY DEF Overdue
  <2>. HIDE DEF t
  <2>5. y \in Requests
    BY <2>2, <2>4 DEF Requests
  <2>6. Same(y, x) /\ y.pc = "matching" /\ y.holds = t.holds /\ y.wr = t.wr
    BY <2>2, <2>5 DEF Requests, Same
  <2>7. Same(y, t)
    BY <2>2, <2>6 DEF Same
  <2>. HIDE DEF y, T
  <2>8. Placed(y) /\ Named(y) /\ Recorded(y)
    BY <1>2, <2>2, <2>3, <2>6, <2>7 DEF Placed, Named, Recorded, Same
  <2>9. HoldsApps(y) /\ HoldsMarked(y)
    BY <2>2, <2>3, <2>6, <2>7 DEF HoldsApps, HoldsMarked, X, Same
  <2>10. Creates(y)
    BY <1>1, <1>3, <2>6 DEF Creates, Same
  <2>11. Retires(y) /\ UnderGrant(y) /\ UnderInstallations(y) /\ UnderPublication(y)
    BY <2>6 DEF Retires, UnderGrant, UnderInstallations, UnderPublication
  <2>12. \A h \in y.holds : Free(p, h)
    BY <1>1, <2>2, <2>6, GrantedIsFree
  <2>. QED
    BY <1>3, <2>5, <2>8, <2>9, <2>10, <2>11, <2>12, OnlyStep DEF Fits
<1>4. CASE Fails(p)
  BY <1>1, <1>4, FailsStep
<1>. QED
  BY <1>3, <1>4 DEF LockProvider

(* NextGrant: a grant found live under its lock is marked, and what is     *)
(* taken off the list of a retirement without being marked is dead.        *)
LEMMA NextGrantStep ==
  ASSUME AccessInv, NEW p \in Procs, NextGrant(p)
  PROVE  AccessInv'
<1>. DEFINE x == proc[p]
            g == nextOf(x)
            hit == grants[g].st \in Live /\ (x.pc = "grants" \/ Lapsed(grants[g]))
            T == x.todo \ {g}
            W == IF hit THEN x.wr \cup {g} ELSE x.wr
            t == took(p, x.pc)
            y == [t EXCEPT !.todo = T, !.wr = W]
<1>1. /\ x.pc \in {"sweep", "matching", "grants"} /\ x.todo # {} /\ Granted(p)
      /\ Placed(x) /\ Named(x) /\ Retires(x) /\ Creates(x) /\ x \in Requests
  BY DEF NextGrant, AccessInv, AccessTypeOK, Fits
<1>2. x.pc \in Places /\ x.todo \in SUBSET Grants /\ x.wr \in SUBSET Grants
  BY <1>1 DEF Requests
<1>3. g \in Grants
  BY <1>1, <1>2, NextInTodo DEF nextOf
<1>4. /\ t \in Requests /\ Same(t, x) /\ t.pc = x.pc /\ t.holds = x.holds \cup Want(p)
      /\ t.wr = x.wr /\ t.todo = x.todo
  BY <1>2, TookIs
<1>5. Recorded(t) /\ HoldsApps(t) /\ HoldsMarked(t)
  BY <1>1, <1>2, TookKeeps
<1>6. <<grantLock(g), "X">> \in Want(p)
  BY <1>1, WantGrant
<1>7. T \in SUBSET Grants /\ W \in SUBSET Grants
  BY <1>2, <1>3
<1>8. Only(p, y)
  BY <1>4 DEF NextGrant
<1>. HIDE DEF t, T, W
<1>9. y \in Requests
  BY <1>4, <1>7 DEF Requests
<1>10. Same(y, x) /\ y.pc = x.pc /\ y.holds = t.holds /\ y.wr = W /\ y.todo = T
  BY <1>4, <1>9 DEF Requests, Same
<1>11. Same(y, t)
  BY <1>4, <1>10 DEF Same
<1>. HIDE DEF y, x, g
<1>12. Placed(y) /\ Named(y) /\ Recorded(y)
  <2>1. Placed(y)
    BY <1>1, <1>10 DEF Placed, Same
  <2>2. Named(y)
    BY <1>1, <1>10 DEF Named, Same
  <2>3. Recorded(y)
    BY <1>1, <1>4, <1>5, <1>10, <1>11 DEF Recorded, Same
  <2>. QED
    BY <2>1, <2>2, <2>3
<1>13. HoldsApps(y)
  BY <1>4, <1>5, <1>10, <1>11 DEF HoldsApps, X, Same
<1>14. HoldsMarked(y)
  BY <1>1, <1>4, <1>5, <1>6, <1>10 DEF HoldsMarked, X, W
<1>15. Retires(y)
  <2>1. x.pc = "grants" =>
          \A i \in Grants : grants[i].st \in Live /\ x.cons \in {grants[i].cons, grants[i].prov}
                            => i \in T \cup W
    BY <1>1 DEF Retires, T, W
  <2>2. x.pc = "grants" /\ inst[x.cons].active => X(y, instRow(x.cons, inst[x.cons].gen))
    BY <1>1, <1>4, <1>10 DEF Retires, X
  <2>. QED
    BY <1>1, <1>10, <2>1, <2>2 DEF Retires, Same
<1>16. Creates(y)
  BY <1>1, <1>10 DEF Creates, Same
<1>17. UnderGrant(y) /\ UnderInstallations(y) /\ UnderPublication(y)
  BY <1>1, <1>10 DEF UnderGrant, UnderInstallations, UnderPublication
<1>18. \A h \in y.holds : Free(p, h)
  BY <1>1, <1>4, <1>10, GrantedIsFree DEF x
<1>. QED
  BY <1>8, <1>9, <1>12, <1>13, <1>14, <1>15, <1>16, <1>17, <1>18, OnlyStep DEF Fits

(* LockBothApps: creation goes on only when both app locks were free.      *)
LEMMA LockBothAppsStep ==
  ASSUME AccessInv, NEW p \in Procs, LockBothApps(p)
  PROVE  AccessInv'
<1>. DEFINE x == proc[p]
            held == {<<appLock(x.cons), "X">>, <<appLock(x.prov), "X">>}
            y == [x EXCEPT !.holds = held, !.pc = "create1"]
<1>1. /\ x.pc = "createApps" /\ Only(p, y) /\ x \in Requests
      /\ \A q \in Procs \ {p} : proc[q].holds \cap held = {}
      /\ Placed(x) /\ Named(x) /\ Recorded(x) /\ HoldsMarked(x)
  BY DEF LockBothApps, AccessInv, AccessTypeOK, Fits
<1>2. x.op = "create" /\ x.cons \in Apps /\ x.prov \in Apps
  BY <1>1 DEF Placed, Finding, Reading, Requests
<1>3. held \subseteq Resources \X Modes
  BY SMTT(30), <1>2 DEF Resources, Modes, appLock
<1>4. y \in Requests
  BY <1>1, <1>3 DEF Requests, Places
<1>5. Same(y, x) /\ y.pc = "create1" /\ y.holds = held /\ y.wr = x.wr
  BY <1>1, <1>4 DEF Requests, Same
<1>6. \A h \in held : Free(p, h)
  <2>. SUFFICES ASSUME NEW h \in held, NEW q \in Procs, q # p, NEW k \in proc[q].holds, h[1] = k[1]
                PROVE  FALSE
    BY DEF Free
  <2>1. k \in Resources \X Modes /\ HoldsApps(proc[q])
    BY DEF AccessInv, AccessTypeOK, Requests, Fits
  <2>2. h[1][1] = "app" /\ h[2] = "X" /\ h = <<h[1], h[2]>>
    BY SMTT(30) DEF appLock
  <2>3. k[2] = "X"
    BY <2>1, <2>2 DEF HoldsApps
  <2>4. k = h
    BY SMTT(30), <2>1, <2>2, <2>3
  <2>. QED
    BY <1>1, <2>4
<1>7. HoldsApps(y) /\ HoldsMarked(y)
  BY SMTT(30), <1>1, <1>2, <1>5 DEF HoldsApps, HoldsMarked, X, appLock, Same
<1>. HIDE DEF y
<1>8. Placed(y) /\ Named(y) /\ Recorded(y)
  BY <1>1, <1>2, <1>5 DEF Placed, Named, Recorded, Same
<1>9. Fits(y)
  BY <1>5, <1>7, <1>8, QuietFits DEF Relying
<1>. QED
  BY <1>1, <1>4, <1>5, <1>6, <1>9, OnlyStep

(***************************************************************************)
(* Operations under a grant and an agent's access.                         *)
(***************************************************************************)
(* A row of a table freezes into an authority.                             *)
LEMMA FrozenType ==
  ASSUME AccessInv
  PROVE  /\ \A g \in Grants : Frozen(g, grants[g]) \in Auths /\ Frozen(g, grants[g]).id = g
         /\ \A u \in Pubs : Frozen(u, pubs[u]) \in Auths /\ Frozen(u, pubs[u]).id = u
<1>1. grants \in Rows(Grants) /\ pubs \in Rows(Pubs)
  BY DEF AccessInv, AccessTypeOK
<1>2. Grants \subseteq Nat /\ Pubs \subseteq Nat
  BY SMTT(30), AccessAssumption DEF Grants, Pubs
<1>. QED
  BY <1>1, <1>2 DEF Rows, Row, Frozen, Auths

(* Authorize: an open grant is chosen, and will be locked.                 *)
LEMMA AuthorizeStep ==
  ASSUME AccessInv, NEW p \in Procs, Authorize(p)
  PROVE  AccessInv'
<1>. DEFINE x == proc[p]
<1>1. /\ x.pc = "authorize" /\ x.op = "operate" /\ x \in Requests
      /\ Named(x) /\ Recorded(x) /\ HoldsApps(x) /\ HoldsMarked(x)
  BY DEF Authorize, at, AccessInv, AccessTypeOK, Fits
<1>2. ASSUME NEW g \in Grants, Only(p, [x EXCEPT !.auth = Frozen(g, grants[g]), !.pc = "lockGrant"])
      PROVE  AccessInv'
  <2>. DEFINE y == [x EXCEPT !.auth = Frozen(g, grants[g]), !.pc = "lockGrant"]
  <2>1. y \in Requests
    BY <1>1, FrozenType DEF Requests, Places
  <2>2. /\ y.op = x.op /\ y.pub = x.pub /\ y.cons = x.cons /\ y.prov = x.prov /\ y.id = x.id
        /\ y.pc = "lockGrant" /\ y.auth.id = g /\ y.holds = x.holds /\ y.wr = x.wr
        /\ y.durable = x.durable /\ y.success = x.success
    BY <1>1, <2>1, FrozenType DEF Requests
  <2>. HIDE DEF y
  <2>3. Placed(y) /\ Named(y) /\ Recorded(y)
    BY <1>1, <2>2 DEF Placed, Named, Recorded
  <2>4. HoldsApps(y) /\ HoldsMarked(y)
    BY <1>1, <2>2 DEF HoldsApps, HoldsMarked, X, Lifecycle
  <2>5. Retires(y) /\ Creates(y) /\ UnderGrant(y) /\ UnderInstallations(y) /\ UnderPublication(y)
    BY <1>1, <2>2 DEF Retires, Creates, UnderGrant, UnderInstallations, UnderPublication
  <2>6. \A h \in y.holds : Free(p, h)
    BY <2>2, GrantedIsFree
  <2>. QED
    BY <1>2, <2>1, <2>3, <2>4, <2>5, <2>6, OnlyStep DEF Fits, y
<1>3. CASE Fails(p)
  BY <1>1, <1>3, FailsStep
<1>. QED
  BY <1>2, <1>3 DEF Authorize, OpenGrants

(* AuthorizePublished: the grant a read across apps needs besides.         *)
LEMMA AuthorizePublishedStep ==
  ASSUME AccessInv, NEW p \in Procs, AuthorizePublished(p)
  PROVE  AccessInv'
<1>. DEFINE x == proc[p]
<1>1. /\ x.pc = "authorize" /\ x.op = "published" /\ x \in Requests
      /\ Named(x) /\ Recorded(x) /\ HoldsApps(x) /\ HoldsMarked(x)
  BY DEF AuthorizePublished, at, AccessInv, AccessTypeOK, Fits
<1>2. ASSUME NEW g \in Grants, Only(p, [x EXCEPT !.auth = Frozen(g, grants[g]), !.pc = "read1"])
      PROVE  AccessInv'
  <2>. DEFINE y == [x EXCEPT !.auth = Frozen(g, grants[g]), !.pc = "read1"]
  <2>1. y \in Requests
    BY <1>1, FrozenType DEF Requests, Places
  <2>2. /\ y.op = x.op /\ y.pub = x.pub /\ y.cons = x.cons /\ y.prov = x.prov /\ y.id = x.id
        /\ y.pc = "read1" /\ y.auth.id = g /\ y.holds = x.holds /\ y.wr = x.wr
        /\ y.durable = x.durable /\ y.success = x.success
    BY <1>1, <2>1, FrozenType DEF Requests
  <2>. HIDE DEF y
  <2>3. Placed(y) /\ Recorded(y)
    BY <1>1, <2>2 DEF Placed, Recorded, Reading
  <2>4. Named(y)
    BY <1>1, <2>2 DEF Named, Reading, Finding
  <2>5. HoldsApps(y) /\ HoldsMarked(y)
    BY <1>1, <2>2 DEF HoldsApps, HoldsMarked, X, Lifecycle
  <2>6. Fits(y)
    BY <2>2, <2>3, <2>4, <2>5, QuietFits DEF Relying
  <2>7. \A h \in y.holds : Free(p, h)
    BY <2>2, GrantedIsFree
  <2>. QED
    BY <1>2, <2>1, <2>6, <2>7, OnlyStep DEF y
<1>3. CASE Fails(p)
  BY <1>1, <1>3, FailsStep
<1>. QED
  BY <1>2, <1>3 DEF AuthorizePublished, OpenGrants

(* AuthorizeAgent: the installation whose types were read is remembered.   *)
LEMMA AuthorizeAgentStep ==
  ASSUME AccessInv, NEW p \in Procs, AuthorizeAgent(p)
  PROVE  AccessInv'
<1>. DEFINE x == proc[p]
            n == inst[x.prov].gen
            y == [x EXCEPT !.auth.pg = n, !.pc = "agent"]
<1>1. /\ x.pc = "authorizeAgent" /\ x \in Requests /\ Placed(x)
      /\ Named(x) /\ Recorded(x) /\ HoldsApps(x) /\ HoldsMarked(x)
      /\ inst \in [Apps -> [gen : 0..MaxGen, active : BOOLEAN, row : BOOLEAN]]
  BY DEF AuthorizeAgent, at, AccessInv, AccessTypeOK, Fits
<1>2. x.op = "agent" /\ x.prov \in Apps /\ x.auth \in Auths
  BY <1>1 DEF Placed, Finding, Reading, Requests
<1>3. CASE Only(p, y)
  <2>1. n \in 0..MaxGen
    BY <1>1, <1>2
  <2>. HIDE DEF n
  <2>2. [x.auth EXCEPT !.pg = n] \in Auths /\ [x.auth EXCEPT !.pg = n].id = x.auth.id
    BY <1>2, <2>1 DEF Auths
  <2>3. y \in Requests
    BY <1>1, <2>2 DEF Requests, Places
  <2>4. /\ y.op = x.op /\ y.pub = x.pub /\ y.cons = x.cons /\ y.prov = x.prov /\ y.id = x.id
        /\ y.pc = "agent" /\ y.auth.id = x.auth.id /\ y.holds = x.holds /\ y.wr = x.wr
        /\ y.durable = x.durable /\ y.success = x.success
    BY <1>1, <2>2, <2>3 DEF Requests
  <2>. HIDE DEF y
  <2>5. Placed(y) /\ Named(y) /\ Recorded(y)
    BY <1>1, <1>2, <2>4 DEF Placed, Named, Recorded
  <2>6. HoldsApps(y) /\ HoldsMarked(y)
    BY <1>1, <1>2, <2>4 DEF HoldsApps, HoldsMarked, X, Lifecycle
  <2>7. Fits(y)
    BY <2>4, <2>5, <2>6, QuietFits DEF Relying
  <2>8. \A h \in y.holds : Free(p, h)
    BY <2>4, GrantedIsFree
  <2>. QED
    BY <1>3, <2>3, <2>7, <2>8, OnlyStep
<1>4. CASE Fails(p)
  BY <1>1, <1>4, FailsStep
<1>. QED
  BY <1>3, <1>4 DEF AuthorizeAgent

(* LockInstallation: the provider's installation is shared and is the one  *)
(* the agent was authorized on.                                            *)
LEMMA LockInstallationStep ==
  ASSUME AccessInv, NEW p \in Procs, LockInstallation(p)
  PROVE  AccessInv'
<1>. DEFINE x == proc[p]
            y == took(p, "provider")
<1>1. x.pc = "agent" /\ Granted(p) /\ Placed(x) /\ Named(x)
  BY DEF LockInstallation, at, AccessInv, Fits
<1>2. x.op = "agent"
  BY <1>1 DEF Placed, Finding, Reading
<1>3. CASE inst[x.prov].active /\ inst[x.prov].gen = x.auth.pg /\ Only(p, y)
  <2>1. "provider" \in Places
    BY DEF Places
  <2>2. Same(y, x) /\ y.pc = "provider" /\ y.holds = x.holds \cup Want(p)
    BY <2>1, TookIs
  <2>3. Recorded(y) /\ HoldsApps(y) /\ HoldsMarked(y)
    BY <1>1, <2>1, TookKeeps
  <2>4. Want(p) = {<<instRow(x.prov, inst[x.prov].gen), "S">>}
    BY <1>1, <1>3, WantRow DEF Active
  <2>. HIDE DEF y
  <2>5. Placed(y) /\ Named(y)
    BY <1>1, <1>2, <2>2 DEF Placed, Named, Same
  <2>6. Retires(y) /\ Creates(y) /\ UnderGrant(y) /\ UnderPublication(y)
    BY <1>1, <1>2, <2>2 DEF Retires, Creates, UnderGrant, UnderPublication, Named, Same
  <2>7. UnderInstallations(y)
    BY <1>2, <1>3, <2>2, <2>4 DEF UnderInstallations, Shares, S, Same
  <2>. QED
    BY <1>1, <1>3, <2>1, <2>3, <2>5, <2>6, <2>7, TakeStep DEF Fits, y
<1>4. CASE Fails(p)
  BY <1>1, <1>4, FailsStep
<1>. QED
  BY <1>3, <1>4 DEF LockInstallation, Installed

(* LockGrant: the grant is locked and is the one that was chosen.          *)
LEMMA LockGrantStep ==
  ASSUME AccessInv, NEW p \in Procs, LockGrant(p)
  PROVE  AccessInv'
<1>. DEFINE x == proc[p]
            pc == IF x.op = "operate" THEN "provider" ELSE "recheck"
            y == took(p, pc)
<1>1. /\ x.pc = "lockGrant" /\ Granted(p) /\ Placed(x) /\ Named(x)
      /\ UnderInstallations(x) /\ UnderPublication(x)
  BY DEF LockGrant, at, AccessInv, Fits
<1>2. x.op \in {"operate", "published"}
  BY <1>1 DEF Placed, Finding, Lifecycle
<1>3. CASE GrantValid(x) /\ Only(p, y)
  <2>1. pc \in Places /\ pc \notin {"audit", "done", "createApps"}
    BY DEF Places
  <2>2. Same(y, x) /\ y.pc = pc /\ y.holds = x.holds \cup Want(p)
    BY <2>1, TookIs
  <2>3. Recorded(y) /\ HoldsApps(y) /\ HoldsMarked(y)
    BY <1>1, <2>1, TookKeeps
  <2>4. <<grantLock(x.auth.id), "X">> \in Want(p)
    BY <1>1, WantGrant
  <2>. HIDE DEF y
  <2>5. Placed(y) /\ Named(y)
    <3>1. CASE x.op = "operate"
      BY <1>1, <2>2, <3>1 DEF Placed, Named, Same
    <3>2. CASE x.op = "published"
      BY <1>1, <2>2, <3>2 DEF Placed, Named, Same, Reading, Finding
    <3>. QED
      BY <1>2, <3>1, <3>2
  <2>6. Retires(y) /\ Creates(y)
    BY <2>2 DEF Retires, Creates
  <2>7. UnderGrant(y)
    BY <1>3, <2>2, <2>4 DEF UnderGrant, GrantValid, X, Same
  <2>8. UnderInstallations(y)
    BY <1>1, <1>2, <2>2 DEF UnderInstallations, Shares, S, Same
  <2>9. UnderPublication(y)
    BY <1>1, <1>2, <2>2 DEF UnderPublication, S, Same
  <2>. QED
    BY <1>1, <1>3, <2>1, <2>3, <2>5, <2>6, <2>7, <2>8, <2>9, TakeStep DEF Fits, y
<1>4. CASE Fails(p)
  BY <1>1, <1>4, FailsStep
<1>. QED
  BY <1>3, <1>4 DEF LockGrant

(* Commit: a mutation is durable with its success audit, a read before it. *)
LEMMA CommitStep ==
  ASSUME AccessInv, NEW p \in Procs, Commit(p)
  PROVE  AccessInv'
<1>. DEFINE x == proc[p]
            d == [x EXCEPT !.durable = TRUE]
            s == [d EXCEPT !.success = TRUE]
<1>1. /\ x.pc = "provider" /\ x.op # "published" /\ x \in Requests /\ Placed(x) /\ Named(x)
      /\ Recorded(x)
  BY DEF Commit, at, AccessInv, AccessTypeOK, Fits, Requests
<1>2. x.op \in {"operate", "agent"}
  BY <1>1 DEF Placed, Lifecycle, Finding
<1>3. d \in Requests /\ d.write = x.write
  BY <1>1 DEF Requests
<1>4. /\ d.op = x.op /\ d.pub = x.pub /\ d.cons = x.cons /\ d.prov = x.prov /\ d.id = x.id
      /\ d.auth = x.auth /\ d.pc = x.pc /\ d.holds = x.holds /\ d.durable = TRUE
      /\ d.success = x.success
  BY <1>1 DEF Requests
<1>5. \/ d.write /\ \E a \in {"ok", "error"} : Only(p, answered(s, a))
      \/ ~d.write /\ Only(p, ended(d, "audit"))
  BY DEF Commit
<1>. HIDE DEF d
<1>6. ASSUME NEW a \in {"ok", "error"}, Only(p, answered(s, a))
      PROVE  AccessInv'
  <2>1. s \in Requests
    BY <1>3 DEF Requests
  <2>2. /\ s.op = x.op /\ s.pub = x.pub /\ s.cons = x.cons /\ s.prov = x.prov /\ s.id = x.id
        /\ s.auth = x.auth /\ s.pc = x.pc /\ s.durable = TRUE /\ s.success = TRUE
    BY <1>3, <1>4 DEF Requests
  <2>. HIDE DEF s
  <2>3. Named(s)
    BY <1>1, <2>2 DEF Named
  <2>. QED
    BY <1>1, <1>6, <2>1, <2>2, <2>3, AnswerStep
<1>7. ASSUME ~d.write, Only(p, ended(d, "audit"))
      PROVE  AccessInv'
  <2>. DEFINE y == ended(d, "audit")
  <2>1. "audit" \in Places
    BY DEF Places
  <2>2. /\ y \in Requests /\ Same(y, d) /\ y.pc = "audit" /\ y.wr = {}
        /\ y.holds = {h \in d.holds : h[1][1] = "app" /\ d.op # "create"}
    BY SMTT(30), <1>3, <2>1, EndedIs
  <2>. HIDE DEF y
  <2>3. \A h \in y.holds : h \in x.holds
    BY <1>4, <2>2
  <2>4. Placed(y) /\ Named(y) /\ Recorded(y)
    <3>1. /\ y.op = x.op /\ y.pub = x.pub /\ y.auth = x.auth /\ y.pc = "audit"
          /\ y.durable = TRUE /\ y.success = x.success /\ y.write = d.write
      BY <1>4, <2>2 DEF Same
    <3>2. Named(y)
      BY <1>1, <1>2, <3>1 DEF Named
    <3>. QED
      BY <1>1, <1>2, <1>7, <3>1, <3>2 DEF Placed, Recorded
  <2>5. HoldsApps(y) /\ HoldsMarked(y)
    <3>1. HoldsApps(x)
      BY DEF AccessInv, Fits
    <3>. QED
      BY <1>2, <1>4, <2>2, <2>3, <3>1 DEF HoldsApps, HoldsMarked, Lifecycle, Same
  <2>6. Fits(y)
    BY <2>2, <2>4, <2>5, QuietFits DEF Relying
  <2>7. \A h \in y.holds : Free(p, h)
    BY <2>3, GrantedIsFree
  <2>. QED
    BY <1>7, <2>2, <2>6, <2>7, OnlyStep DEF y
<1>. QED
  BY <1>5, <1>6, <1>7

(* CommitPublished and AuditRead: the success audit precedes the answer.   *)
LEMMA AuditStep ==
  ASSUME AccessInv, NEW p \in Procs, CommitPublished(p) \/ AuditRead(p)
  PROVE  AccessInv'
<1>. DEFINE x == proc[p]
<1>1. x \in Requests /\ Placed(x) /\ Named(x) /\ Recorded(x)
  BY DEF AccessInv, AccessTypeOK, Fits
<1>2. ASSUME NEW y \in Requests, NEW a \in {"ok", "error"}, Only(p, answered(y, a)),
             y.op = x.op, y.pub = x.pub, y.cons = x.cons, y.prov = x.prov, y.id = x.id,
             y.auth = x.auth, y.pc = x.pc, y.durable = TRUE, y.success = TRUE, x.pc # "done"
      PROVE  AccessInv'
  <2>1. Named(y)
    BY <1>1, <1>2 DEF Named
  <2>. QED
    BY <1>2, <2>1, AnswerStep
<1>3. CASE CommitPublished(p)
  <2>1. PICK a \in {"ok", "error"} :
          Only(p, answered([x EXCEPT !.durable = TRUE, !.success = TRUE], a))
    BY <1>3 DEF CommitPublished
  <2>2. x.pc = "provider"
    BY <1>3 DEF CommitPublished, at
  <2>. DEFINE y == [x EXCEPT !.durable = TRUE, !.success = TRUE]
  <2>3. /\ y \in Requests
        /\ y.op = x.op /\ y.pub = x.pub /\ y.cons = x.cons /\ y.prov = x.prov /\ y.id = x.id
        /\ y.auth = x.auth /\ y.pc = x.pc /\ y.durable = TRUE /\ y.success = TRUE
    BY <1>1 DEF Requests
  <2>. HIDE DEF y
  <2>. QED
    BY <1>2, <2>1, <2>2, <2>3 DEF y
<1>4. CASE AuditRead(p)
  <2>1. Only(p, answered([x EXCEPT !.success = TRUE], "ok")) /\ x.pc = "audit"
    BY <1>4 DEF AuditRead, at
  <2>. DEFINE y == [x EXCEPT !.success = TRUE]
  <2>2. x.durable = TRUE
    BY <1>1, <2>1 DEF Recorded, Requests
  <2>3. /\ y \in Requests
        /\ y.op = x.op /\ y.pub = x.pub /\ y.cons = x.cons /\ y.prov = x.prov /\ y.id = x.id
        /\ y.auth = x.auth /\ y.pc = x.pc /\ y.durable = TRUE /\ y.success = TRUE
    BY <1>1, <2>2 DEF Requests
  <2>. HIDE DEF y
  <2>. QED
    BY <1>2, <2>1, <2>3 DEF y
<1>. QED
  BY <1>3, <1>4

(***************************************************************************)
(* Publications.                                                           *)
(***************************************************************************)
(* ShareRow: the row of an active installation is shared.                  *)
LEMMA ShareRowStep ==
  ASSUME AccessInv, NEW p \in Procs, ShareRow(p)
  PROVE  AccessInv'
<1>. DEFINE x == proc[p]
            next == [approve1 |-> "approve2", approve2 |-> "approval", resolve1 |-> "resolve2",
                     resolve2 |-> "find", read1 |-> "read2", read2 |-> "readPub"]
            app == IF x.pc \in {"approve1", "resolve1", "read1"} THEN lower(x) ELSE upper(x)
            same == /\ x.pub.cg = inst[x.cons].gen /\ inst[x.cons].active
                    /\ x.pub.pg = inst[x.prov].gen /\ inst[x.prov].active
<1>1. /\ x.pc \in {"approve1", "approve2", "resolve1", "resolve2", "read1", "read2"} /\ Granted(p)
      /\ \/ inst[app].active /\ (x.pc \in {"approve2", "read2"} => same) /\ Only(p, took(p, next[x.pc]))
         \/ Fails(p)
  BY DEF ShareRow
<1>2. x \in Requests /\ Placed(x) /\ Named(x) /\ UnderInstallations(x)
  BY DEF AccessInv, AccessTypeOK, Fits
<1>3. ASSUME NEW pc \in Places, pc \in {"approve2", "approval", "resolve2", "find"},
             x.op \in {"publish", "published"}, x.pc \notin Reading,
             x.op = "publish" => pc \in {"approve2", "approval"},
             x.op = "published" => pc \in {"resolve2", "find"} /\ x.pc \in Finding,
             Only(p, took(p, pc))
      PROVE  AccessInv'
  <2>. DEFINE y == took(p, pc)
  <2>1. Same(y, x) /\ y.pc = pc
    BY TookIs
  <2>2. pc \notin Relying /\ pc \notin {"audit", "done", "createApps"}
    BY <1>3 DEF Relying
  <2>. HIDE DEF y
  <2>3. Placed(y)
    BY <1>3, <2>1 DEF Placed, Same, Finding
  <2>4. Named(y)
    BY <1>2, <1>3, <2>1 DEF Named, Same, Finding, Reading
  <2>. QED
    BY <1>1, <1>3, <2>2, <2>3, <2>4, QuietTake DEF y
<1>4. {"approve2", "approval", "resolve2", "find", "read2", "readPub"} \subseteq Places
  BY DEF Places
<1>5. /\ x.pc \in {"approve1", "approve2"} => x.op = "publish"
      /\ x.pc \in {"resolve1", "resolve2", "read1", "read2"} => x.op = "published"
  BY <1>2 DEF Placed, Finding, Reading, Lifecycle
<1>6. CASE x.pc \in {"approve1", "approve2", "resolve1", "resolve2"} /\ Only(p, took(p, next[x.pc]))
  <2>1. /\ next["approve1"] = "approve2" /\ next["approve2"] = "approval"
        /\ next["resolve1"] = "resolve2" /\ next["resolve2"] = "find"
    OBVIOUS
  <2>. HIDE DEF next
  <2>2. next[x.pc] \in Places /\ next[x.pc] \in {"approve2", "approval", "resolve2", "find"}
    BY <1>4, <1>6, <2>1
  <2>3. /\ x.op = "publish" => next[x.pc] \in {"approve2", "approval"}
        /\ x.op = "published" => next[x.pc] \in {"resolve2", "find"} /\ x.pc \in Finding
        /\ x.op \in {"publish", "published"} /\ x.pc \notin Reading
    BY <1>5, <1>6, <2>1 DEF Finding, Reading
  <2>. QED
    BY <1>3, <1>6, <2>2, <2>3
<1>7. CASE x.pc = "read1" /\ inst[app].active /\ Only(p, took(p, next[x.pc]))
  <2>. DEFINE y == took(p, "read2")
  <2>1. x.op = "published" /\ inst[lower(x)].active /\ next["read1"] = "read2"
    BY <1>5, <1>7
  <2>. HIDE DEF next
  <2>. Only(p, y)
    BY <1>7, <2>1
  <2>2. Same(y, x) /\ y.pc = "read2" /\ y.holds = x.holds \cup Want(p)
    BY <1>4, TookIs
  <2>3. Recorded(y) /\ HoldsApps(y) /\ HoldsMarked(y)
    BY <1>4, <1>7, TookKeeps
  <2>4. Want(p) = {<<instRow(lower(x), inst[lower(x)].gen), "S">>}
    BY <1>7, <2>1, WantRow DEF Active
  <2>. HIDE DEF y
  <2>5. Placed(y)
    BY <2>1, <2>2 DEF Placed, Reading, Same
  <2>6. Named(y)
    BY <1>2, <1>7, <2>1, <2>2 DEF Named, Reading, Finding, Same
  <2>7. lower(y) = lower(x)
    BY <2>2 DEF lower, Same
  <2>8. UnderInstallations(y)
    BY <2>1, <2>2, <2>4, <2>7 DEF UnderInstallations, Shares, S
  <2>9. Retires(y) /\ Creates(y) /\ UnderGrant(y) /\ UnderPublication(y)
    BY <2>2 DEF Retires, Creates, UnderGrant, UnderPublication
  <2>. QED
    BY <1>1, <1>4, <2>1, <2>3, <2>5, <2>6, <2>8, <2>9, TakeStep DEF Fits, y
<1>8. CASE x.pc = "read2" /\ inst[app].active /\ same /\ Only(p, took(p, next[x.pc]))
  <2>. DEFINE y == took(p, "readPub")
  <2>1. Only(p, y) /\ x.op = "published" /\ inst[upper(x)].active
    BY SMTT(30), <1>5, <1>8
  <2>2. Same(y, x) /\ y.pc = "readPub" /\ y.holds = x.holds \cup Want(p)
    BY <1>4, TookIs
  <2>3. Recorded(y) /\ HoldsApps(y) /\ HoldsMarked(y)
    BY <1>4, <1>8, TookKeeps
  <2>4. Want(p) = {<<instRow(upper(x), inst[upper(x)].gen), "S">>}
    BY <1>8, <2>1, WantRow DEF Active
  <2>. HIDE DEF y
  <2>5. Placed(y)
    BY <2>1, <2>2 DEF Placed, Reading, Same
  <2>6. Named(y)
    BY <1>2, <1>8, <2>1, <2>2 DEF Named, Reading, Finding, Same
  <2>7. Shares(y, lower(x)) /\ Shares(y, upper(x))
    BY <1>2, <1>8, <2>1, <2>2, <2>4 DEF UnderInstallations, Shares, S
  <2>8. Shares(y, x.cons) /\ Shares(y, x.prov)
    BY <2>7 DEF lower, upper
  <2>9. UnderInstallations(y)
    BY <1>8, <2>1, <2>2, <2>8 DEF UnderInstallations, Same
  <2>10. Retires(y) /\ Creates(y) /\ UnderGrant(y) /\ UnderPublication(y)
    BY <2>2 DEF Retires, Creates, UnderGrant, UnderPublication
  <2>. QED
    BY <1>1, <1>4, <2>1, <2>3, <2>5, <2>6, <2>9, <2>10, TakeStep DEF Fits, y
<1>9. CASE Fails(p)
  BY <1>1, <1>9, FailsStep
<1>. QED
  BY <1>1, <1>6, <1>7, <1>8, <1>9

(* ShareFrozen: the rows a publication froze and the lock of its name.     *)
LEMMA ShareFrozenStep ==
  ASSUME AccessInv, NEW p \in Procs, ShareFrozen(p)
  PROVE  AccessInv'
<1>. DEFINE x == proc[p]
<1>1. /\ x.pc \in {"change1", "change2", "changeApproval"} /\ Granted(p)
      /\ \/ Fails(p)
         \/ \E pc \in {"change2", "changeApproval", "change"} : Only(p, took(p, pc))
  BY DEF ShareFrozen, at
<1>2. Placed(x) /\ Named(x)
  BY DEF AccessInv, Fits
<1>3. x.op \in {"pubDisable", "pubEnable", "pubRevoke"}
  BY <1>1, <1>2 DEF Placed, Finding, Reading, Lifecycle
<1>4. ASSUME NEW pc \in {"change2", "changeApproval", "change"}, Only(p, took(p, pc))
      PROVE  AccessInv'
  <2>1. pc \in Places \ Relying /\ pc \notin {"audit", "done", "createApps"}
    BY <1>4 DEF Places, Relying
  <2>2. Same(took(p, pc), x) /\ took(p, pc).pc = pc
    BY <2>1, TookIs
  <2>3. Placed(took(p, pc)) /\ Named(took(p, pc))
    BY <1>2, <1>3, <1>4, <2>2 DEF Placed, Named, Same
  <2>. QED
    BY <1>1, <1>4, <2>1, <2>3, QuietTake
<1>5. CASE Fails(p)
  BY <1>1, <1>5, FailsStep
<1>. QED
  BY <1>1, <1>4, <1>5

(* FindPublication: the publication that the name stands for.              *)
LEMMA FindPublicationStep ==
  ASSUME AccessInv, NEW p \in Procs, FindPublication(p)
  PROVE  AccessInv'
<1>. DEFINE x == proc[p]
<1>1. /\ x.pc = "find" /\ x \in Requests /\ Placed(x) /\ Named(x)
      /\ Recorded(x) /\ HoldsApps(x) /\ HoldsMarked(x)
  BY DEF FindPublication, at, AccessInv, AccessTypeOK, Fits
<1>2. x.op = "published"
  BY <1>1 DEF Placed, Reading, Lifecycle
<1>3. ASSUME NEW u \in Pubs, pubs[u].st = "active", pubs[u].cons = x.cons,
             Only(p, [x EXCEPT !.pub = Frozen(u, pubs[u]), !.pc = "resolvePub"])
      PROVE  AccessInv'
  <2>. DEFINE y == [x EXCEPT !.pub = Frozen(u, pubs[u]), !.pc = "resolvePub"]
  <2>1. y \in Requests
    BY <1>1, FrozenType DEF Requests, Places
  <2>2. /\ y.op = x.op /\ y.auth = x.auth /\ y.cons = x.cons /\ y.prov = x.prov /\ y.id = x.id
        /\ y.pc = "resolvePub" /\ y.pub.id = u /\ y.holds = x.holds /\ y.wr = x.wr
        /\ y.durable = x.durable /\ y.success = x.success
    BY <1>1, <2>1, FrozenType DEF Requests
  <2>. HIDE DEF y
  <2>3. Placed(y) /\ Recorded(y)
    BY <1>1, <1>2, <2>2 DEF Placed, Recorded, Finding
  <2>4. Named(y)
    BY <1>1, <1>2, <1>3, <2>2 DEF Named, Reading, Finding
  <2>5. HoldsApps(y) /\ HoldsMarked(y)
    BY <1>1, <1>2, <2>2 DEF HoldsApps, HoldsMarked, X, Lifecycle
  <2>6. Fits(y)
    BY <2>2, <2>3, <2>4, <2>5, QuietFits DEF Relying
  <2>7. \A h \in y.holds : Free(p, h)
    BY <2>2, GrantedIsFree
  <2>. QED
    BY <1>3, <2>1, <2>6, <2>7, OnlyStep DEF y
<1>4. CASE Fails(p)
  BY <1>1, <1>4, FailsStep
<1>. QED
  BY <1>3, <1>4 DEF FindPublication, LiveOf

(* ResolvePublication: the resolved authority is kept, its locks are not.  *)
LEMMA ResolvePublicationStep ==
  ASSUME AccessInv, NEW p \in Procs, ResolvePublication(p)
  PROVE  AccessInv'
<1>. DEFINE x == proc[p]
<1>1. /\ x.pc = "resolvePub" /\ x \in Requests /\ Placed(x) /\ Named(x)
      /\ Recorded(x) /\ HoldsApps(x)
  BY DEF ResolvePublication, at, AccessInv, AccessTypeOK, Fits
<1>2. x.op = "published"
  BY <1>1 DEF Placed, Reading, Lifecycle
<1>3. ASSUME NEW y \in Requests, Same(y, x), y.wr = {}, y.holds \subseteq x.holds, Only(p, y),
             (y.pc = "read1" /\ x.cons = x.prov) \/ (y.pc = "sweep" /\ x.cons # x.prov)
      PROVE  AccessInv'
  <2>1. Placed(y) /\ Recorded(y)
    BY <1>1, <1>2, <1>3 DEF Placed, Recorded, Reading, Same
  <2>2. Named(y)
    BY <1>1, <1>2, <1>3 DEF Named, Reading, Finding, Same
  <2>3. HoldsApps(y) /\ HoldsMarked(y)
    BY <1>1, <1>2, <1>3 DEF HoldsApps, HoldsMarked, Lifecycle, Same
  <2>4. Fits(y)
    BY <1>3, <2>1, <2>2, <2>3, QuietFits DEF Relying
  <2>5. \A h \in y.holds : Free(p, h)
    BY <1>3, GrantedIsFree
  <2>. QED
    BY <1>3, <2>4, <2>5, OnlyStep
<1>4. "read1" \in Places /\ "sweep" \in Places
  BY DEF Places
<1>5. CASE x.cons = x.prov /\ Only(p, ended(x, "read1"))
  <2>. DEFINE y == ended(x, "read1")
  <2>1. y \in Requests /\ Same(y, x) /\ y.pc = "read1" /\ y.wr = {} /\ y.holds \subseteq x.holds
    BY SMTT(30), <1>1, <1>4, EndedIs
  <2>. HIDE DEF y
  <2>2. Only(p, y)
    BY <1>5 DEF y
  <2>. QED
    BY <1>3, <1>5, <2>1, <2>2
<1>6. CASE x.cons # x.prov /\ Only(p, [ended(x, "sweep") EXCEPT !.todo = Overdue])
  <2>. DEFINE e == ended(x, "sweep")
              y == [e EXCEPT !.todo = Overdue]
  <2>1. e \in Requests /\ Same(e, x) /\ e.pc = "sweep" /\ e.wr = {} /\ e.holds \subseteq x.holds
    BY SMTT(30), <1>1, <1>4, EndedIs
  <2>2. Overdue \in SUBSET Grants
    BY DEF Overdue
  <2>. HIDE DEF e
  <2>3. y \in Requests
    BY <2>1, <2>2 DEF Requests
  <2>4. Same(y, x) /\ y.pc = "sweep" /\ y.wr = {} /\ y.holds \subseteq x.holds
    BY <2>1, <2>3 DEF Requests, Same
  <2>. QED
    BY <1>3, <1>6, <2>3, <2>4 DEF e
<1>7. CASE Fails(p)
  BY <1>1, <1>7, FailsStep
<1>. QED
  BY <1>5, <1>6, <1>7 DEF ResolvePublication

(* LockPublication: the publication is shared and valid, and once more     *)
(* after the wait for the grant.                                           *)
LEMMA LockPublicationStep ==
  ASSUME AccessInv, NEW p \in Procs, LockPublication(p)
  PROVE  AccessInv'
<1>. DEFINE x == proc[p]
<1>1. /\ x.pc \in {"readPub", "recheck"} /\ Granted(p) /\ x \in Requests /\ Placed(x) /\ Named(x)
      /\ Recorded(x) /\ HoldsApps(x) /\ HoldsMarked(x)
      /\ UnderGrant(x) /\ UnderInstallations(x) /\ UnderPublication(x)
  BY DEF LockPublication, at, AccessInv, AccessTypeOK, Fits
<1>2. x.op = "published"
  BY <1>1 DEF Placed, Finding, Lifecycle
<1>3. CASE x.pc = "readPub" /\ PubValid(x)
           /\ Only(p, took(p, IF x.cons = x.prov THEN "provider" ELSE "lockGrant"))
  <2>. DEFINE pc == IF x.cons = x.prov THEN "provider" ELSE "lockGrant"
              y == took(p, pc)
  <2>1. pc \in Places /\ pc \notin {"audit", "done", "createApps"}
    BY DEF Places
  <2>2. Same(y, x) /\ y.pc = pc /\ y.holds = x.holds \cup Want(p)
    BY <2>1, TookIs
  <2>3. Recorded(y) /\ HoldsApps(y) /\ HoldsMarked(y)
    BY <1>3, <2>1, TookKeeps
  <2>4. <<pubLock(x.pub.id), "S">> \in Want(p)
    BY <1>3, WantPub
  <2>. HIDE DEF y
  <2>5. Placed(y)
    BY <1>2, <2>2 DEF Placed, Same, Reading
  <2>6. Named(y)
    BY <1>1, <1>2, <1>3, <2>2 DEF Named, Same, Reading, Finding
  <2>7. Retires(y) /\ Creates(y)
    BY <2>2 DEF Retires, Creates
  <2>8. UnderGrant(y)
    BY <1>2, <2>2, <2>6 DEF UnderGrant, Named, Same, Reading
  <2>9. UnderInstallations(y)
    BY <1>1, <1>2, <1>3, <2>2 DEF UnderInstallations, Shares, S, Same
  <2>10. UnderPublication(y)
    BY <1>3, <2>2, <2>4 DEF UnderPublication, PubValid, S, Same
  <2>. QED
    BY <1>1, <1>3, <2>1, <2>3, <2>5, <2>6, <2>7, <2>8, <2>9, <2>10, TakeStep DEF Fits, y
<1>4. CASE x.pc = "recheck" /\ Only(p, [x EXCEPT !.pc = "provider"])
  <2>. DEFINE y == [x EXCEPT !.pc = "provider"]
  <2>1. y \in Requests
    BY SMTT(30), <1>1 DEF Requests, Places
  <2>2. Same(y, x) /\ y.pc = "provider" /\ y.holds = x.holds /\ y.wr = x.wr
    BY <1>1, <2>1 DEF Requests, Same
  <2>. HIDE DEF y
  <2>3. Placed(y) /\ Recorded(y)
    BY <1>1, <1>2, <1>4, <2>2 DEF Placed, Recorded, Reading, Same
  <2>4. Named(y)
    BY <1>1, <1>2, <1>4, <2>2 DEF Named, Reading, Finding, Same
  <2>5. HoldsApps(y) /\ HoldsMarked(y)
    BY <1>1, <1>2, <2>2 DEF HoldsApps, HoldsMarked, X, Lifecycle, Same
  <2>6. Retires(y) /\ Creates(y)
    BY <2>2 DEF Retires, Creates
  <2>7. UnderGrant(y) /\ UnderPublication(y)
    BY <1>1, <1>2, <1>4, <2>2 DEF UnderGrant, UnderPublication, X, S, Same
  <2>8. UnderInstallations(y)
    BY <1>1, <1>2, <1>4, <2>2 DEF UnderInstallations, Shares, S, Same
  <2>9. \A h \in y.holds : Free(p, h)
    BY <2>2, GrantedIsFree
  <2>. QED
    BY <1>4, <2>1, <2>3, <2>4, <2>5, <2>6, <2>7, <2>8, <2>9, OnlyStep DEF Fits, y
<1>5. CASE Fails(p)
  BY <1>1, <1>5, FailsStep
<1>. QED
  BY <1>3, <1>4, <1>5 DEF LockPublication, at

(***************************************************************************)
(* Requests come and go.                                                   *)
(***************************************************************************)
(* Return and Breaks: a request is over.                                   *)
LEMMA ReturnStep ==
  ASSUME AccessInv, NEW p \in Procs, Return(p) \/ Breaks(p)
  PROVE  AccessInv'
<1>1. CASE Return(p)
  BY <1>1, IdleFits, OnlyStep DEF Return
<1>2. CASE Breaks(p)
  BY <1>2, FailsStep DEF Breaks
<1>. QED
  BY <1>1, <1>2

(* A request starts with nothing locked and nothing found.                 *)
Fresh(y, op, pc, c, d) ==
  /\ y \in Requests /\ y.op = op /\ y.pc = pc /\ y.cons = c /\ y.prov = d
  /\ y.auth.id = 0 /\ y.holds = {} /\ y.wr = {} /\ ~y.durable /\ ~y.success
LEMMA StartIs ==
  ASSUME NEW p, NEW op \in Ops, NEW pc \in Places, NEW c \in Apps, NEW d \in Apps
  PROVE  Fresh(Start(p, op, pc, c, d), op, pc, c, d) /\ Start(p, op, pc, c, d).pub.id = 0
<1>. DEFINE I == Idle
            s == [I EXCEPT !.op = op, !.pc = pc, !.cons = c, !.prov = d]
<1>1. I \in Requests
  BY IdleFits
<1>2. /\ I.auth.id = 0 /\ I.pub.id = 0 /\ I.holds = {} /\ I.wr = {}
      /\ ~I.durable /\ ~I.success
  BY DEF Idle, NoAuth
<1>3. Start(p, op, pc, c, d) = s
  BY DEF Start
<1>. HIDE DEF I
<1>4. s \in Requests
  BY <1>1 DEF Requests
<1>5. /\ s.op = op /\ s.pc = pc /\ s.cons = c /\ s.prov = d
      /\ s.auth = I.auth /\ s.pub = I.pub /\ s.holds = I.holds /\ s.wr = I.wr
      /\ s.durable = I.durable /\ s.success = I.success
  BY <1>1 DEF Requests
<1>. QED
  BY <1>2, <1>3, <1>4, <1>5 DEF Fresh

(* What starts at the first step of its kind fits.                         *)
LEMMA FreshStep ==
  ASSUME AccessInv, NEW p \in Procs, NEW y, NEW op, NEW pc, NEW c, NEW d,
         Fresh(y, op, pc, c, d), Only(p, y),
         \/ op \in Lifecycle /\ pc = "app"
         \/ op = "create" /\ pc = "createApps"
         \/ op \in {"approve", "enable"} /\ pc = "sweep" /\ y.id \in Grants
         \/ op \in {"disable", "revoke"} /\ pc = "transition" /\ y.id \in Grants
         \/ op = "view" /\ pc = "sweep"
         \/ op = "operate" /\ pc = "sweep" /\ y.pub.id = 0
         \/ op = "agent" /\ pc = "authorizeAgent" /\ y.pub.id = 0
         \/ op = "published" /\ pc = "resolve1" /\ <<c, d>> \in Declared(mix)
         \/ op = "publish" /\ pc = "approve1" /\ <<c, d>> \in Declared(mix)
         \/ op \in {"pubDisable", "pubEnable", "pubRevoke"} /\ pc = "change1"
            /\ y.id \in Pubs /\ y.pub.id = y.id
  PROVE  AccessInv'
<1>1. /\ y \in Requests /\ y.op = op /\ y.pc = pc /\ y.cons = c /\ y.prov = d
      /\ y.auth.id = 0 /\ y.holds = {} /\ y.wr = {} /\ ~y.durable /\ ~y.success
  BY DEF Fresh
<1>2. Placed(y)
  BY <1>1 DEF Placed, Lifecycle, Finding
<1>3. Named(y)
  BY <1>1 DEF Named, Lifecycle, Reading, Finding
<1>4. Recorded(y) /\ HoldsApps(y) /\ HoldsMarked(y)
  BY <1>1 DEF Recorded, HoldsApps, HoldsMarked, Lifecycle
<1>5. Fits(y)
  BY <1>1, <1>2, <1>3, <1>4, QuietFits DEF Relying, Lifecycle
<1>. QED
  BY <1>1, <1>5, OnlyStep

(* Request: a process starts on any of them.                               *)
LEMMA RequestStep ==
  ASSUME AccessInv, NEW p \in Procs, Request(p)
  PROVE  AccessInv'
<1>1. /\ mix \in Mixes /\ pubs \in Rows(Pubs) /\ PubsDeclared
      /\ inst \in [Apps -> [gen : 0..MaxGen, active : BOOLEAN, row : BOOLEAN]]
  BY DEF AccessInv, AccessTypeOK
<1>2. /\ mix.consumers \subseteq Apps /\ Declared(mix) \subseteq Apps \X Apps
      /\ mix.declared \subseteq Declared(mix)
  BY <1>1, AccessAssumption DEF Declared
<1>3. Grants \subseteq Nat /\ Pubs \subseteq Nat
  BY SMTT(30), AccessAssumption DEF Grants, Pubs
<1>4. Overdue \in SUBSET Grants
  BY DEF Overdue
<1>5. \A c \in mix.consumers : c \in Apps /\ 3 - c \in Apps
  BY SMTT(30), <1>2 DEF Apps
<1>6. 1 \in Apps /\ 2 \in Apps
  BY SMTT(30) DEF Apps
<1>7. /\ {"app", "sweep", "transition", "createApps", "authorizeAgent", "approve1", "change1",
          "resolve1"} \subseteq Places
      /\ Lifecycle \cup {"approve", "enable", "disable", "revoke", "view", "create", "operate",
          "agent", "publish", "published", "pubDisable", "pubEnable", "pubRevoke"} \subseteq Ops
  BY DEF Places, Ops, Lifecycle
<1>8. \A u \in Pubs : pubs[u].cons \in Apps /\ pubs[u].prov \in Apps
  BY <1>1 DEF Rows, Row
<1>9. ASSUME NEW op \in Lifecycle, NEW a \in Apps, Only(p, Start(p, op, "app", a, a))
      PROVE  AccessInv'
  BY <1>7, <1>9, StartIs, FreshStep
<1>10. ASSUME NEW op \in {"approve", "enable"}, NEW g \in Grants,
             Only(p, [Start(p, op, "sweep", 1, 2) EXCEPT !.id = g, !.todo = Overdue])
      PROVE  AccessInv'
  <2>. DEFINE s == Start(p, op, "sweep", 1, 2)
              y == [s EXCEPT !.id = g, !.todo = Overdue]
  <2>1. Fresh(s, op, "sweep", 1, 2)
    BY <1>10, <1>7, <1>6, StartIs
  <2>2. Only(p, y)
    BY <1>10
  <2>. HIDE DEF s
  <2>3. Fresh(y, op, "sweep", 1, 2) /\ y.id = g
    BY <1>10, <1>3, <1>4, <2>1 DEF Fresh, Requests
  <2>. HIDE DEF y
  <2>. QED
    BY <1>10, <2>2, <2>3, FreshStep
<1>11. ASSUME NEW op \in {"disable", "revoke"}, NEW g \in Grants,
             Only(p, [Start(p, op, "transition", 1, 2) EXCEPT !.id = g])
      PROVE  AccessInv'
  <2>. DEFINE s == Start(p, op, "transition", 1, 2)
              y == [s EXCEPT !.id = g]
  <2>1. Fresh(s, op, "transition", 1, 2)
    BY <1>11, <1>7, <1>6, StartIs
  <2>2. Only(p, y)
    BY <1>11
  <2>. HIDE DEF s
  <2>3. Fresh(y, op, "transition", 1, 2) /\ y.id = g
    BY <1>11, <1>3, <2>1 DEF Fresh, Requests
  <2>. HIDE DEF y
  <2>. QED
    BY <1>11, <2>2, <2>3, FreshStep
<1>12. ASSUME Only(p, [Start(p, "view", "sweep", 1, 2) EXCEPT !.todo = Overdue])
      PROVE  AccessInv'
  <2>. DEFINE s == Start(p, "view", "sweep", 1, 2)
              y == [s EXCEPT !.todo = Overdue]
  <2>1. Fresh(s, "view", "sweep", 1, 2)
    BY <1>12, <1>7, <1>6, StartIs
  <2>2. Only(p, y)
    BY <1>12
  <2>. HIDE DEF s
  <2>3. Fresh(y, "view", "sweep", 1, 2)
    BY <1>12, <1>4, <2>1 DEF Fresh, Requests
  <2>. HIDE DEF y
  <2>. QED
    BY <1>12, <2>2, <2>3, FreshStep
<1>13. ASSUME NEW c \in mix.consumers, Only(p, Start(p, "create", "createApps", c, 3 - c))
       PROVE  AccessInv'
  <2>1. Fresh(Start(p, "create", "createApps", c, 3 - c), "create", "createApps", c, 3 - c)
    BY <1>5, <1>7, <1>13, StartIs
  <2>. QED
    BY <1>13, <2>1, FreshStep
<1>14. ASSUME NEW c \in mix.consumers, NEW w \in BOOLEAN,
             Only(p, [Start(p, "operate", "sweep", c, 3 - c) EXCEPT !.write = w, !.todo = Overdue])
      PROVE  AccessInv'
  <2>. DEFINE s == Start(p, "operate", "sweep", c, 3 - c)
              y == [s EXCEPT !.write = w, !.todo = Overdue]
  <2>1. Fresh(s, "operate", "sweep", c, 3 - c) /\ s.pub.id = 0
    BY SMTT(30), <1>14, <1>7, <1>5, StartIs
  <2>2. Only(p, y)
    BY <1>14
  <2>. HIDE DEF s
  <2>3. Fresh(y, "operate", "sweep", c, 3 - c) /\ y.pub.id = 0
    BY <1>14, <1>4, <2>1 DEF Fresh, Requests
  <2>. HIDE DEF y
  <2>. QED
    BY <1>14, <2>2, <2>3, FreshStep
<1>15. ASSUME NEW c \in mix.consumers, NEW w \in BOOLEAN,
             Only(p, [Start(p, "agent", "authorizeAgent", c, 3 - c) EXCEPT !.write = w])
      PROVE  AccessInv'
  <2>. DEFINE s == Start(p, "agent", "authorizeAgent", c, 3 - c)
              y == [s EXCEPT !.write = w]
  <2>1. Fresh(s, "agent", "authorizeAgent", c, 3 - c) /\ s.pub.id = 0
    BY SMTT(30), <1>15, <1>7, <1>5, StartIs
  <2>2. Only(p, y)
    BY <1>15
  <2>. HIDE DEF s
  <2>3. Fresh(y, "agent", "authorizeAgent", c, 3 - c) /\ y.pub.id = 0
    BY <1>15, <2>1 DEF Fresh, Requests
  <2>. HIDE DEF y
  <2>. QED
    BY <1>15, <2>2, <2>3, FreshStep
<1>16. ASSUME NEW c \in Apps, NEW d \in Apps, <<c, d>> \in Declared(mix), NEW a \in Auths,
             Only(p, [Start(p, "publish", "approve1", c, d) EXCEPT !.pub = a])
      PROVE  AccessInv'
  <2>. DEFINE s == Start(p, "publish", "approve1", c, d)
              y == [s EXCEPT !.pub = a]
  <2>1. Fresh(s, "publish", "approve1", c, d)
    BY <1>16, <1>7, <1>6, StartIs
  <2>2. Only(p, y)
    BY <1>16
  <2>. HIDE DEF s
  <2>3. Fresh(y, "publish", "approve1", c, d)
    BY <1>16, <2>1 DEF Fresh, Requests
  <2>. HIDE DEF y
  <2>. QED
    BY <1>16, <2>2, <2>3, FreshStep
<1>17. ASSUME NEW op \in {"pubDisable", "pubEnable", "pubRevoke"}, NEW u \in Pubs,
             Only(p, [Start(p, op, "change1", pubs[u].cons, pubs[u].prov) EXCEPT !.id = u, !.pub = Frozen(u, pubs[u])])
      PROVE  AccessInv'
  <2>. DEFINE s == Start(p, op, "change1", pubs[u].cons, pubs[u].prov)
              y == [s EXCEPT !.id = u, !.pub = Frozen(u, pubs[u])]
  <2>1. Fresh(s, op, "change1", pubs[u].cons, pubs[u].prov)
    BY <1>17, <1>7, <1>8, StartIs
  <2>2. Only(p, y)
    BY <1>17
  <2>. HIDE DEF s
  <2>3. Fresh(y, op, "change1", pubs[u].cons, pubs[u].prov) /\ y.id = u /\ y.pub.id = u
    BY <1>17, <1>3, <2>1, FrozenType DEF Fresh, Requests
  <2>. HIDE DEF y
  <2>. QED
    BY <1>17, <2>2, <2>3, FreshStep
<1>18. ASSUME NEW u \in Pubs, pubs[u].st # "none",
              Only(p, Start(p, "published", "resolve1", pubs[u].cons, pubs[u].prov))
       PROVE  AccessInv'
  <2>1. <<pubs[u].cons, pubs[u].prov>> \in Declared(mix)
    BY <1>1, <1>18 DEF PubsDeclared
  <2>. QED
    BY SMTT(30), <1>7, <1>8, <1>18, <2>1, StartIs, FreshStep
<1>19. ASSUME NEW d \in mix.declared,
              Only(p, [Start(p, "publish", "approve1", d[1], d[2]) EXCEPT
                         !.pub = [NoAuth EXCEPT !.cg = inst[d[1]].gen, !.pg = inst[d[2]].gen]])
       PROVE  AccessInv'
  <2>1. d[1] \in Apps /\ d[2] \in Apps /\ <<d[1], d[2]>> \in Declared(mix)
    BY SMTT(30), <1>2, <1>19
  <2>2. [NoAuth EXCEPT !.cg = inst[d[1]].gen, !.pg = inst[d[2]].gen] \in Auths
    BY <1>1, <2>1 DEF NoAuth, Auths
  <2>. QED
    BY <1>16, <1>19, <2>1, <2>2
<1>. QED
  BY <1>9, <1>10, <1>11, <1>12, <1>13, <1>14, <1>15, <1>17, <1>18, <1>19 DEF Request, Lifecycle

(***************************************************************************)
(* Steps that change a table.                                              *)
(***************************************************************************)
(* A step keeps what another request q relies on: the rows it has locked,  *)
(* the list of an installation it retires, and the installations that it   *)
(* holds by their app or shares.                                           *)
SafeFor(q) ==
  /\ \A g \in Grants : X(proc[q], grantLock(g)) /\ grants[g].st \in Live =>
       grants'[g].st = grants[g].st /\ Frozen(g, grants'[g]) = Frozen(g, grants[g])
  /\ \A g \in Grants : grants'[g].st \in Live =>
       \/ grants[g].st \in Live /\ grants'[g].cons = grants[g].cons /\ grants'[g].prov = grants[g].prov
       \/ ~X(proc[q], appLock(grants'[g].cons)) /\ ~X(proc[q], appLock(grants'[g].prov))
  /\ \A a \in Apps : X(proc[q], appLock(a)) => inst'[a] = inst[a]
  /\ \A a \in Apps : Shares(proc[q], a) => inst'[a].active /\ inst'[a].gen = inst[a].gen
  /\ \A u \in Pubs : pubs[u].st # "none" => pubs'[u].st # "none" /\ pubs'[u].cons = pubs[u].cons
  /\ \A u \in Pubs : pubs[u].st = "active" /\ S(proc[q], pubLock(u)) =>
       pubs'[u].st = "active" /\ Frozen(u, pubs'[u]) = Frozen(u, pubs[u])

(* Then q fits as before.                                                  *)
LEMMA OthersFit ==
  ASSUME AccessInv, NEW q \in Procs, proc'[q] = proc[q], mix' = mix, SafeFor(q)
  PROVE  Fits(proc[q])'
<1>. DEFINE x == proc[q]
<1>1. Fits(x) /\ x \in Requests
  BY DEF AccessInv, AccessTypeOK
<1>2. x.cons \in Apps /\ x.prov \in Apps /\ x.wr \subseteq Grants
  BY <1>1 DEF Requests
<1>3. Placed(proc[q])' /\ Recorded(proc[q])' /\ HoldsApps(proc[q])'
  BY <1>1 DEF Fits, Placed, Recorded, HoldsApps, X
<1>4. Named(proc[q])'
  <2>1. ASSUME x.op = "published", x.pc \in {"resolvePub", "sweep", "authorize"} \cup Reading
        PROVE  /\ x.pub.id \in Pubs
               /\ pubs'[x.pub.id].st # "none" /\ pubs'[x.pub.id].cons = x.cons
    BY <1>1, <2>1 DEF Fits, Named, SafeFor
  <2>2. Declared(mix') = Declared(mix)
    OBVIOUS
  <2>3. x.pc = "supersede" => x.pub.id \in Pubs /\ pubs'[x.pub.id].st # "none"
    BY <1>1 DEF Fits, Named, SafeFor
  <2>. QED
    BY <1>1, <2>1, <2>2, <2>3 DEF Fits, Named
<1>5. HoldsMarked(proc[q])'
  BY <1>1, <1>2 DEF Fits, HoldsMarked, X, SafeFor
<1>6. /\ x.pc \in {"grants", "cleanup", "register"} => X(x, appLock(x.cons))
      /\ x.pc \in {"create2", "matching"} => X(x, appLock(x.cons)) /\ X(x, appLock(x.prov))
  BY <1>1 DEF Fits, Placed, HoldsApps, Finding, Reading
<1>7. /\ X(x, appLock(x.cons)) => inst'[x.cons] = inst[x.cons]
      /\ X(x, appLock(x.prov)) => inst'[x.prov] = inst[x.prov]
  BY <1>2 DEF SafeFor
<1>8. Retires(proc[q])'
  <2>1. ASSUME x.pc = "grants", NEW g \in Grants, grants'[g].st \in Live,
               x.cons \in {grants'[g].cons, grants'[g].prov}
        PROVE  g \in x.todo \cup x.wr
    <3>1. X(x, appLock(x.cons))
      BY <1>6, <2>1
    <3>2. /\ grants[g].st \in Live
          /\ grants'[g].cons = grants[g].cons /\ grants'[g].prov = grants[g].prov
      BY <2>1, <3>1 DEF SafeFor
    <3>. QED
      BY <1>1, <2>1, <3>2 DEF Fits, Retires
  <2>2. x.pc = "grants" /\ inst'[x.cons].active => X(x, instRow(x.cons, inst'[x.cons].gen))
    BY <1>1, <1>6, <1>7 DEF Fits, Retires
  <2>3. /\ x.pc = "cleanup" => ~inst'[x.cons].active
        /\ x.pc = "register" => inst'[x.cons].row
    BY <1>1, <1>6, <1>7 DEF Fits, Retires
  <2>. QED
    BY <2>1, <2>2, <2>3 DEF Retires, X
<1>9. Creates(proc[q])'
  BY <1>1, <1>6, <1>7 DEF Fits, Creates
<1>10. UnderGrant(proc[q])'
  <2>1. ASSUME x.pc = "recheck" \/ (x.pc = "provider" /\ x.auth.id # 0)
        PROVE  x.auth.id \in Grants
    BY <1>1, <2>1 DEF Fits, Named, Placed, Finding, Reading, Lifecycle
  <2>2. ASSUME x.pc = "recheck" \/ (x.pc = "provider" /\ x.auth.id # 0)
        PROVE  /\ X(x, grantLock(x.auth.id)) /\ grants'[x.auth.id].st = "active"
               /\ Frozen(x.auth.id, grants'[x.auth.id]) = x.auth
    BY <1>1, <2>1, <2>2 DEF Fits, UnderGrant, SafeFor, Live
  <2>. QED
    BY <2>2 DEF UnderGrant, X, Frozen
<1>11. \A a \in Apps : Shares(x, a) => /\ inst'[a].active /\ inst'[a].gen = inst[a].gen
                                      /\ S(x, instRow(a, inst'[a].gen))
  BY DEF SafeFor, Shares
<1>12. UnderInstallations(proc[q])'
  <2>1. lower(x) \in Apps
    BY <1>2 DEF lower
  <2>2. lower(x)' = lower(x)
    BY DEF lower
  <2>3. UnderInstallations(x)
    BY <1>1 DEF Fits
  <2>4. x.pc = "read2" => Shares(proc[q], lower(proc[q]))'
    BY <1>11, <2>1, <2>2, <2>3 DEF UnderInstallations, Shares, S
  <2>5. x.op = "published" /\ x.pc \in {"readPub", "lockGrant", "recheck", "provider"} =>
          /\ Shares(proc[q], proc[q].cons)' /\ Shares(proc[q], proc[q].prov)'
          /\ x.pub.cg = inst'[x.cons].gen /\ x.pub.pg = inst'[x.prov].gen
    BY <1>2, <1>11, <2>3 DEF UnderInstallations, Shares, S
  <2>6. x.op = "agent" /\ x.pc = "provider" =>
          Shares(proc[q], proc[q].prov)' /\ inst'[x.prov].gen = x.auth.pg
    BY <1>2, <1>11, <2>3 DEF UnderInstallations, Shares, S
  <2>. QED
    BY <2>4, <2>5, <2>6 DEF UnderInstallations
<1>13. UnderPublication(proc[q])'
  <2>1. ASSUME x.op = "published", x.pc \in {"lockGrant", "recheck", "provider"}
        PROVE  /\ S(x, pubLock(x.pub.id)) /\ pubs'[x.pub.id].st = "active"
               /\ Frozen(x.pub.id, pubs'[x.pub.id]) = x.pub
    <3>1. x.pub.id \in Pubs
      BY <1>1, <2>1 DEF Fits, Named, Reading
    <3>. QED
      BY <1>1, <2>1, <3>1 DEF Fits, UnderPublication, SafeFor
  <2>. QED
    BY <2>1 DEF UnderPublication, S, Frozen
<1>. QED
  BY <1>3, <1>4, <1>5, <1>8, <1>9, <1>10, <1>12, <1>13 DEF Fits

(* A step of one request on the tables.                                    *)
LEMMA TableStep ==
  ASSUME AccessInv, NEW p \in Procs, NEW x \in Requests, To(p, x),
         x.holds \subseteq proc[p].holds,
         inst' \in [Apps -> [gen : 0..MaxGen, active : BOOLEAN, row : BOOLEAN]],
         grants' \in Rows(Grants), pubs' \in Rows(Pubs),
         LiveGrantsAreCurrent', ActiveIsThere', PubsDeclared',
         Fits(proc[p])', \A q \in Procs : q # p => SafeFor(q)
  PROVE  AccessInv'
<1>1. proc' = [proc EXCEPT ![p] = x] /\ mix' = mix
  BY DEF To
<1>2. proc \in [Procs -> Requests] /\ mix \in Mixes
  BY DEF AccessInv, AccessTypeOK
<1>3. AccessTypeOK'
  BY <1>1, <1>2 DEF AccessTypeOK
<1>4. LocksExclude'
  BY <1>1, GrantedIsFree, LocksStep
<1>5. ASSUME NEW q \in Procs
      PROVE  Fits(proc[q])'
  <2>1. CASE q = p
    BY <2>1
  <2>2. CASE q # p
    BY <1>1, <1>2, <2>2, OthersFit
  <2>. QED
    BY <2>1, <2>2
<1>. QED
  BY <1>3, <1>4, <1>5 DEF AccessInv

(* A request that is over after the step fits.                             *)
LEMMA IdleFitsAfter ==
  ASSUME NEW p, proc'[p] = Idle
  PROVE  Fits(proc[p])'
<1>2. /\ proc'[p].op = "none" /\ proc'[p].pc = "idle" /\ proc'[p].holds = {} /\ proc'[p].wr = {}
      /\ proc'[p].durable = FALSE /\ proc'[p].success = FALSE
  BY SMTT(30) DEF Idle
<1>3. Placed(proc[p])' /\ Named(proc[p])' /\ Recorded(proc[p])'
  BY <1>2 DEF Placed, Named, Recorded
<1>4. HoldsApps(proc[p])' /\ HoldsMarked(proc[p])' /\ Retires(proc[p])' /\ Creates(proc[p])'
  BY <1>2 DEF HoldsApps, HoldsMarked, Retires, Creates, Lifecycle
<1>5. UnderGrant(proc[p])' /\ UnderInstallations(proc[p])' /\ UnderPublication(proc[p])'
  BY <1>2 DEF UnderGrant, UnderInstallations, UnderPublication
<1>. QED
  BY <1>2, <1>3, <1>4, <1>5 DEF Fits

(* So does one that relies on nothing after it.                            *)
LEMMA QuietFitsAfter ==
  ASSUME NEW p, proc'[p].pc \notin Relying, Placed(proc[p])', Named(proc[p])',
         Recorded(proc[p])', HoldsApps(proc[p])', HoldsMarked(proc[p])'
  PROVE  Fits(proc[p])'
<1>1. Retires(proc[p])' /\ Creates(proc[p])'
  BY DEF Retires, Creates, Relying
<1>2. UnderGrant(proc[p])' /\ UnderInstallations(proc[p])' /\ UnderPublication(proc[p])'
  BY DEF UnderGrant, UnderInstallations, UnderPublication, Relying
<1>. QED
  BY <1>1, <1>2 DEF Fits

(* A lock held exclusively is held by nobody else.                         *)
LEMMA Exclusive ==
  ASSUME AccessInv, NEW p \in Procs, NEW q \in Procs, p # q, NEW r, X(proc[p], r)
  PROVE  ~X(proc[q], r) /\ ~S(proc[q], r)
BY DEF AccessInv, LocksExclude, X, S

(* Nor is one that was granted, even when it is given back in the same     *)
(* step.                                                                   *)
LEMMA GrantedAlone ==
  ASSUME AccessInv, NEW p \in Procs, NEW q \in Procs, p # q, Granted(p), NEW r,
         <<r, "X">> \in Want(p)
  PROVE  ~X(proc[q], r) /\ ~S(proc[q], r)
BY DEF Granted, Blockers, X, S

States == Live \cup {"none", "revoked", "expired"}

(* bumped changes the state, the version and the expiry of a row.          *)
LEMMA BumpedIs ==
  ASSUME NEW r \in Row, NEW st \in States
  PROVE  /\ bumped(r, st) \in Row /\ bumped(r, st).st = st
         /\ bumped(r, st).cons = r.cons /\ bumped(r, st).prov = r.prov
         /\ bumped(r, st).cg = r.cg /\ bumped(r, st).pg = r.pg
<1>. DEFINE d == IF st \in Live THEN r.due ELSE "never"
            n == r.ver + 1
            b == bumped(r, st)
<1>1. b = [r EXCEPT !.st = st, !.ver = n, !.due = d]
  BY DEF bumped
<1>2. d \in {"never", "later", "due"} /\ n \in Nat
  BY SMTT(30) DEF Row
<1>. HIDE DEF d, n, b
<1>3. b \in Row /\ b.st = st /\ b.cons = r.cons /\ b.prov = r.prov /\ b.cg = r.cg /\ b.pg = r.pg
  BY <1>1, <1>2 DEF Row, States
<1>. QED
  BY <1>3 DEF b

(* marked ends the grants of a set and keeps the others.                   *)
LEMMA MarkedIs ==
  ASSUME AccessInv, NEW W \in SUBSET Grants, NEW st \in {"revoked", "expired"}
  PROVE  /\ marked(W, st) \in Rows(Grants)
         /\ \A g \in Grants : g \notin W => marked(W, st)[g] = grants[g]
         /\ \A g \in W : marked(W, st)[g].st = st
<1>1. (\A g \in Grants : grants[g] \in Row) /\ st \in States
  BY DEF AccessInv, AccessTypeOK, States, Rows
<1>2. \A g \in Grants : bumped(grants[g], st) \in Row /\ bumped(grants[g], st).st = st
  BY <1>1, BumpedIs
<1>. QED
  BY <1>1, <1>2 DEF marked, Rows

(* What a request marks, no other request relies on, and the grants that   *)
(* stay live are the same as before.                                       *)
LEMMA MarkedSafe ==
  ASSUME AccessInv, NEW p \in Procs, NEW st \in {"revoked", "expired"}
  PROVE  LET m == marked(proc[p].wr, st) IN
         /\ m \in Rows(Grants)
         /\ \A g \in Grants : m[g].st \in Live => m[g] = grants[g] /\ g \notin proc[p].wr
         /\ \A q \in Procs : q # p =>
              \A g \in Grants : X(proc[q], grantLock(g)) => m[g] = grants[g]
<1>. DEFINE m == marked(proc[p].wr, st)
<1>1. proc[p].wr \in SUBSET Grants /\ HoldsMarked(proc[p])
  BY DEF AccessInv, AccessTypeOK, Requests, Fits
<1>2. /\ m \in Rows(Grants)
      /\ \A g \in Grants : g \notin proc[p].wr => m[g] = grants[g]
      /\ \A g \in proc[p].wr : m[g].st = st
  BY <1>1, MarkedIs
<1>. HIDE DEF m
<1>3. st \notin Live
  BY DEF Live
<1>4. \A g \in Grants : m[g].st \in Live => m[g] = grants[g] /\ g \notin proc[p].wr
  BY <1>2, <1>3
<1>5. ASSUME NEW q \in Procs, q # p, NEW g \in Grants, X(proc[q], grantLock(g))
      PROVE  m[g] = grants[g]
  <2>1. g \notin proc[p].wr
    BY <1>1, <1>5, Exclusive DEF HoldsMarked
  <2>. QED
    BY <1>2, <2>1
<1>. QED
  BY <1>2, <1>4, <1>5 DEF m

(* SweepDone: expired grants lose their state, nobody's authority moves.   *)
LEMMA SweepDoneStep ==
  ASSUME AccessInv, NEW p \in Procs, SweepDone(p)
  PROVE  AccessInv'
<1>. DEFINE x == proc[p]
            m == marked(x.wr, "expired")
            pc == IF x.op \in {"approve", "enable"} THEN "transition" ELSE "authorize"
            y == IF x.op = "view" THEN answered(x, "ok") ELSE ended(x, pc)
<1>1. /\ x.pc = "sweep" /\ grants' = m /\ To(p, y) /\ inst' = inst /\ pubs' = pubs
      /\ x \in Requests /\ Placed(x) /\ Named(x) /\ Recorded(x) /\ HoldsApps(x)
  BY DEF SweepDone, at, AccessInv, AccessTypeOK, Fits
<1>2. x.op \in {"approve", "enable", "view", "operate", "published"}
  BY <1>1 DEF Placed, Finding, Reading, Lifecycle
<1>3. /\ m \in Rows(Grants)
      /\ \A g \in Grants : m[g].st \in Live => m[g] = grants[g]
      /\ \A q \in Procs : q # p =>
           \A g \in Grants : X(proc[q], grantLock(g)) => m[g] = grants[g]
  BY MarkedSafe
<1>. HIDE DEF m
<1>4. /\ inst' \in [Apps -> [gen : 0..MaxGen, active : BOOLEAN, row : BOOLEAN]]
      /\ grants' \in Rows(Grants) /\ pubs' \in Rows(Pubs) /\ mix' = mix
  BY <1>1, <1>3 DEF AccessInv, AccessTypeOK, To
<1>5. LiveGrantsAreCurrent' /\ ActiveIsThere' /\ PubsDeclared'
  <2>1. LiveGrantsAreCurrent /\ ActiveIsThere /\ PubsDeclared
    BY DEF AccessInv
  <2>2. LiveGrantsAreCurrent'
    BY <1>1, <1>3, <2>1 DEF LiveGrantsAreCurrent
  <2>. QED
    BY <1>1, <1>4, <2>1, <2>2 DEF ActiveIsThere, PubsDeclared
<1>6. ASSUME NEW q \in Procs, q # p
      PROVE  SafeFor(q)
  <2>1. \A g \in Grants : X(proc[q], grantLock(g)) => grants'[g] = grants[g]
    BY <1>1, <1>3, <1>6
  <2>. QED
    BY <1>1, <1>3, <2>1 DEF SafeFor, Shares
<1>7. proc'[p] = y
  BY <1>1 DEF To, AccessInv, AccessTypeOK
<1>8. CASE x.op = "view"
  <2>1. y = Idle /\ Idle \in Requests /\ Idle.holds = {}
    BY <1>1, <1>8, AnsweredIs, IdleFits
  <2>2. Fits(proc[p])'
    BY <1>7, <2>1, IdleFitsAfter
  <2>. QED
    BY <1>1, <1>4, <1>5, <1>6, <2>1, <2>2, TableStep
<1>9. CASE x.op # "view"
  <2>1. pc \in {"transition", "authorize"} /\ pc \in Places
    BY DEF Places
  <2>2. y = ended(x, pc)
    BY <1>9
  <2>3. /\ y \in Requests /\ Same(y, x) /\ y.pc = pc /\ y.wr = {} /\ y.holds \subseteq x.holds
    <3>1. x \in Requests
      BY <1>1
    <3>. HIDE DEF x, y, pc
    <3>. QED
      BY SMTT(30), <2>1, <2>2, <3>1, EndedIs
  <2>. HIDE DEF y
  <2>4. Placed(proc[p])' /\ Recorded(proc[p])'
    BY <1>1, <1>2, <1>7, <1>9, <2>3 DEF Placed, Recorded, Same
  <2>5. Named(proc[p])'
    <3>1. Declared(mix') = Declared(mix)
      BY <1>4
    <3>. QED
      BY <1>1, <1>2, <1>7, <1>9, <2>3, <3>1 DEF Named, Same, Reading, Finding
  <2>6. HoldsApps(proc[p])' /\ HoldsMarked(proc[p])'
    BY <1>1, <1>2, <1>7, <2>1, <2>3 DEF HoldsApps, HoldsMarked, Lifecycle, Same
  <2>7. Fits(proc[p])'
    BY <1>7, <2>1, <2>3, <2>4, <2>5, <2>6, QuietFitsAfter DEF Relying
  <2>. QED
    BY <1>1, <1>4, <1>5, <1>6, <2>3, <2>7, TableStep
<1>. QED
  BY <1>8, <1>9

(* Deactivated: the installation goes with every grant it has.             *)
LEMMA DeactivatedStep ==
  ASSUME AccessInv, NEW p \in Procs, Deactivated(p)
  PROVE  AccessInv'
<1>. DEFINE x == proc[p]
            c == x.cons
            m == marked(x.wr, "revoked")
            pc == IF x.op = "install" THEN "callbacks" ELSE "cleanup"
            y == IF x.op = "workflow" THEN answered(x, "ok") ELSE ended(x, pc)
<1>1. /\ x.pc = "grants" /\ x.todo = {} /\ grants' = m /\ To(p, y) /\ pubs' = pubs
      /\ inst' = [inst EXCEPT ![c].active = FALSE, ![c].row = @ /\ x.op # "workflow"]
      /\ x \in Requests /\ Placed(x) /\ Named(x) /\ Recorded(x) /\ HoldsApps(x) /\ Retires(x)
  BY DEF Deactivated, at, AccessInv, AccessTypeOK, Fits
<1>2. x.op \in Lifecycle /\ c \in Apps
  BY <1>1 DEF Placed, Finding, Reading, Requests
<1>3. /\ m \in Rows(Grants)
      /\ \A g \in Grants : m[g].st \in Live => m[g] = grants[g] /\ g \notin x.wr
      /\ \A q \in Procs : q # p =>
           \A g \in Grants : X(proc[q], grantLock(g)) => m[g] = grants[g]
  BY MarkedSafe
<1>. HIDE DEF m
<1>4. /\ inst \in [Apps -> [gen : 0..MaxGen, active : BOOLEAN, row : BOOLEAN]]
      /\ LiveGrantsAreCurrent /\ ActiveIsThere /\ PubsDeclared
  BY DEF AccessInv, AccessTypeOK
<1>5. /\ inst' \in [Apps -> [gen : 0..MaxGen, active : BOOLEAN, row : BOOLEAN]]
      /\ ~inst'[c].active
      /\ \A a \in Apps : a # c => inst'[a] = inst[a]
  <2>. DEFINE r == [inst[c] EXCEPT !.active = FALSE, !.row = @ /\ x.op # "workflow"]
  <2>1. inst[c] \in [gen : 0..MaxGen, active : BOOLEAN, row : BOOLEAN]
    BY <1>2, <1>4
  <2>2. r \in [gen : 0..MaxGen, active : BOOLEAN, row : BOOLEAN] /\ ~r.active
    BY <2>1
  <2>3. inst' = [inst EXCEPT ![c] = r]
    BY <1>1, <1>2, <1>4
  <2>. HIDE DEF r
  <2>. QED
    BY <1>2, <1>4, <2>2, <2>3
<1>6. grants' \in Rows(Grants) /\ pubs' \in Rows(Pubs) /\ mix' = mix
  BY <1>1, <1>3 DEF AccessInv, AccessTypeOK, To
<1>7. LiveGrantsAreCurrent' /\ ActiveIsThere' /\ PubsDeclared'
  <2>1. ASSUME NEW g \in Grants, grants'[g].st \in Live
        PROVE  /\ inst'[grants'[g].cons].active /\ grants'[g].cg = inst'[grants'[g].cons].gen
               /\ inst'[grants'[g].prov].active /\ grants'[g].pg = inst'[grants'[g].prov].gen
    <3>1. grants'[g] = grants[g] /\ g \notin x.wr
      BY <1>1, <1>3, <2>1
    <3>2. grants[g].cons # c /\ grants[g].prov # c
      BY <1>1, <2>1, <3>1 DEF Retires
    <3>3. grants[g].cons \in Apps /\ grants[g].prov \in Apps
      BY DEF AccessInv, AccessTypeOK, Rows, Row
    <3>4. inst'[grants[g].cons] = inst[grants[g].cons] /\ inst'[grants[g].prov] = inst[grants[g].prov]
      BY <1>5, <3>2, <3>3
    <3>. QED
      BY SMTT(30), <1>4, <2>1, <3>1, <3>4 DEF LiveGrantsAreCurrent
  <2>2. LiveGrantsAreCurrent'
    BY <2>1 DEF LiveGrantsAreCurrent
  <2>3. ActiveIsThere'
    BY <1>4, <1>5 DEF ActiveIsThere
  <2>. QED
    BY <1>1, <1>4, <1>6, <2>2, <2>3 DEF PubsDeclared
<1>8. ASSUME NEW q \in Procs, q # p
      PROVE  SafeFor(q)
  <2>1. \A g \in Grants : X(proc[q], grantLock(g)) => grants'[g] = grants[g]
    BY <1>1, <1>3, <1>8
  <2>2. \A g \in Grants : grants'[g].st \in Live => grants'[g] = grants[g]
    BY <1>1, <1>3
  <2>3. ~X(proc[q], appLock(c))
    BY <1>1, <1>2, <1>8, Exclusive DEF HoldsApps
  <2>4. ~Shares(proc[q], c)
    BY <1>1, <1>8, Exclusive DEF Retires, Shares
  <2>. QED
    BY <1>1, <1>5, <2>1, <2>2, <2>3, <2>4 DEF SafeFor, Shares
<1>9. proc'[p] = y
  BY <1>1 DEF To, AccessInv, AccessTypeOK
<1>10. CASE x.op = "workflow"
  <2>1. y = Idle /\ Idle \in Requests /\ Idle.holds = {}
    BY <1>1, <1>10, AnsweredIs, IdleFits
  <2>2. Fits(proc[p])'
    BY <1>9, <2>1, IdleFitsAfter
  <2>. QED
    BY <1>1, <1>5, <1>6, <1>7, <1>8, <2>1, <2>2, TableStep
<1>11. CASE x.op # "workflow"
  <2>1. pc \in {"callbacks", "cleanup"} /\ pc \in Places
    BY DEF Places
  <2>2. y = ended(x, pc)
    BY <1>11
  <2>3. /\ y \in Requests /\ Same(y, x) /\ y.pc = pc /\ y.wr = {}
        /\ y.holds = {h \in x.holds : h[1][1] = "app" /\ x.op # "create"}
    BY SMTT(30), <1>1, <2>1, <2>2, EndedIs
  <2>. HIDE DEF y
  <2>4. Placed(proc[p])' /\ Recorded(proc[p])' /\ Named(proc[p])'
    BY <1>1, <1>2, <1>9, <2>3 DEF Placed, Recorded, Named, Same, Lifecycle
  <2>5. HoldsApps(proc[p])'
    <3>1. X(y, appLock(c))
      BY SMTT(30), <1>1, <1>2, <2>3 DEF HoldsApps, X, appLock, Lifecycle
    <3>. QED
      BY <1>1, <1>2, <1>9, <2>3, <3>1 DEF HoldsApps, X, Same, Lifecycle
  <2>6. HoldsMarked(proc[p])' /\ Creates(proc[p])'
    BY <1>9, <2>1, <2>3 DEF HoldsMarked, Creates
  <2>7. Retires(proc[p])'
    BY <1>5, <1>9, <2>1, <2>3 DEF Retires, Same
  <2>8. UnderGrant(proc[p])' /\ UnderInstallations(proc[p])' /\ UnderPublication(proc[p])'
    BY <1>9, <2>1, <2>3 DEF UnderGrant, UnderInstallations, UnderPublication
  <2>9. y.holds \subseteq x.holds
    BY <2>3
  <2>. QED
    BY <1>1, <1>5, <1>6, <1>7, <1>8, <2>3, <2>4, <2>5, <2>6, <2>7, <2>8, <2>9, TableStep DEF Fits
<1>. QED
  BY <1>10, <1>11

InstType == [gen : 0..MaxGen, active : BOOLEAN, row : BOOLEAN]

(* A step of a lifecycle request on its own installation: the others rely  *)
(* on it only while it is active, and then it keeps its generation.        *)
LEMMA InstSafe ==
  ASSUME AccessInv, NEW p \in Procs, NEW q \in Procs, q # p, NEW r \in InstType,
         proc[p].op \in Lifecycle, proc[p].pc # "app",
         inst' = [inst EXCEPT ![proc[p].cons] = r], grants' = grants, pubs' = pubs,
         inst[proc[p].cons].active => r.active /\ r.gen = inst[proc[p].cons].gen
  PROVE  SafeFor(q)
<1>. DEFINE c == proc[p].cons
<1>1. /\ inst \in [Apps -> InstType] /\ HoldsApps(proc[p]) /\ c \in Apps
  BY DEF AccessInv, AccessTypeOK, Fits, Requests, InstType
<1>2. inst'[c] = r /\ \A a \in Apps : a # c => inst'[a] = inst[a]
  BY <1>1
<1>3. ~X(proc[q], appLock(c))
  BY <1>1, Exclusive DEF HoldsApps
<1>. HIDE DEF c
<1>4. \A a \in Apps : X(proc[q], appLock(a)) => inst'[a] = inst[a]
  BY <1>2, <1>3
<1>5. \A a \in Apps : Shares(proc[q], a) => inst'[a].active /\ inst'[a].gen = inst[a].gen
  BY <1>2 DEF Shares, c
<1>. QED
  BY <1>4, <1>5 DEF SafeFor

(* The tables after such a step.                                           *)
LEMMA InstTables ==
  ASSUME AccessInv, NEW p \in Procs, NEW r \in InstType,
         inst' = [inst EXCEPT ![proc[p].cons] = r], grants' = grants, pubs' = pubs, mix' = mix,
         inst[proc[p].cons].active => r.active /\ r.gen = inst[proc[p].cons].gen,
         r.active => r.row
  PROVE  /\ inst' \in [Apps -> [gen : 0..MaxGen, active : BOOLEAN, row : BOOLEAN]]
         /\ grants' \in Rows(Grants) /\ pubs' \in Rows(Pubs)
         /\ LiveGrantsAreCurrent' /\ ActiveIsThere' /\ PubsDeclared'
<1>. DEFINE c == proc[p].cons
<1>1. /\ inst \in [Apps -> InstType] /\ c \in Apps
      /\ grants \in Rows(Grants) /\ pubs \in Rows(Pubs)
      /\ LiveGrantsAreCurrent /\ ActiveIsThere /\ PubsDeclared
  BY DEF AccessInv, AccessTypeOK, Requests, InstType
<1>2. inst'[c] = r /\ \A a \in Apps : a # c => inst'[a] = inst[a]
  BY <1>1
<1>3. inst' \in [Apps -> InstType]
  BY <1>1
<1>. HIDE DEF c
<1>4. \A a \in Apps : inst[a].active => inst'[a].active /\ inst'[a].gen = inst[a].gen
  BY <1>2 DEF c
<1>5. \A g \in Grants : grants[g].cons \in Apps /\ grants[g].prov \in Apps
  BY <1>1 DEF Rows, Row
<1>6. LiveGrantsAreCurrent'
  BY SMTT(30), <1>1, <1>4, <1>5 DEF LiveGrantsAreCurrent
<1>7. ActiveIsThere'
  BY <1>1, <1>2 DEF ActiveIsThere
<1>8. PubsDeclared'
  BY <1>1 DEF PubsDeclared
<1>. QED
  BY <1>1, <1>3, <1>6, <1>7, <1>8 DEF InstType

(* Cleanup and register_installation: the request is over.                 *)
LEMMA RegisterStep ==
  ASSUME AccessInv, NEW p \in Procs, Cleanup(p) \/ register_installation(p)
  PROVE  AccessInv'
<1>. DEFINE x == proc[p]
            c == x.cons
<1>1. /\ x.pc \in {"cleanup", "register"} /\ To(p, answered(x, "ok"))
      /\ grants' = grants /\ pubs' = pubs /\ mix' = mix
  BY DEF Cleanup, register_installation, at, To
<1>2. /\ x \in Requests /\ Placed(x) /\ Retires(x) /\ inst \in [Apps -> InstType]
  BY DEF AccessInv, AccessTypeOK, Fits, InstType
<1>3. x.op \in Lifecycle /\ c \in Apps
  BY <1>1, <1>2 DEF Placed, Finding, Reading, Requests
<1>4. answered(x, "ok") = Idle /\ Idle \in Requests /\ Idle.holds = {}
  BY <1>2, <1>3, AnsweredIs, IdleFits DEF Lifecycle
<1>5. Fits(proc[p])'
  <2>1. proc'[p] = Idle
    BY <1>1, <1>4 DEF To, AccessInv, AccessTypeOK
  <2>. QED
    BY <2>1, IdleFitsAfter
<1>6. \E r \in InstType :
        /\ inst' = [inst EXCEPT ![c] = r]
        /\ inst[c].active => r.active /\ r.gen = inst[c].gen
        /\ r.active => r.row
  <2>. DEFINE i == inst[c]
  <2>1. i \in InstType
    BY <1>2, <1>3
  <2>2. CASE Cleanup(p)
    <3>. DEFINE r == [i EXCEPT !.row = FALSE]
    <3>1. x.pc = "cleanup" /\ inst' = [inst EXCEPT ![c] = r]
      BY <2>2 DEF Cleanup, at
    <3>2. ~i.active
      BY <1>2, <3>1 DEF Retires
    <3>. HIDE DEF i
    <3>3. r \in InstType /\ r.active = i.active
      BY <2>1 DEF InstType
    <3>. QED
      BY <3>1, <3>2, <3>3 DEF i
  <2>3. CASE register_installation(p) /\ inst[c].active
    <3>1. inst' = inst
      BY <2>3 DEF register_installation
    <3>2. i.active => i.row
      BY <1>3 DEF AccessInv, ActiveIsThere
    <3>3. inst' = [inst EXCEPT ![c] = i]
      BY <1>2, <1>3, <3>1
    <3>. QED
      BY <2>1, <3>2, <3>3
  <2>4. CASE register_installation(p) /\ ~inst[c].active
    <3>. DEFINE n == i.gen + 1
                r == [i EXCEPT !.gen = n, !.active = TRUE]
    <3>1. x.pc = "register" /\ i.gen < MaxGen /\ inst' = [inst EXCEPT ![c].gen = @ + 1, ![c].active = TRUE]
      BY <2>4 DEF register_installation, at
    <3>2. inst' = [inst EXCEPT ![c] = r]
      BY <1>2, <1>3, <3>1
    <3>3. i.row
      BY <1>2, <3>1 DEF Retires
    <3>4. n \in 0..MaxGen
      BY SMTT(30), <2>1, <3>1, AccessAssumption DEF InstType
    <3>. HIDE DEF n, i
    <3>5. r \in InstType /\ r.active = TRUE /\ r.row = i.row
      BY <2>1, <3>4 DEF InstType
    <3>. QED
      BY <2>4, <3>2, <3>3, <3>5 DEF i
  <2>. QED
    BY <2>2, <2>3, <2>4
<1>7. PICK r \in InstType :
        /\ inst' = [inst EXCEPT ![c] = r]
        /\ inst[c].active => r.active /\ r.gen = inst[c].gen
        /\ r.active => r.row
  BY <1>6
<1>8. /\ inst' \in [Apps -> [gen : 0..MaxGen, active : BOOLEAN, row : BOOLEAN]]
      /\ grants' \in Rows(Grants) /\ pubs' \in Rows(Pubs)
      /\ LiveGrantsAreCurrent' /\ ActiveIsThere' /\ PubsDeclared'
  BY <1>1, <1>7, InstTables
<1>9. \A q \in Procs : q # p => SafeFor(q)
  BY <1>1, <1>3, <1>7, InstSafe
<1>. QED
  BY <1>1, <1>4, <1>5, <1>8, <1>9, TableStep

(* Callbacks: the app has its row before its installation is registered.   *)
LEMMA CallbacksStep ==
  ASSUME AccessInv, NEW p \in Procs, Callbacks(p)
  PROVE  AccessInv'
<1>. DEFINE x == proc[p]
            c == x.cons
            i == inst[c]
            r == [i EXCEPT !.row = TRUE]
            y == [x EXCEPT !.pc = "register"]
<1>1. /\ x.pc = "callbacks" /\ To(p, y) /\ inst' = [inst EXCEPT ![c] = r]
      /\ grants' = grants /\ pubs' = pubs /\ mix' = mix
  BY DEF Callbacks, at, To
<1>2. /\ x \in Requests /\ Placed(x) /\ Named(x) /\ Recorded(x) /\ HoldsApps(x) /\ HoldsMarked(x)
      /\ inst \in [Apps -> InstType]
  BY DEF AccessInv, AccessTypeOK, Fits, InstType
<1>3. x.op \in Lifecycle /\ c \in Apps
  BY <1>1, <1>2 DEF Placed, Finding, Reading, Requests
<1>4. i \in InstType
  BY <1>2, <1>3
<1>5. r \in InstType /\ r.active = i.active /\ r.gen = i.gen /\ r.row = TRUE
  BY <1>4 DEF InstType
<1>. HIDE DEF r
<1>6. /\ inst' \in [Apps -> [gen : 0..MaxGen, active : BOOLEAN, row : BOOLEAN]]
      /\ grants' \in Rows(Grants) /\ pubs' \in Rows(Pubs)
      /\ LiveGrantsAreCurrent' /\ ActiveIsThere' /\ PubsDeclared'
  BY <1>1, <1>5, InstTables
<1>7. \A q \in Procs : q # p => SafeFor(q)
  BY <1>1, <1>3, <1>5, InstSafe
<1>8. y \in Requests
  BY SMTT(30), <1>2 DEF Requests, Places
<1>9. Same(y, x) /\ y.pc = "register" /\ y.holds = x.holds /\ y.wr = x.wr
  BY <1>2, <1>8 DEF Requests, Same
<1>10. proc'[p] = y
  BY <1>1 DEF To, AccessInv, AccessTypeOK
<1>. HIDE DEF y
<1>11. Placed(proc[p])' /\ Named(proc[p])' /\ Recorded(proc[p])'
  BY <1>1, <1>2, <1>3, <1>9, <1>10 DEF Placed, Named, Recorded, Same, Lifecycle
<1>12. HoldsApps(proc[p])'
  BY <1>1, <1>2, <1>3, <1>9, <1>10 DEF HoldsApps, X, Same, Lifecycle
<1>13. HoldsMarked(proc[p])' /\ Creates(proc[p])'
  BY <1>1, <1>2, <1>9, <1>10 DEF HoldsMarked, X, Creates
<1>14. Retires(proc[p])'
  <2>1. inst'[c].row
    BY <1>1, <1>2, <1>3, <1>5
  <2>. QED
    BY <1>9, <1>10, <2>1 DEF Retires, Same
<1>15. UnderGrant(proc[p])' /\ UnderInstallations(proc[p])' /\ UnderPublication(proc[p])'
  BY <1>9, <1>10 DEF UnderGrant, UnderInstallations, UnderPublication
<1>. QED
  BY <1>1, <1>6, <1>7, <1>8, <1>9, <1>11, <1>12, <1>13, <1>14, <1>15, TableStep DEF Fits

(* The tables after a step on grants alone.                                *)
LEMMA GrantsTables ==
  ASSUME AccessInv, inst' = inst, pubs' = pubs, mix' = mix, grants' \in Rows(Grants),
         \A g \in Grants : grants'[g].st \in Live =>
           \/ /\ grants[g].st \in Live
              /\ grants'[g].cons = grants[g].cons /\ grants'[g].prov = grants[g].prov
              /\ grants'[g].cg = grants[g].cg /\ grants'[g].pg = grants[g].pg
           \/ /\ inst[grants'[g].cons].active /\ grants'[g].cg = inst[grants'[g].cons].gen
              /\ inst[grants'[g].prov].active /\ grants'[g].pg = inst[grants'[g].prov].gen
  PROVE  /\ inst' \in [Apps -> [gen : 0..MaxGen, active : BOOLEAN, row : BOOLEAN]]
         /\ pubs' \in Rows(Pubs)
         /\ LiveGrantsAreCurrent' /\ ActiveIsThere' /\ PubsDeclared'
<1>1. /\ inst \in [Apps -> [gen : 0..MaxGen, active : BOOLEAN, row : BOOLEAN]]
      /\ pubs \in Rows(Pubs) /\ LiveGrantsAreCurrent /\ ActiveIsThere /\ PubsDeclared
  BY DEF AccessInv, AccessTypeOK
<1>2. LiveGrantsAreCurrent'
  BY <1>1 DEF LiveGrantsAreCurrent
<1>3. ActiveIsThere' /\ PubsDeclared'
  BY <1>1 DEF ActiveIsThere, PubsDeclared
<1>. QED
  BY <1>1, <1>2, <1>3

(* A request that is not an operation is over once it has answered.        *)
LEMMA OverStep ==
  ASSUME AccessInv, NEW p \in Procs, NEW a \in {"ok", "error"}, To(p, answered(proc[p], a)),
         proc[p].op \notin {"operate", "agent", "published"},
         inst' \in [Apps -> [gen : 0..MaxGen, active : BOOLEAN, row : BOOLEAN]],
         grants' \in Rows(Grants), pubs' \in Rows(Pubs),
         LiveGrantsAreCurrent', ActiveIsThere', PubsDeclared',
         \A q \in Procs : q # p => SafeFor(q)
  PROVE  AccessInv'
<1>1. proc[p] \in Requests
  BY DEF AccessInv, AccessTypeOK
<1>2. answered(proc[p], a) = Idle /\ Idle \in Requests /\ Idle.holds = {}
  BY <1>1, AnsweredIs, IdleFits
<1>3. proc'[p] = Idle
  BY <1>2 DEF To, AccessInv, AccessTypeOK
<1>4. Fits(proc[p])'
  BY <1>3, IdleFitsAfter
<1>. QED
  BY <1>2, <1>4, TableStep

(* Insert: the new grant is of the two installations that are locked.      *)
LEMMA InsertStep ==
  ASSUME AccessInv, NEW p \in Procs, Insert(p)
  PROVE  AccessInv'
<1>. DEFINE x == proc[p]
            m == marked(x.wr, "expired")
            new(due) == [st |-> "pending", ver |-> 1, cons |-> x.cons, prov |-> x.prov,
                         cg |-> inst[x.cons].gen, pg |-> inst[x.prov].gen, due |-> due]
<1>1. /\ x.pc = "matching" /\ x \in Requests /\ Placed(x) /\ HoldsApps(x) /\ Creates(x)
      /\ mix \in Mixes /\ inst \in [Apps -> InstType]
  BY DEF Insert, at, AccessInv, AccessTypeOK, Fits, InstType
<1>2. x.op = "create" /\ x.cons \in Apps /\ x.prov \in Apps
  BY <1>1 DEF Placed, Finding, Reading, Lifecycle, Requests
<1>3. /\ m \in Rows(Grants)
      /\ \A g \in Grants : m[g].st \in Live => m[g] = grants[g]
      /\ \A q \in Procs : q # p =>
           \A g \in Grants : X(proc[q], grantLock(g)) => m[g] = grants[g]
  BY MarkedSafe
<1>4. CASE Fails(p)
  BY <1>1, <1>4, FailsStep
<1>5. ASSUME NEW g \in 1..mix.limit, NEW due \in {"never", "later"}, grants[g].st = "none",
             grants' = [m EXCEPT ![g] = new(due)], To(p, answered(x, "ok")),
             inst' = inst, pubs' = pubs
      PROVE  AccessInv'
  <2>1. g \in Grants /\ mix' = mix
    <3>1. mix.limit \in 0..NGrants /\ NGrants \in Nat
      BY <1>1, AccessAssumption
    <3>. QED
      BY SMTT(30), <1>5, <3>1 DEF Grants, To
  <2>. DEFINE n == new(due)
  <2>2. /\ n.st = "pending" /\ n.cons = x.cons /\ n.prov = x.prov
        /\ n.cg = inst[x.cons].gen /\ n.pg = inst[x.prov].gen
    OBVIOUS
  <2>3. n \in Row
    BY <1>1, <1>2 DEF InstType, Live, Row
  <2>4. grants' = [m EXCEPT ![g] = n]
    BY <1>5
  <2>. HIDE DEF n, m, new
  <2>5. grants' \in Rows(Grants)
    BY <1>3, <2>1, <2>3, <2>4 DEF Rows
  <2>6. grants'[g] = n /\ \A h \in Grants : h # g => grants'[h] = m[h]
    BY <1>3, <2>1, <2>4 DEF Rows
  <2>7. inst[x.cons].active /\ inst[x.prov].active
    BY <1>1 DEF Creates
  <2>8. \A h \in Grants : h # g /\ grants'[h].st \in Live => grants'[h] = grants[h]
    BY <1>3, <2>6
  <2>9. /\ inst' \in [Apps -> [gen : 0..MaxGen, active : BOOLEAN, row : BOOLEAN]]
        /\ pubs' \in Rows(Pubs)
        /\ LiveGrantsAreCurrent' /\ ActiveIsThere' /\ PubsDeclared'
    <3>1. \A h \in Grants : grants'[h].st \in Live =>
           \/ /\ grants[h].st \in Live
              /\ grants'[h].cons = grants[h].cons /\ grants'[h].prov = grants[h].prov
              /\ grants'[h].cg = grants[h].cg /\ grants'[h].pg = grants[h].pg
           \/ /\ inst[grants'[h].cons].active /\ grants'[h].cg = inst[grants'[h].cons].gen
              /\ inst[grants'[h].prov].active /\ grants'[h].pg = inst[grants'[h].prov].gen
      BY <2>2, <2>6, <2>7, <2>8
    <3>. QED
      BY <1>5, <2>1, <2>5, <3>1, GrantsTables
  <2>10. ASSUME NEW q \in Procs, q # p
         PROVE  SafeFor(q)
    <3>1. \A h \in Grants : X(proc[q], grantLock(h)) /\ grants[h].st \in Live =>
             grants'[h] = grants[h]
      BY <1>3, <1>5, <2>6, <2>10 DEF Live
    <3>2. ~X(proc[q], appLock(x.cons)) /\ ~X(proc[q], appLock(x.prov))
      BY <1>1, <1>2, <2>10, Exclusive DEF HoldsApps
    <3>3. \A h \in Grants : grants'[h].st \in Live =>
            \/ grants'[h] = grants[h]
            \/ ~X(proc[q], appLock(grants'[h].cons)) /\ ~X(proc[q], appLock(grants'[h].prov))
      BY <2>2, <2>6, <2>8, <3>2
    <3>. QED
      BY <1>5, <3>1, <3>3 DEF SafeFor, Shares
  <2>. QED
    BY <1>2, <1>5, <2>5, <2>9, <2>10, OverStep
<1>. QED
  BY <1>4, <1>5 DEF Insert

(* Transition: nobody else has the grant locked, and none is revived.      *)
LEMMA TransitionStep ==
  ASSUME AccessInv, NEW p \in Procs, Transition(p)
  PROVE  AccessInv'
<1>. DEFINE x == proc[p]
            r == grants[x.id]
<1>1. x.pc = "transition" /\ Granted(p) /\ x \in Requests /\ Placed(x) /\ Named(x)
      /\ grants \in Rows(Grants)
  BY DEF Transition, at, AccessInv, AccessTypeOK, Fits
<1>2. x.op \in {"approve", "enable", "disable", "revoke"} /\ x.id \in Grants
  BY <1>1 DEF Placed, Named, Finding, Reading, Lifecycle
<1>3. \/ Fails(p)
      \/ \E st \in {"active", "disabled", "revoked"} :
           /\ r.st \in Live /\ grants' = [grants EXCEPT ![x.id] = bumped(r, st)]
           /\ To(p, answered(x, "ok")) /\ inst' = inst /\ pubs' = pubs
  BY DEF Transition, Live
<1>4. CASE Fails(p)
  BY <1>1, <1>4, FailsStep
<1>5. ASSUME NEW st \in {"active", "disabled", "revoked"},
             r.st \in Live, grants' = [grants EXCEPT ![x.id] = bumped(r, st)],
             To(p, answered(x, "ok")), inst' = inst, pubs' = pubs
      PROVE  AccessInv'
  <2>. DEFINE b == bumped(r, st)
  <2>1. st \in States
    BY DEF States, Live
  <2>2. /\ b \in Row
        /\ b.cons = r.cons /\ b.prov = r.prov /\ b.cg = r.cg /\ b.pg = r.pg
    <3>1. r \in Row
      BY <1>1, <1>2 DEF Rows
    <3>. HIDE DEF r
    <3>. QED
      BY <2>1, <3>1, BumpedIs
  <2>. HIDE DEF b
  <2>3. grants' = [grants EXCEPT ![x.id] = b] /\ mix' = mix
    BY <1>5 DEF b, To
  <2>4. /\ grants' \in Rows(Grants) /\ grants'[x.id] = b
        /\ \A h \in Grants : h # x.id => grants'[h] = grants[h]
    BY <1>1, <1>2, <2>2, <2>3 DEF Rows
  <2>5. /\ inst' \in [Apps -> [gen : 0..MaxGen, active : BOOLEAN, row : BOOLEAN]]
        /\ pubs' \in Rows(Pubs)
        /\ LiveGrantsAreCurrent' /\ ActiveIsThere' /\ PubsDeclared'
    <3>1. \A h \in Grants : grants'[h].st \in Live =>
              /\ grants[h].st \in Live
              /\ grants'[h].cons = grants[h].cons /\ grants'[h].prov = grants[h].prov
              /\ grants'[h].cg = grants[h].cg /\ grants'[h].pg = grants[h].pg
      BY <1>5, <2>2, <2>4
    <3>. QED
      BY <1>5, <2>3, <2>4, <3>1, GrantsTables
  <2>6. ASSUME NEW q \in Procs, q # p
        PROVE  SafeFor(q)
    <3>1. ~X(proc[q], grantLock(x.id))
      BY <1>1, <2>6, WantGrant, GrantedAlone
    <3>2. \A h \in Grants : X(proc[q], grantLock(h)) => grants'[h] = grants[h]
      BY <2>4, <3>1
    <3>3. \A h \in Grants : grants'[h].st \in Live =>
            grants[h].st \in Live /\ grants'[h].cons = grants[h].cons /\ grants'[h].prov = grants[h].prov
      BY <1>5, <2>2, <2>4
    <3>. QED
      BY <1>5, <3>2, <3>3 DEF SafeFor, Shares
  <2>. QED
    BY <1>2, <1>5, <2>4, <2>5, <2>6, OverStep
<1>. QED
  BY <1>3, <1>4, <1>5

(* The tables after a step on publications alone.                          *)
LEMMA PubsTables ==
  ASSUME AccessInv, inst' = inst, grants' = grants, mix' = mix,
         \A u \in Pubs : pubs'[u].st # "none" =>
           \/ pubs[u].st # "none" /\ pubs'[u].cons = pubs[u].cons /\ pubs'[u].prov = pubs[u].prov
           \/ <<pubs'[u].cons, pubs'[u].prov>> \in Declared(mix)
  PROVE  /\ inst' \in [Apps -> [gen : 0..MaxGen, active : BOOLEAN, row : BOOLEAN]]
         /\ grants' \in Rows(Grants)
         /\ LiveGrantsAreCurrent' /\ ActiveIsThere' /\ PubsDeclared'
<1>1. /\ inst \in [Apps -> [gen : 0..MaxGen, active : BOOLEAN, row : BOOLEAN]]
      /\ grants \in Rows(Grants) /\ LiveGrantsAreCurrent /\ ActiveIsThere /\ PubsDeclared
  BY DEF AccessInv, AccessTypeOK
<1>2. LiveGrantsAreCurrent' /\ ActiveIsThere'
  BY <1>1 DEF LiveGrantsAreCurrent, ActiveIsThere
<1>3. Declared(mix') = Declared(mix)
  OBVIOUS
<1>4. PubsDeclared'
  BY <1>1, <1>3 DEF PubsDeclared
<1>. QED
  BY <1>1, <1>2, <1>4

(* A step on publications is safe for a request when it keeps which        *)
(* publications there are, and those the request shares.                   *)
LEMMA PubsSafe ==
  ASSUME NEW q \in Procs, inst' = inst, grants' = grants,
         \A u \in Pubs : pubs[u].st # "none" => pubs'[u].st # "none" /\ pubs'[u].cons = pubs[u].cons,
         \A u \in Pubs : pubs[u].st = "active" /\ S(proc[q], pubLock(u)) => pubs'[u] = pubs[u]
  PROVE  SafeFor(q)
BY DEF SafeFor, Shares

(* Publish: the new row is one that its apps declare.                      *)
LEMMA PublishStep ==
  ASSUME AccessInv, NEW p \in Procs, NEW rows \in Rows(Pubs), Publish(p, rows),
         proc[p].op = "publish",
         \A u \in Pubs : rows[u].st # "none" => pubs[u].st # "none",
         \A u \in Pubs : pubs[u].st # "none" =>
           rows[u].st # "none" /\ rows[u].cons = pubs[u].cons /\ rows[u].prov = pubs[u].prov,
         \A q \in Procs : q # p =>
           \A u \in Pubs : S(proc[q], pubLock(u)) => rows[u] = pubs[u]
  PROVE  AccessInv'
<1>. DEFINE x == proc[p]
            new(due) == [st |-> "active", ver |-> 1, cons |-> x.cons, prov |-> x.prov,
                         cg |-> x.pub.cg, pg |-> x.pub.pg, due |-> due]
<1>1. PICK i \in Pubs, due \in {"never", "later"} :
        /\ pubs[i].st = "none" /\ pubs' = [rows EXCEPT ![i] = new(due)]
        /\ To(p, answered(x, "ok")) /\ inst' = inst /\ grants' = grants
  BY DEF Publish
<1>2. x \in Requests /\ Named(x)
  BY DEF AccessInv, AccessTypeOK, Fits
<1>3. x.cons \in Apps /\ x.prov \in Apps /\ x.pub.cg \in 0..MaxGen /\ x.pub.pg \in 0..MaxGen
  BY <1>2 DEF Requests, Auths
<1>4. <<x.cons, x.prov>> \in Declared(mix) /\ mix' = mix
  BY <1>1, <1>2 DEF Named, To
<1>. DEFINE n == new(due)
<1>5. n.st = "active" /\ n.cons = x.cons /\ n.prov = x.prov
  OBVIOUS
<1>6. n \in Row
  BY <1>3 DEF Live, Row
<1>7. pubs' = [rows EXCEPT ![i] = n]
  BY <1>1
<1>. HIDE DEF n, new
<1>8. pubs' \in Rows(Pubs)
  BY <1>1, <1>6, <1>7 DEF Rows
<1>9. pubs'[i] = n /\ \A u \in Pubs : u # i => pubs'[u] = rows[u]
  BY <1>1, <1>7 DEF Rows
<1>10. /\ inst' \in [Apps -> [gen : 0..MaxGen, active : BOOLEAN, row : BOOLEAN]]
       /\ grants' \in Rows(Grants)
       /\ LiveGrantsAreCurrent' /\ ActiveIsThere' /\ PubsDeclared'
  <2>1. \A u \in Pubs : pubs'[u].st # "none" =>
           \/ pubs[u].st # "none" /\ pubs'[u].cons = pubs[u].cons /\ pubs'[u].prov = pubs[u].prov
           \/ <<pubs'[u].cons, pubs'[u].prov>> \in Declared(mix)
    BY SMTT(30), <1>4, <1>5, <1>9
  <2>. QED
    BY <1>1, <1>4, <2>1, PubsTables
<1>11. ASSUME NEW q \in Procs, q # p
       PROVE  SafeFor(q)
  <2>1. \A u \in Pubs : pubs[u].st # "none" => pubs'[u].st # "none" /\ pubs'[u].cons = pubs[u].cons
    BY <1>1, <1>9
  <2>2. \A u \in Pubs : pubs[u].st = "active" /\ S(proc[q], pubLock(u)) => pubs'[u] = pubs[u]
    BY <1>1, <1>9, <1>11
  <2>. QED
    BY <1>1, <2>1, <2>2, PubsSafe
<1>. QED
  BY <1>1, <1>8, <1>10, <1>11, OverStep

(* ApprovePublication: a new row, a conflict, or the one to supersede.     *)
LEMMA ApprovePublicationStep ==
  ASSUME AccessInv, NEW p \in Procs, ApprovePublication(p)
  PROVE  AccessInv'
<1>. DEFINE x == proc[p]
            t == took(p, "supersede")
<1>1. x.pc = "approval" /\ Granted(p) /\ x \in Requests /\ Placed(x) /\ Named(x)
  BY DEF ApprovePublication, at, AccessInv, AccessTypeOK, Fits
<1>2. x.op = "publish"
  BY <1>1 DEF Placed, Finding, Reading, Lifecycle
<1>3. CASE Publish(p, pubs)
  BY <1>2, <1>3, PublishStep DEF AccessInv, AccessTypeOK
<1>4. CASE Fails(p)
  BY <1>1, <1>4, FailsStep
<1>5. ASSUME NEW u \in Pubs, pubs[u].st \in Live, Only(p, [t EXCEPT !.pub.id = u])
      PROVE  AccessInv'
  <2>1. "supersede" \in Places
    BY DEF Places
  <2>2. /\ t \in Requests /\ Same(t, x) /\ t.pc = "supersede" /\ t.holds = x.holds \cup Want(p)
        /\ t.wr = x.wr
    BY <2>1, TookIs
  <2>3. Recorded(t) /\ HoldsApps(t) /\ HoldsMarked(t)
    BY <1>1, <2>1, TookKeeps
  <2>. DEFINE b == [t.pub EXCEPT !.id = u]
              y == [t EXCEPT !.pub = b]
  <2>. HIDE DEF t
  <2>4. u \in Nat
    BY SMTT(30), AccessAssumption DEF Pubs
  <2>5. b \in Auths /\ b.id = u
    BY <2>2, <2>4 DEF Requests, Auths
  <2>6. [t EXCEPT !.pub.id = u] = y
    BY <2>2 DEF Requests, Auths
  <2>. HIDE DEF b
  <2>7. y \in Requests
    BY <2>2, <2>5 DEF Requests
  <2>8. /\ y.pc = t.pc /\ y.op = t.op /\ y.cons = t.cons /\ y.prov = t.prov /\ y.pub = b
        /\ y.holds = t.holds /\ y.wr = t.wr /\ y.durable = t.durable /\ y.success = t.success
    BY <2>2 DEF Requests
  <2>9. Only(p, y)
    BY <1>5, <2>6 DEF t
  <2>. HIDE DEF y
  <2>10. Recorded(y) /\ HoldsApps(y) /\ HoldsMarked(y)
    BY <2>2, <2>3, <2>8 DEF Recorded, HoldsApps, HoldsMarked, X
  <2>11. y.op = "publish" /\ y.pc = "supersede" /\ y.cons = x.cons /\ y.prov = x.prov /\ y.pub.id = u
    BY <1>2, <2>2, <2>5, <2>8 DEF Same
  <2>12. pubs[u].st # "none"
    BY <1>5 DEF Live
  <2>13. Placed(y) /\ Named(y)
    BY <1>1, <1>2, <1>5, <2>11, <2>12 DEF Placed, Named, Reading, Finding
  <2>14. Fits(y)
    BY <2>10, <2>11, <2>13, QuietFits DEF Relying
  <2>15. \A h \in y.holds : Free(p, h)
    BY <1>1, <2>2, <2>8, GrantedIsFree
  <2>. QED
    BY <2>7, <2>9, <2>14, <2>15, OnlyStep
<1>. QED
  BY <1>3, <1>4, <1>5 DEF ApprovePublication, LiveOf

(* Supersede: nobody shares the publication that ends.                     *)
LEMMA SupersedeStep ==
  ASSUME AccessInv, NEW p \in Procs, Supersede(p)
  PROVE  AccessInv'
<1>. DEFINE x == proc[p]
            u == x.pub.id
            st == IF Lapsed(pubs[u]) THEN "expired" ELSE "revoked"
            rows == [pubs EXCEPT ![u] = bumped(pubs[u], st)]
<1>1. x.pc = "supersede" /\ Granted(p) /\ x \in Requests /\ Placed(x) /\ Named(x)
      /\ pubs \in Rows(Pubs)
  BY DEF Supersede, at, AccessInv, AccessTypeOK, Fits
<1>2. x.op = "publish" /\ u \in Pubs /\ pubs[u].st # "none"
  BY <1>1 DEF Placed, Named, Finding, Reading, Lifecycle
<1>3. Publish(p, rows)
  BY <1>1, <1>2 DEF Supersede, Rows
<1>4. st \in States /\ st # "none"
  BY DEF States
<1>. DEFINE b == bumped(pubs[u], st)
<1>5. b \in Row /\ b.st = st /\ b.cons = pubs[u].cons /\ b.prov = pubs[u].prov
  <2>1. pubs[u] \in Row
    BY <1>1, <1>2 DEF Rows
  <2>. HIDE DEF st, u
  <2>. QED
    BY <1>4, <2>1, BumpedIs
<1>. HIDE DEF b
<1>6. rows \in Rows(Pubs) /\ rows[u] = b /\ \A v \in Pubs : v # u => rows[v] = pubs[v]
  <2>1. rows = [pubs EXCEPT ![u] = b]
    BY DEF b
  <2>. HIDE DEF rows, u
  <2>. QED
    BY <1>1, <1>2, <1>5, <2>1 DEF Rows
<1>7. \A q \in Procs : q # p => ~S(proc[q], pubLock(u))
  BY <1>1, WantPub, GrantedAlone
<1>. HIDE DEF st, rows, u
<1>8. \A v \in Pubs : rows[v].st # "none" => pubs[v].st # "none"
  BY <1>2, <1>6
<1>9. \A v \in Pubs : pubs[v].st # "none" =>
        rows[v].st # "none" /\ rows[v].cons = pubs[v].cons /\ rows[v].prov = pubs[v].prov
  BY <1>4, <1>5, <1>6
<1>10. \A q \in Procs : q # p => \A v \in Pubs : S(proc[q], pubLock(v)) => rows[v] = pubs[v]
  BY <1>6, <1>7
<1>. QED
  BY <1>2, <1>3, <1>6, <1>8, <1>9, <1>10, PublishStep

(* ChangePublication: nobody shares the publication that changes.          *)
LEMMA ChangePublicationStep ==
  ASSUME AccessInv, NEW p \in Procs, ChangePublication(p)
  PROVE  AccessInv'
<1>. DEFINE x == proc[p]
            r == pubs[x.id]
<1>1. x.pc = "change" /\ Granted(p) /\ x \in Requests /\ Placed(x) /\ Named(x)
      /\ pubs \in Rows(Pubs)
  BY DEF ChangePublication, at, AccessInv, AccessTypeOK, Fits
<1>2. x.op \in {"pubDisable", "pubEnable", "pubRevoke"} /\ x.id \in Pubs /\ x.pub.id = x.id
  BY <1>1 DEF Placed, Named, Finding, Reading, Lifecycle
<1>3. \/ Fails(p)
      \/ \E st \in {"active", "disabled", "revoked", "expired"}, a \in {"ok", "error"} :
           /\ r.st \in Live /\ pubs' = [pubs EXCEPT ![x.id] = bumped(r, st)]
           /\ To(p, answered(x, a)) /\ inst' = inst /\ grants' = grants
  BY DEF ChangePublication
<1>4. CASE Fails(p)
  BY <1>1, <1>4, FailsStep
<1>5. ASSUME NEW st \in {"active", "disabled", "revoked", "expired"}, NEW a \in {"ok", "error"},
             r.st \in Live, pubs' = [pubs EXCEPT ![x.id] = bumped(r, st)],
             To(p, answered(x, a)), inst' = inst, grants' = grants
      PROVE  AccessInv'
  <2>. DEFINE b == bumped(r, st)
  <2>1. st \in States /\ st # "none" /\ r.st # "none"
    BY <1>5 DEF States, Live
  <2>2. b \in Row /\ b.st = st /\ b.cons = r.cons /\ b.prov = r.prov
    <3>1. r \in Row
      BY <1>1, <1>2 DEF Rows
    <3>. HIDE DEF r
    <3>. QED
      BY <2>1, <3>1, BumpedIs
  <2>. HIDE DEF b
  <2>3. pubs' = [pubs EXCEPT ![x.id] = b] /\ mix' = mix
    BY <1>5 DEF b, To
  <2>4. /\ pubs' \in Rows(Pubs) /\ pubs'[x.id] = b
        /\ \A u \in Pubs : u # x.id => pubs'[u] = pubs[u]
    BY <1>1, <1>2, <2>2, <2>3 DEF Rows
  <2>5. /\ inst' \in [Apps -> [gen : 0..MaxGen, active : BOOLEAN, row : BOOLEAN]]
        /\ grants' \in Rows(Grants)
        /\ LiveGrantsAreCurrent' /\ ActiveIsThere' /\ PubsDeclared'
    <3>1. \A u \in Pubs : pubs'[u].st # "none" =>
             pubs[u].st # "none" /\ pubs'[u].cons = pubs[u].cons /\ pubs'[u].prov = pubs[u].prov
      BY <2>1, <2>2, <2>4
    <3>. QED
      BY <1>5, <2>3, <2>4, <3>1, PubsTables
  <2>6. ASSUME NEW q \in Procs, q # p
        PROVE  SafeFor(q)
    <3>1. ~S(proc[q], pubLock(x.id))
      BY <1>1, <1>2, <2>6, WantPub, GrantedAlone
    <3>2. \A u \in Pubs : pubs[u].st # "none" => pubs'[u].st # "none" /\ pubs'[u].cons = pubs[u].cons
      BY <2>1, <2>2, <2>4
    <3>3. \A u \in Pubs : pubs[u].st = "active" /\ S(proc[q], pubLock(u)) => pubs'[u] = pubs[u]
      BY <2>4, <3>1
    <3>. QED
      BY <1>5, <3>2, <3>3, PubsSafe
  <2>. QED
    BY <1>2, <1>5, <2>4, <2>5, <2>6, OverStep
<1>. QED
  BY <1>3, <1>4, <1>5

(* An expiry that passes changes nothing a request was authorized by.      *)
DueRow(r) == [r EXCEPT !.due = "due"]
Kept(ids, rows, next) ==
  /\ next \in Rows(ids)
  /\ \A i \in ids : /\ next[i].st = rows[i].st /\ Frozen(i, next[i]) = Frozen(i, rows[i])
                    /\ next[i].cons = rows[i].cons /\ next[i].prov = rows[i].prov
                    /\ next[i].cg = rows[i].cg /\ next[i].pg = rows[i].pg

LEMMA DueIs ==
  ASSUME NEW ids, NEW rows \in Rows(ids), NEW i \in ids
  PROVE  Kept(ids, rows, [rows EXCEPT ![i] = DueRow(rows[i])])
<1>. DEFINE r == rows[i]
            b == DueRow(r)
            next == [rows EXCEPT ![i] = b]
<1>1. r \in Row
  BY DEF Rows
<1>. HIDE DEF r
<1>2. /\ b \in Row /\ b.st = r.st /\ b.ver = r.ver /\ b.cons = r.cons /\ b.prov = r.prov
      /\ b.cg = r.cg /\ b.pg = r.pg
  BY <1>1 DEF DueRow, Row
<1>. HIDE DEF b
<1>3. next \in Rows(ids) /\ next[i] = b /\ \A j \in ids : j # i => next[j] = rows[j]
  BY <1>2 DEF Rows
<1>. HIDE DEF next
<1>4. Kept(ids, rows, next)
  BY <1>2, <1>3 DEF Kept, Frozen, r
<1>. QED
  BY <1>4 DEF next, b, r

LEMMA ExpiresStep ==
  ASSUME AccessInv, Expires
  PROVE  AccessInv'
<1>1. mix' = mix /\ inst' = inst /\ proc' = proc
  BY DEF Expires
<1>2. /\ mix \in Mixes /\ inst \in [Apps -> [gen : 0..MaxGen, active : BOOLEAN, row : BOOLEAN]]
      /\ proc \in [Procs -> Requests]
  BY DEF AccessInv, AccessTypeOK
<1>3. grants \in Rows(Grants) /\ pubs \in Rows(Pubs)
  BY DEF AccessInv, AccessTypeOK
<1>4. Kept(Grants, grants, grants') /\ Kept(Pubs, pubs, pubs')
  <2>1. Kept(Grants, grants, grants) /\ Kept(Pubs, pubs, pubs)
    BY <1>3 DEF Kept
  <2>2. ASSUME NEW g \in Grants, grants' = [grants EXCEPT ![g].due = "due"]
        PROVE  Kept(Grants, grants, grants')
    <3>1. g \in Grants /\ grants' = [grants EXCEPT ![g] = DueRow(grants[g])]
      BY <1>3, <2>2 DEF DueRow, Rows
    <3>. QED
      BY <1>3, <3>1, DueIs
  <2>3. ASSUME NEW u \in Pubs, pubs' = [pubs EXCEPT ![u].due = "due"]
        PROVE  Kept(Pubs, pubs, pubs')
    <3>1. u \in Pubs /\ pubs' = [pubs EXCEPT ![u] = DueRow(pubs[u])]
      BY <1>3, <2>3 DEF DueRow, Rows
    <3>. QED
      BY <1>3, <3>1, DueIs
  <2>. QED
    BY <2>1, <2>2, <2>3 DEF Expires
<1>5. AccessTypeOK'
  BY <1>1, <1>2, <1>4 DEF AccessTypeOK, Kept
<1>6. LiveGrantsAreCurrent' /\ ActiveIsThere'
  BY <1>1, <1>4 DEF AccessInv, LiveGrantsAreCurrent, ActiveIsThere, Kept
<1>7. PubsDeclared'
  <2>1. Declared(mix') = Declared(mix)
    BY <1>1
  <2>. QED
    BY <1>4, <2>1 DEF AccessInv, PubsDeclared, Kept
<1>8. LocksExclude'
  BY SMTT(30), <1>1 DEF AccessInv, LocksExclude
<1>9. ASSUME NEW q \in Procs
      PROVE  Fits(proc[q])'
  <2>1. SafeFor(q)
    BY <1>1, <1>4 DEF SafeFor, Shares, Kept
  <2>. QED
    BY <1>1, <2>1, OthersFit
<1>. QED
  BY <1>5, <1>6, <1>7, <1>8, <1>9 DEF AccessInv

(***************************************************************************)
(* The invariant.                                                          *)
(***************************************************************************)
(* It holds of the installations, grants and publications a behaviour      *)
(* starts with.                                                            *)
LEMMA AccessInitially ==
  ASSUME AccessInit
  PROVE  AccessInv
<1>1. /\ mix \in Mixes
      /\ inst = [a \in Apps |-> [gen |-> 1, active |-> TRUE, row |-> TRUE]]
      /\ grants = [g \in Grants |-> IF g \in DOMAIN mix.grants THEN Approved(mix.grants[g]) ELSE NoRow]
      /\ pubs = [u \in Pubs |-> IF u \in DOMAIN mix.pubs THEN Approved(mix.pubs[u]) ELSE NoRow]
      /\ proc = [p \in Procs |-> Idle]
  BY DEF AccessInit
<1>2. NoRow \in Row /\ NoRow.st = "none"
  BY SMTT(30), AccessAssumption DEF NoRow, Apps, Row
<1>3. ASSUME NEW d \in Apps \X Apps
      PROVE  /\ Approved(d) \in Row /\ Approved(d).st = "active" /\ Approved(d).cg = 1
             /\ Approved(d).pg = 1 /\ Approved(d).cons = d[1] /\ Approved(d).prov = d[2]
  <2>. DEFINE c == d[1]
              e == d[2]
  <2>1. c \in Apps /\ e \in Apps /\ 1 \in 0..MaxGen
    BY SMTT(30), <1>3, AccessAssumption
  <2>2. Approved(d) = [NoRow EXCEPT !.st = "active", !.ver = 1, !.cons = c, !.prov = e,
                                    !.cg = 1, !.pg = 1, !.due = "later"]
    BY DEF Approved
  <2>. HIDE DEF c, e
  <2>3. Approved(d) = [st |-> "active", ver |-> 1, cons |-> c, prov |-> e,
                       cg |-> 1, pg |-> 1, due |-> "later"]
    BY <2>2 DEF NoRow
  <2>4. /\ Approved(d) \in Row /\ Approved(d).st = "active" /\ Approved(d).cg = 1
        /\ Approved(d).pg = 1 /\ Approved(d).cons = c /\ Approved(d).prov = e
    BY SMTT(30), <2>1, <2>3 DEF Live, Row
  <2>. QED
    BY <2>4 DEF c, e
<1>4. \A g \in DOMAIN mix.grants : mix.grants[g] \in Apps \X Apps
  BY <1>1, AccessAssumption
<1>5. \A u \in DOMAIN mix.pubs : mix.pubs[u] \in Apps \X Apps /\ mix.pubs[u] \in Declared(mix)
  BY <1>1, AccessAssumption DEF Declared
<1>6. 1 \in 0..MaxGen
  BY SMTT(30), AccessAssumption
<1>7. grants \in Rows(Grants)
  BY <1>1, <1>2, <1>3, <1>4 DEF Rows
<1>8. pubs \in Rows(Pubs)
  BY <1>1, <1>2, <1>3, <1>5 DEF Rows
<1>9. inst \in [Apps -> [gen : 0..MaxGen, active : BOOLEAN, row : BOOLEAN]]
  BY <1>1, <1>6
<1>10. AccessTypeOK
  BY <1>1, <1>7, <1>8, <1>9, IdleFits DEF AccessTypeOK
<1>11. ASSUME NEW g \in Grants, grants[g].st \in Live
       PROVE  /\ grants[g].cons \in Apps /\ grants[g].prov \in Apps
              /\ grants[g].cg = 1 /\ grants[g].pg = 1
  <2>1. g \in DOMAIN mix.grants
    BY <1>1, <1>2, <1>11 DEF Live
  <2>2. grants[g] = Approved(mix.grants[g])
    BY <1>1, <2>1
  <2>. QED
    BY SMTT(30), <1>3, <1>4, <2>1, <2>2
<1>12. LiveGrantsAreCurrent /\ ActiveIsThere
  BY <1>1, <1>11 DEF LiveGrantsAreCurrent, ActiveIsThere
<1>13. PubsDeclared
  <2>. SUFFICES ASSUME NEW u \in Pubs, pubs[u].st # "none"
                PROVE  <<pubs[u].cons, pubs[u].prov>> \in Declared(mix)
    BY DEF PubsDeclared
  <2>1. u \in DOMAIN mix.pubs /\ pubs[u] = Approved(mix.pubs[u])
    BY <1>1, <1>2
  <2>. DEFINE d == mix.pubs[u]
  <2>2. d \in Apps \X Apps /\ d \in Declared(mix)
    BY <1>5, <2>1
  <2>. HIDE DEF d
  <2>3. Approved(d).cons = d[1] /\ Approved(d).prov = d[2]
    BY <1>3, <2>2
  <2>4. d = <<d[1], d[2]>>
    BY SMTT(30), <2>2
  <2>. QED
    BY <2>1, <2>2, <2>3, <2>4 DEF d
<1>14. LocksExclude
  BY <1>1, IdleFits DEF LocksExclude
<1>15. \A p \in Procs : Fits(proc[p])
  BY <1>1, IdleFits
<1>. QED
  BY <1>10, <1>12, <1>13, <1>14, <1>15 DEF AccessInv

(* Every step keeps it.                                                    *)
LEMMA AccessStep ==
  ASSUME AccessInv, [AccessNext]_accessVars
  PROVE  AccessInv'
<1>1. ASSUME NEW p \in Procs, Work(p)
      PROVE  AccessInv'
  BY <1>1, NextGrantStep, SweepDoneStep, HoldAppStep, DeactivateStep, DeactivatedStep,
     RegisterStep, CallbacksStep, LockBothAppsStep, LockConsumerStep, LockProviderStep,
     InsertStep, TransitionStep, AuthorizeStep, AuthorizePublishedStep, AuthorizeAgentStep,
     LockInstallationStep, LockGrantStep, CommitStep, AuditStep, ShareRowStep,
     ApprovePublicationStep, SupersedeStep, ShareFrozenStep, ChangePublicationStep,
     FindPublicationStep, ResolvePublicationStep, LockPublicationStep DEF Work
<1>2. ASSUME NEW p \in Procs, Request(p) \/ Return(p) \/ Breaks(p)
      PROVE  AccessInv'
  BY <1>2, RequestStep, ReturnStep
<1>3. CASE Expires
  BY <1>3, ExpiresStep
<1>4. CASE UNCHANGED accessVars
  <2>1. /\ mix' = mix /\ inst' = inst /\ grants' = grants /\ pubs' = pubs /\ proc' = proc
    BY <1>4 DEF accessVars
  <2>2. AccessTypeOK' /\ LiveGrantsAreCurrent' /\ ActiveIsThere' /\ PubsDeclared' /\ LocksExclude'
    BY SMTT(30), <2>1 DEF AccessInv, AccessTypeOK, LiveGrantsAreCurrent, ActiveIsThere, PubsDeclared, LocksExclude
  <2>3. ASSUME NEW q \in Procs
        PROVE  Fits(proc[q])'
    <3>1. SafeFor(q)
      BY <2>1 DEF SafeFor, Shares
    <3>. QED
      BY <2>1, <3>1, OthersFit
  <2>. QED
    BY <2>2, <2>3 DEF AccessInv
<1>. QED
  BY <1>1, <1>2, <1>3, <1>4 DEF AccessNext

(* The locks that requests hold are exclusive where they must be, and      *)
(* everything a request relies on stays as it found it under its locks.    *)
THEOREM AccessInvariant == AccessSpec => []AccessInv
<1>1. AccessInit => AccessInv
  BY AccessInitially
<1>2. AccessInv /\ [AccessNext]_accessVars => AccessInv'
  BY AccessStep
<1>. QED
  BY <1>1, <1>2, PTL DEF AccessSpec

(* No grant of a retired installation is left to be used, and a result is  *)
(* audited before anybody is given it.                                     *)
THEOREM GrantsAccountable == AccessSpec => []GrantsAreAccountable
<1>1. AccessInv => GrantsAreAccountable
  BY DEF AccessInv, Fits, Recorded, GrantsAreAccountable, AuditedBeforeAnswered
<1>. QED
  BY <1>1, AccessInvariant, PTL

(* Where a request may commit, its authority is the one it was given.      *)
LEMMA AuthorityAtCommit ==
  ASSUME AccessInv, NEW p \in Procs, proc[p].pc = "provider"
  PROVE  LET x == proc[p] IN
         /\ x.auth.id # 0 => /\ grants[x.auth.id].st = "active" /\ Current(grants[x.auth.id])
                             /\ Frozen(x.auth.id, grants[x.auth.id]) = x.auth
         /\ x.pub.id # 0 => /\ pubs[x.pub.id].st = "active" /\ Current(pubs[x.pub.id])
                            /\ Frozen(x.pub.id, pubs[x.pub.id]) = x.pub
         /\ x.op = "agent" => Installed(x.prov) /\ inst[x.prov].gen = x.auth.pg
<1>. DEFINE x == proc[p]
<1>1. /\ x \in Requests /\ grants \in Rows(Grants) /\ pubs \in Rows(Pubs)
      /\ mix \in Mixes /\ LiveGrantsAreCurrent /\ ActiveIsThere /\ PubsDeclared
      /\ Placed(x) /\ Named(x) /\ UnderGrant(x) /\ UnderInstallations(x) /\ UnderPublication(x)
  BY DEF AccessInv, AccessTypeOK, Fits
<1>2. x.op \in {"operate", "agent", "published"}
  BY <1>1 DEF Placed, Finding, Reading, Lifecycle
<1>3. ASSUME x.auth.id # 0
      PROVE  /\ grants[x.auth.id].st = "active" /\ Current(grants[x.auth.id])
             /\ Frozen(x.auth.id, grants[x.auth.id]) = x.auth
  <2>1. x.auth.id \in Grants
    BY <1>1, <1>2, <1>3 DEF Named, Reading
  <2>2. grants[x.auth.id].st = "active" /\ Frozen(x.auth.id, grants[x.auth.id]) = x.auth
    BY <1>1, <1>3 DEF UnderGrant
  <2>3. grants[x.auth.id].cons \in Apps /\ grants[x.auth.id].prov \in Apps
    BY <1>1, <2>1 DEF Rows, Row
  <2>4. Current(grants[x.auth.id])
    BY <1>1, <2>1, <2>2, <2>3 DEF Current, Installed, LiveGrantsAreCurrent, ActiveIsThere, Live
  <2>. QED
    BY <2>2, <2>4
<1>4. ASSUME x.pub.id # 0
      PROVE  /\ pubs[x.pub.id].st = "active" /\ Current(pubs[x.pub.id])
             /\ Frozen(x.pub.id, pubs[x.pub.id]) = x.pub
  <2>1. x.op = "published" /\ x.pub.id \in Pubs /\ pubs[x.pub.id].cons = x.cons
        /\ <<x.cons, x.prov>> \in Declared(mix)
    BY <1>1, <1>2, <1>4 DEF Named, Reading
  <2>2. pubs[x.pub.id].st = "active" /\ Frozen(x.pub.id, pubs[x.pub.id]) = x.pub
    BY <1>1, <2>1 DEF UnderPublication
  <2>3. pubs[x.pub.id].cg = x.pub.cg /\ pubs[x.pub.id].pg = x.pub.pg
    BY SMTT(30), <2>2 DEF Frozen
  <2>4. /\ Shares(x, x.cons) /\ Shares(x, x.prov)
        /\ x.pub.cg = inst[x.cons].gen /\ x.pub.pg = inst[x.prov].gen
    BY <1>1, <2>1 DEF UnderInstallations
  <2>5. <<pubs[x.pub.id].cons, pubs[x.pub.id].prov>> \in Declared(mix)
    BY <1>1, <2>1, <2>2 DEF PubsDeclared
  <2>6. <<pubs[x.pub.id].cons, pubs[x.pub.id].prov>> = <<x.cons, x.prov>>
    <3>1. \A d, e \in Declared(mix) : d[1] = e[1] => d = e
      BY <1>1, AccessAssumption
    <3>. QED
      BY <2>1, <2>5, <3>1
  <2>7. pubs[x.pub.id].prov = x.prov
    BY <2>6
  <2>8. x.cons \in Apps /\ x.prov \in Apps
    BY <1>1 DEF Requests
  <2>9. Installed(x.cons) /\ Installed(x.prov)
    BY <1>1, <2>4, <2>8 DEF Shares, Installed, ActiveIsThere
  <2>10. Current(pubs[x.pub.id])
    BY <2>1, <2>3, <2>4, <2>7, <2>9 DEF Current
  <2>. QED
    BY <2>2, <2>10
<1>5. ASSUME x.op = "agent"
      PROVE  Installed(x.prov) /\ inst[x.prov].gen = x.auth.pg
  <2>1. x.prov \in Apps
    BY <1>1 DEF Requests
  <2>. QED
    BY <1>1, <1>5, <2>1 DEF UnderInstallations, Shares, Installed, ActiveIsThere
<1>. QED
  BY <1>3, <1>4, <1>5

(* Work commits under the grant, the publication and the installations it  *)
(* was authorized by, as they are at that moment.                          *)
THEOREM CommitsOnlyUnderAuthority == AccessSpec => CommitsUnderAuthority
<1>. DEFINE Under ==
       \A p \in Procs :
         LET x == proc[p] IN
         x.pc = "provider" /\ proc'[p].durable =>
           /\ x.auth.id # 0 => /\ grants[x.auth.id].st = "active" /\ Current(grants[x.auth.id])
                               /\ Frozen(x.auth.id, grants[x.auth.id]) = x.auth
           /\ x.pub.id # 0 => /\ pubs[x.pub.id].st = "active" /\ Current(pubs[x.pub.id])
                              /\ Frozen(x.pub.id, pubs[x.pub.id]) = x.pub
           /\ x.op = "agent" => Installed(x.prov) /\ inst[x.prov].gen = x.auth.pg
<1>1. AccessInv => Under
  BY AuthorityAtCommit
<1>2. AccessInv /\ [AccessNext]_accessVars => [Under]_accessVars
  BY <1>1
<1>3. CommitsUnderAuthority <=> [][Under]_accessVars
  BY DEF CommitsUnderAuthority
<1>. HIDE DEF Under
<1>. QED
  BY <1>2, <1>3, AccessInvariant, PTL DEF AccessSpec
=============================================================================

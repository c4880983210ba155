----------------------------- MODULE AppRelease -----------------------------
(***************************************************************************)
(* The release of one app: installing its manifest (manifest.rs), deploying*)
(* its backend (routes/deploy.rs, integrations/catalog.rs), approving one  *)
(* of its actions (governance/approved_actions) and executing that action  *)
(* (worker_manager.rs rpc_resolved, worker.rs spawn_worker).               *)
(*                                                                         *)
(* An administrator's request takes the lifecycle lock of the app and runs *)
(* several transactions under it.  An execution runs beside it, and its    *)
(* data transactions share the rows of the installation, the release and   *)
(* the approval until they commit.  A backend is its bytes: a digest is    *)
(* the content, 0 no content.  A manifest is a governance contract and a   *)
(* presentation; one action declares authority.                            *)
(***************************************************************************)
EXTENDS Integers, FiniteSets

CONSTANTS Admins,    \* administrators, one request each at a time
          Runs,      \* executions of the approved action
          Codes,     \* contents a backend may have
          Manifests, \* manifests: a governance contract and a presentation
          MaxRev,    \* bound: revisions ever made
          MaxInst,   \* bound: installations
          MaxOk,     \* bound: approvals ever given
          Duties     \* what a behaviour consists of: requests, revisions, a backend to begin with

ASSUME ReleaseAssumption ==
  /\ Codes \subseteq Nat \ {0} /\ Codes # {} /\ Manifests # {}
  /\ MaxRev \in Nat \ {0} /\ MaxInst \in Nat \ {0} /\ MaxOk \in Nat
  /\ Duties \subseteq
       [ops : [Admins -> SUBSET {"deploy", "install", "catalog", "uninstall", "inspect", "approve", "revoke"}],
        revs : 0..MaxRev, deployed : BOOLEAN]

VARIABLES duty,      \* the requests of this behaviour
          app,       \* the row in apps and the newest installation
          release,   \* the row in backend_releases
          revs,      \* revisions handed out
          dir,       \* the bytes in apps/<app>
          sealed,    \* revision -> the bytes in approved-backends/<revision>
          approvals, \* action_approvals
          review,    \* what inspect answered last
          adm,       \* administrator -> request
          run        \* execution -> its state

relVars == <<duty, app, release, revs, dir, sealed, approvals, review, adm, run>>

Oks == 1..MaxOk
NoManifest == [contract |-> 0, look |-> 0]
Torn == -1
Bytes == Codes \cup {0, Torn}

NoApproval == [live |-> FALSE, rev |-> 0, digest |-> 0, inst |-> 0, man |-> NoManifest, seen |-> NoManifest]
NoReview == [rev |-> 0, digest |-> 0, inst |-> 0, man |-> NoManifest]
NoDuty == [op |-> "none", pc |-> "idle", man |-> NoManifest, code |-> 0, rev |-> 0, prev |-> 0,
           locks |-> {}]
NoRun == [pc |-> "idle", ok |-> 0, code |-> 0, audited |-> FALSE, locks |-> {}]

(* Type correctness of the tables, the disk and the processes.             *)
ReleaseTypeOK ==
  /\ app \in [row : BOOLEAN, man : Manifests, inst : 0..MaxInst, active : BOOLEAN]
  /\ release \in [rev : 0..MaxRev, digest : Bytes] /\ revs \in 0..MaxRev
  /\ dir \in Bytes /\ sealed \in [0..MaxRev -> Bytes]
  /\ \A i \in Oks : approvals[i].rev \in 0..MaxRev /\ approvals[i].digest \in Bytes
  /\ \A e \in Runs : run[e].ok \in 0..MaxOk /\ run[e].code \in Bytes

(* An installed app, whose backend was deployed or not yet.               *)
ReleaseInit ==
  LET m == CHOOSE n \in Manifests : TRUE
      c == CHOOSE d \in Codes : TRUE
  IN
    /\ duty \in Duties
    /\ app = [row |-> TRUE, man |-> m, inst |-> 1, active |-> TRUE]
    /\ IF duty.deployed THEN release = [rev |-> 1, digest |-> c] /\ revs = 1 /\ dir = c
       ELSE release = [rev |-> 0, digest |-> 0] /\ revs = 0 /\ dir = 0
    /\ sealed = [r \in 0..MaxRev |-> 0]
    /\ approvals = [i \in Oks |-> NoApproval] /\ review = NoReview
    /\ adm = [p \in Admins |-> NoDuty] /\ run = [e \in Runs |-> NoRun]

(***************************************************************************)
(* Locks and the query CURRENT_APPROVAL.                                   *)
(***************************************************************************)
releaseRow == <<"release", 0>>
activeRow(n) == <<"installation", n>>
okRow(i) == <<"approval", i>>
liveRows == {okRow(i) : i \in {j \in Oks : approvals[j].live}}

FreeOfRuns(rows) == \A e \in Runs : rows \cap run[e].locks = {}
FreeOfAdmins(row) == \A p \in Admins : row \notin adm[p].locks

CURRENT_APPROVAL(i) ==
  LET g == approvals[i] IN
  /\ g.live /\ release.rev = g.rev /\ release.digest = g.digest
  /\ app.active /\ app.inst = g.inst
  /\ app.row /\ app.man = g.man

revoked == [i \in Oks |-> [approvals[i] EXCEPT !.live = FALSE]]

(***************************************************************************)
(* Requests of administrators.                                             *)
(***************************************************************************)
Adm(p, x) == adm' = [adm EXCEPT ![p] = x]
AdmOnly(p, x) == Adm(p, x) /\ UNCHANGED <<duty, app, release, revs, dir, sealed, approvals, run, review>>
moved(p, pc) == [adm[p] EXCEPT !.pc = pc, !.locks = {}]

Holding == {p \in Admins : adm[p].pc \notin {"idle", "redeploy", "removeDir"}}

(* lock_app_lifecycle: a request starts when no other holds the lock.      *)
Acquire(p) ==
  LET first == [deploy |-> "stage", install |-> "preflight", catalog |-> "preflight",
                uninstall |-> "lockInstallation", inspect |-> "inspect", approve |-> "snapshot",
                revoke |-> "revoke"]
  IN /\ Holding = {}
     /\ \/ /\ adm[p].pc = "idle"
           /\ \E op \in duty.ops[p] :
              \E m \in IF op \in {"install", "catalog"} THEN Manifests ELSE {NoManifest},
                 c \in IF op \in {"deploy", "catalog"} THEN Codes ELSE {0} :
                /\ op = "approve" => review # NoReview
                /\ AdmOnly(p, [NoDuty EXCEPT !.op = op, !.pc = first[op], !.man = m, !.code = c])
        \/ adm[p].pc = "redeploy" /\ AdmOnly(p, moved(p, "lockRelease"))

(* Any step may fail: its transaction rolls back and the lock is released. *)
AdmFails(p) == adm[p].pc # "idle" /\ AdmOnly(p, NoDuty)

(* install_app: a changed manifest first rotates the revision and revokes. *)
Preflight(p) ==
  /\ adm[p].pc = "preflight"
  /\ AdmOnly(p, moved(p, IF app.row /\ app.man # adm[p].man THEN "lockRelease" ELSE "callbacks"))

LockRelease(p) ==
  /\ adm[p].pc = "lockRelease" /\ FreeOfRuns({releaseRow})
  /\ AdmOnly(p, [adm[p] EXCEPT !.pc = "replace", !.locks = {releaseRow}])

(* begin_deployment replaces the release; install_app only its revision.   *)
Replace(p) ==
  LET deploys == adm[p].op \in {"deploy", "copy"}  fresh == revs + 1 IN
  /\ adm[p].pc = "replace" /\ FreeOfRuns(liveRows)
  /\ IF ~deploys /\ release.rev = 0 THEN UNCHANGED <<release, revs>>
     ELSE /\ revs < duty.revs
          /\ release' = [rev |-> fresh, digest |-> IF deploys THEN 0 ELSE release.digest]
          /\ revs' = fresh
  /\ approvals' = revoked
  /\ Adm(p, [moved(p, IF deploys THEN "swap"
                      ELSE IF app.man.contract # adm[p].man.contract THEN "lockInstallation"
                      ELSE IF app.active THEN "cosmetic" ELSE "callbacks") EXCEPT !.rev = fresh])
  /\ UNCHANGED <<duty, app, dir, sealed, run, review>>

(* deactivate_installation_tx.                                             *)
LockActive(p) ==
  LET mine == IF app.active THEN {activeRow(app.inst)} ELSE {} IN
  /\ adm[p].pc = "lockInstallation" /\ FreeOfRuns(mine)
  /\ AdmOnly(p, [adm[p] EXCEPT !.pc = "deactivate", !.locks = mine])

Retire(p) ==
  /\ adm[p].pc = "deactivate" /\ FreeOfRuns(liveRows)
  /\ app' = [app EXCEPT !.active = FALSE] /\ approvals' = revoked
  /\ Adm(p, moved(p, IF adm[p].op = "uninstall" THEN "cleanup" ELSE "callbacks"))
  /\ UNCHANGED <<duty, release, revs, dir, sealed, run, review>>

(* deploy_from_catalog installs, then copies the backend as a deployment.  *)
installed(p) == IF adm[p].op = "catalog" THEN [NoDuty EXCEPT !.op = "copy", !.pc = "redeploy", !.code = adm[p].code]
                ELSE NoDuty

(* register_app of a change in presentation only.                          *)
Cosmetic(p) ==
  /\ adm[p].pc = "cosmetic" /\ app' = [app EXCEPT !.man = adm[p].man]
  /\ Adm(p, installed(p))
  /\ UNCHANGED <<duty, release, revs, dir, sealed, approvals, run, review>>

(* Schema, register_app and the callbacks of the extensions.               *)
RunCallbacks(p) ==
  /\ adm[p].pc = "callbacks" /\ app' = [app EXCEPT !.row = TRUE, !.man = adm[p].man]
  /\ Adm(p, moved(p, "register"))
  /\ UNCHANGED <<duty, release, revs, dir, sealed, approvals, run, review>>

Register(p) ==
  /\ adm[p].pc = "register" /\ (app.active \/ app.inst < MaxInst)
  /\ app' = IF app.active THEN app ELSE [app EXCEPT !.active = TRUE, !.inst = @ + 1]
  /\ Adm(p, installed(p))
  /\ UNCHANGED <<duty, release, revs, dir, sealed, approvals, run, review>>

(* uninstall_app; the route removes the directory after the lock is gone.  *)
Unregister(p) ==
  /\ adm[p].pc = "cleanup" /\ app' = [app EXCEPT !.row = FALSE]
  /\ Adm(p, moved(p, "removeDir")) /\ UNCHANGED <<duty, release, revs, dir, sealed, approvals, run, review>>

RemoveDir(p) ==
  /\ adm[p].pc = "removeDir" /\ dir' = 0 /\ Adm(p, NoDuty)
  /\ UNCHANGED <<duty, app, release, revs, sealed, approvals, run, review>>

(* deploy_backend_archive: extraction, migrations and dependencies first.  *)
Stage(p) == adm[p].pc = "stage" /\ AdmOnly(p, moved(p, "lockRelease"))

Swap(p) ==
  /\ adm[p].pc = "swap" /\ dir' = 0
  /\ Adm(p, [moved(p, "activate") EXCEPT !.prev = dir])
  /\ UNCHANGED <<duty, app, release, revs, sealed, approvals, run, review>>

(* The previous directory comes back when the new one cannot be activated; *)
(* a catalog copy that fails leaves what it copied.                        *)
Activate(p) ==
  /\ adm[p].pc = "activate"
  /\ \/ dir' = adm[p].code /\ Adm(p, moved(p, "settle"))
     \/ dir' = (IF adm[p].op = "deploy" THEN adm[p].prev ELSE Torn) /\ Adm(p, NoDuty)
  /\ UNCHANGED <<duty, app, release, revs, sealed, approvals, run, review>>

finish_deployment(p) ==
  /\ adm[p].pc = "settle" /\ dir # 0 /\ FreeOfRuns({releaseRow})
  /\ release' = IF release.rev = adm[p].rev THEN [release EXCEPT !.digest = dir] ELSE release
  /\ Adm(p, NoDuty) /\ UNCHANGED <<duty, app, revs, dir, sealed, approvals, run, review>>

(* What an administrator reviews, and the approval of what was reviewed.   *)
Inspect(p) ==
  /\ adm[p].pc = "inspect" /\ app.row /\ app.active
  /\ Adm(p, NoDuty)
  /\ review' = [rev |-> release.rev, digest |-> release.digest, inst |-> app.inst, man |-> app.man]
  /\ UNCHANGED <<duty, app, release, revs, dir, sealed, approvals, run>>

SnapshotUnpinned(p) ==
  /\ adm[p].pc = "snapshot" /\ app.row /\ app.active
  /\ release.digest = review.digest /\ release.digest # 0
  /\ app.inst = review.inst
  /\ AdmOnly(p, [moved(p, "seal") EXCEPT !.rev = release.rev])
Snapshot(p) ==
  LET seen == review IN
  /\ adm[p].pc = "snapshot" /\ app.row /\ app.active
  /\ release.rev = seen.rev /\ release.digest = seen.digest /\ release.digest # 0
  /\ app.inst = seen.inst
  /\ AdmOnly(p, [moved(p, "seal") EXCEPT !.rev = release.rev])

(* The bytes are copied and hashed; only bytes with the reviewed digest    *)
(* become the artifact of the revision.                                    *)
seal(p) ==
  LET r == adm[p].rev  digest == review.digest IN
  /\ adm[p].pc = "seal" /\ (IF sealed[r] # 0 THEN sealed[r] ELSE dir) = digest
  /\ sealed' = [sealed EXCEPT ![r] = digest]
  /\ Adm(p, moved(p, "contract")) /\ UNCHANGED <<duty, app, release, revs, dir, approvals, run, review>>

Contract(p) ==
  /\ adm[p].pc = "contract"
  /\ AdmOnly(p, IF \E i \in Oks : CURRENT_APPROVAL(i) THEN NoDuty ELSE moved(p, "approve"))

Approve(p) ==
  \E i \in Oks :
    /\ adm[p].pc = "approve" /\ FreeOfRuns(liveRows)
    /\ approvals[i] = NoApproval /\ \A j \in 1..(i - 1) : approvals[j] # NoApproval
    /\ approvals' = [revoked EXCEPT ![i] =
         [live |-> TRUE, rev |-> adm[p].rev, digest |-> review.digest,
          inst |-> review.inst, man |-> app.man, seen |-> review.man]]
    /\ Adm(p, NoDuty) /\ UNCHANGED <<duty, app, release, revs, dir, sealed, run, review>>

Revoke(p) ==
  /\ adm[p].pc = "revoke" /\ FreeOfRuns(liveRows)
  /\ approvals' = revoked
  /\ Adm(p, NoDuty) /\ UNCHANGED <<duty, app, release, revs, dir, sealed, run, review>>

Administer(p) ==
  \/ Acquire(p) \/ AdmFails(p) \/ Preflight(p) \/ LockRelease(p) \/ Replace(p)
  \/ LockActive(p) \/ Retire(p) \/ Cosmetic(p) \/ RunCallbacks(p) \/ Register(p)
  \/ Unregister(p) \/ RemoveDir(p) \/ Stage(p) \/ Swap(p) \/ Activate(p) \/ finish_deployment(p)
  \/ Inspect(p) \/ Snapshot(p) \/ seal(p) \/ Contract(p) \/ Approve(p) \/ Revoke(p)

(***************************************************************************)
(* Executions.                                                             *)
(***************************************************************************)
Run(e, x) == run' = [run EXCEPT ![e] = x]
            /\ UNCHANGED <<duty, app, release, revs, dir, sealed, approvals, adm, review>>
runAt(e, pc) == run[e].pc = pc
to(e, pc) == [run[e] EXCEPT !.pc = pc, !.locks = {}]
mine(e) == approvals[run[e].ok]

Resolve(e) ==
  runAt(e, "idle") /\ \E i \in Oks : CURRENT_APPROVAL(i) /\ Run(e, [NoRun EXCEPT !.pc = "config", !.ok = i])

(* config_for verifies before a slot is taken.                             *)
Configure(e) ==
  runAt(e, "config") /\ Run(e, IF CURRENT_APPROVAL(run[e].ok) THEN to(e, "slot") ELSE NoRun)

StartExecution(e) ==
  runAt(e, "slot") /\ (Run(e, [to(e, "artifact") EXCEPT !.audited = TRUE]) \/ Run(e, NoRun))

(* spawn_worker: the sealed bytes, then the approval once more.            *)
VerifyArtifact(e) ==
  /\ runAt(e, "artifact")
  /\ Run(e, to(e, IF sealed[mine(e).rev] = mine(e).digest THEN "recheck" ELSE "finish"))

Recheck(e) ==
  runAt(e, "recheck") /\ Run(e, to(e, IF CURRENT_APPROVAL(run[e].ok) THEN "spawn" ELSE "finish"))

SpawnApproved(e) ==
  runAt(e, "spawn") /\ Run(e, [to(e, "running") EXCEPT !.code = sealed[mine(e).rev]])

(* bind_context: the installation, the release, the approval, then the     *)
(* gate in the database.                                                   *)
Bind(e, from, row, next) ==
  /\ runAt(e, from) /\ FreeOfAdmins(row)
  /\ Run(e, [run[e] EXCEPT !.pc = next, !.locks = @ \cup {row}])

BindInstallation(e) == Bind(e, "running", activeRow(mine(e).inst), "bindRelease")
BindRelease(e) == Bind(e, "bindRelease", releaseRow, "bindApproval")
BindUnchecked(e) == Bind(e, "bindApproval", okRow(run[e].ok), "inTx")
BindApproval(e) ==
  /\ runAt(e, "bindApproval")
  /\ IF CURRENT_APPROVAL(run[e].ok) THEN Bind(e, "bindApproval", okRow(run[e].ok), "inTx")
     ELSE FreeOfAdmins(okRow(run[e].ok)) /\ Run(e, to(e, "running"))

CommitData(e) == runAt(e, "inTx") /\ Run(e, to(e, "running"))

(* The handler answers, fails or is timed out: the worker is stopped and   *)
(* its transaction rolls back.                                             *)
StopRun(e) ==
  run[e].pc \in {"running", "bindRelease", "bindApproval", "inTx"} /\ Run(e, to(e, "finish"))

FinishExecution(e) == runAt(e, "finish") /\ Run(e, NoRun)

Execute(e) ==
  \/ Resolve(e) \/ Configure(e) \/ StartExecution(e) \/ VerifyArtifact(e) \/ Recheck(e)
  \/ SpawnApproved(e) \/ BindInstallation(e) \/ BindRelease(e) \/ BindApproval(e)
  \/ CommitData(e) \/ StopRun(e) \/ FinishExecution(e)

(* The files of the app change under it: workers may write them.           *)
DirChanges ==
  /\ dir # 0 /\ dir' \in Codes \ {dir}
  /\ UNCHANGED <<duty, app, release, revs, sealed, approvals, adm, run, review>>

(* Core dies: session locks and transactions go, tables and disk stay.     *)
CoreDies ==
  /\ adm' = [p \in Admins |-> NoDuty] /\ run' = [e \in Runs |-> NoRun]
  /\ UNCHANGED <<duty, app, release, revs, dir, sealed, approvals, review>>

ReleaseNext ==
  \/ \E p \in Admins : Administer(p)
  \/ \E e \in Runs : Execute(e)
  \/ DirChanges \/ CoreDies

ReleaseSpec == ReleaseInit /\ [][ReleaseNext]_relVars

(***************************************************************************)
(* Properties.                                                             *)
(***************************************************************************)
(* "A completed revocation cannot be followed by a stale commit"           *)
(* (bind_context): a data transaction of an approved action commits only   *)
(* while its approval, its release, its installation and its manifest are  *)
(* all still the ones that were approved.                                  *)
CommitsWhileApproved ==
  [][\A e \in Runs : runAt(e, "inTx") /\ run'[e].pc = "running" =>
       CURRENT_APPROVAL(run[e].ok)]_relVars

(* Nothing stale is left to be matched later: an approval that is not      *)
(* revoked is of the revision, digest, installation and manifest that are  *)
(* current, between any two steps of install, deploy and uninstall.        *)
LiveApprovalIsCurrent == \A i \in Oks : approvals[i].live => CURRENT_APPROVAL(i)

(* What is approved is what was reviewed, the manifest included, though a  *)
(* request names only the revision, the digest and the installation.       *)
ApprovedAsReviewed == \A i \in Oks : approvals[i].man = approvals[i].seen

(* A process that runs with approved authority runs the reviewed bytes and *)
(* is recorded in action_executions.                                       *)
RunsReviewedCode ==
  \A e \in Runs : run[e].pc \in {"running", "bindRelease", "bindApproval", "inTx"} =>
    run[e].code = mine(e).digest /\ run[e].audited

(* bind_context locks in the order of the lifecycle: an administrator's    *)
(* transaction and an execution's never wait for each other.               *)
waitsFor(e) == IF runAt(e, "running") THEN {}
               ELSE IF runAt(e, "bindRelease") THEN {releaseRow}
               ELSE IF runAt(e, "bindApproval") THEN {okRow(run[e].ok)} ELSE {}
LocksNeverCross ==
  \A p \in Admins, e \in Runs :
    adm[p].pc \in {"replace", "deactivate"} /\ run[e].locks \cap liveRows # {} =>
      adm[p].locks \cap waitsFor(e) = {}

(* From the review to the running process nothing changes hands unseen:    *)
(* approvals in force are of what is current, they approve what was        *)
(* reviewed, what runs under one is that, and the two sides never wait for *)
(* each other.                                                             *)
ReleaseIsSound ==
  /\ ReleaseTypeOK
  /\ LiveApprovalIsCurrent
  /\ ApprovedAsReviewed
  /\ RunsReviewedCode
  /\ LocksNeverCross
=============================================================================

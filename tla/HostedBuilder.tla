---------------------------- MODULE HostedBuilder ----------------------------
(***************************************************************************)
(* The hosted application builder of one app: importing its sources, the    *)
(* durable change requests, the coding and publication of each under an     *)
(* advisory-lock lease, the recovery scan, and resuming a publication.      *)
(*                                                                         *)
(* A commit is named after the run that makes it. The runner that edits and *)
(* builds the sources, Git and the backup receiver are external: each may   *)
(* fail, and nothing bounds how long it takes.                              *)
(***************************************************************************)
EXTENDS Naturals, FiniteSets

CONSTANTS
  BuildScenes,  \* what is requested and which faults may happen
  MaxRetries    \* bound on retry-publication requests

Changes == {"r1", "r2"}
Slots == {1, 2}         \* tasks working on one run at once
Jobs == Changes \X Slots
Imports == {"i1", "i2", "d1"}   \* two imports and a direct deployment

VARIABLES
  bscene,     \* the scene
  project,    \* source_projects: whether recorded, head and deployed commits
  repo,       \* the repository: whether it exists, main, change refs, prepared artifacts
  backups,    \* commits the backup receiver acknowledged
  live,       \* what is installed (schema and backend) and served (frontend)
  brun,       \* source_runs: status, base, commit
  job,        \* tasks: kind, pc, lease; past: checked before the demotion (history)
  allowed,    \* whether the requester may still deploy and install
  imp,        \* imports and direct deployments: pc
  left        \* faults left: lost leases, deaths, retries

buildVars == <<bscene, project, repo, backups, live, brun, job, allowed, imp, left>>

NoRunRow == [status |-> "none", base |-> "none", commit |-> "none", order |-> 0]
NoJob == [kind |-> "none", pc |-> "none", lease |-> "none", past |-> FALSE]
Managed == [recorded |-> TRUE, head |-> "c0", deployed |-> "none"]

BuildInit ==
  /\ bscene \in BuildScenes
  /\ IF bscene.import
     THEN /\ project = [Managed EXCEPT !.recorded = FALSE, !.head = "none"]
          /\ repo = [here |-> FALSE, main |-> "none", refs |-> {}, prepared |-> {}]
          /\ backups = {}
     ELSE /\ project = Managed
          /\ repo = [here |-> TRUE, main |-> "c0", refs |-> {}, prepared |-> {}]
          /\ backups = IF bscene.unbacked THEN {} ELSE {"c0"}
  /\ live = [schema |-> "c0", front |-> "c0"]
  /\ brun = [r \in Changes |-> NoRunRow]
  /\ job = [j \in Jobs |-> NoJob]
  /\ allowed = TRUE
  /\ imp = [i \in Imports |-> "start"]
  /\ left = [loss |-> bscene.loss, death |-> bscene.death, retry |-> MaxRetries]

----------------------------------------------------------------------------
(* Importing the sources of an installed app, and direct deployments. *)

\* What the backup receiver has once a backup succeeded; a deployment may do without one.
acknowledged(c) == backups' = IF bscene.unbacked THEN backups ELSE backups \cup {c}

importing == UNCHANGED <<bscene, brun, job, allowed, left>>
impTo(i, pc) == imp' = [imp EXCEPT ![i] = pc]

\* The manifest is compared before the lock is taken; a direct deployment may
\* change it meanwhile.
importCheck(i) ==
  /\ bscene.import /\ i \in {"i1", "i2"} /\ imp[i] = "start"
  /\ impTo(i, IF live.schema = "c0" THEN "lock" ELSE "end")
  /\ UNCHANGED <<project, repo, backups, live>> /\ importing

\* The advisory lock of the app is held to the end of the import; an existing
\* repository is adopted only if no project records it and its content is the same.
importLock(i) ==
  /\ imp[i] = "lock" /\ \A k \in Imports : imp[k] \notin {"write", "backup", "insert"}
  /\ impTo(i, CASE ~repo.here -> "write" [] repo.here /\ ~project.recorded -> "backup" [] OTHER -> "end")
  /\ UNCHANGED <<project, repo, backups, live>> /\ importing
importWrite(i) ==
  /\ imp[i] = "write" /\ impTo(i, "backup")
  /\ repo' = [repo EXCEPT !.here = TRUE, !.main = "c0"]
  /\ UNCHANGED <<project, backups, live>> /\ importing
importBackup(i) ==
  /\ imp[i] = "backup"
  /\ \/ impTo(i, "insert") /\ acknowledged("c0")
     \/ impTo(i, "end") /\ UNCHANGED backups
  /\ UNCHANGED <<project, repo, live>> /\ importing
importInsert(i) ==
  /\ imp[i] = "insert" /\ impTo(i, "end")
  /\ project' = Managed
  /\ UNCHANGED <<repo, backups, live>> /\ importing

\* Deploying outside the builder is refused once the sources are managed.
guard_external_mutation ==
  /\ bscene.direct /\ imp["d1"] = "start"
  /\ impTo("d1", IF project.recorded THEN "end" ELSE "deploy")
  /\ UNCHANGED <<project, repo, backups, live>> /\ importing
directDeploy ==
  /\ imp["d1"] = "deploy" /\ impTo("d1", "end")
  /\ live' = [schema |-> "direct", front |-> "direct"]
  /\ UNCHANGED <<project, repo, backups>> /\ importing

----------------------------------------------------------------------------
(* Requests for a change. *)

Holds(r) == \E s \in Slots : job[r, s].lease = "held"
Is(r, S) == brun[r].status \in S
spawnAt(r, kind) == \E s \in Slots :
  /\ job[r, s].kind = "none"
  /\ job' = [job EXCEPT ![r, s] = [NoJob EXCEPT !.kind = kind, !.pc = "lock"]]
quietRepo == UNCHANGED <<bscene, project, repo, backups, live, allowed, imp>>

\* start: under the admission lock, a request that is known is answered with its run; a
\* new one must name the current head, and outside a conversation find the app idle.
start(r) ==
  /\ project.recorded /\ Is(r, {"none"}) /\ r \in bscene.asks
  /\ (\E q \in Changes : Is(q, {"queued", "coding", "publishing", "needs_recovery"})) => bscene.conversation
  /\ brun' = [brun EXCEPT ![r] = [status |-> "queued", base |-> project.head, commit |-> "none",
                                  order |-> Cardinality({q \in Changes : ~Is(q, {"none"})}) + 1]]
  /\ spawnAt(r, "execute")
  /\ UNCHANGED left /\ quietRepo

\* The scan spawns the oldest queued run of an app without an active one.
dispatch(r) ==
  /\ Is(r, {"queued"})
  /\ \A q \in Changes : Is(q, {"queued"}) => brun[r].order <= brun[q].order
  /\ \A q \in Changes : ~Is(q, {"coding", "publishing", "needs_recovery"})
  /\ spawnAt(r, "execute")
  /\ UNCHANGED <<brun, left>> /\ quietRepo

----------------------------------------------------------------------------
(* A task working on a run. *)

Pc(j, kind, pc) == job[j].kind = kind /\ job[j].pc = pc
go(j, pc) == job' = [job EXCEPT ![j].pc = pc]
ends(j) == job' = [job EXCEPT ![j] = NoJob]

\* An attempt of resume ends with its lease, one of execute keeps it until the failure is recorded.
toFail(j) == job' = [job EXCEPT ![j] = [@ EXCEPT !.pc = "failing",
                       !.lease = IF @ = "held" /\ job[j].kind = "execute" THEN "held" ELSE "none"]]
status(r, st) == brun' = [brun EXCEPT ![r].status = st]

\* The lease: a transaction-scoped advisory lock of the run. execute gives up if it is
\* taken, resume waits for it.
lease(j) ==
  /\ job[j].pc = "lock"
  /\ IF Holds(j[1]) THEN job[j].kind = "execute" /\ ends(j)
     ELSE job' = [job EXCEPT ![j] = [@ EXCEPT !.lease = "held",
                                              !.pc = IF job[j].kind = "execute" THEN "claim" ELSE "load"]]
  /\ UNCHANGED <<brun, left>> /\ quietRepo

\* claim: the oldest queued run of the app, if none is active, is rebased on the head.
claim(j) ==
  /\ Pc(j, "execute", "claim")
  /\ IF /\ Is(j[1], {"queued"})
        /\ \A q \in Changes : Is(q, {"queued"}) => brun[j[1]].order <= brun[q].order
        /\ \A q \in Changes : ~Is(q, {"coding", "publishing", "needs_recovery"})
     THEN go(j, "process") /\ brun' = [brun EXCEPT ![j[1]] = [@ EXCEPT !.status = "coding", !.base = project.head]]
     ELSE ends(j) /\ UNCHANGED brun
  /\ UNCHANGED left /\ quietRepo

\* A status written without looking at the present one; the unique index refuses a second
\* active run of the app.
Refused(r, st) ==
  st \in {"coding", "publishing"} /\ \E q \in Changes \ {r} : Is(q, {"coding", "publishing", "needs_recovery"})
setStatus(j, st, pc) ==
  IF Refused(j[1], st) THEN toFail(j) /\ UNCHANGED brun
  ELSE go(j, pc) /\ status(j[1], st)

\* process: the state is written and the sources read, ...
process(j) ==
  /\ Pc(j, "execute", "process") /\ setStatus(j, "coding", "build")
  /\ UNCHANGED left /\ quietRepo

\* ... the runner builds, and either changes nothing or returns sources and a frontend, ...
answered(j) ==
  /\ Pc(j, "execute", "build") /\ ends(j)
  /\ status(j[1], "succeeded")
  /\ UNCHANGED left /\ quietRepo
built(j) ==
  /\ Pc(j, "execute", "build") /\ go(j, "commit")
  /\ UNCHANGED <<brun, left>> /\ quietRepo

\* ... which are committed on the base, referred to and kept beside the repository, ...
commit(j) ==
  /\ Pc(j, "execute", "commit") /\ go(j, "record")
  /\ repo' = [repo EXCEPT !.refs = @ \cup {<<j[1], brun[j[1]].base>>}, !.prepared = @ \cup {j[1]}]
  /\ UNCHANGED <<bscene, project, backups, live, brun, allowed, imp, left>>
recordCommit(j) ==
  /\ Pc(j, "execute", "record") /\ go(j, "backup")
  /\ brun' = [brun EXCEPT ![j[1]].commit = j[1]]
  /\ UNCHANGED left /\ quietRepo
backupLater(j) ==
  /\ Pc(j, "execute", "backup") /\ go(j, "recheck")
  /\ UNCHANGED <<bscene, project, repo, backups, live, brun, allowed, imp, left>>

\* ... and backed up.
backup(j) ==
  /\ Pc(j, "execute", "backup") /\ go(j, "recheck")
  /\ acknowledged(j[1])
  /\ UNCHANGED <<bscene, project, repo, live, brun, allowed, imp, left>>

\* The requester's authority is read again, ...
recheck(j) ==
  /\ Pc(j, "execute", "recheck")
  /\ IF allowed THEN go(j, "publish") ELSE toFail(j)
  /\ UNCHANGED <<brun, left>> /\ quietRepo

\* ... and then publication begins.
publishing(j) ==
  /\ Pc(j, "execute", "publish") /\ setStatus(j, "publishing", "install")
  /\ UNCHANGED left /\ quietRepo

\* resume reads the commit and the prepared artifact, and checks who resumes.
resume(j) ==
  /\ Pc(j, "resume", "load")
  /\ IF j[1] \in repo.prepared /\ allowed THEN go(j, "install") ELSE toFail(j)
  /\ UNCHANGED <<brun, left>> /\ quietRepo

\* finish: publish installs the manifest and backend and then activates the frontend, ...
install(j) ==
  /\ job[j].pc = "install" /\ go(j, "activate")
  /\ live' = [live EXCEPT !.schema = j[1]]
  /\ UNCHANGED <<bscene, project, repo, backups, brun, allowed, imp, left>>
activate(j) ==
  /\ job[j].pc = "activate" /\ go(j, "ref")
  /\ live' = [live EXCEPT !.front = j[1]]
  /\ UNCHANGED <<bscene, project, repo, backups, brun, allowed, imp, left>>

resetOnly(j) ==
  /\ job[j].pc = "ref" /\ go(j, "complete")
  /\ UNCHANGED <<bscene, project, repo, backups, live, brun, allowed, imp, left>>

\* ... main moves from the base to the commit, unless a former attempt moved it, ...
update_ref(j) ==
  /\ job[j].pc = "ref"
  /\ IF repo.main \in {j[1], brun[j[1]].base}
     THEN go(j, "complete") /\ repo' = [repo EXCEPT !.main = j[1]]
     ELSE toFail(j) /\ UNCHANGED repo
  /\ UNCHANGED <<bscene, project, backups, live, brun, allowed, imp, left>>

\* ... and one transaction moves the head and completes the run.
complete(j) ==
  /\ job[j].pc = "complete"
  /\ IF project.head \in {j[1], brun[j[1]].base}
     THEN /\ project' = [project EXCEPT !.head = j[1], !.deployed = j[1]]
          /\ status(j[1], "succeeded") /\ ends(j)
     ELSE toFail(j) /\ UNCHANGED <<project, brun>>
  /\ UNCHANGED <<bscene, repo, backups, live, allowed, imp, left>>

\* Any of these operations may fail or time out, Core may shut down, and watch_lease
\* cancels a task whose lease is lost.
Working(j) == job[j].kind # "none" /\ job[j].pc \notin {"lock", "claim", "failing"}
Failing(j) ==
  /\ Working(j) /\ (left.death > 0 \/ job[j].lease = "lost")
  /\ toFail(j)
  /\ left' = [left EXCEPT !.death = IF job[j].lease = "lost" THEN @ ELSE @ - 1]
  /\ UNCHANGED brun /\ quietRepo

\* execute records the failure unless the run has succeeded; one that was publishing needs
\* recovery. The lease is held until then.
executeFails(j) ==
  /\ Pc(j, "execute", "failing") /\ ends(j)
  /\ IF Is(j[1], {"succeeded"}) THEN UNCHANGED brun
     ELSE status(j[1], IF Is(j[1], {"publishing"}) THEN "needs_recovery" ELSE "failed")
  /\ UNCHANGED left /\ quietRepo

\* resume has let go of the lease when it records that it failed, whatever the run's status.
resumeFails(j) ==
  /\ Pc(j, "resume", "failing") /\ ends(j)
  /\ IF Refused(j[1], "publishing") THEN UNCHANGED brun ELSE status(j[1], "needs_recovery")
  /\ UNCHANGED left /\ quietRepo

\* The lease's connection breaks; the task goes on until watch_lease notices.
loseLease(j) ==
  /\ left.loss > 0 /\ job[j].lease = "held"
  /\ job' = [job EXCEPT ![j].lease = "lost"]
  /\ left' = [left EXCEPT !.loss = @ - 1]
  /\ UNCHANGED brun /\ quietRepo

\* Core dies: tasks, leases and imports are gone.
die ==
  /\ left.death > 0 /\ left' = [left EXCEPT !.death = @ - 1]
  /\ job' = [j \in Jobs |-> NoJob]
  /\ imp' = [i \in Imports |-> IF imp[i] \in {"start"} THEN "start" ELSE "end"]
  /\ UNCHANGED <<bscene, project, repo, backups, live, brun, allowed>>

recoverPublishing(r) ==
  /\ Is(r, {"publishing"}) /\ ~Holds(r)
  /\ status(r, "needs_recovery")
  /\ UNCHANGED <<job, left>> /\ quietRepo

\* recover_once: a run not updated for two minutes whose lease is free was interrupted.
recover_once(r) ==
  /\ Is(r, {"coding", "publishing"}) /\ ~Holds(r)
  /\ status(r, IF Is(r, {"publishing"}) THEN "needs_recovery" ELSE "interrupted")
  /\ UNCHANGED <<job, left>> /\ quietRepo

retry_publication(r) ==
  /\ left.retry > 0 /\ left' = [left EXCEPT !.retry = @ - 1]
  /\ Is(r, {"needs_recovery"}) /\ brun[r].commit # "none"
  /\ status(r, "publishing") /\ spawnAt(r, "resume")
  /\ quietRepo

\* The requester loses the permission to deploy, before or after a task has looked.
Checked(j) == job[j].pc \in {"publish", "install", "activate", "ref", "complete"}
demote ==
  /\ bscene.demotes /\ allowed /\ allowed' = FALSE
  /\ job' = [j \in Jobs |-> IF Checked(j) THEN [job[j] EXCEPT !.past = TRUE] ELSE job[j]]
  /\ UNCHANGED <<bscene, project, repo, backups, live, brun, imp, left>>

Task(j) ==
  \/ lease(j) \/ claim(j) \/ process(j) \/ answered(j) \/ built(j) \/ commit(j) \/ recordCommit(j)
  \/ backup(j) \/ recheck(j) \/ publishing(j) \/ resume(j) \/ install(j) \/ activate(j) \/ update_ref(j) \/ complete(j)
  \/ executeFails(j) \/ resumeFails(j)
ImportStep(i) == importCheck(i) \/ importLock(i) \/ importWrite(i) \/ importBackup(i) \/ importInsert(i)

BuildNext ==
  \/ \E i \in Imports : ImportStep(i)
  \/ guard_external_mutation \/ directDeploy
  \/ \E r \in Changes : start(r) \/ dispatch(r) \/ recover_once(r) \/ retry_publication(r)
  \/ \E j \in Jobs : Task(j) \/ Failing(j) \/ loseLease(j)
  \/ die \/ demote

\* The scan runs every two seconds and tasks run; nobody has to retry a publication.
BuildFairness ==
  /\ \A r \in Changes : WF_buildVars(dispatch(r) \/ recover_once(r))
  /\ \A j \in Jobs : WF_buildVars(Task(j) \/ (job[j].lease = "lost" /\ Failing(j)))
BuildSpec == BuildInit /\ [][BuildNext]_buildVars /\ BuildFairness

----------------------------------------------------------------------------
(* Properties. *)

\* Statuses and lease states; two tasks never hold the lease of one run.
BuildTypeOK ==
  /\ \A r \in Changes : brun[r].status \in
       {"none", "queued", "coding", "publishing", "succeeded", "failed", "interrupted", "needs_recovery"}
  /\ \A r \in Changes : Cardinality({s \in Slots : job[r, s].lease = "held"}) <= 1

\* What can be resumed is there: a run that is publishing, or needs recovery, has its commit on
\* record, in the repository, with its artifact and, where backups are required, acknowledged by
\* the receiver, after any failure or death (process).
RecoverableIsPrepared ==
  \A r \in Changes : Is(r, {"publishing", "needs_recovery"}) =>
    /\ brun[r].commit = r /\ <<r, brun[r].base>> \in repo.refs
    /\ r \in repo.prepared /\ (r \in backups \/ bscene.unbacked)

\* The heads of a project form one line: a new head is a commit made on the one before it, and
\* the managed head is backed up where that is required and lies in the repository (finish,
\* claim, import).
oneLineOfHeads ==
  project'.head # project.head /\ project.recorded =>
       /\ <<project'.head, project.head>> \in repo.refs
       /\ project'.head \in backups \/ bscene.unbacked
       /\ repo.main = project'.head

\* Two attempts at one publication, or an attempt that outlived its lease, never make a run
\* succeed whose commit is not part of the deployed history (finish).
SucceededIsDeployed ==
  \A r \in Changes : Is(r, {"succeeded"}) /\ brun[r].commit # "none" =>
    project.deployed = r \/ \E q \in Changes \ {r} : project.deployed = q /\ <<q, r>> \in repo.refs

\* Once the requester has lost the permission to deploy, an attempt or a resumption installs
\* something only if it had looked before (process, resume).
demotionIsSeen ==
  \A j \in Jobs : job[j].pc = "install" /\ job'[j].pc = "activate" => allowed \/ job[j].past

\* Publications continue the line of heads, and a demotion before the last check stops one.
PublicationsAreOrderly == [][oneLineOfHeads /\ demotionIsSeen]_buildVars

\* A change that was interrupted while its application was being changed is not lost sight of: it
\* blocks later changes until its publication is completed (executeFails, recover_once).
HalfPublishedBlocks ==
  (\E r \in Changes : live.schema = r /\ project.deployed # r /\ ~\E q \in Changes : <<q, r>> \in repo.refs)
    => \E r \in Changes : Is(r, {"publishing", "needs_recovery"})

\* Every accepted request ends, or the app waits for an administrator to resume a publication
\* (dispatch, recover_once).
RequestSettles ==
  \A r \in Changes : Is(r, {"queued"}) ~>
    (Is(r, {"succeeded", "failed", "interrupted"}) \/ \E q \in Changes : Is(q, {"needs_recovery"}))

\* "published files cannot drift silently from its source history": what is served is the head, or
\* a run is on record that explains the difference (docs/hosted-builder.md).
NoSilentDrift ==
  project.recorded =>
    \/ live = [schema |-> project.head, front |-> project.head]
    \/ \E r \in Changes : Is(r, {"publishing", "needs_recovery"})

\* What a run's status promises is there: its prepared commit, or its deployment.
BuildsAreSound == BuildTypeOK /\ RecoverableIsPrepared /\ SucceededIsDeployed
=============================================================================

------------------------------ MODULE Triggers ------------------------------
(***************************************************************************)
(* Owned automations of one agent app: crons and their pg_cron jobs, entity *)
(* hooks, webhooks, the standing delegation each holds from its owner to    *)
(* the app's agent, the messages they enqueue and the gate a run passes.    *)
(*                                                                         *)
(* Requests and the app's deployment or removal take the steps the code     *)
(* commits separately; a restart loses them and runs the boot migration.    *)
(* pg_cron and the pgmq queue are external.  A message is leased, without a *)
(* heartbeat, for as long as its dispatch took to start the run: it may be  *)
(* delivered again while that run goes on, as often as MaxLive says.        *)
(***************************************************************************)
EXTENDS Naturals, FiniteSets

CONSTANTS
  Plots,      \* what happens: requests, lifecycle operations, faults
  MaxMsgs,    \* bound on messages ever enqueued
  MaxJobs,    \* bound on pg_cron job numbers
  MaxLive     \* bound on runs of one message at once

Asks == {"q1", "q2"}
Crons == {"c1", "c2"}
Hooks == {"h1", "h2"}
Webhooks == {"w1", "w2"}
TrigIds == Crons \cup Hooks \cup Webhooks
People == {"ann", "sa", "root"}   \* a human, a service account, the first administrator

NoTrig == [st |-> "free", name |-> "", owner |-> "none", on |-> FALSE, skip |-> FALSE, job |-> 0,
           method |-> ""]

VARIABLES
  plot,       \* the scenario
  app,        \* whether the app's row exists
  trigs,      \* cron_schedules, entity_hooks and webhooks
  pgcron,     \* pg_cron's job of each cron: its number and overlap flag, or 0
  jobs,       \* job numbers handed out
  deleg,      \* the delegator of the live delegation of each trigger
  folk,       \* principals: present and enabled, invoke permission, read grant
  actAs,      \* whether "ann" holds an act-as delegation for "sa"
  mq,         \* messages of the trigger kinds in the queue
  sent,       \* messages enqueued so far
  live,       \* runs under way, by the number of their message
  ask,        \* requests: [pc, id, owner]
  life,       \* the deployment or removal under way: [op, pc, snap, by]
  fired,      \* history: runs started, as <<trigger, user>>
  denied,     \* history: refusals, as <<trigger, reason>>
  boots       \* restarts, failed statements and changes of principals left

trigVars == <<plot, app, trigs, pgcron, jobs, deleg, folk, actAs, mq, sent, live, ask, life, fired, denied, boots>>
runs == <<live, fired, denied>>

NoAsk == [pc |-> "start", id |-> "", owner |-> "none"]
NoLife == [op |-> "none", pc |-> "none", snap |-> {}, by |-> "none"]
here(t) == trigs[t].st = "here"

TrigInit ==
  /\ plot \in Plots
  /\ app = TRUE
  /\ trigs = [t \in TrigIds |->
       IF t = "c1" THEN [NoTrig EXCEPT !.st = "here", !.name = "own", !.owner = "ann", !.on = TRUE,
                                       !.skip = TRUE, !.job = 1]
       ELSE NoTrig]
  /\ pgcron = [c \in Crons |-> IF c = "c1" THEN [no |-> 1, skip |-> TRUE] ELSE [no |-> 0, skip |-> FALSE]]
  /\ jobs = 1
  /\ deleg = [t \in TrigIds |-> IF t = "c1" THEN "ann" ELSE "none"]
  /\ folk = [p \in People |-> [on |-> TRUE, invoke |-> TRUE, read |-> plot.read]]
  /\ actAs = TRUE
  /\ mq = {} /\ sent = 0 /\ live = [n \in 1..MaxMsgs |-> 0]
  /\ ask = [q \in Asks |-> NoAsk]
  /\ life = NoLife
  /\ fired = {} /\ denied = {}
  /\ boots = plot.faults

----------------------------------------------------------------------------
(* Delegations. *)

create(t, from) == deleg' = [deleg EXCEPT ![t] = from]
revoke_by_trigger(t) == deleg' = [deleg EXCEPT ![t] = "none"]

\* A delegation to the agent is looked up by the pair, whatever trigger it is for.
is_valid(p) == \E t \in TrigIds : deleg[t] = p

\* The act-as gate: a standing delegation, and no permission the human lacks.
assert_can_act_as == actAs /\ (folk["sa"].invoke => folk["ann"].invoke)
resolve_owner(as) == IF as = "ann" \/ assert_can_act_as THEN as ELSE "none"

----------------------------------------------------------------------------
(* The pg_cron side of a cron, changed in the transaction that changes its row. *)

schedule(c, skip) ==
  /\ jobs < MaxJobs /\ jobs' = jobs + 1
  /\ pgcron' = [pgcron EXCEPT ![c] = [no |-> jobs + 1, skip |-> skip]]
unscheduled(c) == [pgcron EXCEPT ![c] = [no |-> 0, skip |-> FALSE]]

insertCron(c, name, owner, skip) ==
  /\ c \in Crons /\ trigs[c].st = "free"
  /\ schedule(c, skip)
  /\ trigs' = [trigs EXCEPT ![c] = [NoTrig EXCEPT !.st = "here", !.name = name, !.owner = owner,
                                                  !.on = TRUE, !.skip = skip, !.job = jobs + 1]]

\* A field a request leaves out ("same") keeps its value.
newOn(c, on) == on = "yes" \/ (on = "same" /\ trigs[c].on)
newSkip(c, overlap) == overlap = "skip" \/ (overlap = "same" /\ trigs[c].skip)

updateStaleOverlap(c, on, overlap) ==
  /\ IF newOn(c, on) THEN schedule(c, trigs[c].skip) ELSE pgcron' = unscheduled(c) /\ UNCHANGED jobs
  /\ trigs' = [trigs EXCEPT ![c].on = newOn(c, on), ![c].skip = newSkip(c, overlap),
                            ![c].job = IF newOn(c, on) THEN jobs + 1 ELSE 0]

\* The row is locked; its job is unscheduled, and scheduled again if enabled.
update(c, on, overlap) ==
  /\ IF newOn(c, on) THEN schedule(c, newSkip(c, overlap)) ELSE pgcron' = unscheduled(c) /\ UNCHANGED jobs
  /\ trigs' = [trigs EXCEPT ![c].on = newOn(c, on), ![c].skip = newSkip(c, overlap),
                            ![c].job = IF newOn(c, on) THEN jobs + 1 ELSE 0]

delete(c, st) ==
  /\ pgcron' = unscheduled(c)
  /\ trigs' = [trigs EXCEPT ![c] = [NoTrig EXCEPT !.st = st]]
  /\ UNCHANGED jobs

----------------------------------------------------------------------------
(* Requests. *)

At(q, pc) == ask[q].pc = pc
Op(q) == plot.ask[q].op
to(q, pc) == ask' = [ask EXCEPT ![q].pc = pc]
quiet == UNCHANGED <<plot, app, folk, actAs, mq, sent, life, runs, boots>>

\* create_cron and create_hook settle the owner, ...
askOwner(q) ==
  /\ At(q, "start") /\ Op(q) \in {"cron", "hook"}
  /\ ask' = [ask EXCEPT ![q] = [@ EXCEPT !.owner = resolve_owner(plot.ask[q].as),
               !.pc = IF folk["ann"].on /\ resolve_owner(plot.ask[q].as) # "none" THEN "insert" ELSE "end"]]
  /\ UNCHANGED <<trigs, pgcron, jobs, deleg>> /\ quiet

\* ... insert the row (a cron needs the app and a free name), ...
create_cron(q) ==
  /\ At(q, "insert") /\ Op(q) = "cron"
  /\ IF ~app \/ \E c \in Crons : here(c) /\ trigs[c].name = plot.ask[q].name
     THEN to(q, "end") /\ UNCHANGED <<trigs, pgcron, jobs>>
     ELSE \E c \in Crons : insertCron(c, plot.ask[q].name, ask[q].owner, plot.ask[q].overlap = "skip")
                           /\ ask' = [ask EXCEPT ![q] = [@ EXCEPT !.pc = "delegate", !.id = c]]
  /\ UNCHANGED deleg /\ quiet

create_hook(q) ==
  /\ At(q, "insert") /\ Op(q) = "hook"
  /\ \E h \in Hooks :
       /\ trigs[h].st = "free"
       /\ trigs' = [trigs EXCEPT ![h] = [NoTrig EXCEPT !.st = "here", !.owner = ask[q].owner, !.on = TRUE]]
       /\ ask' = [ask EXCEPT ![q] = [@ EXCEPT !.pc = "delegate", !.id = h]]
  /\ UNCHANGED <<pgcron, jobs, deleg>> /\ quiet

\* ... and then record the owner's delegation.
delegate(q) ==
  /\ At(q, "delegate") /\ to(q, "end")
  /\ create(ask[q].id, ask[q].owner)
  /\ UNCHANGED <<trigs, pgcron, jobs>> /\ quiet

\* The other requests first load the row and compare its owner.
require_owner(q) ==
  /\ At(q, "start") /\ Op(q) \in {"update", "delete", "trigger"}
  /\ LET t == plot.ask[q].id
     IN  to(q, IF here(t) /\ trigs[t].owner \in {"ann", "none"} THEN Op(q) ELSE "end")
  /\ UNCHANGED <<trigs, pgcron, jobs, deleg>> /\ quiet

update_cron(q) ==
  /\ At(q, "update") /\ to(q, "end")
  /\ IF here(plot.ask[q].id) THEN update(plot.ask[q].id, plot.ask[q].on, plot.ask[q].overlap)
     ELSE UNCHANGED <<trigs, pgcron, jobs>>
  /\ UNCHANGED deleg /\ quiet

delete_trigger(q) ==
  /\ At(q, "delete")
  /\ LET t == plot.ask[q].id
     IN  IF ~here(t) THEN to(q, "end") /\ UNCHANGED <<trigs, pgcron, jobs>>
         ELSE /\ to(q, "revoke")
              /\ IF t \in Crons THEN delete(t, "deleted")
                 ELSE /\ trigs' = [trigs EXCEPT ![t] = [NoTrig EXCEPT !.st = "deleted"]]
                      /\ UNCHANGED <<pgcron, jobs>>
  /\ UNCHANGED deleg /\ quiet

\* A trigger is "withdrawn" once its deletion is complete, unless the request that created
\* it has yet to record its delegation.
withdrawn(t) ==
  trigs' = IF \E q \in Asks : At(q, "delegate") /\ ask[q].id = t THEN trigs
           ELSE [trigs EXCEPT ![t].st = "withdrawn"]

\* Revoking is a statement of its own, after the deletion has committed.
revoke(q) ==
  /\ At(q, "revoke") /\ to(q, "end")
  /\ revoke_by_trigger(plot.ask[q].id)
  /\ withdrawn(plot.ask[q].id)
  /\ UNCHANGED <<pgcron, jobs>> /\ quiet

\* Recording and revoking a delegation may fail; both errors are thrown away.
swallowed(q) ==
  /\ At(q, "delegate") \/ At(q, "revoke")
  /\ to(q, "end")
  /\ boots > 0 /\ boots' = boots - 1
  /\ UNCHANGED <<plot, app, trigs, pgcron, jobs, deleg, folk, actAs, mq, sent, life, runs>>

\* What the queue holds; skip is the overlap policy of the row at that moment (history).
message(t, by, user) == [n |-> sent + 1, id |-> t, by |-> by, user |-> user, skip |-> trigs[t].skip]

\* A manual trigger enqueues the row it reads, whatever is queued already.
trigger_cron(q) ==
  /\ At(q, "trigger") /\ to(q, "end")
  /\ LET t == plot.ask[q].id
     IN  IF here(t) /\ sent < MaxMsgs
         THEN mq' = mq \cup {message(t, "manual", trigs[t].owner)} /\ sent' = sent + 1
         ELSE UNCHANGED <<mq, sent>>
  /\ UNCHANGED <<plot, app, trigs, pgcron, jobs, deleg, folk, actAs, life, runs, boots>>

----------------------------------------------------------------------------
(* Deployment and removal of the app, under its lifecycle lock. *)

step(pc) == life' = [life EXCEPT !.pc = pc]
around == UNCHANGED <<plot, folk, actAs, sent, ask, runs, boots>>
LifeAt(op, pc) == life.op = op /\ life.pc = pc

lock_app_lifecycle(op, by) ==
  /\ life.op = "none" /\ op \in plot.life /\ by \in plot.by
  /\ life' = [op |-> op, pc |-> "first", snap |-> {}, by |-> by]
  /\ UNCHANGED <<app, trigs, pgcron, jobs, deleg, mq>> /\ around

\* install_app registers the app; sync_from_manifest lists its crons, ...
listCrons ==
  /\ LifeAt("deploy", "first")
  /\ app' = TRUE
  /\ life' = [life EXCEPT !.pc = "prune", !.snap = {<<c, trigs[c].name>> : c \in {d \in Crons : here(d)}}]
  /\ UNCHANGED <<trigs, pgcron, jobs, deleg, mq>> /\ around

\* ... deletes those the manifest does not name (one that is gone fails the
\* installation), ...
pruneCrons ==
  /\ LifeAt("deploy", "prune")
  /\ LET extra == {s \in life.snap : s[2] # "daily"}
     IN  \/ extra = {} /\ step("cron") /\ UNCHANGED <<trigs, pgcron, jobs>>
         \/ \E s \in extra :
              IF here(s[1])
              THEN delete(s[1], "dropped") /\ life' = [life EXCEPT !.snap = @ \ {s}]
              ELSE life' = NoLife /\ UNCHANGED <<trigs, pgcron, jobs>>
  /\ UNCHANGED <<app, deleg, mq>> /\ around

\* ... and updates or creates the one it names, for the installer.
syncCron ==
  /\ LifeAt("deploy", "cron")
  /\ LET known == {s \in life.snap : s[2] = "daily"}
     IN  \/ \E s \in known :
              IF here(s[1]) THEN update(s[1], "yes", plot.overlap) /\ step("webhook")
              ELSE life' = NoLife /\ UNCHANGED <<trigs, pgcron, jobs>>
         \/ /\ known = {}
            /\ IF \E c \in Crons : here(c) /\ trigs[c].name = "daily"
               THEN life' = NoLife /\ UNCHANGED <<trigs, pgcron, jobs>>
               ELSE (\E c \in Crons : insertCron(c, "daily", life.by, plot.overlap = "skip")) /\ step("webhook")
  /\ UNCHANGED <<app, deleg, mq>> /\ around

gone(t) == [NoTrig EXCEPT !.st = "dropped"]

\* sync_webhooks deletes the webhook the manifest no longer declares, whose delegation stays,
\* or upserts the declared one, which the installer then owns, ...
sync_webhooks ==
  /\ LifeAt("deploy", "webhook")
  /\ \/ /\ "undeclare" \in plot.life /\ step("hook")
        /\ trigs' = [t \in TrigIds |-> IF t \in Webhooks /\ here(t) THEN gone(t) ELSE trigs[t]]
     \/ /\ step("delegate")
        /\ \E w \in Webhooks :
             /\ here(w) \/ (trigs[w].st = "free" /\ ~\E v \in Webhooks : here(v))
             /\ trigs' = [trigs EXCEPT ![w] = [NoTrig EXCEPT !.st = "here", !.owner = life.by, !.on = TRUE,
                                                            !.method = "sync"]]
  /\ UNCHANGED <<app, pgcron, jobs, deleg, mq>> /\ around

\* ... and makes the delegation the installer's.
delegateWebhook ==
  /\ LifeAt("deploy", "delegate") /\ step("hook")
  /\ \E w \in Webhooks : here(w) /\ create(w, life.by)
  /\ UNCHANGED <<app, trigs, pgcron, jobs, mq>> /\ around

\* The manifest's trigger is registered as one more hook of the installer.
on_app_installed ==
  /\ LifeAt("deploy", "hook") /\ life' = NoLife
  /\ \E h \in Hooks :
       /\ trigs[h].st = "free"
       /\ trigs' = [trigs EXCEPT ![h] = [NoTrig EXCEPT !.st = "here", !.owner = life.by, !.on = TRUE,
                                                       !.name = "declared"]]
  /\ UNCHANGED <<app, pgcron, jobs, deleg, mq>> /\ around

delete_all_for_app ==
  /\ LifeAt("uninstall", "first") /\ step("hooks")
  /\ pgcron' = [c \in Crons |-> IF here(c) THEN [no |-> 0, skip |-> FALSE] ELSE pgcron[c]]
  /\ trigs' = [t \in TrigIds |-> IF t \in Crons /\ here(t) THEN gone(t) ELSE trigs[t]]
  /\ UNCHANGED <<app, jobs, deleg, mq>> /\ around
deleteHooks ==
  /\ LifeAt("uninstall", "hooks") /\ step("queue")
  /\ trigs' = [t \in TrigIds |-> IF t \in Hooks /\ here(t) THEN gone(t) ELSE trigs[t]]
  /\ UNCHANGED <<app, pgcron, jobs, deleg, mq>> /\ around
purgeQueue ==
  /\ LifeAt("uninstall", "queue") /\ step("app")
  /\ mq' = {}
  /\ UNCHANGED <<app, trigs, pgcron, jobs, deleg>> /\ around

\* Deleting the app's row cascades to crons and webhooks; a cron created since
\* delete_all_for_app leaves its pg_cron job behind.
deleteApp ==
  /\ LifeAt("uninstall", "app") /\ life' = NoLife
  /\ app' = FALSE
  /\ trigs' = [t \in TrigIds |->
       IF here(t) /\ t \notin Hooks THEN [NoTrig EXCEPT !.st = "cascaded"] ELSE trigs[t]]
  /\ UNCHANGED <<pgcron, jobs, deleg, mq>> /\ around

----------------------------------------------------------------------------
(* Firing. *)

firing == UNCHANGED <<plot, app, trigs, pgcron, jobs, deleg, folk, actAs, ask, life, boots>>

\* pg_cron runs the job: with "skip", not while a scheduled message of this cron is in the
\* queue, leased or not.
enqueue_cron(c) ==
  /\ pgcron[c].no # 0 /\ sent < MaxMsgs
  /\ pgcron[c].skip => ~\E m \in mq : m.id = c /\ m.by = "tick"
  /\ mq' = mq \cup {message(c, "tick", trigs[c].owner)} /\ sent' = sent + 1
  /\ UNCHANGED runs /\ firing

\* What the registrant of a hook may read of a row with this owner.
hook_row_owned(p, rowOwner) == rowOwner = p
granted(p) == IF p \in People THEN folk[p].read ELSE "none"
hookSees(p, old, new) ==
  \/ granted(p) = "all"
  \/ granted(p) = "own" /\ (new # "absent" => hook_row_owned(p, new))
                        /\ (old # "absent" => hook_row_owned(p, old))

\* A write of a row fires the hooks whose registrant may read both its images.
hooks_trigger_fn(h, old, new) ==
  /\ here(h) /\ app /\ sent < MaxMsgs
  /\ hookSees(trigs[h].owner, old, new)
  /\ mq' = mq \cup {message(h, <<old, new>>, trigs[h].owner)} /\ sent' = sent + 1
  /\ UNCHANGED runs /\ firing

\* The gate every fire site passes.
assert_can_fire(p) ==
  CASE p \notin People -> "no owner"
    [] p \in People /\ ~folk[p].on -> "disabled"
    [] p \in People /\ folk[p].on /\ ~is_valid(p) -> "no delegation"
    [] p \in People /\ folk[p].on /\ is_valid(p) /\ ~folk[p].invoke -> "no invoke"
    [] OTHER -> "ok"
record(t, p) ==
  LET verdict == assert_can_fire(p)
  IN  IF verdict = "ok" THEN fired' = fired \cup {<<t, p>>} /\ UNCHANGED denied
      ELSE denied' = denied \cup {<<t, verdict>>} /\ UNCHANGED fired

\* The scheduler takes a message nobody has leased, or whose lease ran out under its run:
\* nothing renews it, and no in-flight set or delivery bound is consulted.  A refused message
\* is deleted, also under a run started from it earlier.
dispatch_agent_job(m) ==
  /\ m \in mq /\ live[m.n] < MaxLive
  /\ record(m.id, m.user)
  /\ IF assert_can_fire(m.user) = "ok" THEN live' = [live EXCEPT ![m.n] = @ + 1] /\ UNCHANGED mq
     ELSE mq' = mq \ {m} /\ UNCHANGED live
  /\ UNCHANGED sent /\ firing

\* A run ends and takes its message along, if it is still there.
complete(n) ==
  /\ live[n] > 0 /\ live' = [live EXCEPT ![n] = @ - 1]
  /\ mq' = {m \in mq : m.n # n}
  /\ UNCHANGED <<sent, fired, denied>> /\ firing

\* A webhook call runs the agent behind the gate, or the app's own handler.
webhook_ingress(w) ==
  /\ here(w) /\ plot.calls
  /\ IF trigs[w].method = "agent" THEN record(w, trigs[w].owner)
     ELSE fired' = fired \cup {<<"handler", trigs[w].owner>>} /\ UNCHANGED denied
  /\ UNCHANGED <<mq, sent, live>> /\ firing

----------------------------------------------------------------------------
(* Principals, and restarts. *)

steady == UNCHANGED <<plot, app, pgcron, jobs, deleg, mq, sent, ask, life, runs>>

\* Disabling a service account; taking the role that gives invoke and read; deleting the
\* user, which clears the owner of crons only.
disable_owner ==
  /\ boots > 0 /\ boots' = boots - 1 /\ plot.admin
  /\ folk' = [folk EXCEPT !["sa"].on = FALSE]
  /\ UNCHANGED <<trigs, actAs>> /\ steady
stripPerson(p) ==
  /\ boots > 0 /\ boots' = boots - 1 /\ plot.admin
  /\ folk' = [folk EXCEPT ![p].invoke = FALSE, ![p].read = "none"]
  /\ UNCHANGED <<trigs, actAs>> /\ steady
deletePerson(p) ==
  /\ boots > 0 /\ boots' = boots - 1 /\ plot.admin
  /\ folk' = [folk EXCEPT ![p] = [on |-> FALSE, invoke |-> FALSE, read |-> "none"]]
  /\ trigs' = [t \in TrigIds |-> IF t \in Crons /\ trigs[t].owner = p THEN [trigs[t] EXCEPT !.owner = "none"]
                                 ELSE trigs[t]]
  /\ UNCHANGED actAs /\ steady
revoke_act_as ==
  /\ boots > 0 /\ boots' = boots - 1 /\ plot.admin /\ actAs
  /\ actAs' = FALSE
  /\ UNCHANGED <<folk, trigs>> /\ steady

\* Boot gives ownerless crons to the first administrator, sends every webhook of
\* an agent's app to the agent, ...
migrated(t) ==
  LET owner == IF t \in Crons /\ trigs[t].owner = "none" THEN "root" ELSE trigs[t].owner
  IN  IF ~here(t) THEN trigs[t]
      ELSE [trigs[t] EXCEPT !.owner = owner, !.method = IF t \in Webhooks THEN "agent" ELSE @]

backfillForAdmin == [t \in TrigIds |->
  IF here(t) /\ migrated(t).owner # "none" /\ deleg[t] = "none" THEN "root" ELSE deleg[t]]

\* ... and creates the delegations that are missing.
backfill == [t \in TrigIds |->
  IF here(t) /\ migrated(t).owner # "none" /\ deleg[t] = "none" THEN migrated(t).owner ELSE deleg[t]]

restartCore ==
  /\ boots > 0 /\ boots' = boots - 1
  /\ ask' = [q \in Asks |-> [NoAsk EXCEPT !.pc = "end"]]
  /\ life' = NoLife
  /\ live' = [n \in 1..MaxMsgs |-> 0]
  /\ trigs' = [t \in TrigIds |-> migrated(t)]
  /\ deleg' = backfill
  /\ UNCHANGED <<plot, app, pgcron, jobs, folk, actAs, mq, sent, fired, denied>>

AskStep(q) ==
  \/ askOwner(q) \/ create_cron(q) \/ create_hook(q) \/ delegate(q)
  \/ require_owner(q) \/ update_cron(q) \/ delete_trigger(q) \/ revoke(q) \/ swallowed(q) \/ trigger_cron(q)
LifeStep ==
  \/ \E op \in {"deploy", "uninstall"}, by \in People : lock_app_lifecycle(op, by)
  \/ listCrons \/ pruneCrons \/ syncCron \/ sync_webhooks \/ delegateWebhook \/ on_app_installed
  \/ delete_all_for_app \/ deleteHooks \/ purgeQueue \/ deleteApp
Firing ==
  \/ \E c \in Crons : plot.ticks /\ enqueue_cron(c)
  \/ \E h \in Hooks, img \in plot.writes : hooks_trigger_fn(h, img[1], img[2])
  \/ (\E m \in mq : dispatch_agent_job(m)) \/ (\E n \in 1..MaxMsgs : complete(n))
  \/ \E w \in Webhooks : webhook_ingress(w)
PeopleStep ==
  \/ \E p \in {"ann", "sa"} : stripPerson(p) \/ deletePerson(p)
  \/ disable_owner \/ revoke_act_as

TrigNext == (\E q \in Asks : AskStep(q)) \/ LifeStep \/ Firing \/ PeopleStep \/ restartCore
TrigSpec == TrigInit /\ [][TrigNext]_trigVars

----------------------------------------------------------------------------
(* Properties. *)

\* Owners and delegators are principals, messages name a trigger.
TrigTypeOK ==
  /\ \A t \in TrigIds : trigs[t].owner \in People \cup {"none"} /\ deleg[t] \in People \cup {"none"}
  /\ \A m \in mq : m.id \in TrigIds

\* pg_cron holds exactly the job each enabled cron names, with its overlap policy, and none
\* for a disabled or deleted one, whichever requests and deployments race; only the removal
\* of the whole app may leave the job of a cron created meanwhile (crons::update, delete).
ScheduleMatchesRows ==
  \A c \in Crons : trigs[c].st # "cascaded" =>
    pgcron[c] = IF here(c) /\ trigs[c].on THEN [no |-> trigs[c].job, skip |-> trigs[c].skip]
                ELSE [no |-> 0, skip |-> FALSE]

\* Of the scheduled messages of one cron in the queue, only the oldest can have been sent
\* while the row's policy was to skip overlaps, whatever deployments and requests did to the
\* policy and to its copy in pg_cron meanwhile (enqueue_cron, crons::update).
OneScheduledMessage ==
  \A m, o \in mq : m.id = o.id /\ m.by = "tick" /\ o.by = "tick" /\ m.n < o.n => ~o.skip

\* What pg_cron runs is what the rows say, with the overlap policy they say.
SchedulesAreSound == TrigTypeOK /\ ScheduleMatchesRows /\ OneScheduledMessage

\* A message left behind by a trigger that was deleted, and whose delegation was withdrawn
\* with it, starts a run, the first or another one after its lease ran out, only if its owner
\* stands behind the agent through another trigger (delete_cron, delete_hook,
\* revoke_by_trigger).
withdrawnWithItsTrigger ==
  \A m \in mq : live'[m.n] > live[m.n] /\ trigs[m.id].st = "withdrawn"
               => \E t \in TrigIds \ {m.id} : deleg[t] = m.user

\* After a restart every cron and hook of a person or a service account has that owner's
\* delegation, also one whose creation was cut off between its row and its delegation.  Not
\* so a cron that boot gave to the administrator, which keeps the delegation of the owner it
\* lost, and a webhook whose last deployment was cut off (migrate_existing_triggers).
restartHeals ==
  restartCore => \A t \in Crons \cup Hooks :
    here(t) /\ trigs[t].owner \in {"ann", "sa"} => deleg'[t] = trigs[t].owner

\* A trigger acts for its owner: with the owner's delegation while it stands, and with that
\* of nobody else after a restart.
TriggersActForTheirOwner == [][withdrawnWithItsTrigger /\ restartHeals]_trigVars

\* "surrendering the lease under a live handler would redeliver the message and start a
\* second concurrent run": no message has two runs (jobs.rs).
NoSecondRun == \A n \in 1..MaxMsgs : live[n] <= 1

\* "Refuse rather than fall back to admin": no run of a cron whose owner was deleted ever
\* starts under somebody else (scheduler.rs).
NoFallbackToAdmin == \A t \in Crons : <<t, "root">> \notin fired

\* "anything else is a standard RPC call to the app worker": a webhook declared for a
\* handler never reaches the agent (webhook_ingress).
DeclaredHandlerIsCalled ==
  \A w \in Webhooks : (\A p \in People : <<w, p>> \notin fired) /\ <<w, "no delegation">> \notin denied
=============================================================================

----------------------------- MODULE AgentTurns -----------------------------
(***************************************************************************)
(* Agent runs: admission under a frozen permission ceiling, the tool calls *)
(* of a run and the supervision they pass, approvals, the one level of     *)
(* sub-agents, and the end of a run's authority.                           *)
(*                                                                         *)
(* One human, the agent of app "lead" and, as its sub-agent, the agent of  *)
(* app "kid".  A permission is one of a few named ones.  Each call is one  *)
(* AgentToolCall message of the worker, handled in a task of its own.      *)
(***************************************************************************)
EXTENDS Naturals, Sequences, SequencesExt

CONSTANTS
  Casts,        \* supervision settings and duties of the calls that are explored
  MaxTick,      \* bound on the clock
  MaxAdmin      \* bound on changes of roles and principals

Apps == {"lead", "kid"}
Calls == {"k1", "k2", "k3"}       \* "k3" is made by the sub-agent's run
RunOf(k) == IF k = "k3" THEN "kid" ELSE "lead"
Perms == {"invoke:lead", "invoke:kid", "tool", "spawn"}
Invoke(app) == IF app = "lead" THEN "invoke:lead" ELSE "invoke:kid"
lineage(app) == IF app = "lead" THEN <<"lead">> ELSE <<"lead", "kid">>

Tools == {"query", "mutate", "spawn"}

\* `stream` holds while the supervisor has the run in agent_runs and pending_agent_streams,
\* `reader` is whoever takes the events: "sse" reads on after the last one, "turn" leaves
\* after it, "gone" has left; `told` that it has been sent Done or Error.
NoRun == [pc |-> "none", ceiling |-> {}, live |-> FALSE, stream |-> FALSE,
          reader |-> "gone", told |-> FALSE, times |-> [t \in Tools |-> <<>>]]
NoCall == [pc |-> "none", perms |-> {}, hold |-> {}]

VARIABLES
  cast,      \* supervision mode and policies, the tool of each call
  person,    \* the responsible human: enabled, and permissions
  helper,    \* each agent: whether a role is assigned, its permissions
  run,       \* AgentRun of each app's agent, with its PolicyEvaluator's call_times
  tcall,     \* the calls
  ask,       \* PendingApprovals: the approval of each call
  tick,      \* the clock, for rate windows
  reviews,   \* changes made by administrators so far
  approved,  \* history: calls whose approval was granted in time, and whether their run had ended
  marks      \* history: when calls passed the lead run's rate limits

agentVars == <<cast, person, helper, run, tcall, ask, tick, reviews, approved, marks>>
past == <<approved, marks>>

AgentInit ==
  /\ cast \in Casts
  /\ person = [on |-> TRUE, perms |-> Perms]
  /\ helper = [a \in Apps |-> [assigned |-> TRUE, perms |-> Perms]]
  /\ run = [a \in Apps |-> NoRun]
  /\ tcall = [k \in Calls |-> NoCall]
  /\ ask = [k \in Calls |-> "none"]
  /\ tick = 0 /\ reviews = 0 /\ approved = {} /\ marks = [t \in Tools |-> <<>>]

humanPerms == person.perms
ToolAt(k, pc) == tcall[k].pc = pc
ToolSet(k, rec) == tcall' = [tcall EXCEPT ![k] = rec]
ToolGo(k, pc) == tcall' = [tcall EXCEPT ![k].pc = pc]
\* A call starts its validation; `hold` is what the human has had since.
validating == [NoCall EXCEPT !.pc = "human", !.hold = humanPerms]
gained(p) == [k \in Calls |->
  IF tcall[k].pc \in {"human", "agents"} THEN [tcall[k] EXCEPT !.hold = @ \cup {p}] ELSE tcall[k]]

----------------------------------------------------------------------------
(* AgentAuthority: admission and revalidation. *)

\* Along the lineage each agent must be invocable, and narrows the
\* permissions.
narrowed(app, from) ==
  LET step(acc, a) ==
        IF acc.ok /\ Invoke(a) \in acc.perms
        THEN [ok |-> TRUE, perms |-> acc.perms \cap helper[a].perms]
        ELSE [ok |-> FALSE, perms |-> {}]
  IN  FoldLeft(step, [ok |-> TRUE, perms |-> from], lineage(app))

admitDirect ==
  /\ run["lead"].pc = "none"
  /\ LET now == narrowed("lead", humanPerms)
     IN  IF person.on /\ now.ok
         THEN run' = [run EXCEPT !["lead"] = [NoRun EXCEPT !.pc = "on", !.ceiling = now.perms,
                                                           !.live = TRUE, !.stream = TRUE,
                                                           !.reader = cast.reader]]
         ELSE run' = [run EXCEPT !["lead"].pc = "refused"]
  /\ UNCHANGED <<cast, person, helper, tcall, ask, tick, reviews, past>>

ensure_active(k) == run[RunOf(k)].live

\* Revalidation reads the human first, ...
revalidateHuman(k) ==
  /\ ToolAt(k, "human")
  /\ IF ensure_active(k) /\ person.on
     THEN ToolSet(k, [tcall[k] EXCEPT !.pc = "agents", !.perms = person.perms])
     ELSE ToolGo(k, "error")
  /\ UNCHANGED <<cast, person, helper, run, ask, tick, reviews, past>>

revalidateUncapped(k) ==
  /\ ToolAt(k, "agents")
  /\ LET now == narrowed(RunOf(k), tcall[k].perms)
     IN  IF now.ok /\ ensure_active(k)
         THEN ToolSet(k, [tcall[k] EXCEPT !.pc = "dispatch", !.perms = now.perms])
         ELSE ToolGo(k, "error")
  /\ UNCHANGED <<cast, person, helper, run, ask, tick, reviews, past>>

\* ... then every agent of the lineage, and caps the result by the ceiling.
revalidateAgents(k) ==
  /\ ToolAt(k, "agents")
  /\ LET now == narrowed(RunOf(k), tcall[k].perms)
     IN  IF now.ok /\ ensure_active(k)
         THEN ToolSet(k, [tcall[k] EXCEPT !.pc = "dispatch",
                            !.perms = now.perms \cap run[RunOf(k)].ceiling])
         ELSE ToolGo(k, "error")
  /\ UNCHANGED <<cast, person, helper, run, ask, tick, reviews, past>>

----------------------------------------------------------------------------
(* Supervision: PolicyEvaluator. *)

matches(pol, tool) == pol.action \in {"*", tool}
within(times, window) == SelectSeq(times, LAMBDA t : tick - t < window)
Rated(tool) == SelectSeq(cast.policies, LAMBDA pol : matches(pol, tool) /\ pol.rated)

\* Each matching limit first drops the calls outside its own window from the one list the
\* tool has; a limit of none panics where it looks for the oldest call.
check_rate_limits(times, tool) ==
  FoldLeft(LAMBDA acc, pol :
             IF acc.verdict # "pass" THEN acc
             ELSE LET kept == within(acc.times, pol.window)
                  IN  [times |-> kept,
                       verdict |-> CASE Len(kept) < pol.max -> "pass"
                                     [] Len(kept) >= pol.max /\ kept # <<>> -> "limited"
                                     [] OTHER -> "panic"],
           [times |-> times, verdict |-> "pass"], Rated(tool))

check_policies(tool, entity) ==
  \E i \in DOMAIN cast.policies :
    LET pol == cast.policies[i]
    IN  matches(pol, tool) /\ pol.entity \in {"any", entity} /\ pol.approval

requiresApproval(k) ==
  \/ cast.mode = "strict"
  \/ cast.mode = "supervised" /\ check_policies(cast.tool[k], cast.entity[k])

\* A call that is not limited is recorded, whatever becomes of it.
evaluate(k) ==
  LET seen == check_rate_limits(run[RunOf(k)].times[cast.tool[k]], cast.tool[k])
  IN  [verdict |-> seen.verdict,
       times |-> IF seen.verdict = "pass" THEN Append(seen.times, tick) ELSE seen.times]

\* The supervisor passes a call on only for a run it knows; its task evaluates
\* the policies, and a panic there leaves the call without an answer ("lost").
agentToolCall(k) ==
  /\ ToolAt(k, "none") /\ k \in DOMAIN cast.tool
  /\ run[RunOf(k)].stream
  /\ LET seen == evaluate(k)
     IN  /\ run' = [run EXCEPT ![RunOf(k)].times[cast.tool[k]] = seen.times]
         /\ marks' = IF seen.verdict # "pass" \/ RunOf(k) = "kid" THEN marks
                     ELSE [marks EXCEPT ![cast.tool[k]] = Append(@, tick)]
         /\ IF seen.verdict # "pass"
            THEN ToolGo(k, IF seen.verdict = "limited" THEN "error" ELSE "lost") /\ UNCHANGED ask
            ELSE IF requiresApproval(k)
            THEN ToolGo(k, "wait") /\ ask' = [ask EXCEPT ![k] = "open"]
            ELSE ToolSet(k, validating) /\ UNCHANGED ask
  /\ UNCHANGED <<cast, person, helper, tick, reviews, approved>>

----------------------------------------------------------------------------
(* Approvals. *)

\* The entry expires when its time is up, whether or not the waiting task's
\* timer has run.
approvalExpires(k) ==
  /\ ask[k] = "open" /\ cast.expires
  /\ ask' = [ask EXCEPT ![k] = "expired"]
  /\ UNCHANGED <<cast, person, helper, run, tcall, tick, reviews, past>>

consumeLate(k, verdict) ==
  /\ ask[k] \in {"open", "expired"}
  /\ ask' = [ask EXCEPT ![k] = verdict]
  /\ approved' = IF ask[k] = "open" /\ verdict = "yes" THEN approved \cup {<<k, run[RunOf(k)].told>>} ELSE approved
  /\ UNCHANGED <<cast, person, helper, run, tcall, tick, reviews, marks>>

\* The owner's reply takes the entry; an expired one is answered for it.
reply_for_app(k, verdict) ==
  /\ ask[k] \in {"open", "expired"}
  /\ ask' = [ask EXCEPT ![k] = IF @ = "expired" THEN "no" ELSE verdict]
  /\ approved' = IF ask[k] = "open" /\ verdict = "yes" THEN approved \cup {<<k, run[RunOf(k)].told>>} ELSE approved
  /\ UNCHANGED <<cast, person, helper, run, tcall, tick, reviews, marks>>

\* The waiting task wakes on the reply, on its timer, or when the run ends.
confirmation(k) ==
  /\ ToolAt(k, "wait")
  /\ \/ /\ ask[k] = "yes"
        /\ ToolSet(k, validating)
     \/ ask[k] \in {"no", "expired"} /\ ToolGo(k, "error")
     \/ ~ensure_active(k) /\ ToolGo(k, "error")
  /\ ask' = [ask EXCEPT ![k] = "none"]
  /\ UNCHANGED <<cast, person, helper, run, tick, reviews, past>>

----------------------------------------------------------------------------
(* Execution. *)

\* tools::dispatch gates the tool's own permission.
dispatchTool(k) ==
  /\ ToolAt(k, "dispatch") /\ cast.tool[k] # "spawn"
  /\ ToolGo(k, IF "tool" \in tcall[k].perms THEN "run" ELSE "error")
  /\ UNCHANGED <<cast, person, helper, run, ask, tick, reviews, past>>

\* invoke_agent: no nesting below a sub-agent, and the target must be invocable.
invoke_agent(k) ==
  /\ ToolAt(k, "dispatch") /\ cast.tool[k] = "spawn"
  /\ ToolGo(k, IF RunOf(k) = "lead" /\ {"spawn", "invoke:kid"} \subseteq tcall[k].perms
               THEN "spawn" ELSE "error")
  /\ UNCHANGED <<cast, person, helper, run, ask, tick, reviews, past>>

\* Child admission revalidates the parent, requires the child's agent to be invocable,
\* narrows by it, and takes a child of the parent's lifetime.
admitChild(k) ==
  /\ ToolAt(k, "spawn") /\ run["kid"].pc = "none"
  /\ LET parent == narrowed("lead", humanPerms)
         ceiling == parent.perms \cap run["lead"].ceiling
     IN  IF /\ run["lead"].live /\ person.on /\ parent.ok
            /\ Invoke("kid") \in ceiling
         THEN /\ run' = [run EXCEPT !["kid"] = [NoRun EXCEPT !.pc = "on", !.live = TRUE, !.stream = TRUE,
                                                    !.reader = "turn",
                                                    !.ceiling = ceiling \cap helper["kid"].perms]]
              /\ ToolGo(k, "await")
         ELSE run' = [run EXCEPT !["kid"].pc = "refused"] /\ ToolGo(k, "error")
  /\ UNCHANGED <<cast, person, helper, ask, tick, reviews, past>>

\* The tool ran; or the sub-agent's stream ended with its answer or an error, and the
\* dispatching call stops reading it.
toolReturns(k) ==
  /\ \/ ToolAt(k, "run") /\ UNCHANGED run
     \/ ToolAt(k, "await") /\ run["kid"].told /\ run' = [run EXCEPT !["kid"].reader = "gone"]
  /\ ToolGo(k, "answered")
  /\ UNCHANGED <<cast, person, helper, ask, tick, reviews, past>>

\* A refusal of any kind is sent to the worker as the call's result.
send_result(k) ==
  /\ ToolAt(k, "error") /\ ToolGo(k, "answered")
  /\ UNCHANGED <<cast, person, helper, run, ask, tick, reviews, past>>

----------------------------------------------------------------------------
(* The end of a run. *)

\* AgentDone and AgentError, and a worker that stops or crashes, drop the run and send the
\* last event; a reader that only wanted the answer leaves with it.
agentDone(a) ==
  /\ run[a].stream
  /\ run' = [run EXCEPT ![a] = [@ EXCEPT !.stream = FALSE, !.told = TRUE,
                                !.reader = IF a = "lead" /\ @ = "turn" THEN "gone" ELSE @]]
  /\ UNCHANGED <<cast, person, helper, tcall, ask, tick, reviews, past>>

\* The client closes its connection.
readerLeaves(a) ==
  /\ run[a].reader = "sse"
  /\ run' = [run EXCEPT ![a].reader = "gone"]
  /\ UNCHANGED <<cast, person, helper, tcall, ask, tick, reviews, past>>

\* Senders of the run's events: the supervisor, and each call that is being handled.
senders(a) == run[a].stream \/ \E k \in Calls : RunOf(k) = a /\ tcall[k].pc \notin {"none", "answered", "lost"}

\* The fan-out task ends the authority once the reader has left or nobody can send it an
\* event any more.  A run's lifetime is the parent of its sub-agent's, whose worker goes on
\* unaware.
finish(a) ==
  /\ run[a].live /\ (run[a].reader = "gone" \/ ~senders(a))
  /\ run' = [x \in Apps |-> IF x = a \/ a = "lead" THEN [run[x] EXCEPT !.live = FALSE] ELSE run[x]]
  /\ UNCHANGED <<cast, person, helper, tcall, ask, tick, reviews, past>>

----------------------------------------------------------------------------
(* Administration and deployment. *)

\* Permissions are taken from, or given to, the human or an agent's role.
regrant(who, p, give) ==
  /\ reviews < MaxAdmin /\ reviews' = reviews + 1
  /\ LET change(S) == IF give THEN S \cup {p} ELSE S \ {p}
     IN  IF who = "human"
         THEN /\ person' = [person EXCEPT !.perms = change(@)] /\ UNCHANGED helper
              /\ person' # person
         ELSE /\ helper' = [helper EXCEPT ![who].perms = change(@)] /\ UNCHANGED person
              /\ helper' # helper /\ helper[who].assigned
  /\ tcall' = IF give /\ who = "human" THEN gained(p) ELSE tcall
  /\ UNCHANGED <<cast, run, ask, tick, past>>

\* The responsible principal is deleted, or disabled when it is a service account;
\* no operation of Core disables or deletes an agent's own principal.
disable ==
  /\ reviews < MaxAdmin /\ reviews' = reviews + 1
  /\ person' \in {[person EXCEPT !.on = FALSE], [on |-> FALSE, perms |-> {}]}
  /\ UNCHANGED <<cast, helper, run, tcall, ask, tick, past>>

\* The administrator unassigns the agent's role.
unassign(a) ==
  /\ reviews < MaxAdmin /\ reviews' = reviews + 1 /\ helper[a].assigned
  /\ helper' = [helper EXCEPT ![a] = [@ EXCEPT !.assigned = FALSE, !.perms = {}]]
  /\ UNCHANGED <<cast, person, run, tcall, ask, tick, past>>

\* Deploying registers the agent: an agent without any role gets the default
\* one, whose permissions are derived from the manifest (its own data, which
\* is not distinguished here, and its own invocation).
derive_agent_permissions(a) == {Invoke(a)}
sync_agent_rbac(a) ==
  /\ cast.deploys
  /\ ~helper[a].assigned
  /\ helper' = [helper EXCEPT ![a] = [@ EXCEPT !.assigned = TRUE, !.perms = derive_agent_permissions(a)]]
  /\ UNCHANGED <<cast, person, run, tcall, ask, tick, reviews, past>>

clock ==
  /\ cast.ticks /\ tick < MaxTick /\ tick' = tick + 1
  /\ UNCHANGED <<cast, person, helper, run, tcall, ask, reviews, past>>

CallStep(k) ==
  \/ agentToolCall(k) \/ confirmation(k)
  \/ revalidateHuman(k) \/ revalidateAgents(k)
  \/ dispatchTool(k) \/ invoke_agent(k) \/ admitChild(k) \/ toolReturns(k) \/ send_result(k)
Administration ==
  \/ disable
  \/ \E who \in {"human"} \cup Apps, p \in Perms, give \in BOOLEAN : regrant(who, p, give)
  \/ \E a \in Apps : unassign(a) \/ sync_agent_rbac(a)

AgentNext ==
  \/ admitDirect
  \/ \E k \in Calls : CallStep(k) \/ approvalExpires(k)
  \/ \E k \in Calls, verdict \in {"yes", "no"} : reply_for_app(k, verdict)
  \/ \E a \in Apps : agentDone(a) \/ readerLeaves(a) \/ finish(a)
  \/ Administration
  \/ clock

\* Every task and the supervisor keep running; the human may never reply, but
\* the approval's timer fires; the worker may never end its run.
AgentFairness ==
  /\ \A k \in Calls : WF_agentVars(CallStep(k) \/ approvalExpires(k))
  /\ \A a \in Apps : WF_agentVars(finish(a))

AgentSpec == AgentInit /\ [][AgentNext]_agentVars /\ AgentFairness

----------------------------------------------------------------------------
(* Properties. *)

\* Runs and calls are in a known stage, permissions are permissions.
AgentTypeOK ==
  /\ \A a \in Apps : run[a].pc \in {"none", "refused", "on"} /\ run[a].ceiling \subseteq Perms
  /\ \A k \in Calls : tcall[k].perms \subseteq Perms

\* A tool call gets nothing beyond the ceiling frozen at admission, nothing an agent of the
\* lineage lacks, and nothing the human lost before the call was let go: a permission revoked
\* while the approval was pending is gone, one granted since never enlarges the run
\* (AgentAuthority::revalidate).
ceilingHolds ==
  \A k \in Calls :
       tcall[k].pc = "agents" /\ tcall'[k].pc = "dispatch"
       => tcall'[k].perms \subseteq
            {p \in run[RunOf(k)].ceiling \cap tcall[k].hold :
               \A i \in DOMAIN lineage(RunOf(k)) : p \in helper[lineage(RunOf(k))[i]].perms}

\* No call of an ended run, nor of a sub-agent whose parent run has ended, is let through
\* (AgentAuthority::finish, child tokens).
endedRunIsInert ==
  \A k \in Calls :
       tcall[k].pc = "agents" /\ tcall'[k].pc = "dispatch"
       => \A i \in DOMAIN lineage(RunOf(k)) : run[lineage(RunOf(k))[i]].live

\* Authority is spent only while it lasts, and never more of it than was admitted.
CallsStayWithinAuthority == [][ceilingHolds /\ endedRunIsInert]_agentVars

\* Where supervision asks for an approval, a call goes on only after it was granted before
\* its expiry, even if the waiting task's timer is late (PendingApprovals::consume).
ApprovedFirst ==
  \A k \in DOMAIN cast.tool :
    requiresApproval(k) => tcall[k].pc \in {"none", "wait", "error", "answered", "lost"} \/ \E late \in BOOLEAN : <<k, late>> \in approved

limitKept(pol, t) == pol.max > 0 => Len(within(marks[t], pol.window)) <= pol.max

\* No more calls of a tool pass within a window than its limit says, however calls run in
\* parallel and whatever becomes of them.  Where several limits match, this is so of those
\* with the shortest window: the list of calls they share is cut to it
\* (PolicyEvaluator::check_rate_limits).
RateLimitHolds ==
  \A t \in Tools : \A i \in DOMAIN Rated(t) :
    (\A j \in DOMAIN Rated(t) : Rated(t)[i].window <= Rated(t)[j].window) => limitKept(Rated(t)[i], t)

\* "timestamps of recent calls (for rate limiting)": every limit is kept, also beside one
\* with a shorter window (call_times).
EveryRateLimitHolds == \A t \in Tools : \A i \in DOMAIN Rated(t) : limitKept(Rated(t)[i], t)

\* Once a run's authority has ended none of its calls keeps waiting for an approval nobody
\* gives, nor is left half done; only one that waits for its sub-agent's worker may, and one
\* whose task panicked stays unanswered (authority.cancelled()).
EndedRunSettles ==
  \A a \in Apps : run[a].pc = "on" /\ ~run[a].live ~>
    \A k \in Calls : RunOf(k) = a => tcall[k].pc \in {"none", "answered", "await", "lost"}

\* ADR 0011: "Dropping the active run cancels pending authority and its descendants,
\* including tool requests waiting for confirmation": an approval given after the run was
\* dropped, and its reader told so, lets nothing through.
DroppedRunIsCancelled ==
  \A k \in Calls : <<k, TRUE>> \in approved => tcall[k].pc \notin {"dispatch", "run", "spawn", "await"}

\* After the first deployment only an administrator ever widens what an agent may do
\* (sync_agent_rbac).
AdminGovernsTheAgent ==
  [][\A a \in Apps : helper'[a].perms \subseteq helper[a].perms \/ reviews' # reviews]_agentVars

\* A supervised call is let go only within its policy: approved in time, and not too often.
CallsAreSupervised == AgentTypeOK /\ ApprovedFirst /\ RateLimitHolds
============================================================================

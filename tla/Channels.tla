------------------------------ MODULE Channels ------------------------------
(***************************************************************************)
(* Chat channels: webhook deliveries and their receipts, the links between *)
(* chats and users with the standing delegation each link grants, the      *)
(* chat's current session, the agent runs a message starts, and the        *)
(* approvals those runs ask for in the chat.                               *)
(*                                                                         *)
(* One channel.  A visit is one HTTP request (or the task a webhook        *)
(* spawns).  A user has at most one live channel delegation (its reference *)
(* is derived from channel and user); delegations are numbered, so a       *)
(* number is never live again once revoked.                                *)
(***************************************************************************)
EXTENDS Naturals, FiniteSets

CONSTANTS
  Visits,      \* the requests of one behaviour
  Scenes,      \* the assignments of work to them that are explored
  ChUsers, Chats, Agents,
  DefaultAgent,
  MaxTools,    \* bound on the tool calls of one run
  MaxCrashes,  \* bound on restarts of the process
  MaxDbErrs    \* bound on failed writes of a receipt

NoUser == "nobody"
NoAgent == "none"
NoGrant == [id |-> 0, agent |-> NoAgent]

\* What a visit remembers across its awaits.
Fresh == [pc |-> "start", human |-> NoUser, agent |-> NoAgent, pin |-> 0, at |-> 0,
          tools |-> 0, ok |-> TRUE, had |-> FALSE, creds |-> FALSE, wrote |-> FALSE]
Left == [Fresh EXCEPT !.pc = "left"]

VARIABLES
  scene,      \* the explored scene: provider, managed, status and the duties
  chan,       \* the channels row: status, and whether its credentials are set
  linked,     \* channel_identities: chat -> user
  talk,       \* channel_sessions: chat -> agent of its current session
  grantOf,    \* the live channel delegation of each user
  grants,     \* how many delegations there have been
  linkTokens, \* PENDING_LINKS: users with an unexpired link token
  barred,     \* chats the managed gateway refuses to authorize
  inserting,  \* chats whose identity row a managed link has inserted, uncommitted
  receipt,    \* channel_receipts: delivery -> status
  asked,      \* PendingApprovals: visit -> state of its approval
  visit,
  linkNo,     \* history: changes of each chat's identity
  starts,     \* history: how often each delivery was processed since the channel was made
  crashes, dbErrs

chanVars == <<scene, chan, linked, talk, grantOf, grants, linkTokens, barred, inserting,
              receipt, asked, visit, linkNo, starts, crashes, dbErrs>>
bounds == <<scene, crashes, dbErrs>>
links == <<linked, grantOf, grants, linkNo, inserting>>
inbox == <<receipt, starts>>

work(p) == scene.duty[p]
managed == scene.managed
Deliveries == {work(p).d : p \in {q \in Visits : work(q).op = "deliver"}}

ChanInit ==
  /\ scene \in Scenes
  /\ chan = [status |-> scene.status, creds |-> scene.status = "active"]
  /\ linked = scene.linked
  /\ talk = [c \in Chats |-> NoAgent]
  /\ LET held == {u \in ChUsers : \E c \in Chats : linked[c] = u}
     IN  /\ grantOf = [u \in ChUsers |-> IF u \in held THEN [id |-> 1, agent |-> DefaultAgent]
                                         ELSE NoGrant]
         /\ grants = IF held = {} THEN 0 ELSE 1
  /\ linkTokens = {} /\ barred = {} /\ inserting = {}
  /\ receipt = [d \in Deliveries |-> "none"]
  /\ starts = [d \in Deliveries |-> 0]
  /\ asked = [p \in Visits |-> "none"]
  /\ visit = [p \in Visits |-> Fresh]
  /\ linkNo = [c \in Chats |-> 0]
  /\ crashes = 0 /\ dbErrs = 0

On(p, op, pc) == work(p).op = op /\ visit[p].pc = pc
ChGo(p, pc) == visit' = [visit EXCEPT ![p].pc = pc]
ChPut(p, rec) == visit' = [visit EXCEPT ![p] = rec]
Leave(p) == ChPut(p, Left)
\* The identity rows become `now`; each chat that changes hands is counted.
relinked(now) ==
  /\ linked' = now
  /\ linkNo' = [c \in Chats |-> linkNo[c] + IF now[c] = linked[c] THEN 0 ELSE 1]

----------------------------------------------------------------------------
(* Delegations (governance/delegation/grants.rs). *)

revoke_grant(u) == grantOf' = [grantOf EXCEPT ![u] = NoGrant]
\* The partial unique index turns a second insert into an update that keeps
\* the row's id and its delegatee.
create_delegation(u, agent) ==
  IF grantOf[u].id = 0
  THEN /\ grantOf' = [grantOf EXCEPT ![u] = [id |-> grants + 1, agent |-> agent]]
       /\ grants' = grants + 1
  ELSE UNCHANGED <<grantOf, grants>>

----------------------------------------------------------------------------
(* ChannelSession: the origin of a channel run, pinned to one delegation. *)

validateAny(chat, human, agent, pin) ==
  /\ chan.status = "active" /\ linked[chat] = human
  /\ grantOf[human].id # 0 /\ grantOf[human].agent = agent

\* The statement that joins channel, identity and delegation.  What
\* assert_can_fire asks of the delegation just before follows from it: the
\* pinned one is live here and was never revoked.
validate(chat, human, agent, pin) ==
  /\ chan.status = "active" /\ linked[chat] = human
  /\ grantOf[human].id # 0
  /\ grantOf[human].id = pin /\ grantOf[human].agent = agent

load(chat, human, agent) ==
  /\ grantOf[human].id # 0 /\ grantOf[human].agent = agent
  /\ validate(chat, human, agent, grantOf[human].id)

\* Where validate ends by asking the provider, and what follows its consent.
Asking == [askLoad |-> "invoke", askAdmit |-> "turn", askTool |-> "act", askReply |-> "consume"]
\* A managed channel asks its gateway, an await; the native providers consent at once.
Consulting(ask) == IF managed THEN ask ELSE Asking[ask]

\* Who may answer an approval: the user in this chat, and the origin's key.
ownerOf(p) == <<visit[p].human, work(p).chat, visit[p].pin>>

----------------------------------------------------------------------------
(* Parsing a webhook, by provider: "reject", "reply", "ignored", or the    *)
(* kind of event, whose chat binds room and sender.                        *)

parseSlack(ev) ==
  IF ev.kind = "verify" THEN "reply"
  ELSE IF ~ev.signed THEN "reject"
  ELSE IF ev.kind = "bot" THEN "ignored" ELSE ev.kind

parseTelegram(ev) ==
  IF ~ev.signed THEN "reject"
  ELSE IF ev.kind \in {"bot", "verify"} THEN "ignored" ELSE ev.kind

\* An approval button carries a digest over the chat it was sent to.
parseManaged(p) ==
  LET ev == work(p).ev
  IN  IF ~ev.signed THEN "reject"
      ELSE IF ev.kind = "callback" /\ work(ev.run).chat # work(p).chat THEN "reject"
      ELSE ev.kind

parse_webhook(p) ==
  IF managed THEN parseManaged(p)
  ELSE IF scene.provider = "slack" THEN parseSlack(work(p).ev)
  ELSE parseTelegram(work(p).ev)

webhook(p) ==
  /\ On(p, "deliver", "start")
  /\ LET kind == parse_webhook(p)
     IN  IF chan.status # "active" \/ kind \in {"reject", "reply", "ignored"}
         THEN Leave(p)
         ELSE ChGo(p, IF managed THEN "gate" ELSE "admit")
  /\ UNCHANGED <<bounds, chan, links, talk, linkTokens, barred, inbox, asked>>

\* A managed channel refuses a chat without identity or authorization.
gateManaged(p) ==
  /\ On(p, "deliver", "gate")
  /\ IF linked[work(p).chat] = NoUser \/ work(p).chat \in barred THEN Leave(p) ELSE ChGo(p, "admit")
  /\ UNCHANGED <<bounds, chan, links, talk, linkTokens, barred, inbox, asked>>

----------------------------------------------------------------------------
(* Intake: admission under the chat's advisory lock. *)

IsMessage(d) == \E p \in Visits : work(p).op = "deliver" /\ work(p).d = d /\ work(p).ev.kind = "message"
ChatOf(d) == work(CHOOSE p \in Visits : work(p).op = "deliver" /\ work(p).d = d).chat
runningNone(chat) == FALSE

running(chat) ==
  \E d \in Deliveries : IsMessage(d) /\ ChatOf(d) = chat /\ receipt[d] = "processing"

admit(p) ==
  /\ On(p, "deliver", "admit")
  /\ LET d == work(p).d
     IN  IF \/ chan.status = "absent"                     \* the receipt's channel is gone
            \/ receipt[d] # "none"                        \* Duplicate
            \/ IsMessage(d) /\ running(work(p).chat)      \* Busy
         THEN Leave(p) /\ UNCHANGED inbox
         ELSE /\ receipt' = [receipt EXCEPT ![d] = "processing"]
              /\ starts' = [starts EXCEPT ![d] = @ + 1]
              /\ ChGo(p, "process")
  /\ UNCHANGED <<bounds, chan, links, talk, linkTokens, barred, asked>>

finish_receipt(p) ==
  /\ On(p, "deliver", "finish")
  /\ \/ receipt' = [receipt EXCEPT ![work(p).d] =
                      IF @ = "processing" THEN IF visit[p].ok THEN "done" ELSE "failed" ELSE @]
        /\ UNCHANGED dbErrs
     \/ dbErrs < MaxDbErrs /\ dbErrs' = dbErrs + 1 /\ UNCHANGED receipt
  /\ Leave(p)
  /\ UNCHANGED <<scene, crashes, chan, links, talk, linkTokens, barred, starts, asked>>

Ends(p, good) == ChPut(p, [Fresh EXCEPT !.pc = "finish", !.ok = good])

----------------------------------------------------------------------------
(* Sessions of a chat. *)

reset_session(c) == talk' = [talk EXCEPT ![c] = NoAgent]
create_session(c, agent) == talk' = [talk EXCEPT ![c] = agent]
resolve_invoker(c) == linked[c]

\* The chat's session, or a new one with the channel's default agent; an idle
\* managed session is replaced.
resolve_session(c, expire, agent) ==
  \/ /\ talk[c] # NoAgent
     /\ agent = talk[c] /\ UNCHANGED talk
  \/ /\ talk[c] = NoAgent \/ expire
     /\ chan.status # "absent"
     /\ agent = DefaultAgent /\ create_session(c, agent)
Sessionless(c) == talk[c] = NoAgent /\ chan.status = "absent"

----------------------------------------------------------------------------
(* Processing an admitted event. *)

Hears(p, kind, text) ==
  /\ On(p, "deliver", "process")
  /\ work(p).ev.kind = kind /\ work(p).ev.text = text

\* /newsession, in either kind of channel.
newSession(p) ==
  /\ Hears(p, "message", "newsession")
  /\ reset_session(work(p).chat) /\ Ends(p, TRUE)
  /\ UNCHANGED <<bounds, chan, links, linkTokens, barred, inbox, asked>>

\* /agent and the agent buttons: the delegation is not touched.
switchAgent(p) ==
  /\ ~managed \/ work(p).ev.kind = "callback"
  /\ Hears(p, "message", "agent") \/ Hears(p, "callback", "agent")
  /\ IF chan.status = "absent" THEN UNCHANGED talk
     ELSE create_session(work(p).chat, work(p).ev.agent)
  /\ Ends(p, TRUE)
  /\ UNCHANGED <<bounds, chan, links, linkTokens, barred, inbox, asked>>

\* /link <token>: the token is consumed, whatever becomes of the link.
consume_link_token(p) ==
  /\ ~managed /\ Hears(p, "message", "link")
  /\ LET u == work(p).ev.user
     IN  /\ linkTokens' = linkTokens \ {u}
         /\ IF u \in linkTokens /\ chan.status # "absent"
            THEN ChPut(p, [visit[p] EXCEPT !.pc = "link", !.human = u]) ELSE Ends(p, TRUE)
  /\ UNCHANGED <<bounds, chan, links, talk, barred, inbox, asked>>

\* try_complete_link's transaction: a chat taken over from another user loses
\* its session, and that user's delegation is revoked.
linkIdentity(p) ==
  /\ On(p, "deliver", "link")
  /\ LET c == work(p).chat
         previous == linked[c]
     IN  IF chan.status = "absent"
         THEN Ends(p, TRUE) /\ UNCHANGED <<linked, linkNo, grantOf, talk>>
         ELSE /\ IF previous \notin {NoUser, visit[p].human}
                 THEN reset_session(c) /\ revoke_grant(previous)
                 ELSE UNCHANGED <<talk, grantOf>>
              /\ relinked([linked EXCEPT ![c] = visit[p].human])
              /\ ChGo(p, "linkAgent")
  /\ UNCHANGED <<bounds, chan, grants, inserting, linkTokens, barred, inbox, asked>>

\* After the commit: the session's agent is resolved, the former delegation
\* revoked and a new one created, each a statement of its own.
linkAgent(p) ==
  /\ On(p, "deliver", "linkAgent")
  /\ \/ Sessionless(work(p).chat) /\ Ends(p, TRUE) /\ UNCHANGED talk
     \/ \E a \in Agents : /\ resolve_session(work(p).chat, FALSE, a)
                          /\ ChPut(p, [visit[p] EXCEPT !.pc = "linkRevoke", !.agent = a])
  /\ UNCHANGED <<bounds, chan, links, linkTokens, barred, inbox, asked>>

linkRevoke(p) ==
  /\ On(p, "deliver", "linkRevoke")
  /\ revoke_grant(visit[p].human) /\ ChGo(p, "linkGrant")
  /\ UNCHANGED <<bounds, chan, linked, linkNo, inserting, grants, talk, linkTokens, barred, inbox, asked>>

linkGrant(p) ==
  /\ On(p, "deliver", "linkGrant")
  /\ create_delegation(visit[p].human, visit[p].agent) /\ Ends(p, TRUE)
  /\ UNCHANGED <<bounds, chan, linked, linkNo, inserting, talk, linkTokens, barred, inbox, asked>>

----------------------------------------------------------------------------
(* A message for the agent: do_invoke. *)

IsChat(p) ==
  /\ On(p, "deliver", "process") /\ work(p).ev.kind = "message"
  /\ work(p).ev.text = "hi" \/ (managed /\ work(p).ev.text # "newsession")

\* An unlinked chat is told to link; sending may fail.
process_event(p) ==
  /\ IsChat(p)
  /\ IF resolve_invoker(work(p).chat) = NoUser THEN \E good \in BOOLEAN : Ends(p, good)
     ELSE ChGo(p, "session")
  /\ UNCHANGED <<bounds, chan, links, talk, linkTokens, barred, inbox, asked>>

invokeSession(p) ==
  /\ On(p, "deliver", "session")
  /\ \/ Sessionless(work(p).chat) /\ Ends(p, FALSE) /\ UNCHANGED talk
     \/ \E a \in Agents : /\ resolve_session(work(p).chat, managed, a)
                          /\ ChPut(p, [visit[p] EXCEPT !.pc = "load", !.agent = a])
  /\ UNCHANGED <<bounds, chan, links, linkTokens, barred, inbox, asked>>

\* The invoker is read beside the session; the origin is pinned and validated
\* before history and media are loaded.
invokeLoad(p) ==
  /\ On(p, "deliver", "load")
  /\ LET human == resolve_invoker(work(p).chat)
     IN  IF human # NoUser /\ load(work(p).chat, human, visit[p].agent)
         THEN ChPut(p, [visit[p] EXCEPT !.pc = Consulting("askLoad"), !.human = human,
                          !.pin = grantOf[human].id, !.at = linkNo[work(p).chat]])
         ELSE Ends(p, FALSE)
  /\ UNCHANGED <<bounds, chan, links, talk, linkTokens, barred, inbox, asked>>

Valid(p) == validate(work(p).chat, visit[p].human, visit[p].agent, visit[p].pin)

\* Agent admission validates the origin again.
invokeAdmit(p) ==
  /\ On(p, "deliver", "invoke")
  /\ IF Valid(p) THEN ChGo(p, Consulting("askAdmit")) ELSE Ends(p, FALSE)
  /\ UNCHANGED <<bounds, chan, links, talk, linkTokens, barred, inbox, asked>>

\* The agent calls a tool, with or without an approval; the approval message
\* may not be deliverable, which cancels the approval.
toolCall(p) ==
  /\ On(p, "deliver", "turn") /\ visit[p].tools < MaxTools
  /\ \/ ChPut(p, [visit[p] EXCEPT !.pc = "check", !.tools = @ + 1]) /\ UNCHANGED asked
     \/ /\ ChPut(p, [visit[p] EXCEPT !.pc = "wait", !.tools = @ + 1])
        /\ \E sent \in BOOLEAN : asked' = [asked EXCEPT ![p] = IF sent THEN "open" ELSE "no"]
  /\ UNCHANGED <<bounds, chan, links, talk, linkTokens, barred, inbox>>

\* Approved, rejected, or out of time.
approvalWait(p) ==
  /\ On(p, "deliver", "wait")
  /\ \E to \in IF asked[p] = "yes" THEN {"check"} ELSE {"turn"} : ChGo(p, to)
  /\ asked' = [asked EXCEPT ![p] = "none"]
  /\ UNCHANGED <<bounds, chan, links, talk, linkTokens, barred, inbox>>

\* The tool runs only after the origin was validated once more.
toolCheck(p) ==
  /\ On(p, "deliver", "check")
  /\ ChGo(p, IF Valid(p) THEN Consulting("askTool") ELSE "turn")
  /\ UNCHANGED <<bounds, chan, links, talk, linkTokens, barred, inbox, asked>>

\* The gateway's answer: consent, or a refusal that ends the run, fails the
\* tool call or drops the answer to an approval.
authorize_session(p) ==
  /\ work(p).op = "deliver" /\ visit[p].pc \in DOMAIN Asking
  /\ IF work(p).chat \notin barred THEN ChGo(p, Asking[visit[p].pc])
     ELSE IF visit[p].pc = "askTool" THEN ChGo(p, "turn")
     ELSE Ends(p, visit[p].pc = "askReply")
  /\ UNCHANGED <<bounds, chan, links, talk, linkTokens, barred, inbox, asked>>

toolDone(p) ==
  /\ On(p, "deliver", "act") /\ ChGo(p, "turn")
  /\ UNCHANGED <<bounds, chan, links, talk, linkTokens, barred, inbox, asked>>

\* The agent answers, or fails; sending its answer may fail.
invokeDone(p) ==
  /\ On(p, "deliver", "turn")
  /\ \E good \in BOOLEAN : Ends(p, good)
  /\ UNCHANGED <<bounds, chan, links, talk, linkTokens, barred, inbox, asked>>

----------------------------------------------------------------------------
(* Answering an approval from the chat. *)

answerWho(p) ==
  /\ Hears(p, "callback", "approve") \/ Hears(p, "callback", "deny")
  /\ LET human == resolve_invoker(work(p).chat)
     IN  IF human = NoUser THEN Ends(p, TRUE)
         ELSE ChPut(p, [visit[p] EXCEPT !.pc = "answerSession", !.human = human])
  /\ UNCHANGED <<bounds, chan, links, talk, linkTokens, barred, inbox, asked>>

answerSession(p) ==
  /\ On(p, "deliver", "answerSession")
  /\ \/ Sessionless(work(p).chat) /\ Ends(p, TRUE) /\ UNCHANGED talk
     \/ \E a \in Agents : /\ resolve_session(work(p).chat, FALSE, a)
                          /\ ChPut(p, [visit[p] EXCEPT !.pc = "answer", !.agent = a])
  /\ UNCHANGED <<bounds, chan, links, linkTokens, barred, inbox, asked>>

\* The answerer's own origin is loaded ...
reply_approval(p) ==
  /\ On(p, "deliver", "answer")
  /\ IF load(work(p).chat, visit[p].human, visit[p].agent)
     THEN ChPut(p, [visit[p] EXCEPT !.pc = Consulting("askReply"), !.pin = grantOf[visit[p].human].id])
     ELSE Ends(p, TRUE)
  /\ UNCHANGED <<bounds, chan, links, talk, linkTokens, barred, inbox, asked>>

\* ... and must be the owner of the pending approval.
consumeApproval(p) ==
  /\ On(p, "deliver", "consume")
  /\ LET q == work(p).ev.run
     IN  IF visit[q].pc = "wait" /\ asked[q] = "open" /\ ownerOf(q) = ownerOf(p)
         THEN asked' = [asked EXCEPT ![q] = IF work(p).ev.text = "approve" THEN "yes" ELSE "no"]
         ELSE UNCHANGED asked
  /\ Ends(p, TRUE)
  /\ UNCHANGED <<bounds, chan, links, talk, linkTokens, barred, inbox>>

----------------------------------------------------------------------------
(* The dashboard's requests. *)

create_link_token(p) ==
  /\ On(p, "token", "start")
  /\ linkTokens' = IF chan.status = "active" /\ ~managed THEN linkTokens \cup {work(p).user}
                   ELSE linkTokens
  /\ Leave(p)
  /\ UNCHANGED <<bounds, chan, links, talk, barred, inbox, asked>>

unlink_identity(p) ==
  /\ On(p, "unlink", "start")
  /\ LET u == work(p).user
     IN  IF \E c \in Chats : linked[c] = u
         THEN /\ relinked([c \in Chats |-> IF linked[c] = u THEN NoUser ELSE linked[c]])
              /\ revoke_grant(u)
         ELSE UNCHANGED <<linked, linkNo, grantOf>>
  /\ Leave(p)
  /\ UNCHANGED <<bounds, chan, grants, inserting, talk, linkTokens, barred, inbox, asked>>

\* Linking a managed chat: authorized by the gateway ...
authorizeLink(p) ==
  /\ On(p, "mlink", "start")
  /\ IF chan.status = "active" /\ managed /\ work(p).chat \notin barred
     THEN ChGo(p, "insert") ELSE Leave(p)
  /\ UNCHANGED <<bounds, chan, links, talk, linkTokens, barred, inbox, asked>>

\* ... a transaction inserts the identity unless there is one (a row another
\* link has inserted is waited for), and compares its owner ...
linkInsert(p) ==
  /\ On(p, "mlink", "insert") /\ work(p).chat \notin inserting
  /\ LET now == linked[work(p).chat]
     IN  IF chan.status = "absent" \/ now \notin {NoUser, work(p).user}
         THEN Leave(p) /\ UNCHANGED inserting
         ELSE /\ ChPut(p, [visit[p] EXCEPT !.pc = "commit", !.had = (now # NoUser)])
              /\ inserting' = IF now = NoUser THEN inserting \cup {work(p).chat} ELSE inserting
  /\ UNCHANGED <<bounds, chan, linked, grantOf, grants, linkNo, talk, linkTokens, barred, inbox, asked>>

\* ... and, authorized a second time, drops the user's other chats and
\* replaces the delegation.
linkCommit(p) ==
  /\ On(p, "mlink", "commit")
  /\ LET c == work(p).chat
         u == work(p).user
         others == {x \in Chats : linked[x] = u /\ x # c}
     IN  /\ inserting' = inserting \ (IF visit[p].had THEN {} ELSE {c})
         /\ IF chan.status = "absent" \/ c \in barred
            THEN UNCHANGED <<linked, linkNo, talk, grantOf, grants>>
            ELSE /\ relinked([x \in Chats |-> IF x \in others THEN NoUser
                                              ELSE IF x = c /\ ~visit[p].had THEN u ELSE linked[x]])
                 /\ talk' = [x \in Chats |-> IF x \in others THEN NoAgent ELSE talk[x]]
                 /\ grantOf' = [grantOf EXCEPT ![u] = [id |-> grants + 1, agent |-> DefaultAgent]]
                 /\ grants' = grants + 1
  /\ Leave(p)
  /\ UNCHANGED <<bounds, chan, linkTokens, barred, inbox, asked>>

\* Activation reads the row, ...
activateRead(p) ==
  /\ On(p, "activate", "start")
  /\ IF chan.status = "absent" THEN Leave(p)
     ELSE ChPut(p, [visit[p] EXCEPT !.pc = IF work(p).creds THEN "creds" ELSE "register",
                                    !.creds = chan.creds])
  /\ UNCHANGED <<bounds, chan, links, talk, linkTokens, barred, inbox, asked>>

\* ... writes credentials where none are set, ...
write_credentials(p) ==
  /\ On(p, "activate", "creds")
  /\ LET writes == chan.status # "absent" /\ ~chan.creds
     IN  /\ chan' = [chan EXCEPT !.creds = @ \/ writes]
         /\ ChPut(p, [visit[p] EXCEPT !.pc = "register", !.creds = @ \/ writes])
  /\ UNCHANGED <<bounds, links, talk, linkTokens, barred, inbox, asked>>

\* ... registers the webhook with the provider (which needs the credentials),
\* and writes the whole configuration it holds.
activate_channel(p) ==
  /\ On(p, "activate", "register")
  /\ chan' = IF visit[p].creds /\ chan.status # "absent"
             THEN [status |-> "active", creds |-> visit[p].creds] ELSE chan
  /\ Leave(p)
  /\ UNCHANGED <<bounds, links, talk, linkTokens, barred, inbox, asked>>

deactivate_channel(p) ==
  /\ On(p, "deactivate", "start")
  /\ chan' = IF chan.status = "absent" THEN chan ELSE [chan EXCEPT !.status = "inactive"]
  /\ Leave(p)
  /\ UNCHANGED <<bounds, links, talk, linkTokens, barred, inbox, asked>>

\* The row's identities, sessions and receipts cascade; delegations do not.
delete_channel(p) ==
  /\ On(p, "delete", "start")
  /\ chan' = [status |-> "absent", creds |-> FALSE]
  /\ relinked([c \in Chats |-> NoUser])
  /\ talk' = [c \in Chats |-> NoAgent]
  /\ receipt' = [d \in Deliveries |-> "none"] /\ starts' = [d \in Deliveries |-> 0]
  /\ Leave(p)
  /\ UNCHANGED <<bounds, grantOf, grants, inserting, linkTokens, barred, asked>>

----------------------------------------------------------------------------
(* Around the code. *)

gatewayRevokes(c) ==
  /\ managed /\ c \notin barred /\ scene.revoke
  /\ barred' = barred \cup {c}
  /\ UNCHANGED <<bounds, chan, links, talk, linkTokens, inbox, asked, visit>>

tokenExpires(u) ==
  /\ u \in linkTokens /\ linkTokens' = linkTokens \ {u}
  /\ UNCHANGED <<bounds, chan, links, talk, barred, inbox, asked, visit>>

\* The process restarts: the visits under way, the pending approvals and the
\* link tokens are gone, the database stays; a managed channel is provisioned
\* again.
restart ==
  /\ crashes < MaxCrashes /\ crashes' = crashes + 1
  /\ visit' = [p \in Visits |-> IF visit[p].pc = "start" THEN visit[p] ELSE Left]
  /\ asked' = [p \in Visits |-> "none"]
  /\ linkTokens' = {} /\ inserting' = {}
  /\ chan' = IF managed /\ chan.status = "absent" THEN [status |-> "active", creds |-> TRUE] ELSE chan
  /\ UNCHANGED <<scene, dbErrs, linked, grantOf, grants, linkNo, talk, barred, inbox>>

Turn(p) ==
  \/ toolCall(p) \/ approvalWait(p) \/ toolCheck(p) \/ authorize_session(p) \/ toolDone(p) \/ invokeDone(p)
Linking(p) ==
  \/ consume_link_token(p) \/ linkIdentity(p) \/ linkAgent(p) \/ linkRevoke(p) \/ linkGrant(p)
Answering(p) == answerWho(p) \/ answerSession(p) \/ reply_approval(p) \/ consumeApproval(p)
Visiting(p) ==
  \/ webhook(p) \/ gateManaged(p) \/ admit(p) \/ finish_receipt(p)
  \/ newSession(p) \/ switchAgent(p) \/ Linking(p)
  \/ process_event(p) \/ invokeSession(p) \/ invokeLoad(p) \/ invokeAdmit(p)
  \/ Turn(p) \/ Answering(p)
Dashboard(p) ==
  \/ create_link_token(p) \/ unlink_identity(p)
  \/ authorizeLink(p) \/ linkInsert(p) \/ linkCommit(p)
  \/ activateRead(p) \/ write_credentials(p) \/ activate_channel(p)
  \/ deactivate_channel(p) \/ delete_channel(p)

ChanNext ==
  \/ \E p \in Visits : Visiting(p) \/ Dashboard(p)
  \/ \E c \in Chats : gatewayRevokes(c)
  \/ \E u \in ChUsers : tokenExpires(u)
  \/ restart

ChanSpec == ChanInit /\ [][ChanNext]_chanVars

----------------------------------------------------------------------------
(* Properties. *)

\* Rows, receipts and visits keep their types, and delegations their numbers.
ChanTypeOK ==
  /\ chan.status \in {"absent", "inactive", "active"} /\ chan.creds \in BOOLEAN
  /\ linked \in [Chats -> ChUsers \cup {NoUser}]
  /\ talk \in [Chats -> Agents \cup {NoAgent}]
  /\ \A u \in ChUsers : grantOf[u].id \in 0..grants /\ grantOf[u].agent \in Agents \cup {NoAgent}
  /\ receipt \in [Deliveries -> {"none", "processing", "done", "failed"}]

\* A delivery to a channel is processed at most once, whatever the provider redelivers, however
\* processing ended and whenever the process restarted (webhook, intake).  The receipts go with
\* the channel: a managed one that was deleted and provisioned again starts anew.
HandledOnce == \A d \in Deliveries : starts[d] <= 1

\* At most one message of a chat is being processed at a time (intake::admit,
\* channel_receipts_running_chat).
OneMessagePerChat ==
  \A p, q \in Visits :
    /\ p # q /\ work(p).op = "deliver" /\ work(q).op = "deliver"
    /\ work(p).chat = work(q).chat
    /\ work(p).ev.kind = "message" /\ work(q).ev.kind = "message"
    => visit[p].pc \in {"start", "gate", "admit", "left"} \/ visit[q].pc \in {"start", "gate", "admit", "left"}

\* A run's tool passes its last look at the tables only while the chat is still linked by the
\* very link the run was started under, and runs only once the gateway has consented after
\* that: unlinking and relinking never revives it (ChannelSession).
checkedLink ==
  \A p \in Visits :
       /\ visit[p].pc = "check" /\ visit'[p].pc \in {"askTool", "act"}
          => linked[work(p).chat] = visit[p].human /\ linkNo[work(p).chat] = visit[p].at
       /\ managed /\ visit[p].pc # "act" /\ visit'[p].pc = "act"
          => visit[p].pc = "askTool" /\ work(p).chat \notin barred

\* While a message holds its chat, waiting for an approval, an answer to it is turned away only as
\* a duplicate or because the channel is gone, and never as busy (intake::admit).
answersAreLetIn ==
  \A p, q \in Visits :
       /\ work(p).op = "deliver" /\ work(p).ev.kind = "callback" /\ work(p).chat = work(q).chat
       /\ visit[q].pc = "wait" /\ asked[q] = "open"
       /\ visit[p].pc = "admit" /\ visit'[p].pc = "left" /\ crashes' = crashes
       => receipt[work(p).d] # "none" \/ chan.status = "absent"

\* An approval is answered from the chat that was asked, by the user the run acts for and
\* through the link it runs under (reply_approval, PendingApprovals::consume).
answeredThere ==
  \A q \in Visits :
       asked[q] = "open" /\ asked'[q] = "yes"
       => \E p \in Visits : /\ visit[p].pc = "consume" /\ visit'[p].pc = "finish"
                            /\ work(p).chat = work(q).chat /\ visit[p].human = visit[q].human
                            /\ visit[p].pin = visit[q].pin

\* A chat that passes straight from one user to another loses its session, and the former
\* user's delegation, in the same step; a managed chat never passes straight
\* (try_complete_link, managed link).
cutAtHandover ==
  \A c \in Chats :
       linked[c] # NoUser /\ linked'[c] \notin {NoUser, linked[c]}
       => ~managed /\ talk'[c] = NoAgent /\ grantOf'[linked[c]] = NoGrant

\* A link bounds what is done through it: tools, answers to approvals and sessions stay with the
\* user and the link they began under, and what it allows gets through.
NothingOutlivesItsLink == [][checkedLink /\ answersAreLetIn /\ answeredThere /\ cutAtHandover]_chanVars

\* Once no link is being completed, a user without a linked chat holds no live channel
\* delegation (unlink_identity: identity and delegation go together).
UnlinkEndsTheDelegation ==
  (\A p \in Visits : visit[p].pc \notin {"linkAgent", "linkRevoke", "linkGrant", "commit"}) =>
    \A u \in ChUsers : grantOf[u] # NoGrant /\ chan.status # "absent"
                       => \E c \in Chats : linked[c] = u

\* Deliveries that are repeated and reordered are handled once each and a chat at a time.
DeliveriesAreSerial == ChanTypeOK /\ HandledOnce /\ OneMessagePerChat
============================================================================

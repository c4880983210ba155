----------------------------- MODULE MCAccounts -----------------------------
(***************************************************************************)
(* People and what acts for them, part by part: sign-in and roles, their   *)
(* connections to other services, chat channels, and triggers.  The parts  *)
(* share no state, so a behaviour is one of a single part while the others *)
(* rest in an initial state.                                               *)
(***************************************************************************)
EXTENDS SignIn, Connections, Channels, Triggers

CONSTANT Parts   \* the parts a run explores

VARIABLE part

-----------------------------------------------------------------------------
(* What three requests do around one account.                              *)

SiOps(x, y, z) == [c1 |-> x, c2 |-> y, c3 |-> z]
tenant(ops) == [fresh |-> FALSE, staffed |-> {}, ops |-> ops]
newTenant == [tenant(SiOps({"oidc"}, {"oidc"}, {"dropUser"})) EXCEPT !.fresh = TRUE]
MCSignInDuties ==
  { newTenant,
    tenant(SiOps({"generate"}, {"consume"}, {"consume", "dropUser", "oidc", "makeSa"})),
    [tenant(SiOps({"generate"}, {"consume"}, {"dropSa"})) EXCEPT !.staffed = Services],
    tenant(SiOps({"assign"}, {"revoke"}, {"revoke", "dropUser"})),
    tenant(SiOps({"oidc"}, {"dropUser"}, {"refresh", "logout", "oidc", "federate"})),
    tenant(SiOps({"dropRole"}, {"makeRole", "assign", "dropRole"}, {"federate"})),
    tenant(SiOps({"makeSa"}, {"credential", "transfer", "disable", "dropSa"},
                 {"token", "enable", "dropSa", "dropUser"})) }

-----------------------------------------------------------------------------
(* What three requests do to one connection.                               *)

job(op, user) == [op |-> op, user |-> user, cfg |-> "default", app |-> FALSE, manage |-> FALSE]
viaApp(user, manage) == [job("act", user) EXCEPT !.app = TRUE, !.manage = manage]
renamed == [job("oauth", "ann") EXCEPT !.cfg = "named"]
mix(a, b, c) == [k1 |-> a, k2 |-> b, k3 |-> c]
MCCnDuties ==
  { [x \in {"k1", "k2", "k3"} |-> mix(a, b, c)[x]] :
      a \in {job("act", "ann")}, b \in {job("act", "ann"), viaApp("bob", TRUE), renamed},
      c \in {job("disconnect", "ann"), job("submit", "ann"), job("delete", "ann")} }
  \cup { mix(job("delegate", "ann"), job("act", "bot"), job("unbind", "ann")),
         mix(job("delegate", "ann"), job("disconnect", "ann"), job("delete", "ann")),
         mix(renamed, job("rmcfg", "ann"), job("act", "ann")),
         mix(job("mkcfg", "ann"), renamed, job("act", "ann")),
         mix([job("bind", "ann") EXCEPT !.manage = TRUE], viaApp("ann", FALSE), viaApp("bob", FALSE)) }

-----------------------------------------------------------------------------
(* What four visits do in two chats of one channel.                        *)

event(kind, text) == [kind |-> kind, text |-> text, signed |-> TRUE, user |-> "ann", agent |-> "aide", run |-> "v1"]
deliver(d, chat, ev) == [op |-> "deliver", d |-> d, chat |-> chat, ev |-> ev, user |-> "ann", creds |-> FALSE]
says(d, chat, text) == deliver(d, chat, event("message", text))
presses(d, chat, text) == deliver(d, chat, event("callback", text))
linksTo(d, chat, u) == deliver(d, chat, [event("message", "link") EXCEPT !.user = u])
asks(op, u) == [says("d0", "c1", "hi") EXCEPT !.op = op, !.user = u]
mlink(u, c) == [asks("mlink", u) EXCEPT !.chat = c]
act(creds) == [asks("activate", "ann") EXCEPT !.creds = creds]
quartet(a, b, c, e) == [v1 |-> a, v2 |-> b, v3 |-> c, v4 |-> e]
idle == asks("none", "ann")

both == [c1 |-> "ann", c2 |-> "ann"]
one == [c1 |-> "ann", c2 |-> NoUser]
nobody == [c1 |-> NoUser, c2 |-> NoUser]
show(service, isManaged, status, who, duties) ==
  [provider |-> service, managed |-> isManaged, status |-> status, linked |-> who,
   duty |-> duties, revoke |-> FALSE]
native(who, duties) == show("telegram", FALSE, "active", who, duties)
relay(who, duties) == [show("whatsapp", TRUE, "active", who, duties) EXCEPT !.revoke = TRUE]

MCScenes ==
  { native(one, quartet(says("d1", "c1", "hi"), asks("unlink", "ann"), asks("token", "ann"), linksTo("d2", "c1", "ann"))),
    native(one, quartet(says("d1", "c1", "hi"), says("d1", "c1", "hi"), says("d2", "c1", "hi"), idle)),
    native(both, quartet(says("d1", "c1", "hi"), presses("d2", "c1", "approve"), presses("d3", "c2", "approve"), idle)),
    native(one, quartet(says("d1", "c1", "hi"), presses("d2", "c1", "deny"), presses("d3", "c1", "agent"), says("d4", "c1", "newsession"))),
    native(one, quartet(says("d1", "c1", "hi"), asks("token", "bob"), linksTo("d2", "c1", "bob"), says("d3", "c1", "agent"))),
    native(nobody, quartet(says("d1", "c1", "hi"), asks("token", "ann"), linksTo("d2", "c1", "ann"), asks("unlink", "ann"))),
    native(one, quartet(says("d1", "c1", "hi"), asks("deactivate", "ann"), act(FALSE), asks("delete", "ann"))),
    native(nobody, quartet(asks("token", "ann"), linksTo("d1", "c1", "ann"), asks("delete", "ann"), says("d2", "c2", "agent"))),
    native(one, quartet(says("d1", "c1", "hi"), presses("d2", "c1", "approve"), asks("delete", "ann"), idle)),
    native(nobody, quartet(asks("token", "ann"), linksTo("d1", "c1", "ann"), asks("token", "ann"), linksTo("d2", "c2", "ann"))),
    show("slack", FALSE, "inactive", one, quartet(act(TRUE), act(FALSE), deliver("d1", "c1", event("verify", "hi")),
      deliver("d2", "c1", [event("message", "hi") EXCEPT !.signed = FALSE]))),
    show("slack", FALSE, "active", one, quartet(says("d1", "c1", "hi"), deliver("d2", "c1", event("bot", "hi")), idle, idle)),
    relay(one, quartet(says("d1", "c1", "hi"), presses("d2", "c1", "approve"), mlink("ann", "c2"), mlink("bob", "c1"))),
    relay(nobody, quartet(mlink("ann", "c1"), mlink("bob", "c1"), says("d1", "c1", "hi"), says("d2", "c1", "newsession"))),
    relay(one, quartet(says("d1", "c1", "hi"), presses("d2", "c2", "approve"), asks("unlink", "ann"), mlink("ann", "c1"))),
    relay(one, quartet(says("d1", "c1", "hi"), asks("delete", "ann"), mlink("ann", "c1"), says("d1", "c1", "hi"))) }

-----------------------------------------------------------------------------
(* The requests, deployments and faults around an application's triggers.  *)

noAsk == [op |-> "none", id |-> "", as |-> "ann", name |-> "", on |-> "same", overlap |-> "skip"]
make(kind, name, as) == [noAsk EXCEPT !.op = kind, !.name = name, !.as = as]
change(op, t, on, overlap) == [noAsk EXCEPT !.op = op, !.id = t, !.on = on, !.overlap = overlap]
drop(t) == change("delete", t, "same", "same")
plotOf(a, b) ==
  [ask |-> [q1 |-> a, q2 |-> b], life |-> {}, by |-> {"ann"}, overlap |-> "skip", writes |-> {},
   read |-> "all", calls |-> FALSE, ticks |-> TRUE, admin |-> FALSE, faults |-> 0]
images == {<<"absent", "ann">>, <<"ann", "sa">>, <<"sa", "ann">>, <<"ann", "absent">>}

MCPlots ==
  { \* requests race each other, the schedule and a deployment
    [plotOf(change("update", "c1", "no", "same"), drop("c1")) EXCEPT !.life = {"deploy"}],
    [plotOf(change("update", "c1", "same", "queue"), change("update", "c1", "yes", "skip")) EXCEPT !.faults = 1],
    [plotOf(change("trigger", "c1", "same", "same"), drop("c1")) EXCEPT !.faults = 1],
    [plotOf(make("cron", "daily", "sa"), change("update", "c2", "same", "skip")) EXCEPT
       !.life = {"deploy"}, !.overlap = "queue"],
    [plotOf(make("cron", "daily", "ann"), noAsk) EXCEPT !.life = {"uninstall", "deploy"}],
    [plotOf(drop("c2"), noAsk) EXCEPT !.life = {"deploy"}],
    \* owners change or leave, statements fail, Core restarts
    [plotOf(make("cron", "more", "sa"), drop("c1")) EXCEPT !.admin = TRUE, !.faults = 1],
    [plotOf(make("hook", "", "ann"), drop("h1")) EXCEPT
       !.writes = images, !.read = "own", !.admin = TRUE, !.faults = 1],
    [plotOf(make("cron", "more", "ann"), noAsk) EXCEPT !.admin = TRUE, !.faults = 2],
    [plotOf(noAsk, noAsk) EXCEPT !.life = {"deploy"}, !.writes = {<<"absent", "sa">>}, !.ticks = FALSE,
       !.faults = 1],
    [plotOf(noAsk, noAsk) EXCEPT !.life = {"deploy"}, !.calls = TRUE, !.ticks = FALSE,
       !.admin = TRUE, !.faults = 2],
    \* a webhook changes hands, or is no longer declared
    [plotOf(noAsk, noAsk) EXCEPT !.life = {"deploy", "undeclare"}, !.by = {"ann", "root"}, !.calls = TRUE,
       !.ticks = FALSE, !.faults = 1] }

-----------------------------------------------------------------------------
accountVars == <<part, signVars, connVars, chanVars, trigVars>>

AccountInit ==
  /\ part \in Parts
  /\ part = "signin" \/ (part # "signin" /\ sduty = newTenant)
  /\ SignInInit
  /\ part = "links" \/ (part # "links" /\ cnDuty = mix(renamed, job("rmcfg", "ann"), job("act", "ann")))
  /\ ConnInit
  /\ part = "chat" \/ (part # "chat" /\ scene = native(one, quartet(says("d1", "c1", "hi"), says("d1", "c1", "hi"), says("d2", "c1", "hi"), idle)))
  /\ ChanInit
  /\ part = "triggers" \/ (part # "triggers" /\ plot = [plotOf(drop("c2"), noAsk) EXCEPT !.life = {"deploy"}])
  /\ TrigInit

AccountNext ==
  /\ UNCHANGED part
  /\ \/ part = "signin" /\ SignInNext /\ UNCHANGED <<connVars, chanVars, trigVars>>
     \/ part = "links" /\ ConnNext /\ UNCHANGED <<signVars, chanVars, trigVars>>
     \/ part = "chat" /\ ChanNext /\ UNCHANGED <<signVars, connVars, trigVars>>
     \/ part = "triggers" /\ TrigNext /\ UNCHANGED <<signVars, connVars, chanVars>>

AccountSpec == AccountInit /\ [][AccountNext]_accountVars

=============================================================================

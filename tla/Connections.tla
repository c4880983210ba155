----------------------------- MODULE Connections -----------------------------
(***************************************************************************)
(* Integration connections: the rows of integration_connections, their     *)
(* encrypted credentials, the named provider configs, the app bindings     *)
(* and the renewal of access tokens at the provider.                       *)
(*                                                                         *)
(* One integration, one app, one label.  A connection is named after the   *)
(* request that created it ("c0" is there at the start).  A refresh token  *)
(* is a number, a live access token a Boolean; the provider rotates, so a  *)
(* token it has exchanged is spent, and it refuses a token presented by    *)
(* another OAuth client than the one it was issued to.                     *)
(***************************************************************************)
EXTENDS Naturals, FiniteSets, FiniteSetsExt

CONSTANTS
  CnReqs,     \* the HTTP requests and worker calls of one behaviour
  CnDuties,   \* the assignments of work to them that are explored
  MaxToken,   \* bound on the refresh tokens the provider issues
  MaxFault    \* bound on the database statements that fail

Users == {"ann", "bob", "bot"}
Scopes == Users \cup {"app"}            \* "app" is APP_WIDE, the empty user_id
Conns == CnReqs \cup {"c0"}
CnOps == {"mkcfg", "rmcfg", "oauth", "submit", "delegate", "disconnect", "delete", "bind",
          "unbind", "act"}

\* A request's name is no other value's, and what it does is one of its operations.
ASSUME CnAssumption ==
  /\ CnReqs \cap {"free", "unbound", "c0"} = {}
  /\ CnDuties \subseteq [CnReqs -> [op : CnOps, user : Users, cfg : {"default", "named"},
                                   app : BOOLEAN, manage : BOOLEAN]]
  /\ MaxToken \in Nat /\ MaxFault \in Nat

NoConn == [st |-> "none", user |-> "ann", kind |-> "direct", cfg |-> "default"]
NoSecret == [st |-> "none", rt |-> 0, by |-> "default", live |-> FALSE, src |-> "c0"]
Tokens(n, client, alive) ==
  [NoSecret EXCEPT !.st = "tokens", !.rt = n, !.by = client, !.live = alive]
\* What a request remembers: its program counter, the connection it works on,
\* the config and the credential it last read, the connections still to visit,
\* the refresh token a renewal got.
CnIdle == [pc |-> "begin", c |-> "c0", cfg |-> "default", client |-> TRUE,
           cred |-> NoSecret, eff |-> "ann", todo |-> {}, next |-> 0, dirty |-> FALSE]
CnOver == [CnIdle EXCEPT !.pc = "over"]

VARIABLES
  cnDuty,    \* what each request does
  conn,      \* integration_connections
  cnAge,     \* their places in the order of created_at
  secret,    \* the credential stored under _conn.<id>
  binding,   \* app_integrations of the app: scope -> connection or "unbound"
  cfgRow,    \* whether the named config has its row ...
  cfgKeys,   \* ... and its secrets (tokenUrl among them)
  guard,     \* IN_FLIGHT: the request holding each connection's renewal guard
  spent,     \* refresh tokens the provider has consumed for the Core
  issued,    \* how many it has issued
  lost,      \* refresh tokens a worker was handed and has exchanged itself
  faults,    \* failed statements so far
  revoked,   \* connections whose owner's disconnect has been answered
  creq

connVars == <<cnDuty, conn, cnAge, secret, binding, cfgRow, cfgKeys, guard,
              spent, issued, lost, faults, revoked, creq>>
rows == <<conn, cnAge>>
provider == <<spent, issued>>
configs == <<cfgRow, cfgKeys>>

ConnInit ==
  /\ cnDuty \in CnDuties
  /\ conn = [c \in Conns |-> IF c = "c0" THEN [NoConn EXCEPT !.st = "active"] ELSE NoConn]
  /\ cnAge = [c \in Conns |-> 0]
  /\ secret = [c \in Conns |-> IF c = "c0" THEN Tokens(1, "default", TRUE) ELSE NoSecret]
  /\ binding = [s \in Scopes |-> IF s = "app" THEN "c0" ELSE "unbound"]
  /\ cfgRow = (\A r \in CnReqs : cnDuty[r].op # "mkcfg")
  /\ cfgKeys = cfgRow
  /\ guard = [c \in Conns |-> "free"]
  /\ spent = {} /\ issued = 1 /\ lost = {} /\ faults = 0 /\ revoked = {}
  /\ creq = [r \in CnReqs |-> CnIdle]

CnAt(r, op, pc) == cnDuty[r].op = op /\ creq[r].pc = pc
CnGo(r, pc) == creq' = [creq EXCEPT ![r].pc = pc]
CnSet(r, rec) == creq' = [creq EXCEPT ![r] = rec]
CnEnd(r) == CnSet(r, CnOver)
me(r) == cnDuty[r].user
Exists(c) == conn[c].st # "none"

----------------------------------------------------------------------------
(* SecretManager: one encrypted row per key. *)

secretSet(c, blob) == secret' = [secret EXCEPT ![c] = blob]
secretDelete(c) == secret' = [secret EXCEPT ![c] = NoSecret]
DbFails == faults < MaxFault /\ faults' = faults + 1

\* A credential is replaced or removed: every renewal of that connection that
\* is at the provider is overtaken (history only).
landed(c) == [q \in CnReqs |->
  IF creq[q].c = c /\ creq[q].pc \in {"exchange", "recheck"}
  THEN [creq[q] EXCEPT !.dirty = TRUE] ELSE creq[q]]

----------------------------------------------------------------------------
(* Connection rows. *)

create_connection(r, user, kind, cfg) ==
  /\ conn' = [conn EXCEPT ![r] = [st |-> "active", user |-> user, kind |-> kind, cfg |-> cfg]]
  /\ cnAge' = [cnAge EXCEPT ![r] = 1 + Max({cnAge[c] : c \in Conns})]

\* The oldest of the connections that satisfy a query, or "unbound".
oldest(S) == IF S = {} THEN {"unbound"} ELSE {c \in S : \A d \in S : cnAge[c] <= cnAge[d]}
Owned(user, kind) == {c \in Conns : Exists(c) /\ conn[c].user = user /\ conn[c].kind = kind}
Usable(user, kind) == {c \in Owned(user, kind) : conn[c].st = "active"}
first_direct_connection(user) == oldest(Usable(user, "direct"))

\* upsert_connection looks a direct connection of the label up ...
upsertSelect(r) ==
  /\ creq[r].pc = "upsert"
  /\ \E c \in oldest(Owned(me(r), "direct")) :
       CnSet(r, [creq[r] EXCEPT !.pc = IF c = "unbound" THEN "insert" ELSE "revive",
                                !.c = IF c = "unbound" THEN r ELSE c])
  /\ UNCHANGED <<cnDuty, lost, rows, secret, binding, configs, guard, provider, faults, revoked>>

\* ... and revives and repins it by id (the row may be gone by then, or the
\* statement may fail: its error is dropped) ...
upsertRevive(r) ==
  /\ creq[r].pc = "revive"
  /\ LET c == creq[r].c
     IN  \/ conn' = [conn EXCEPT ![c] = IF Exists(c) THEN [@ EXCEPT !.st = "active",
                                                             !.cfg = creq[r].cfg] ELSE @]
            /\ UNCHANGED faults
         \/ DbFails /\ UNCHANGED conn
  /\ CnGo(r, "store")
  /\ UNCHANGED <<cnDuty, lost, cnAge, secret, binding, configs, guard, provider, revoked>>

\* ... or creates it.
upsertInsert(r) ==
  /\ creq[r].pc = "insert"
  /\ create_connection(r, me(r), "direct", creq[r].cfg)
  /\ CnGo(r, "store")
  /\ UNCHANGED <<cnDuty, lost, secret, binding, configs, guard, provider, faults, revoked>>

\* flag_if_auth_failed: active becomes dead, by id alone.
flagDead(c) == conn' = [conn EXCEPT ![c].st = IF @ = "active" THEN "dead" ELSE @]

verify_owner(c, user) == Exists(c) /\ conn[c].user = user

----------------------------------------------------------------------------
(* Provider configs: "named" has its own scope, "default" is always there.  *)

resolve_config_scoped(cfg) == cfg = "default" \/ cfgKeys

\* create_config: the row, then its secrets.
createConfigRow(r) ==
  /\ CnAt(r, "mkcfg", "begin")
  /\ cfgRow' = TRUE
  /\ CnGo(r, "keys")
  /\ UNCHANGED <<cnDuty, lost, rows, secret, binding, cfgKeys, guard, provider, faults, revoked>>

save_config_secrets_at(r) ==
  /\ CnAt(r, "mkcfg", "keys")
  /\ \/ cfgKeys' = TRUE /\ UNCHANGED faults
     \/ DbFails /\ UNCHANGED cfgKeys
  /\ CnEnd(r)
  /\ UNCHANGED <<cnDuty, lost, rows, secret, binding, cfgRow, guard, provider, revoked>>

\* delete_config: the row exists and no connection is pinned to it ...
deleteConfigCheck(r) ==
  /\ CnAt(r, "rmcfg", "begin")
  /\ IF cfgRow /\ ~ \E c \in Conns : Exists(c) /\ conn[c].cfg = "named"
     THEN CnGo(r, "unkey") ELSE CnEnd(r)
  /\ UNCHANGED <<cnDuty, lost, rows, secret, binding, configs, guard, provider, faults, revoked>>

\* ... then its secrets go, then its row.
deleteConfigSecrets(r) ==
  /\ CnAt(r, "rmcfg", "unkey")
  /\ cfgKeys' = FALSE
  /\ CnGo(r, "unrow")
  /\ UNCHANGED <<cnDuty, lost, rows, secret, binding, cfgRow, guard, provider, faults, revoked>>

deleteConfigRow(r) ==
  /\ CnAt(r, "rmcfg", "unrow")
  /\ cfgRow' = FALSE
  /\ CnEnd(r)
  /\ UNCHANGED <<cnDuty, lost, rows, secret, binding, cfgKeys, guard, provider, faults, revoked>>

----------------------------------------------------------------------------
(* Connecting. *)

\* start: a named config must exist; the flow is parked in PENDING.
auth_start(r) ==
  /\ CnAt(r, "oauth", "begin")
  /\ IF cnDuty[r].cfg = "named" => cfgRow
     THEN CnSet(r, [creq[r] EXCEPT !.pc = "pending", !.cfg = cnDuty[r].cfg])
     ELSE CnEnd(r)
  /\ UNCHANGED <<cnDuty, lost, rows, secret, binding, configs, guard, provider, faults, revoked>>

\* The provider's redirect: the parked flow is taken once, unless TTL_SECS are
\* over, and the worker trades the code for credentials (or fails to).
auth_callback(r) ==
  /\ CnAt(r, "oauth", "pending")
  /\ \/ CnEnd(r) /\ UNCHANGED issued
     \/ /\ issued < MaxToken
        /\ issued' = issued + 1
        /\ CnSet(r, [creq[r] EXCEPT !.pc = "upsert",
                                    !.cred = Tokens(issued + 1, creq[r].cfg, FALSE)])
  /\ UNCHANGED <<cnDuty, lost, rows, secret, binding, configs, guard, spent, faults, revoked>>

\* submit_credentials: the same with credentials the user brings.
submit_credentials(r) ==
  /\ CnAt(r, "submit", "begin")
  /\ issued < MaxToken
  /\ issued' = issued + 1
  /\ CnSet(r, [creq[r] EXCEPT !.pc = "upsert", !.cred = Tokens(issued + 1, "default", FALSE)])
  /\ UNCHANGED <<cnDuty, lost, rows, secret, binding, configs, guard, spent, faults, revoked>>

\* The credential is written under the id the upsert answered; an OAuth flow
\* goes on to its first sync, pinned to that connection.
storeCredential(r) ==
  /\ creq[r].pc = "store"
  /\ LET c == creq[r].c
     IN  \/ /\ secretSet(c, creq[r].cred)
            /\ creq' = [landed(c) EXCEPT ![r] =
                          IF cnDuty[r].op = "oauth"
                          THEN [CnIdle EXCEPT !.pc = "load", !.c = c] ELSE CnOver]
            /\ UNCHANGED faults
         \/ DbFails /\ CnEnd(r) /\ UNCHANGED secret
  /\ UNCHANGED <<cnDuty, lost, rows, binding, configs, guard, provider, revoked>>

\* delegate: the agent's own row, then a credential that names the source.
delegateRow(r) ==
  /\ CnAt(r, "delegate", "begin")
  /\ \E src \in first_direct_connection(me(r)) :
       IF src = "unbound"
       THEN CnEnd(r) /\ UNCHANGED rows
       ELSE /\ create_connection(r, "bot", "delegation", "default")
            /\ CnSet(r, [creq[r] EXCEPT !.pc = "point", !.c = r,
                           !.cred = [NoSecret EXCEPT !.st = "delegate", !.src = src]])
  /\ UNCHANGED <<cnDuty, lost, secret, binding, configs, guard, provider, faults, revoked>>

delegatePoint(r) ==
  /\ CnAt(r, "delegate", "point")
  /\ secretSet(r, creq[r].cred)
  /\ CnEnd(r)
  /\ UNCHANGED <<cnDuty, lost, rows, binding, configs, guard, provider, faults, revoked>>

----------------------------------------------------------------------------
(* Disconnecting: the secrets of the rows seen, one by one, then the rows.  *)
(* The error of a secret that cannot be deleted is dropped.                 *)

disconnectSelect(r) ==
  /\ CnAt(r, "disconnect", "begin")
  /\ CnSet(r, [creq[r] EXCEPT !.pc = "wipe",
                 !.todo = Owned(me(r), "direct") \cup Owned(me(r), "delegation")])
  /\ UNCHANGED <<cnDuty, lost, rows, secret, binding, configs, guard, provider, faults, revoked>>

disconnectSecret(r) ==
  /\ CnAt(r, "disconnect", "wipe")
  /\ \E c \in creq[r].todo :
       \/ /\ secretDelete(c)
          /\ creq' = [landed(c) EXCEPT ![r].todo = @ \ {c}]
          /\ revoked' = revoked \cup {c} /\ UNCHANGED faults
       \/ /\ DbFails
          /\ CnSet(r, [creq[r] EXCEPT !.todo = @ \ {c}])
          /\ UNCHANGED <<secret, revoked>>
  /\ UNCHANGED <<cnDuty, lost, rows, binding, configs, guard, provider>>

dropRows(S) ==
  /\ conn' = [c \in Conns |-> IF c \in S THEN NoConn ELSE conn[c]]
  /\ cnAge' = [c \in Conns |-> IF c \in S THEN 0 ELSE cnAge[c]]

disconnectRows(r) ==
  /\ CnAt(r, "disconnect", "wipe") /\ creq[r].todo = {}
  /\ dropRows(Owned(me(r), "direct") \cup Owned(me(r), "delegation"))
  /\ CnEnd(r)
  /\ UNCHANGED <<cnDuty, lost, secret, binding, configs, guard, provider, faults, revoked>>

\* delete_connection: the same for one connection of the caller's.
delete_connection(r) ==
  /\ CnAt(r, "delete", "begin")
  /\ IF verify_owner("c0", me(r)) THEN CnGo(r, "unsecret") ELSE CnEnd(r)
  /\ UNCHANGED <<cnDuty, lost, rows, secret, binding, configs, guard, provider, faults, revoked>>

deleteSecret(r) ==
  /\ CnAt(r, "delete", "unsecret")
  /\ \/ /\ secretDelete("c0")
        /\ creq' = [landed("c0") EXCEPT ![r].pc = "drop"]
        /\ revoked' = revoked \cup {"c0"} /\ UNCHANGED faults
     \/ DbFails /\ CnGo(r, "drop") /\ UNCHANGED <<secret, revoked>>
  /\ UNCHANGED <<cnDuty, lost, rows, binding, configs, guard, provider>>

deleteRow(r) ==
  /\ CnAt(r, "delete", "drop")
  /\ dropRows({"c0"})
  /\ CnEnd(r)
  /\ UNCHANGED <<cnDuty, lost, secret, binding, configs, guard, provider, faults, revoked>>

----------------------------------------------------------------------------
(* App bindings. *)

\* bind_app: the connection must be the caller's; an app-wide binding needs the
\* manage permission.  unbind_app drops the binding of the scope.
bind_app(r) ==
  /\ CnAt(r, "bind", "begin")
  /\ \E s \in {"app", me(r)} :
       binding' = IF verify_owner("c0", me(r)) /\ (s = "app" => cnDuty[r].manage)
                  THEN [binding EXCEPT ![s] = "c0"] ELSE binding
  /\ CnEnd(r)
  /\ UNCHANGED <<cnDuty, lost, rows, secret, configs, guard, provider, faults, revoked>>

unbind_app(r) ==
  /\ CnAt(r, "unbind", "begin")
  /\ \E s \in {"app", me(r)} : binding' = [binding EXCEPT ![s] = "unbound"]
  /\ CnEnd(r)
  /\ UNCHANGED <<cnDuty, lost, rows, secret, configs, guard, provider, faults, revoked>>

binding_allows(user) == binding[user] # "unbound" \/ binding["app"] # "unbound"

----------------------------------------------------------------------------
(* Using a connection. *)

Read(r, rec) ==
  /\ CnSet(r, rec)
  /\ UNCHANGED <<cnDuty, lost, rows, secret, binding, configs, guard, provider, faults, revoked>>

\* A read whose error is taken for an absent value.
Misread(r, rec) ==
  /\ CnSet(r, rec) /\ DbFails
  /\ UNCHANGED <<cnDuty, lost, rows, secret, binding, configs, guard, provider, revoked>>

\* execute_action (and call_integration) through an app asks for a binding first.
execute_action(r) ==
  /\ CnAt(r, "act", "begin")
  /\ Read(r, IF cnDuty[r].app /\ ~binding_allows(me(r)) THEN CnOver
             ELSE [creq[r] EXCEPT !.pc = IF cnDuty[r].app THEN "bound" ELSE "select"])

To(r, c) == [CnIdle EXCEPT !.pc = "load", !.c = c]

\* resolve_credentials: the user's own binding, then the app-wide one ...
resolveBinding(r) ==
  /\ creq[r].pc = "bound"
  /\ LET bound == {s \in {me(r), "app"} : binding[s] # "unbound"}
     IN  Read(r, CASE me(r) \in bound -> To(r, binding[me(r)])
                   [] "app" \in bound /\ me(r) \notin bound -> To(r, binding["app"])
                   [] bound = {} -> [creq[r] EXCEPT !.pc = "select"])

\* ... then the user's two first active connections, delegations first: the
\* second of them is direct where there is no other delegation.
Eligible(r) ==
  IF Cardinality(Usable(me(r), "delegation")) < 2 THEN first_direct_connection(me(r)) ELSE {"unbound"}
resolveFallback(r) ==
  /\ creq[r].pc = "select"
  /\ \E c \in oldest(Usable(me(r), "delegation")), direct \in Eligible(r) :
       Read(r, IF c # "unbound"
               THEN [creq[r] EXCEPT !.pc = "delegated", !.c = c, !.todo = {direct}]
               ELSE IF direct # "unbound" THEN To(r, direct)
               ELSE [creq[r] EXCEPT !.pc = "call", !.eff = me(r)])

\* A delegation names its source; without one the direct connection serves.
resolveDelegation(r) ==
  /\ creq[r].pc = "delegated"
  /\ \E direct \in creq[r].todo :
       LET blob == secret[creq[r].c]
       IN  Read(r, IF blob.st = "delegate" THEN To(r, blob.src)
                   ELSE IF direct # "unbound" THEN To(r, direct)
                   ELSE [CnIdle EXCEPT !.pc = "call", !.eff = me(r)])

\* resolve_by_connection_id: the row's owner and pinned config, or the caller and
\* the default one where no row is found; then the config itself, or none ...
loaded(r, found, readable) ==
  LET c == creq[r].c
      cfg == IF found THEN conn[c].cfg ELSE "default"
  IN  [creq[r] EXCEPT !.pc = "fetch", !.cfg = cfg,
                      !.client = readable /\ resolve_config_scoped(cfg),
                      !.eff = IF found THEN conn[c].user ELSE me(r)]
resolveRow(r) ==
  /\ creq[r].pc = "load"
  /\ LET here == Exists(creq[r].c)
     IN  \/ Read(r, loaded(r, here, TRUE))
         \/ Misread(r, loaded(r, FALSE, TRUE)) \/ Misread(r, loaded(r, here, FALSE))

\* The Core renews only where a token endpoint is configured and the credential
\* carries a refresh token.
manages(r, blob) == creq[r].client /\ blob.st = "tokens" /\ blob.rt # 0
is_live(blob) == blob.live
for_worker(r, blob) == [blob EXCEPT !.rt = IF manages(r, blob) THEN 0 ELSE @]

\* ... then the credential: as it is when unmanaged or live, renewed otherwise.
resolveSecret(r) ==
  /\ creq[r].pc = "fetch"
  /\ LET blob == secret[creq[r].c]
         without == [CnIdle EXCEPT !.pc = "call", !.eff = me(r)]
     IN  \/ Misread(r, without)
         \/ Read(r, IF blob.st = "none" THEN without
                    ELSE IF ~manages(r, blob) \/ is_live(blob)
                    THEN [creq[r] EXCEPT !.pc = "call", !.cred = for_worker(r, blob)]
                    ELSE [creq[r] EXCEPT !.pc = "guard", !.cred = blob])

----------------------------------------------------------------------------
(* oauth::credentials_for_worker. *)

guard_for(r) == guard[creq[r].c] = "free" /\ guard' = [guard EXCEPT ![creq[r].c] = r]
Unguard(r) == guard' = [guard EXCEPT ![creq[r].c] = "free"]
\* The call failed with a RenewError: the guard is dropped with the future.
RenewFails(r) == Unguard(r) /\ CnEnd(r)

takeGuard(r) ==
  /\ creq[r].pc = "guard"
  /\ guard_for(r)
  /\ CnGo(r, "fence")
  /\ UNCHANGED <<cnDuty, lost, rows, secret, binding, configs, provider, faults, revoked>>

\* Mutant: going on with the credential read before the guard was held.
rereadSnapshot(r) == creq[r].cred
\* What the renewal goes on with: the credential as it is stored now.
reread(r) == secret[creq[r].c]

\* The read-back fence: gone or unreadable fails the call, live is served.
readBack(r) ==
  /\ creq[r].pc = "fence"
  /\ LET blob == reread(r)
     IN  \/ DbFails /\ RenewFails(r)
         \/ /\ UNCHANGED faults
            /\ IF blob.rt = 0 THEN RenewFails(r)
               ELSE IF is_live(blob)
               THEN /\ Unguard(r)
                    /\ CnSet(r, [creq[r] EXCEPT !.pc = "call", !.cred = for_worker(r, blob)])
               ELSE /\ CnSet(r, [creq[r] EXCEPT !.pc = "exchange", !.cred = blob])
                    /\ UNCHANGED guard
  /\ UNCHANGED <<cnDuty, lost, rows, secret, binding, configs, provider, revoked>>

refuses(r) == creq[r].cred.rt \in spent \cup lost \/ creq[r].cred.by # creq[r].cfg

\* merge: the new access token, and the new refresh token when one came.
merge(blob, rt) == [blob EXCEPT !.live = TRUE, !.rt = IF rt = 0 THEN @ ELSE rt]

\* exchange: refused, unanswered (after the provider acted or before), or granted
\* by a provider that rotates or one that does not.
exchange(r) ==
  /\ creq[r].pc = "exchange"
  /\ \/ refuses(r) /\ CnGo(r, "reject") /\ UNCHANGED <<guard, provider, faults>>
     \/ RenewFails(r) /\ UNCHANGED <<provider, faults>>
     \/ ~refuses(r) /\ DbFails /\ RenewFails(r)
        /\ spent' = spent \cup {creq[r].cred.rt} /\ UNCHANGED issued
     \/ /\ ~refuses(r) /\ issued < MaxToken
        /\ issued' = issued + 1
        /\ spent' = spent \cup {creq[r].cred.rt}
        /\ CnSet(r, [creq[r] EXCEPT !.pc = "recheck", !.next = issued + 1])
        /\ UNCHANGED <<guard, faults>>
     \/ ~refuses(r) /\ CnGo(r, "recheck") /\ UNCHANGED <<guard, provider, faults>>
  /\ UNCHANGED <<cnDuty, lost, rows, secret, binding, configs, revoked>>

\* A rejected grant flags the connection.
rejected(r) ==
  /\ creq[r].pc = "reject"
  /\ flagDead(creq[r].c)
  /\ RenewFails(r)
  /\ UNCHANGED <<cnDuty, lost, cnAge, secret, binding, configs, provider, faults, revoked>>

\* Neither reconnect nor disconnect takes the guard: whoever changed the
\* credential meanwhile wins.
unchanged(r) == secret[creq[r].c].rt = creq[r].cred.rt

recheck(r) ==
  /\ creq[r].pc = "recheck"
  /\ \/ DbFails /\ RenewFails(r)
     \/ /\ UNCHANGED faults
        /\ IF unchanged(r) THEN CnGo(r, "persist") /\ UNCHANGED guard ELSE RenewFails(r)
  /\ UNCHANGED <<cnDuty, lost, rows, secret, binding, configs, provider, revoked>>

persist(r) ==
  /\ creq[r].pc = "persist"
  /\ LET merged == merge(creq[r].cred, creq[r].next)
     IN  \/ DbFails /\ RenewFails(r) /\ UNCHANGED secret
         \/ /\ secretSet(creq[r].c, merged)
            /\ Unguard(r)
            /\ CnSet(r, [CnIdle EXCEPT !.pc = "call", !.c = creq[r].c, !.eff = creq[r].eff,
                                       !.cred = for_worker(r, merged)])
            /\ UNCHANGED faults
  /\ UNCHANGED <<cnDuty, lost, rows, binding, configs, provider, revoked>>

----------------------------------------------------------------------------
(* The worker's call, and what its answer does. *)

\* Sending as the owner of another's connection needs the manage permission
\* (the HTTP route); the worker answers, fails, or reports a refused credential.
\* One that was handed a refresh token may exchange it, and the next one is lost.
call(r) ==
  /\ creq[r].pc = "call"
  /\ LET denied == cnDuty[r].op = "act" /\ creq[r].eff # me(r) /\ ~cnDuty[r].manage
         got == IF denied THEN {} ELSE {creq[r].cred.rt} \ {0}
     IN  /\ \E used \in {{}, got} : lost' = lost \cup used
         /\ \/ CnEnd(r)
            \/ ~denied /\ creq[r].cred.st # "none" /\ CnGo(r, "failed")
  /\ UNCHANGED <<cnDuty, rows, secret, binding, configs, guard, provider, faults, revoked>>

flag_if_auth_failed(r) ==
  /\ creq[r].pc = "failed"
  /\ flagDead(creq[r].c)
  /\ CnEnd(r)
  /\ UNCHANGED <<cnDuty, lost, cnAge, secret, binding, configs, guard, provider, faults, revoked>>

\* Time passes: an access token runs into the renewal margin.
expire ==
  /\ \E c \in Conns : secret[c].live /\ secret' = [secret EXCEPT ![c].live = FALSE]
  /\ UNCHANGED <<cnDuty, lost, rows, binding, configs, guard, provider, faults, revoked, creq>>

ConnStep(r) ==
  \/ upsertSelect(r) \/ upsertRevive(r) \/ upsertInsert(r) \/ storeCredential(r)
  \/ createConfigRow(r) \/ save_config_secrets_at(r) \/ deleteConfigCheck(r)
  \/ deleteConfigSecrets(r) \/ deleteConfigRow(r)
  \/ auth_start(r) \/ auth_callback(r) \/ submit_credentials(r) \/ delegateRow(r) \/ delegatePoint(r)
  \/ disconnectSelect(r) \/ disconnectSecret(r) \/ disconnectRows(r)
  \/ delete_connection(r) \/ deleteSecret(r) \/ deleteRow(r) \/ bind_app(r) \/ unbind_app(r)
  \/ execute_action(r) \/ resolveBinding(r) \/ resolveFallback(r) \/ resolveDelegation(r)
  \/ resolveRow(r) \/ resolveSecret(r) \/ takeGuard(r) \/ readBack(r) \/ exchange(r)
  \/ rejected(r) \/ recheck(r) \/ persist(r) \/ call(r) \/ flag_if_auth_failed(r)

ConnNext == expire \/ \E r \in CnReqs : ConnStep(r)
ConnSpec == ConnInit /\ [][ConnNext]_connVars

----------------------------------------------------------------------------
(* Properties. *)

\* Tables and requests stay within their types, and a guard is held exactly
\* while its holder renews that connection.
ConnTypeOK ==
  /\ \A c \in Conns : conn[c].st \in {"none", "active", "dead"}
                      /\ secret[c].rt \in 0..issued
  /\ \A c \in Conns : guard[c] # "free" =>
       creq[guard[c]].c = c
       /\ creq[guard[c]].pc \in {"fence", "exchange", "recheck", "persist", "reject"}

\* "presenting a consumed refresh token can cost the whole grant": with no
\* statement or answer lost, no renewal goes to the provider with a token that an
\* earlier renewal has consumed, however many callers renew the same connection.
\* (A token handed to a worker, where no token endpoint is configured, is the
\* worker's to consume.)
NoSpentTokenIsPresented ==
  faults = 0 => \A r \in CnReqs : creq[r].pc = "exchange" => creq[r].cred.rt \notin spent

\* A connection does not keep a token that was rotated: unless a statement or an
\* answer failed, a stored refresh token is not one a renewal has consumed, except
\* while that renewal is on its way to write the next one (or to find that another
\* credential landed, which is then the stored one).
StoredTokenIsUnspent ==
  faults = 0 => \A c \in Conns : secret[c].rt \in spent =>
    \E r \in CnReqs : guard[c] = r /\ creq[r].pc \in {"recheck", "persist"}

\* A reconnect or a disconnect that lands while a renewal is at the provider, up to
\* its second look at the credential, wins: that renewal never reaches its write.
LandedAtProviderWins ==
  \A r \in CnReqs : creq[r].pc = "persist" => ~creq[r].dirty

\* "A disconnect landing mid-renewal must not be undone": once the owner's
\* disconnect removed a credential, only a new connect flow stores one there.
\* Between the second look and the write it is undone.
RevokedStaysRevoked ==
  [][\A c \in revoked : secret[c].st = "none" /\ secret'[c].st # "none" =>
       \E r \in CnReqs : creq[r].pc = "store" /\ creq'[r].pc # "store"]_connVars

\* "writing now would revert a fresh credential": a renewal writes over no other
\* refresh token than the one it presented.  Between its second look and its
\* write it does, and the token of the reconnect is lost.
ReconnectStands ==
  [][\A r \in CnReqs : creq[r].pc = "persist" /\ secret'[creq[r].c] # secret[creq[r].c]
       /\ creq'[r].pc = "call" => secret[creq[r].c].rt \in {0, creq[r].cred.rt}]_connVars

\* "The connection's config_id pins which OAuth client refreshes its token": a
\* reconnect through another config pins first and stores afterwards, and a renewal
\* in between presents the old token as the new client.
RenewedByItsClient ==
  faults = 0 => \A r \in CnReqs : creq[r].pc = "exchange" => creq[r].cred.by = creq[r].cfg

\* Rotating refresh tokens survive concurrent renewals, reconnects and disconnects: none is
\* presented after a renewal consumed it, none stays stored that one consumed, and what lands
\* before a renewal's second look at the credential is not overwritten by it.
TokensAreUnspent ==
  ConnTypeOK /\ NoSpentTokenIsPresented /\ StoredTokenIsUnspent /\ LandedAtProviderWins
============================================================================

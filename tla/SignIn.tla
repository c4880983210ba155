------------------------------- MODULE SignIn -------------------------------
(***************************************************************************)
(* Who is a principal, who administers the tenant and who holds a session: *)
(* federated sign-in (extensions/oidc), magic links (extensions/magic_     *)
(* link), token delivery and refresh (auth/token_delivery.rs, routes/      *)
(* auth.rs), the role endpoints (governance/authority/routes.rs) and       *)
(* service accounts (extensions/service_accounts).                         *)
(*                                                                         *)
(* A request is a process: each database statement, or transaction with a  *)
(* row lock, is one step, and requests interleave between statements.      *)
(***************************************************************************)
EXTENDS Integers, FiniteSets

CONSTANTS Humans,       \* people, named by e-mail
          Services,     \* service-account slugs
          Requests,     \* concurrent requests
          MaxRow,       \* bound on insertions and deletions of one users row
          SignInDuties  \* mixes [ops: request -> operations, fresh: BOOLEAN,
                        \*        staffed: service accounts there from the start]

ASSUME SignInAssumption == /\ MaxRow \in Nat \ {0}
                           /\ Humans # {}
                           /\ Humans \cap Services = {}
                           /\ "nobody" \notin Requests \cup Humans \cup Services

VARIABLES sduty,    \* the mix in force
          row,      \* users: a principal's row, odd while it exists (its id)
          oidcSub,  \* users.oidc_sub: humans bound to the provider
          owner,    \* users.owner_of_record of a service account
          disabled, \* users.disabled_at
          cred,     \* sa_credentials
          roleRow,  \* rbac_roles
          held,     \* rbac_assignments
          link,     \* magic_link_tokens: the one invitation
          session,  \* sessions, named by the request that opened it
          nonce,    \* auth_nonces, named likewise
          reader,   \* who holds the FOR UPDATE locks on the admin rows
          claimer,  \* who holds the row lock on the invitation
          req       \* the requests in flight

signVars == <<sduty, row, oidcSub, owner, disabled, cred, roleRow, held, link,
              session, nonce, reader, claimer, req>>

Principals == Humans \cup Services
SRoles == {"admin", "base", "lead"}
\* The built-in roles and one an administrator made.
RolePerms(role) == CASE role = "admin" -> {"*"}
                     [] role = "lead"  -> {"auth.invite", "sa.manage"}
                     [] OTHER          -> {}

Nobody == "nobody"
Present(p) == row[p] % 2 = 1
(* users.kind = 'service': a row with an owner of record.  An invitation to  *)
(* the address of a service account that does not exist makes a plain row.   *)
IsService(p) == p \in Services /\ owner[p] # Nobody
NoLink == [st |-> "none", mail |-> Nobody, role |-> "none", by |-> Nobody]

(* resolve_permissions / require_admin / require_perm: assignments to roles *)
(* that still exist.                                                        *)
May(p, perm) == \E role \in roleRow :
                    /\ <<p, role>> \in held
                    /\ RolePerms(role) \cap {"*", perm} # {}
require_admin(p) == May(p, "*")

(* authenticate_parts -> principal_enabled: the row exists, is not disabled.*)
principal_enabled(p) == Present(p) /\ p \notin disabled

is_first_boot == ~\E p \in Principals, role \in SRoles : ~IsService(p) /\ <<p, role>> \in held
HasAdmin == \E p \in Principals : <<p, "admin">> \in held

Idle == [op |-> "idle", pc |-> "idle", who |-> Nobody, by |-> Nobody, id |-> 0,
         arg |-> "none", saw |-> FALSE, early |-> FALSE]

-----------------------------------------------------------------------------
(* Starting a request.                                                      *)

AdminOps == {"assign", "revoke", "dropUser", "dropRole", "makeRole"}
SaOps == {"makeSa", "transfer", "disable", "enable", "dropSa", "credential"}

Begin(r, op, who, by, arg) ==
    /\ req' = [req EXCEPT ![r] = [Idle EXCEPT
                 !.op = op, !.pc = "start", !.who = who, !.by = by, !.arg = arg,
                 !.early = op \in {"oidc", "federate"} /\ HasAdmin]]
    /\ UNCHANGED <<sduty, row, oidcSub, owner, disabled, cred, roleRow, held, link,
                   session, nonce, reader, claimer>>

Start(r) ==
    /\ req[r].pc = "idle"
    /\ \E op \in sduty.ops[r] :
       \/ /\ op \in {"oidc", "federate"}
          /\ \E h \in Humans, c \in {"none", "lead"} : Begin(r, op, h, Nobody, c)
       \/ /\ op = "generate"
          /\ \E p \in Principals, i \in Humans, a \in {"none", "lead"} :
                principal_enabled(i) /\ Begin(r, op, p, i, a)
       \/ op = "consume" /\ link.st # "none" /\ Begin(r, op, link.mail, Nobody, "none")
       \/ /\ op \in {"refresh", "logout"}
          /\ \E k \in Requests : session[k] # "none" /\ Begin(r, op, req[k].who, k, "none")
       \/ /\ op \in AdminOps
          /\ \E p \in Principals, h \in Humans, a \in {"admin", "lead"} :
                /\ principal_enabled(h)
                /\ op \in {"dropUser", "dropRole", "makeRole"} => a = "lead"
                /\ op \in {"dropRole", "makeRole"} => p = h
                /\ Begin(r, op, p, h, a)
       \/ /\ op \in SaOps
          /\ \E s \in Services, p \in Principals :
                principal_enabled(p) /\ Begin(r, op, s, p, "none")
       \/ /\ op = "token"
          /\ \E s \in Services : Begin(r, op, s, Nobody, "none")

Go(r, pc) == req' = [req EXCEPT ![r].pc = pc]
(* A request that is over keeps only what its session still names.           *)
Over(r, pc) ==
    req' = [req EXCEPT ![r] = IF pc = "failed" /\ session[r] = "none"
                                THEN [Idle EXCEPT !.pc = "failed"]
                                ELSE [req[r] EXCEPT !.pc = pc, !.by = Nobody, !.arg = "none",
                                               !.saw = FALSE, !.early = FALSE]]
Done(r) == Over(r, "done")
Fail(r) == Over(r, "failed")
SameUsers == UNCHANGED <<row, oidcSub, owner, disabled, cred>>
SameRoles == UNCHANGED <<roleRow, held>>
SameTokens == UNCHANGED <<session, nonce, link>>
SameLocks == UNCHANGED <<reader, claimer>>

-----------------------------------------------------------------------------
(* Federated sign-in: authorize, the provider's callback,                   *)
(* find_or_create_user statement by statement, the session, the delivery.   *)

authorize(r) ==
    /\ req[r].op = "oidc" /\ req[r].pc = "start"
    /\ Go(r, "callback")
    /\ SameUsers /\ SameRoles /\ SameTokens /\ SameLocks

(* find_or_create_user's lookup by provider and subject.                     *)
findBySub(r) ==
    \/ /\ req[r].who \in oidcSub
       /\ req' = [req EXCEPT ![r].pc = "freshen", ![r].id = row[req[r].who]]
    \/ req[r].who \notin oidcSub /\ Go(r, "byMail")

(* The UPDATE of the e-mail of the row just read, which by now may be gone;  *)
(* an address another row has taken ends the sign-in.                        *)
freshen(r) ==
    /\ req[r].pc = "freshen"
    /\ Fail(r) \/ Go(r, "session")
    /\ SameUsers /\ SameRoles /\ SameTokens /\ SameLocks

(* DELETE .. RETURNING the state; an expired state, a provider disabled or   *)
(* deleted meanwhile or a failed exchange of the code ends the sign-in.      *)
callback(r) ==
    /\ req[r].pc = "callback"
    /\ Fail(r) \/ findBySub(r)
    /\ SameUsers /\ SameRoles /\ SameTokens /\ SameLocks

(* token_exchange: the same lookup for a token a server presents, and in the *)
(* end an access token without a session.                                    *)
token_exchange(r) ==
    /\ req[r].op = "federate"
    /\ \/ req[r].pc = "start" /\ findBySub(r)
       \/ req[r].pc = "session" /\ Done(r)
    /\ SameUsers /\ SameRoles /\ SameTokens /\ SameLocks

findByMail(r) ==
    /\ req[r].pc = "byMail"
    /\ \/ /\ Present(req[r].who) /\ req[r].who \notin oidcSub
          /\ req' = [req EXCEPT ![r].pc = "linkUp", ![r].id = row[req[r].who]]
       \/ /\ ~(Present(req[r].who) /\ req[r].who \notin oidcSub)
          /\ Go(r, "insert")
    /\ SameUsers /\ SameRoles /\ SameTokens /\ SameLocks

(* UPDATE .. WHERE id: no row, no link, and still the id is returned.        *)
linkUp(r) ==
    /\ req[r].pc = "linkUp"
    /\ oidcSub' = IF row[req[r].who] = req[r].id THEN oidcSub \cup {req[r].who} ELSE oidcSub
    /\ Go(r, "session")
    /\ UNCHANGED <<row, owner, disabled, cred>> /\ SameRoles /\ SameTokens /\ SameLocks

(* INSERT users, unless the provider does not register: the unique e-mail    *)
(* refuses a second row.                                                     *)
register(r) ==
    /\ req[r].pc = "insert"
    /\ \/ Fail(r) /\ UNCHANGED <<row, oidcSub>>
       \/ /\ ~Present(req[r].who) /\ row[req[r].who] < MaxRow
          /\ row' = [row EXCEPT ![req[r].who] = @ + 1]
          /\ oidcSub' = oidcSub \cup {req[r].who}
          /\ req' = [req EXCEPT ![r].pc = "boot", ![r].id = row[req[r].who] + 1]
    /\ UNCHANGED <<owner, disabled, cred>> /\ SameRoles /\ SameTokens /\ SameLocks

firstBoot(r) ==
    /\ req[r].pc = "boot"
    /\ req' = [req EXCEPT ![r].pc = "role", ![r].saw = is_first_boot,
                          ![r].arg = IF @ \in roleRow THEN @ ELSE "none"]
    /\ SameUsers /\ SameRoles /\ SameTokens /\ SameLocks

pick_initial_role(q) == IF q.saw THEN "admin" ELSE IF q.arg # "none" THEN q.arg ELSE "base"

(* INSERT rbac_assignments: the foreign key refuses a user deleted meanwhile.*)
giveRole(r) ==
    /\ req[r].pc = "role"
    /\ IF row[req[r].who] = req[r].id
         THEN /\ held' = held \cup {<<req[r].who, pick_initial_role(req[r])>>}
              /\ Go(r, "session")
         ELSE Fail(r) /\ UNCHANGED held
    /\ SameUsers /\ UNCHANGED roleRow /\ SameTokens /\ SameLocks

(* token_delivery::deliver: a nonce, or the tokens themselves.               *)
deliverTokens(r) ==
    \/ nonce' = [nonce EXCEPT ![r] = "live"] /\ Go(r, "exchange")
    \/ UNCHANGED nonce /\ Done(r)

openSession(r) ==
    /\ req[r].op = "oidc" /\ req[r].pc = "session"
    /\ IF row[req[r].who] = req[r].id
         THEN /\ session' = [session EXCEPT ![r] = "live"]
              /\ deliverTokens(r)
         ELSE Fail(r) /\ UNCHANGED <<session, nonce>>
    /\ SameUsers /\ SameRoles /\ UNCHANGED link /\ SameLocks

(* nonce_exchange -> exchange: DELETE the nonce joined with its user, within *)
(* the nonce's life; the tokens are minted from what it names.               *)
nonce_exchange(r) ==
    /\ req[r].pc = "exchange"
    /\ nonce' = [nonce EXCEPT ![r] = "none"]
    /\ \/ row[req[r].who] = req[r].id /\ Done(r)
       \/ Fail(r)
    /\ SameUsers /\ SameRoles /\ UNCHANGED <<session, link>> /\ SameLocks

-----------------------------------------------------------------------------
(* Magic links.                                                             *)

(* generate's checks: the invite permission and only roles held, or "*"; the *)
(* roles exist.  The INSERT follows.                                         *)
generate(r) ==
    /\ req[r].op = "generate" /\ req[r].pc = "start"
    /\ LET q == req[r] IN
       \/ /\ \/ require_admin(q.by)
             \/ May(q.by, "auth.invite") /\ (q.arg = "none" \/ <<q.by, q.arg>> \in held)
          /\ q.arg \in roleRow \cup {"none"}
          /\ Go(r, "mint")
       \/ /\ \/ ~require_admin(q.by) /\ ~May(q.by, "auth.invite")
             \/ ~require_admin(q.by) /\ q.arg # "none" /\ <<q.by, q.arg>> \notin held
             \/ q.arg \notin roleRow \cup {"none"}
          /\ Fail(r)
    /\ SameUsers /\ SameRoles /\ SameTokens /\ SameLocks

mintLink(r) ==
    /\ req[r].pc = "mint"
    /\ \/ /\ Present(req[r].by) /\ link.st = "none"
          /\ link' = [st |-> "live", mail |-> req[r].who, role |-> req[r].arg,
                      by |-> req[r].by]
          /\ Done(r)
       \/ ~Present(req[r].by) /\ Fail(r) /\ UNCHANGED link
    /\ SameUsers /\ SameRoles /\ UNCHANGED <<session, nonce>> /\ SameLocks

consumeUnlocked(r) ==
    /\ req[r].op = "consume" /\ req[r].pc = "start"
    /\ \/ /\ link.st = "live"
          /\ req' = [req EXCEPT ![r].pc = "spend", ![r].saw = Present(link.mail),
                                ![r].id = row[link.mail], ![r].arg = link.role]
       \/ link.st # "live" /\ Fail(r)
    /\ SameUsers /\ SameRoles /\ SameTokens /\ SameLocks

(* consume_inner: the UPDATE takes the token's row lock, and a second one    *)
(* waits for it.                                                             *)
consumeClaim(r) ==
    /\ req[r].op = "consume" /\ req[r].pc = "start" /\ claimer = Nobody
    /\ \/ /\ link.st = "live" /\ claimer' = r
          /\ req' = [req EXCEPT ![r].pc = "spend", ![r].saw = Present(link.mail),
                                ![r].id = row[link.mail], ![r].arg = link.role]
       \/ link.st # "live" /\ Fail(r) /\ UNCHANGED claimer
    /\ SameUsers /\ SameRoles /\ SameTokens /\ UNCHANGED reader

(* The rest of the transaction and its COMMIT: the account when there was    *)
(* none, the roles, the session.  A conflict rolls all of it back.           *)
consumeCommit(r) ==
    /\ req[r].pc = "spend"
    /\ LET h == req[r].who
           id == IF req[r].saw THEN req[r].id ELSE req[r].id + 1 IN
       \/ /\ row[h] = req[r].id /\ id <= MaxRow
          /\ row' = [row EXCEPT ![h] = id]
          /\ held' = IF req[r].arg = "none" THEN held ELSE held \cup {<<h, req[r].arg>>}
          /\ session' = [session EXCEPT ![r] = "live"]
          /\ link' = IF link = NoLink THEN NoLink ELSE [link EXCEPT !.st = "spent"]
          /\ req' = [req EXCEPT ![r] = [Idle EXCEPT !.op = "consume", !.pc = "done", !.who = h, !.id = id]]
       \/ /\ Fail(r)
          /\ UNCHANGED <<row, held, session, link>>
    /\ claimer' = Nobody
    /\ UNCHANGED <<oidcSub, owner, disabled, cred, roleRow, nonce, reader>>

linkExpires ==
    /\ link.st = "live" /\ claimer = Nobody
    /\ link' = [link EXCEPT !.st = "spent"]
    /\ SameUsers /\ SameRoles /\ UNCHANGED <<session, nonce, req>> /\ SameLocks

-----------------------------------------------------------------------------
(* Refresh and logout of another request's session.                          *)

refresh(r) ==
    /\ req[r].op = "refresh"
    /\ \/ /\ req[r].pc = "start"
          /\ IF session[req[r].by] = "live" THEN Go(r, "mail") ELSE Fail(r)
       \/ /\ req[r].pc = "mail"
          /\ IF row[req[r].who] = req[req[r].by].id THEN Done(r) ELSE Fail(r)
    /\ SameUsers /\ SameRoles /\ SameTokens /\ SameLocks

logout(r) ==
    /\ req[r].op = "logout" /\ req[r].pc = "start"
    /\ session' = [session EXCEPT ![req[r].by] = "gone"]
    /\ Done(r)
    /\ SameUsers /\ SameRoles /\ UNCHANGED <<nonce, link>> /\ SameLocks

-----------------------------------------------------------------------------
(* Roles.                                                                   *)

adminCheck(r) ==
    /\ req[r].op \in AdminOps /\ req[r].pc = "start"
    /\ \/ /\ require_admin(req[r].by)
          /\ req[r].op = "assign" => req[r].arg \in roleRow
          /\ Go(r, "act")
       \/ /\ ~require_admin(req[r].by) \/ (req[r].op = "assign" /\ req[r].arg \notin roleRow)
          /\ Fail(r)
    /\ SameUsers /\ SameRoles /\ SameTokens /\ SameLocks

assign_role(r) ==
    /\ req[r].op = "assign" /\ req[r].pc = "act"
    /\ IF Present(req[r].who) THEN held' = held \cup {<<req[r].who, req[r].arg>>} /\ Done(r)
                              ELSE UNCHANGED held /\ Fail(r)
    /\ SameUsers /\ UNCHANGED roleRow /\ SameTokens /\ SameLocks

Admins == {p \in Principals : <<p, "admin">> \in held}

countAdmins(r) ==
    /\ req[r].op \in {"revoke", "dropUser"} /\ req[r].pc = "act"
    /\ \/ /\ Cardinality(Admins) <= 1
          /\ req[r].op = "revoke" => req[r].arg = "admin"
          /\ req[r].op = "dropUser" => req[r].who \in Admins
          /\ Fail(r)
       \/ /\ ~ /\ Cardinality(Admins) <= 1
               /\ req[r].op = "revoke" => req[r].arg = "admin"
               /\ req[r].op = "dropUser" => req[r].who \in Admins
          /\ Go(r, "write")
    /\ SameUsers /\ SameRoles /\ SameTokens /\ SameLocks

(* The count of admin rows, taken FOR UPDATE: a second guard waits, and then *)
(* counts what the first one left.                                           *)
lockAdmins(r) ==
    /\ req[r].op \in {"revoke", "dropUser"} /\ req[r].pc = "act" /\ reader = Nobody
    /\ \/ /\ Cardinality(Admins) <= 1
          /\ req[r].op = "revoke" => req[r].arg = "admin"
          /\ req[r].op = "dropUser" => req[r].who \in Admins
          /\ Fail(r) /\ UNCHANGED reader
       \/ /\ ~ /\ Cardinality(Admins) <= 1
               /\ req[r].op = "revoke" => req[r].arg = "admin"
               /\ req[r].op = "dropUser" => req[r].who \in Admins
          /\ reader' = r /\ Go(r, "write")
    /\ SameUsers /\ SameRoles /\ SameTokens /\ UNCHANGED claimer

revoke_role(r) ==
    /\ req[r].op = "revoke" /\ req[r].pc = "write"
    /\ held' = held \ {<<req[r].who, req[r].arg>>}
    /\ reader' = Nobody /\ Done(r)
    /\ SameUsers /\ UNCHANGED roleRow /\ SameTokens /\ UNCHANGED claimer

SessionsWithout(p) ==
    [k \in Requests |-> IF session[k] = "live" /\ req[k].who = p /\ req[k].id = row[p]
                          THEN "gone" ELSE session[k]]

(* DELETE users cascades to sessions, assignments and the invitations the    *)
(* user made; a service account it owns refuses the deletion.  A service     *)
(* account is never deleted here: it is a system row.                        *)
delete_user(r) ==
    /\ req[r].op = "dropUser" /\ req[r].pc = "write"
    /\ LET h == req[r].who IN
       \/ /\ ~IsService(h) /\ Present(h) /\ row[h] < MaxRow
          /\ ~\E s \in Services : Present(s) /\ owner[s] = h
          /\ ~(link.by = h /\ claimer # Nobody)
          /\ row' = [row EXCEPT ![h] = @ + 1]
          /\ oidcSub' = oidcSub \ {h}
          /\ held' = {a \in held : a[1] # h}
          /\ session' = SessionsWithout(h)
          /\ link' = IF link.by = h THEN [link EXCEPT !.st = "spent"] ELSE link
          /\ Done(r)
       \/ /\ IsService(h) \/ ~Present(h) \/ \E s \in Services : Present(s) /\ owner[s] = h
          /\ Fail(r) /\ UNCHANGED <<row, oidcSub, held, session, link>>
    /\ reader' = Nobody
    /\ UNCHANGED <<owner, disabled, cred, roleRow, nonce, claimer>>

(* delete_role: the role, then, in a second statement, its assignments.      *)
delete_role(r) ==
    /\ req[r].op = "dropRole"
    /\ \/ /\ req[r].pc = "act" /\ "lead" \in roleRow
          /\ roleRow' = roleRow \ {"lead"} /\ Go(r, "sweep") /\ UNCHANGED held
       \/ /\ req[r].pc = "act" /\ "lead" \notin roleRow
          /\ Fail(r) /\ UNCHANGED <<roleRow, held>>
       \/ /\ req[r].pc = "sweep"
          /\ held' = {a \in held : a[2] # "lead"} /\ Done(r) /\ UNCHANGED roleRow
    /\ SameUsers /\ SameTokens /\ SameLocks

create_role(r) ==
    /\ req[r].op = "makeRole" /\ req[r].pc = "act"
    /\ IF "lead" \in roleRow THEN Fail(r) ELSE Done(r)
    /\ roleRow' = roleRow \cup {"lead"}
    /\ SameUsers /\ UNCHANGED held /\ SameTokens /\ SameLocks

-----------------------------------------------------------------------------
(* Service accounts.                                                        *)

saCheck(r) ==
    /\ req[r].op \in SaOps /\ req[r].pc = "start"
    /\ \/ /\ May(req[r].by, "sa.manage")
          /\ req[r].op = "makeSa" \/ IsService(req[r].who)
          /\ Go(r, "act")
       \/ /\ ~May(req[r].by, "sa.manage") \/ (req[r].op # "makeSa" /\ ~IsService(req[r].who))
          /\ Fail(r)
    /\ SameUsers /\ SameRoles /\ SameTokens /\ SameLocks

create_sa(r) ==
    /\ req[r].op = "makeSa" /\ req[r].pc = "act"
    /\ LET s == req[r].who IN
       IF ~Present(s) /\ Present(req[r].by)
         THEN /\ row[s] < MaxRow
              /\ row' = [row EXCEPT ![s] = @ + 1]
              /\ owner' = [owner EXCEPT ![s] = req[r].by]
              /\ cred' = [cred EXCEPT ![s] = "none"]
              /\ disabled' = disabled \ {s}
              /\ Done(r)
         ELSE Fail(r) /\ UNCHANGED <<row, owner, cred, disabled>>
    /\ UNCHANGED oidcSub /\ SameRoles /\ SameTokens /\ SameLocks

(* transfer_ownership: to a human who exists, read in a statement of its own.*)
transfer_ownership(r) ==
    /\ req[r].op = "transfer" /\ req[r].pc = "act"
    /\ \/ /\ \E h \in Principals :
                /\ Present(h) /\ ~IsService(h)
                /\ owner' = IF IsService(req[r].who) THEN [owner EXCEPT ![req[r].who] = h] ELSE owner
          /\ Done(r)
       \/ Fail(r) /\ UNCHANGED owner
    /\ UNCHANGED <<row, oidcSub, disabled, cred>> /\ SameRoles /\ SameTokens /\ SameLocks

set_disabled(r) ==
    /\ req[r].op \in {"disable", "enable"} /\ req[r].pc = "act"
    /\ LET s == req[r].who IN
       /\ disabled' = IF IsService(s) /\ req[r].op = "disable" THEN disabled \cup {s}
                                                               ELSE disabled \ {s}
       /\ IF IsService(s) THEN Done(r) ELSE Fail(r)
    /\ UNCHANGED <<row, oidcSub, owner, cred>> /\ SameRoles /\ SameTokens /\ SameLocks

(* The cascade to an admin row waits for the lock of a guard that counted it.*)
delete_sa(r) ==
    /\ req[r].op = "dropSa" /\ req[r].pc = "act"
    /\ LET s == req[r].who IN
       \/ /\ IsService(s) /\ row[s] < MaxRow
          /\ reader = Nobody \/ <<s, "admin">> \notin held
          /\ ~\E t \in Services : Present(t) /\ owner[t] = s
          /\ row' = [row EXCEPT ![s] = @ + 1]
          /\ owner' = [owner EXCEPT ![s] = Nobody]
          /\ cred' = [cred EXCEPT ![s] = "none"]
          /\ disabled' = disabled \ {s}
          /\ held' = {a \in held : a[1] # s}
          /\ session' = SessionsWithout(s)
          /\ Done(r)
       \/ /\ ~IsService(s) \/ \E t \in Services : Present(t) /\ owner[t] = s
          /\ Fail(r) /\ UNCHANGED <<row, owner, cred, disabled, held, session>>
    /\ UNCHANGED <<oidcSub, roleRow, nonce, link>> /\ SameLocks

(* create_credential, or revoke_credential of one that is live.              *)
credential(r) ==
    /\ req[r].op = "credential" /\ req[r].pc = "act"
    /\ LET s == req[r].who IN
       IF IsService(s)
         THEN /\ cred' = [cred EXCEPT ![s] = IF @ = "live" THEN "revoked" ELSE "live"]
              /\ Done(r)
         ELSE Fail(r) /\ UNCHANGED cred
    /\ UNCHANGED <<row, oidcSub, owner, disabled>> /\ SameRoles /\ SameTokens /\ SameLocks

(* issue_token: the account's row, then its live credentials.                *)
issue_token(r) ==
    /\ req[r].op = "token"
    /\ LET s == req[r].who IN
       \/ /\ req[r].pc = "start" /\ principal_enabled(s) /\ owner[s] # Nobody
          /\ req' = [req EXCEPT ![r].pc = "match", ![r].id = row[s]]
       \/ /\ req[r].pc = "start" /\ ~(principal_enabled(s) /\ owner[s] # Nobody) /\ Fail(r)
       \/ /\ req[r].pc = "match"
          /\ IF row[s] = req[r].id /\ cred[s] = "live" THEN Done(r) ELSE Fail(r)
    /\ SameUsers /\ SameRoles /\ SameTokens /\ SameLocks

-----------------------------------------------------------------------------
SignInStep(r) ==
    \/ authorize(r) \/ callback(r) \/ token_exchange(r) \/ freshen(r) \/ findByMail(r)
    \/ linkUp(r) \/ register(r) \/ firstBoot(r) \/ giveRole(r) \/ openSession(r) \/ nonce_exchange(r)
    \/ generate(r) \/ mintLink(r) \/ consumeClaim(r) \/ consumeCommit(r)
    \/ refresh(r) \/ logout(r)
    \/ adminCheck(r) \/ assign_role(r) \/ lockAdmins(r) \/ revoke_role(r)
    \/ delete_user(r) \/ delete_role(r) \/ create_role(r)
    \/ saCheck(r) \/ create_sa(r) \/ transfer_ownership(r) \/ set_disabled(r)
    \/ delete_sa(r) \/ credential(r) \/ issue_token(r)

(* A tenant nobody has signed in to, or one where every human has an account *)
(* without a provider, one of them administers it, owning the service        *)
(* accounts there are, and the others lead.                                  *)
SignInInit ==
    /\ sduty \in SignInDuties
    /\ LET boss == CHOOSE h \in Humans : TRUE IN
       /\ row = [p \in Principals |-> IF p \in sduty.staffed \/ (p \in Humans /\ ~sduty.fresh) THEN 1 ELSE 0]
       /\ owner = [s \in Services |-> IF s \in sduty.staffed THEN boss ELSE Nobody]
       /\ held = IF sduty.fresh THEN {}
                 ELSE {<<h, IF h = boss THEN "admin" ELSE "lead">> : h \in Humans}
    /\ oidcSub = {} /\ disabled = {}
    /\ cred = [s \in Services |-> "none"]
    /\ roleRow = SRoles
    /\ link = NoLink
    /\ session = [r \in Requests |-> "none"] /\ nonce = [r \in Requests |-> "none"]
    /\ reader = Nobody /\ claimer = Nobody
    /\ req = [r \in Requests |-> Idle]

SignInNext ==
    \/ \E r \in Requests : Start(r)
    \/ \E r \in Requests : SignInStep(r) /\ UNCHANGED sduty
    \/ linkExpires /\ UNCHANGED sduty

SignInSpec == SignInInit /\ [][SignInNext]_signVars

-----------------------------------------------------------------------------
(* The shape of the tables and of the requests.                             *)
SignInTypeOK ==
    /\ row \in [Principals -> 0..MaxRow]
    /\ oidcSub \subseteq Humans /\ disabled \subseteq Services
    /\ owner \in [Services -> Principals \cup {Nobody}]
    /\ cred \in [Services -> {"none", "live", "revoked"}]
    /\ roleRow \subseteq SRoles /\ held \subseteq Principals \X SRoles
    /\ link.st \in {"none", "live", "spent"}
    /\ session \in [Requests -> {"none", "live", "gone"}]
    /\ nonce \in [Requests -> {"none", "live"}]
    /\ reader \in Requests \cup {Nobody} /\ claimer \in Requests \cup {Nobody}

(* A role may be given to a service account, and delete_sa counts no         *)
(* administrators: the one way left to lose the last of them.                *)
ServiceMayAdminister == \E r, k \in Requests : "assign" \in sduty.ops[r] /\ "dropSa" \in sduty.ops[k]

(* A tenant that has an administrator always has one: neither two            *)
(* revocations, nor two deletions, nor one of each, whatever their order     *)
(* between the count and the write, take the last one away (the FOR UPDATE   *)
(* count of revoke_role and delete_user).                                    *)
AdminRemains == [][~ServiceMayAdminister /\ HasAdmin => HasAdmin']_signVars

(* One invitation opens at most one session, however many times it is        *)
(* presented at once and whatever else commits meanwhile; and once it has    *)
(* been accepted nothing can accept it again (consume_inner).                *)
LinkOpensOneSession ==
    /\ Cardinality({r \in Requests : req[r].op = "consume" /\ session[r] # "none"}) <= 1
    /\ (\E r \in Requests : req[r].op = "consume" /\ session[r] # "none") => link.st = "spent"

(* No live session and no assignment outlives the account it was made for,   *)
(* so an account made again under the same address starts with neither:      *)
(* the id in a request is checked again by every statement that writes.      *)
NothingOutlivesTheAccount ==
    /\ \A r \in Requests : session[r] = "live" => row[req[r].who] = req[r].id
    /\ \A a \in held : Present(a[1])

(* "The first non-system user of a tenant bootstraps as admin ... everyone   *)
(* else ... never admin": two first sign-ins end with one administrator.     *)
FirstUserAloneIsAdmin ==
    (\A r \in Requests : req[r].op \in {"idle", "oidc", "federate"}) => Cardinality(Admins) <= 1

(* A session was earned by what let it in and lasts no longer than that.     *)
SessionsAreEarned == SignInTypeOK /\ LinkOpensOneSession /\ NothingOutlivesTheAccount
=============================================================================

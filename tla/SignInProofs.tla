---------------------------- MODULE SignInProofs ----------------------------
(***************************************************************************)
(* Sessions are earned and an administrator remains, for any people, any   *)
(* service accounts and any mix of concurrent requests.                    *)
(*                                                                         *)
(* An account's row counts its insertions and deletions and is odd while   *)
(* the account exists.  The inductive invariant follows each request from  *)
(* the id it read to the write that relies on it: an id once read is of an *)
(* account that existed, the invitation being accepted is still live and   *)
(* its row lock held, and a guard that has counted the administrators      *)
(* holds their locks and leaves another one behind.                        *)
(***************************************************************************)
EXTENDS SignIn, FiniteSetTheorems, TLAPS

(* Zenon proves every leaf that does not cite SMTT or PTL.                 *)
USE ZenonT(60)

Odd(n) == n % 2 = 1

SiOperations ==
  {"idle", "oidc", "federate", "generate", "consume", "refresh", "logout", "token"} \cup AdminOps \cup SaOps
SiPcs ==
  {"idle", "start", "callback", "freshen", "byMail", "linkUp", "insert", "boot", "role", "session",
   "exchange", "mint", "spend", "mail", "act", "write", "sweep", "match", "done", "failed"}
RequestRecords ==
  [op : SiOperations, pc : SiPcs, who : Principals \cup {Nobody},
   by : Principals \cup Requests \cup {Nobody}, id : Nat, arg : SRoles \cup {"none"},
   saw : BOOLEAN, early : BOOLEAN]
LinkRecords ==
  [st : {"none", "live", "spent"}, mail : Principals \cup {Nobody}, role : {"none", "lead"},
   by : Humans \cup {Nobody}]

RequestsOK == req \in [Requests -> RequestRecords] /\ link \in LinkRecords

\* What the tables say on their own.
TablesAgree ==
  /\ \A h \in oidcSub : Odd(row[h])
  /\ \A p \in Principals, role \in SRoles : <<p, role>> \in held => Odd(row[p])
  /\ IF link.st = "none" THEN link.by = Nobody ELSE link.mail \in Principals
  /\ (\A r \in Requests : "assign" \notin sduty.ops[r]) => \A s \in Services : <<s, "admin">> \notin held

\* What a request has read about an account, and the session it opened.
Earned(r) ==
  /\ req[r].op \in {"oidc", "federate"} => req[r].who \in Humans
  /\ req[r].op \in {"consume", "generate"} => req[r].who \in Principals
  /\ req[r].op \in SaOps \cup {"token"} => req[r].who \in Services /\ req[r].by \in Principals \cup {Nobody}
  /\ req[r].op \in AdminOps => req[r].who \in Principals /\ (req[r].pc \notin {"done", "failed"} => req[r].arg \in SRoles)
  /\ req[r].pc \in {"freshen", "linkUp", "session", "boot", "role", "exchange"} => Odd(req[r].id)
  /\ req[r].pc \in {"callback", "freshen", "byMail", "linkUp", "insert", "session", "boot", "role", "exchange"} =>
       req[r].op \in {"oidc", "federate"}
  /\ session[r] # "none" =>
       req[r].pc \in {"exchange", "done", "failed"} /\ req[r].op \in {"oidc", "consume"}
  /\ session[r] = "live" => row[req[r].who] = req[r].id /\ Odd(req[r].id)
  /\ req[r].op = "logout" /\ req[r].pc = "start" => req[r].by \in Requests /\ session[req[r].by] # "none"

\* An invitation while it is minted, accepted and spent.
Invited(r) ==
  /\ req[r].op = "generate" => req[r].arg \in {"none", "lead"} /\ req[r].by \in Humans \cup {Nobody}
  /\ req[r].pc = "mint" => req[r].op = "generate"
  /\ req[r].pc = "spend" => /\ req[r].op = "consume" /\ claimer = r /\ link.st = "live"
                            /\ req[r].saw = Odd(req[r].id)
                            /\ req[r].arg \in {"none", "lead"}
  /\ req[r].op = "consume" /\ session[r] # "none" => link.st = "spent"

\* An administrator seen stays, and whoever takes one away leaves another.
Guarded(r) ==
  /\ req[r].op \in sduty.ops[r] \cup {"idle"}
  /\ req[r].pc = "write" => req[r].op \in {"revoke", "dropUser"} /\ reader = r
  /\ ~ServiceMayAdminister =>
       /\ req[r].op \in AdminOps /\ req[r].pc \in {"act", "write"} => HasAdmin
       /\ req[r].pc = "write" /\ (req[r].op = "revoke" => req[r].arg = "admin") =>
            \E p \in Principals : p # req[r].who /\ <<p, "admin">> \in held

OneAcceptance ==
  \A r, k \in Requests :
    req[r].op = "consume" /\ req[k].op = "consume" /\ session[r] # "none" /\ session[k] # "none" => r = k

SignInv ==
  /\ SignInTypeOK /\ RequestsOK /\ TablesAgree /\ OneAcceptance
  /\ \A r \in Requests : Earned(r) /\ Invited(r) /\ Guarded(r)

-----------------------------------------------------------------------------
(***************************************************************************)
(* A row and its parity, and the initial states.                           *)
(***************************************************************************)
LEMMA OddNext ==
  ASSUME NEW n \in Nat
  PROVE  Odd(n + 1) <=> ~Odd(n)
BY SMTT(30) DEF Odd

(* Every request starts with nothing read and nothing locked.              *)
LEMMA SignInInitially == SignInInit => SignInv
<1> SUFFICES ASSUME SignInInit PROVE SignInv OBVIOUS
<1> USE SignInAssumption
<1>1. Idle \in RequestRecords /\ Idle.op = "idle" /\ Idle.pc = "idle"
  BY DEF Idle, RequestRecords, SiOperations, SiPcs
<1>2. \A r \in Requests : req[r] = Idle /\ session[r] = "none"
  BY DEF SignInInit
<1>3. held \subseteq Principals \X SRoles /\ \A p \in Principals, role \in SRoles : <<p, role>> \in held => p \in Humans /\ ~sduty.fresh
  BY SMTT(30) DEF SignInInit, Principals, SRoles
<1>4. SignInTypeOK
  <2>1. row \in [Principals -> 0..MaxRow] BY SMTT(30) DEF SignInInit
  <2>0. owner \in [Services -> Principals \cup {Nobody}] BY DEF SignInInit, Principals
  <2>2. /\ oidcSub \subseteq Humans /\ disabled \subseteq Services
        /\ cred \in [Services -> {"none", "live", "revoked"}]
    BY DEF SignInInit
  <2>3. /\ roleRow \subseteq SRoles
        /\ link.st \in {"none", "live", "spent"}
        /\ session \in [Requests -> {"none", "live", "gone"}]
        /\ nonce \in [Requests -> {"none", "live"}]
        /\ reader \in Requests \cup {Nobody} /\ claimer \in Requests \cup {Nobody}
    BY DEF SignInInit, NoLink
  <2> QED BY <1>3, <2>0, <2>1, <2>2, <2>3 DEF SignInTypeOK
<1>5. RequestsOK
  <2>1. link \in LinkRecords BY DEF SignInInit, NoLink, LinkRecords
  <2>2. req \in [Requests -> RequestRecords] BY <1>1 DEF SignInInit
  <2> QED BY <2>1, <2>2 DEF RequestsOK
<1>6. TablesAgree
  <2>1. \A p \in Principals, role \in SRoles : <<p, role>> \in held => Odd(row[p])
    BY SMTT(30), <1>3 DEF SignInInit, Odd
  <2>2. \A s \in Services : <<s, "admin">> \notin held
    BY <1>3 DEF Principals, SRoles
  <2>3. oidcSub = {} /\ link.st = "none" /\ link.by = Nobody BY DEF SignInInit, NoLink
  <2> QED BY <2>1, <2>2, <2>3 DEF TablesAgree
<1>7. OneAcceptance BY <1>2 DEF OneAcceptance
<1>8. \A r \in Requests : Earned(r) /\ Invited(r) /\ Guarded(r)
  BY <1>1, <1>2 DEF Earned, Invited, Guarded, AdminOps, SaOps
<1> QED BY <1>4, <1>5, <1>6, <1>7, <1>8 DEF SignInv

-----------------------------------------------------------------------------
(***************************************************************************)
(* What a step leaves of the requests that do not take it.                 *)
(***************************************************************************)
(* Their ids stay those of the accounts they read.                         *)
LEMMA OthersEarned ==
  ASSUME NEW k \in Requests, Earned(k), req'[k] = req[k],
         session'[k] = "none" <=> session[k] = "none",
         session'[k] = "live" => session[k] = "live" /\ row'[req[k].who] = row[req[k].who],
         \A j \in Requests : session[j] # "none" => session'[j] # "none"
  PROVE  Earned(k)'
BY DEF Earned

(* A claim and what it claims stay.                                        *)
LEMMA OthersInvited ==
  ASSUME NEW k \in Requests, Invited(k), req'[k] = req[k],
         session'[k] = "none" <=> session[k] = "none",
         link.st = "spent" => link'.st = "spent",
         req[k].pc = "spend" => claimer' = claimer /\ link'.st = link.st
  PROVE  Invited(k)'
BY DEF Invited

(* A guard keeps its lock and the administrators it counted.               *)
LEMMA OthersGuarded ==
  ASSUME NEW k \in Requests, Guarded(k), req'[k] = req[k], sduty' = sduty,
         req[k].pc = "write" => reader' = reader,
         ~ServiceMayAdminister => (HasAdmin => HasAdmin'),
         ~ServiceMayAdminister /\ req[k].pc = "write" =>
           \A p \in Principals : <<p, "admin">> \in held => <<p, "admin">> \in held'
  PROVE  Guarded(k)'
<1>1. ServiceMayAdminister' = ServiceMayAdminister BY DEF ServiceMayAdminister
<1> QED BY <1>1 DEF Guarded

-----------------------------------------------------------------------------
(***************************************************************************)
(* Steps that read: only the request itself moves, or tables no request    *)
(* relies on.                                                              *)
(***************************************************************************)
Unread ==
  /\ roleRow' \subseteq SRoles /\ disabled' \subseteq Services
  /\ owner' \in [Services -> Principals \cup {Nobody}]
  /\ cred' \in [Services -> {"none", "live", "revoked"}]
  /\ nonce' \in [Requests -> {"none", "live"}]

(* One request is replaced by another record that is in order itself.      *)
LEMMA Quiet ==
  ASSUME SignInv, NEW r \in Requests, NEW x \in RequestRecords, req' = [req EXCEPT ![r] = x],
         UNCHANGED <<sduty, row, oidcSub, held, link, session, reader, claimer>>, Unread,
         session[r] # "none" => x.op = req[r].op,
         Earned(r)', Invited(r)', Guarded(r)'
  PROVE  SignInv'
<1>1. req \in [Requests -> RequestRecords] BY DEF SignInv, RequestsOK
<1>2. req'[r] = x /\ \A k \in Requests \ {r} : req'[k] = req[k] BY <1>1
<1>3. SignInTypeOK' BY DEF SignInv, SignInTypeOK, Unread
<1>4. RequestsOK' BY <1>1 DEF SignInv, RequestsOK
<1>5. TablesAgree' BY DEF SignInv, TablesAgree
<1>6. OneAcceptance' BY SMTT(30), <1>2 DEF SignInv, OneAcceptance
<1>7. ASSUME NEW k \in Requests \ {r} PROVE Earned(k)' /\ Invited(k)' /\ Guarded(k)'
  <2>1. Earned(k) /\ Invited(k) /\ Guarded(k) BY DEF SignInv
  <2>2. HasAdmin' = HasAdmin BY DEF HasAdmin
  <2>3. Earned(k)' BY <1>2, <2>1, OthersEarned
  <2>4. Invited(k)' BY <1>2, <2>1, OthersInvited
  <2>5. Guarded(k)' BY <1>2, <2>1, <2>2, OthersGuarded
  <2> QED BY <2>3, <2>4, <2>5
<1> QED BY <1>3, <1>4, <1>5, <1>6, <1>7 DEF SignInv

(* A request that is over.                                                 *)
LEMMA OverIs ==
  ASSUME SignInv, NEW r \in Requests, NEW pc \in {"done", "failed"}, Over(r, pc)
  PROVE  \E x \in RequestRecords :
           /\ req' = [req EXCEPT ![r] = x]
           /\ x.pc = pc /\ x.by = Nobody /\ x.arg = "none"
           /\ \/ x.op = req[r].op /\ x.who = req[r].who /\ x.id = req[r].id
              \/ x.op = "idle" /\ session[r] = "none" /\ pc = "failed"
<1>1. req[r] \in RequestRecords BY DEF SignInv, RequestsOK
<1>2. Idle \in RequestRecords /\ Idle.op = "idle" /\ Idle.by = Nobody /\ Idle.arg = "none"
  BY DEF Idle, RequestRecords, SiOperations, SiPcs
<1> DEFINE i == [Idle EXCEPT !.pc = "failed"]
           o == [req[r] EXCEPT !.pc = pc, !.by = Nobody, !.arg = "none", !.saw = FALSE, !.early = FALSE]
<1>3. i \in RequestRecords /\ i.op = "idle" /\ i.pc = "failed" /\ i.by = Nobody /\ i.arg = "none"
  BY <1>2 DEF RequestRecords, SiPcs
<1>4. /\ o \in RequestRecords /\ o.pc = pc /\ o.by = Nobody /\ o.arg = "none"
      /\ o.op = req[r].op /\ o.who = req[r].who /\ o.id = req[r].id
  BY <1>1 DEF RequestRecords, SiPcs, SRoles
<1>5. CASE pc = "failed" /\ session[r] = "none"
  <2>1. req' = [req EXCEPT ![r] = i] BY <1>5 DEF Over
  <2> QED BY <1>3, <1>5, <2>1
<1>6. CASE ~(pc = "failed" /\ session[r] = "none")
  <2>1. req' = [req EXCEPT ![r] = o] BY <1>6 DEF Over
  <2> QED BY <1>4, <2>1
<1> QED BY <1>5, <1>6

(* Such a request is in order, whatever else its last step wrote, when the *)
(* session it opened still is.                                             *)
LEMMA OverInOrder ==
  ASSUME SignInv, NEW r \in Requests, NEW pc \in {"done", "failed"}, Over(r, pc), sduty' = sduty,
         session'[r] # "none" => req[r].op \in {"oidc", "consume"} /\ session[r] # "none",
         session'[r] = "live" => row'[req[r].who] = req[r].id /\ Odd(req[r].id),
         req[r].op = "consume" /\ session'[r] # "none" => link'.st = "spent"
  PROVE  /\ \E x \in RequestRecords : req' = [req EXCEPT ![r] = x]
         /\ session[r] # "none" => req'[r].op = req[r].op
         /\ req'[r].op \in {req[r].op, "idle"}
         /\ Earned(r)' /\ Invited(r)' /\ Guarded(r)'
<1>1. PICK x \in RequestRecords :
           /\ req' = [req EXCEPT ![r] = x]
           /\ x.pc = pc /\ x.by = Nobody /\ x.arg = "none"
           /\ \/ x.op = req[r].op /\ x.who = req[r].who /\ x.id = req[r].id
              \/ x.op = "idle" /\ session[r] = "none"
  BY SMTT(30), OverIs
<1>2. req'[r] = x BY <1>1 DEF SignInv, RequestsOK
<1>3. Earned(r) /\ Invited(r) /\ Guarded(r) BY DEF SignInv
<1>4. Earned(r)'
  <2>1. "idle" \notin AdminOps \cup SaOps BY DEF AdminOps, SaOps
  <2>2. CASE x.op = "idle" /\ session[r] = "none" BY <1>1, <1>2, <2>1, <2>2 DEF Earned
  <2>3. CASE x.op = req[r].op /\ x.who = req[r].who /\ x.id = req[r].id
    BY <1>1, <1>2, <1>3, <2>3 DEF Earned
  <2> QED BY <1>1, <2>2, <2>3
<1>5. Invited(r)' BY <1>1, <1>2, <1>3 DEF Invited
<1>6. Guarded(r)' BY <1>1, <1>2, <1>3 DEF Guarded
<1> QED BY <1>1, <1>2, <1>4, <1>5, <1>6

(* A request that ends without writing.                                    *)
LEMMA Finishes ==
  ASSUME SignInv, NEW r \in Requests, NEW pc \in {"done", "failed"}, Over(r, pc),
         UNCHANGED <<sduty, row, oidcSub, held, link, session, reader, claimer>>, Unread
  PROVE  SignInv'
<1>1. Earned(r) /\ Invited(r) BY DEF SignInv
<1>2. /\ \E x \in RequestRecords : req' = [req EXCEPT ![r] = x]
      /\ session[r] # "none" => req'[r].op = req[r].op
      /\ Earned(r)' /\ Invited(r)' /\ Guarded(r)'
  <2>1. session[r] # "none" => req[r].op \in {"oidc", "consume"} BY <1>1 DEF Earned
  <2>2. session[r] = "live" => row[req[r].who] = req[r].id /\ Odd(req[r].id) BY <1>1 DEF Earned
  <2>3. req[r].op = "consume" /\ session[r] # "none" => link.st = "spent" BY <1>1 DEF Invited
  <2> QED BY <2>1, <2>2, <2>3, OverInOrder
<1>3. PICK x \in RequestRecords : req' = [req EXCEPT ![r] = x] BY <1>2
<1>4. req'[r] = x BY <1>3 DEF SignInv, RequestsOK
<1> QED BY <1>2, <1>3, <1>4, Quiet

(* Before it has ended a request has no session.                           *)
LEMMA NoSessionYet ==
  ASSUME SignInv, NEW r \in Requests, req[r].pc \notin {"exchange", "done", "failed"}
  PROVE  session[r] = "none"
BY DEF SignInv, Earned

(* A request that goes on before it has a session.                         *)
LEMMA Advances ==
  ASSUME SignInv, NEW r \in Requests, NEW x \in RequestRecords, req' = [req EXCEPT ![r] = x],
         UNCHANGED <<sduty, row, oidcSub, held, link, session, reader, claimer>>, Unread,
         req[r].pc \notin {"exchange", "done", "failed"}, x.op = req[r].op, x.who = req[r].who,
         x.pc \notin {"start", "spend", "write"},
         x.pc \in {"freshen", "linkUp", "session", "boot", "role", "exchange"} => Odd(x.id),
         x.pc \in {"callback", "freshen", "byMail", "linkUp", "insert", "session", "boot", "role", "exchange"} =>
           x.op \in {"oidc", "federate"},
         x.op \in {"generate", "token"} \cup AdminOps \cup SaOps => x.arg = req[r].arg /\ x.by = req[r].by,
         x.pc = "mint" => x.op = "generate",
         x.pc = "act" /\ x.op \in AdminOps => HasAdmin
  PROVE  SignInv'
<1>1. req'[r] = x BY DEF SignInv, RequestsOK
<1>2. Earned(r) /\ Invited(r) /\ Guarded(r) /\ session[r] = "none" BY NoSessionYet DEF SignInv
<1>3. Earned(r)'
  <2>1. /\ x.op \in AdminOps => x.arg = req[r].arg
        /\ x.op \in SaOps \cup {"token"} => x.by = req[r].by
    OBVIOUS
  <2>2. req[r].op \in AdminOps => req[r].who \in Principals /\ req[r].arg \in SRoles
    BY <1>2 DEF Earned
  <2> QED BY <1>1, <1>2, <2>1, <2>2 DEF Earned
<1>4. Invited(r)' BY <1>1, <1>2 DEF Invited
<1>5. Guarded(r)'
  <2>1. HasAdmin' = HasAdmin /\ ServiceMayAdminister' = ServiceMayAdminister
    BY DEF HasAdmin, ServiceMayAdminister
  <2> QED BY <1>1, <1>2, <2>1 DEF Guarded
<1> QED BY <1>3, <1>4, <1>5, Quiet

(* A request that goes on to its next statement.                           *)
LEMMA GoIs ==
  ASSUME SignInv, NEW r \in Requests, NEW pc \in SiPcs, Go(r, pc)
  PROVE  \E x \in RequestRecords :
           /\ req' = [req EXCEPT ![r] = x]
           /\ x.pc = pc /\ x.op = req[r].op /\ x.who = req[r].who /\ x.by = req[r].by
           /\ x.id = req[r].id /\ x.arg = req[r].arg /\ x.saw = req[r].saw
<1>1. req[r] \in RequestRecords BY DEF SignInv, RequestsOK
<1> DEFINE x == [req[r] EXCEPT !.pc = pc]
<1>2. x \in RequestRecords BY <1>1 DEF RequestRecords
<1>3. /\ x.pc = pc /\ x.op = req[r].op /\ x.who = req[r].who /\ x.by = req[r].by
      /\ x.id = req[r].id /\ x.arg = req[r].arg /\ x.saw = req[r].saw
  BY <1>1 DEF RequestRecords
<1>4. req' = [req EXCEPT ![r] = x] BY DEF Go
<1> QED BY <1>2, <1>3, <1>4

(* A request that goes on with what it has read.                           *)
LEMMA GoesOn ==
  ASSUME SignInv, NEW r \in Requests, NEW pc \in SiPcs \ {"start", "spend", "write"}, Go(r, pc),
         UNCHANGED <<sduty, row, oidcSub, held, link, session, reader, claimer>>, Unread,
         req[r].pc \notin {"exchange", "done", "failed"},
         pc \in {"freshen", "linkUp", "session", "boot", "role", "exchange"} => Odd(req[r].id),
         pc \in {"callback", "freshen", "byMail", "linkUp", "insert", "session", "boot", "role", "exchange"} =>
           req[r].op \in {"oidc", "federate"},
         pc = "mint" => req[r].op = "generate",
         pc = "act" /\ req[r].op \in AdminOps => HasAdmin
  PROVE  SignInv'
<1>1. PICK x \in RequestRecords :
           /\ req' = [req EXCEPT ![r] = x]
           /\ x.pc = pc /\ x.op = req[r].op /\ x.who = req[r].who /\ x.by = req[r].by
           /\ x.id = req[r].id /\ x.arg = req[r].arg /\ x.saw = req[r].saw
  BY GoIs
<1> QED BY <1>1, Advances

(* The tables nothing relies on keep their type when they are left alone.  *)
LEMMA UnreadKept ==
  ASSUME SignInv, UNCHANGED <<roleRow, disabled, owner, cred, nonce>>
  PROVE  Unread
BY DEF SignInv, SignInTypeOK, Unread

(* The lookup by subject reads an account that exists.                     *)
LEMMA FindBySub ==
  ASSUME SignInv, NEW r \in Requests, req[r].op \in {"oidc", "federate"}, req[r].pc \notin {"exchange", "done", "failed"},
         findBySub(r), UNCHANGED <<sduty, row, oidcSub, held, link, session, reader, claimer>>, Unread
  PROVE  SignInv'
<1>1. CASE req[r].who \notin oidcSub /\ Go(r, "byMail")
  BY <1>1, GoesOn DEF SiPcs
<1>2. CASE /\ req[r].who \in oidcSub
           /\ req' = [req EXCEPT ![r].pc = "freshen", ![r].id = row[req[r].who]]
  <2> DEFINE x == [req[r] EXCEPT !.pc = "freshen", !.id = row[req[r].who]]
  <2>1. req[r] \in RequestRecords /\ req \in [Requests -> RequestRecords] BY DEF SignInv, RequestsOK
  <2>2. row[req[r].who] \in Nat /\ Odd(row[req[r].who])
    BY SMTT(30), <1>2, SignInAssumption DEF SignInv, SignInTypeOK, TablesAgree, Principals
  <2>3. x \in RequestRecords BY <2>1, <2>2 DEF RequestRecords, SiPcs
  <2>4. /\ x.pc = "freshen" /\ x.op = req[r].op /\ x.who = req[r].who /\ x.by = req[r].by
        /\ x.id = row[req[r].who] /\ x.arg = req[r].arg
    BY <2>1 DEF RequestRecords
  <2>5. req' = [req EXCEPT ![r] = x] BY <1>2, <2>1
  <2> HIDE DEF x
  <2> QED BY <2>2, <2>3, <2>4, <2>5, Advances
<1> QED BY <1>1, <1>2 DEF findBySub

(* Sign-in up to the first write.                                          *)
LEMMA ReadsOfSignIn ==
  ASSUME SignInv, NEW r \in Requests, UNCHANGED sduty,
         authorize(r) \/ callback(r) \/ token_exchange(r) \/ freshen(r) \/ findByMail(r)
  PROVE  SignInv'
<1> USE DEF SameUsers, SameRoles, SameTokens, SameLocks
<1>1. Unread BY UnreadKept DEF authorize, callback, token_exchange, freshen, findByMail
<1>2. req[r].pc \in {"start", "callback", "freshen", "byMail", "session"} /\ session[r] = "none"
  BY NoSessionYet DEF authorize, callback, token_exchange, freshen, findByMail
<1>3. Earned(r) BY DEF SignInv
<1>4. UNCHANGED <<sduty, row, oidcSub, held, link, session, reader, claimer>>
  BY DEF authorize, callback, token_exchange, freshen, findByMail
<1>5. CASE authorize(r)
  BY <1>1, <1>2, <1>4, <1>5, GoesOn DEF authorize, SiPcs
<1>6. CASE callback(r)
  <2>1. req[r].op \in {"oidc", "federate"} BY <1>3, <1>6 DEF callback, Earned
  <2>2. CASE Fail(r) BY <1>1, <1>4, <2>2, Finishes DEF Fail
  <2>3. CASE findBySub(r) BY <1>1, <1>2, <1>4, <2>1, <2>3, FindBySub
  <2> QED BY <1>6, <2>2, <2>3 DEF callback
<1>7. CASE token_exchange(r)
  <2>1. CASE findBySub(r) BY <1>1, <1>2, <1>4, <1>7, <2>1, FindBySub DEF token_exchange
  <2>2. CASE Done(r) BY <1>1, <1>4, <2>2, Finishes DEF Done
  <2> QED BY <1>7, <2>1, <2>2 DEF token_exchange
<1>8. CASE findByMail(r)
  <2>1. req[r].op \in {"oidc", "federate"} /\ req[r].who \in Humans BY <1>3, <1>8 DEF findByMail, Earned
  <2>2. CASE Go(r, "insert") BY <1>1, <1>2, <1>4, <2>1, <2>2, GoesOn DEF SiPcs
  <2>3. CASE /\ Present(req[r].who)
             /\ req' = [req EXCEPT ![r].pc = "linkUp", ![r].id = row[req[r].who]]
    <3> DEFINE x == [req[r] EXCEPT !.pc = "linkUp", !.id = row[req[r].who]]
    <3>1. req[r] \in RequestRecords /\ req \in [Requests -> RequestRecords] BY DEF SignInv, RequestsOK
    <3>2. row[req[r].who] \in Nat BY SMTT(30), <2>1, SignInAssumption DEF SignInv, SignInTypeOK, Principals
    <3>3. Odd(row[req[r].who]) BY <2>3 DEF Present, Odd
    <3>4. x \in RequestRecords BY <3>1, <3>2 DEF RequestRecords, SiPcs
    <3>5. /\ x.pc = "linkUp" /\ x.op = req[r].op /\ x.who = req[r].who /\ x.by = req[r].by
          /\ x.id = row[req[r].who] /\ x.arg = req[r].arg
      BY <3>1 DEF RequestRecords
    <3>6. req' = [req EXCEPT ![r] = x] BY <2>3, <3>1
    <3> HIDE DEF x
    <3> QED BY <1>1, <1>2, <1>4, <2>1, <3>3, <3>4, <3>5, <3>6, Advances
  <2> QED BY <1>8, <2>2, <2>3 DEF findByMail
<1>9. CASE freshen(r)
  <2>1. req[r].op \in {"oidc", "federate"} /\ Odd(req[r].id) BY <1>3, <1>9 DEF freshen, Earned
  <2>2. CASE Fail(r) BY <1>1, <1>4, <2>2, Finishes DEF Fail
  <2>3. CASE Go(r, "session") BY <1>1, <1>2, <1>4, <2>1, <2>3, GoesOn DEF SiPcs
  <2> QED BY <1>9, <2>2, <2>3 DEF freshen
<1> QED BY <1>5, <1>6, <1>7, <1>8, <1>9

(* A request begins with nothing read.                                     *)
LEMMA Starts ==
  ASSUME SignInv, NEW r \in Requests, Start(r)
  PROVE  SignInv'
<1>1. session[r] = "none" BY NoSessionYet DEF Start
<1>2. PICK op \in sduty.ops[r] :
       \/ /\ op \in {"oidc", "federate"}
          /\ \E h \in Humans, c \in {"none", "lead"} : Begin(r, op, h, Nobody, c)
       \/ /\ op = "generate"
          /\ \E p \in Principals, i \in Humans, a \in {"none", "lead"} :
                principal_enabled(i) /\ Begin(r, op, p, i, a)
       \/ op = "consume" /\ link.st # "none" /\ Begin(r, op, link.mail, Nobody, "none")
       \/ /\ op \in {"refresh", "logout"}
          /\ \E k \in Requests : session[k] # "none" /\ Begin(r, op, req[k].who, k, "none")
       \/ /\ op \in AdminOps
          /\ \E p \in Principals, h \in Humans, a \in {"admin", "lead"} :
                /\ principal_enabled(h)
                /\ op \in {"dropUser", "dropRole", "makeRole"} => a = "lead"
                /\ op \in {"dropRole", "makeRole"} => p = h
                /\ Begin(r, op, p, h, a)
       \/ /\ op \in SaOps
          /\ \E s \in Services, p \in Principals :
                principal_enabled(p) /\ Begin(r, op, s, p, "none")
       \/ /\ op = "token"
          /\ \E s \in Services : Begin(r, op, s, Nobody, "none")
  BY DEF Start
<1>3. op \in SiOperations BY <1>2 DEF SiOperations
<1>4. link.st # "none" => link.mail \in Principals BY DEF SignInv, TablesAgree
<1>5. \A k \in Requests : req[k].who \in Principals \cup {Nobody}
  BY DEF SignInv, RequestsOK, RequestRecords
<1>6. \E who \in Principals \cup {Nobody}, by \in Principals \cup Requests \cup {Nobody},
         arg \in SRoles \cup {"none"} :
        /\ Begin(r, op, who, by, arg)
        /\ op \in {"oidc", "federate"} => who \in Humans
        /\ op \in {"consume", "generate"} => who \in Principals
        /\ op = "generate" => arg \in {"none", "lead"} /\ by \in Humans
        /\ op = "logout" => by \in Requests /\ session[by] # "none"
        /\ op \in SaOps \cup {"token"} => who \in Services /\ by \in Principals \cup {Nobody}
        /\ op \in AdminOps => who \in Principals /\ arg \in SRoles
  <2>1. CASE op \in {"oidc", "federate"} BY <1>2, <2>1 DEF Principals, SRoles, AdminOps, SaOps
  <2>2. CASE op = "generate" BY <1>2, <2>2 DEF Principals, SRoles, AdminOps, SaOps
  <2>3. CASE op = "consume" BY <1>2, <1>4, <2>3 DEF Principals, SRoles, AdminOps, SaOps
  <2>4. CASE op \in {"refresh", "logout"}
    <3>1. PICK k \in Requests : session[k] # "none" /\ Begin(r, op, req[k].who, k, "none")
      BY <1>2, <2>4 DEF AdminOps, SaOps
    <3> QED BY <1>5, <2>4, <3>1 DEF AdminOps, SaOps
  <2>5. CASE op \in AdminOps
    <3>1. PICK p \in Principals, h \in Humans, a \in {"admin", "lead"} : Begin(r, op, p, h, a)
      BY <1>2, <2>5 DEF AdminOps, SaOps
    <3> QED BY <2>5, <3>1 DEF Principals, SRoles, AdminOps, SaOps
  <2>6. CASE op \in SaOps
    <3>1. PICK s \in Services, p \in Principals : Begin(r, op, s, p, "none")
      BY <1>2, <2>6 DEF AdminOps, SaOps
    <3> QED BY <2>6, <3>1 DEF Principals, AdminOps, SaOps
  <2>7. CASE op = "token" BY <1>2, <2>7 DEF Principals, AdminOps, SaOps
  <2> QED BY <1>3, <1>2, <2>1, <2>2, <2>3, <2>4, <2>5, <2>6, <2>7
<1>7. PICK who \in Principals \cup {Nobody}, by \in Principals \cup Requests \cup {Nobody},
         arg \in SRoles \cup {"none"} :
        /\ Begin(r, op, who, by, arg)
        /\ op \in {"oidc", "federate"} => who \in Humans
        /\ op \in {"consume", "generate"} => who \in Principals
        /\ op = "generate" => arg \in {"none", "lead"} /\ by \in Humans
        /\ op = "logout" => by \in Requests /\ session[by] # "none"
        /\ op \in SaOps \cup {"token"} => who \in Services /\ by \in Principals \cup {Nobody}
        /\ op \in AdminOps => who \in Principals /\ arg \in SRoles
  BY <1>6
<1> DEFINE x == [Idle EXCEPT !.op = op, !.pc = "start", !.who = who, !.by = by, !.arg = arg,
                             !.early = op \in {"oidc", "federate"} /\ HasAdmin]
<1>8. /\ x.op = op /\ x.pc = "start" /\ x.who = who /\ x.by = by /\ x.arg = arg
      /\ x \in RequestRecords
  BY <1>3 DEF Idle, RequestRecords, SiPcs
<1>9. req' = [req EXCEPT ![r] = x] BY <1>7 DEF Begin
<1> HIDE DEF x
<1>10. req'[r] = x BY <1>9 DEF SignInv, RequestsOK
<1>11. UNCHANGED <<sduty, row, oidcSub, held, link, session, reader, claimer>>
  BY <1>7 DEF Begin
<1>12. Unread BY <1>7, UnreadKept DEF Begin
<1>13. Earned(r)' BY <1>1, <1>7, <1>8, <1>10, <1>11 DEF Earned
<1>14. Invited(r)' BY <1>1, <1>7, <1>8, <1>10, <1>11 DEF Invited
<1>15. Guarded(r)' BY <1>2, <1>8, <1>10, <1>11 DEF Guarded
<1> QED BY <1>1, <1>8, <1>9, <1>11, <1>12, <1>13, <1>14, <1>15, Quiet

(* Only the admin role carries "*".                                        *)
LEMMA AdminIsHeld ==
  ASSUME SignInv, NEW p, require_admin(p)
  PROVE  HasAdmin
<1>1. PICK role \in roleRow : <<p, role>> \in held /\ RolePerms(role) \cap {"*", "*"} # {}
  BY DEF require_admin, May
<1>2. role \in SRoles /\ p \in Principals BY <1>1 DEF SignInv, SignInTypeOK
<1>3. role = "admin" BY <1>1, <1>2 DEF RolePerms, SRoles
<1> QED BY <1>1, <1>2, <1>3 DEF HasAdmin

(* The checks: permission first, then the statement that acts.             *)
LEMMA Checks ==
  ASSUME SignInv, NEW r \in Requests, UNCHANGED sduty,
         generate(r) \/ refresh(r) \/ adminCheck(r) \/ saCheck(r)
  PROVE  SignInv'
<1> USE DEF SameUsers, SameRoles, SameTokens, SameLocks
<1>1. Unread BY UnreadKept DEF generate, refresh, adminCheck, saCheck
<1>2. req[r].pc \in {"start", "mail"} /\ session[r] = "none"
  BY NoSessionYet DEF generate, refresh, adminCheck, saCheck
<1>3. UNCHANGED <<sduty, row, oidcSub, held, link, session, reader, claimer>>
  BY DEF generate, refresh, adminCheck, saCheck
<1>4. CASE Done(r) \/ Fail(r) BY <1>1, <1>3, <1>4, Finishes DEF Done, Fail
<1>5. CASE generate(r) /\ Go(r, "mint") BY <1>1, <1>2, <1>3, <1>5, GoesOn DEF generate, SiPcs
<1>6. CASE refresh(r) /\ Go(r, "mail") BY <1>1, <1>2, <1>3, <1>6, GoesOn DEF SiPcs
<1>7. CASE adminCheck(r) /\ Go(r, "act") /\ require_admin(req[r].by)
  BY <1>1, <1>2, <1>3, <1>7, GoesOn, AdminIsHeld DEF SiPcs
<1>8. CASE saCheck(r) /\ Go(r, "act")
  <2>1. req[r].op \notin AdminOps BY <1>8 DEF saCheck, SaOps, AdminOps
  <2> QED BY <1>1, <1>2, <1>3, <1>8, <2>1, GoesOn DEF SiPcs
<1>9. generate(r) => Go(r, "mint") \/ Fail(r) BY DEF generate
<1>10. refresh(r) => Go(r, "mail") \/ Fail(r) \/ Done(r) BY DEF refresh
<1>11. adminCheck(r) => (Go(r, "act") /\ require_admin(req[r].by)) \/ Fail(r) BY DEF adminCheck
<1>12. saCheck(r) => Go(r, "act") \/ Fail(r) BY DEF saCheck
<1> QED BY <1>4, <1>5, <1>6, <1>7, <1>8, <1>9, <1>10, <1>11, <1>12

(* firstBoot keeps the id it was given and reads the assignments.          *)
LEMMA ReadsOfRegistration ==
  ASSUME SignInv, NEW r \in Requests, UNCHANGED sduty, firstBoot(r)
  PROVE  SignInv'
<1> USE DEF SameUsers, SameRoles, SameTokens, SameLocks
<1> DEFINE a == IF req[r].arg \in roleRow THEN req[r].arg ELSE "none"
           x == [req[r] EXCEPT !.pc = "role", !.saw = is_first_boot, !.arg = a]
<1>1. req[r] \in RequestRecords /\ req \in [Requests -> RequestRecords] BY DEF SignInv, RequestsOK
<1>2. Unread BY UnreadKept DEF firstBoot
<1>3. req[r].pc = "boot" /\ session[r] = "none" BY NoSessionYet DEF firstBoot
<1>4. req[r].op \in {"oidc", "federate"} /\ Odd(req[r].id) BY <1>3 DEF SignInv, Earned
<1>5. a \in SRoles \cup {"none"} BY <1>1 DEF RequestRecords
<1> HIDE DEF a
<1>6. x \in RequestRecords
  <2>1. is_first_boot \in BOOLEAN BY DEF is_first_boot
  <2> QED BY <1>1, <1>5, <2>1 DEF RequestRecords, SiPcs
<1>7. x.pc = "role" /\ x.op = req[r].op /\ x.who = req[r].who /\ x.id = req[r].id
  BY <1>1 DEF RequestRecords
<1>8. req' = [req EXCEPT ![r] = x] BY <1>1 DEF firstBoot, a
<1>9. UNCHANGED <<sduty, row, oidcSub, held, link, session, reader, claimer>> BY DEF firstBoot
<1> HIDE DEF x
<1> QED BY <1>2, <1>3, <1>4, <1>6, <1>7, <1>8, <1>9, Advances DEF AdminOps, SaOps

(* issue_token reads the account and then its credentials.                 *)
LEMMA ReadsOfTokens ==
  ASSUME SignInv, NEW r \in Requests, UNCHANGED sduty, issue_token(r)
  PROVE  SignInv'
<1> USE DEF SameUsers, SameRoles, SameTokens, SameLocks
<1>1. Unread BY UnreadKept DEF issue_token
<1>2. req[r].op = "token" /\ req[r].pc \in {"start", "match"} /\ session[r] = "none"
  BY NoSessionYet DEF issue_token
<1>3. UNCHANGED <<sduty, row, oidcSub, held, link, session, reader, claimer>> BY DEF issue_token
<1>4. CASE Done(r) \/ Fail(r) BY <1>1, <1>3, <1>4, Finishes DEF Done, Fail
<1>5. CASE req' = [req EXCEPT ![r].pc = "match", ![r].id = row[req[r].who]]
  <2> DEFINE x == [req[r] EXCEPT !.pc = "match", !.id = row[req[r].who]]
  <2>1. req[r] \in RequestRecords /\ req \in [Requests -> RequestRecords] BY DEF SignInv, RequestsOK
  <2>2. req[r].who \in Principals BY <1>2 DEF SignInv, Earned, Principals
  <2>3. row[req[r].who] \in Nat BY SMTT(30), <2>2, SignInAssumption DEF SignInv, SignInTypeOK
  <2>4. x \in RequestRecords BY <2>1, <2>3 DEF RequestRecords, SiPcs
  <2>5. /\ x.pc = "match" /\ x.op = req[r].op /\ x.who = req[r].who
        /\ x.by = req[r].by /\ x.arg = req[r].arg
    BY <2>1 DEF RequestRecords
  <2>6. req' = [req EXCEPT ![r] = x] BY <1>5, <2>1
  <2> HIDE DEF x
  <2> QED BY <1>1, <1>2, <1>3, <2>4, <2>5, <2>6, Advances DEF AdminOps
<1> QED BY <1>4, <1>5 DEF issue_token

(* Writes to tables no request relies on: a role made, an owner named, an  *)
(* account switched off, a credential, a nonce spent.                      *)
LEMMA QuietWrites ==
  ASSUME SignInv, NEW r \in Requests, UNCHANGED sduty,
         \/ create_role(r) \/ transfer_ownership(r) \/ set_disabled(r) \/ credential(r)
         \/ nonce_exchange(r)
  PROVE  SignInv'
<1> USE DEF SameUsers, SameRoles, SameTokens, SameLocks
<1>1. UNCHANGED <<sduty, row, oidcSub, held, link, session, reader, claimer>>
  BY DEF create_role, transfer_ownership, set_disabled, credential, nonce_exchange
<1>2. Done(r) \/ Fail(r)
  BY DEF create_role, transfer_ownership, set_disabled, credential, nonce_exchange
<1>3. req[r].op \in SaOps => req[r].who \in Services BY DEF SignInv, Earned
<1>4. /\ roleRow \subseteq SRoles /\ disabled \subseteq Services
      /\ owner \in [Services -> Principals \cup {Nobody}]
      /\ cred \in [Services -> {"none", "live", "revoked"}]
      /\ nonce \in [Requests -> {"none", "live"}]
  BY DEF SignInv, SignInTypeOK
<1>5. Unread
  <2>1. CASE create_role(r) BY <1>4, <2>1 DEF create_role, Unread, SRoles
  <2>2. CASE transfer_ownership(r)
    <3>1. CASE UNCHANGED owner BY <1>4, <2>2, <3>1 DEF transfer_ownership, Unread
    <3>2. CASE \E h \in Principals : owner' = [owner EXCEPT ![req[r].who] = h]
      BY <1>4, <2>2, <3>2 DEF transfer_ownership, Unread
    <3> QED BY <2>2, <3>1, <3>2 DEF transfer_ownership
  <2>3. CASE set_disabled(r) BY <1>3, <1>4, <2>3 DEF set_disabled, Unread, SaOps
  <2>4. CASE credential(r) BY <1>4, <2>4 DEF credential, Unread
  <2>5. CASE nonce_exchange(r) BY <1>4, <2>5 DEF nonce_exchange, Unread
  <2> QED BY <2>1, <2>2, <2>3, <2>4, <2>5
<1> QED BY <1>1, <1>2, <1>5, Finishes DEF Done, Fail

-----------------------------------------------------------------------------
(***************************************************************************)
(* Steps that write.                                                       *)
(***************************************************************************)
(* What a write may do to a session, to the invitation and to the locks    *)
(* that other requests rely on.                                            *)
LeavesOthers(r) ==
  /\ \A k \in Requests \ {r} :
       /\ session'[k] = "none" <=> session[k] = "none"
       /\ session'[k] = "live" => session[k] = "live" /\ row'[req[k].who] = row[req[k].who]
       /\ req[k].pc = "spend" => claimer' = claimer /\ link'.st = link.st
       /\ req[k].pc = "write" => reader' = reader
       /\ ~ServiceMayAdminister /\ req[k].pc = "write" =>
            \A p \in Principals : <<p, "admin">> \in held => <<p, "admin">> \in held'
  /\ session[r] # "none" => session'[r] # "none"
  /\ link.st = "spent" => link'.st = "spent"
  /\ ~ServiceMayAdminister => (HasAdmin => HasAdmin')

(* A write by one request that leaves the others what they rely on.        *)
LEMMA Writes ==
  ASSUME SignInv, NEW r \in Requests, \E x \in RequestRecords : req' = [req EXCEPT ![r] = x],
         sduty' = sduty, LeavesOthers(r),
         SignInTypeOK', link' \in LinkRecords, TablesAgree', OneAcceptance',
         Earned(r)', Invited(r)', Guarded(r)'
  PROVE  SignInv'
<1>1. req \in [Requests -> RequestRecords] BY DEF SignInv, RequestsOK
<1>2. req' \in [Requests -> RequestRecords] /\ \A k \in Requests \ {r} : req'[k] = req[k] BY <1>1
<1>3. RequestsOK' BY <1>2 DEF RequestsOK
<1>4. \A j \in Requests : session[j] # "none" => session'[j] # "none" BY DEF LeavesOthers
<1>5. ASSUME NEW k \in Requests \ {r} PROVE Earned(k)' /\ Invited(k)' /\ Guarded(k)'
  <2>1. Earned(k) /\ Invited(k) /\ Guarded(k) BY DEF SignInv
  <2>2. Earned(k)' BY <1>2, <1>4, <2>1, OthersEarned DEF LeavesOthers
  <2>3. Invited(k)' BY <1>2, <2>1, OthersInvited DEF LeavesOthers
  <2>4. Guarded(k)' BY <1>2, <2>1, OthersGuarded DEF LeavesOthers
  <2> QED BY <2>2, <2>3, <2>4
<1> QED BY <1>3, <1>5 DEF SignInv

(* A live session is of an account that exists.                            *)
LEMMA LiveSession ==
  ASSUME SignInv, NEW k \in Requests, session[k] = "live"
  PROVE  req[k].who \in Principals /\ row[req[k].who] = req[k].id /\ Odd(row[req[k].who])
BY DEF SignInv, Earned, Principals

(* linkUp binds the provider to an account that exists.                    *)
LEMMA LinksUp ==
  ASSUME SignInv, NEW r \in Requests, UNCHANGED sduty, linkUp(r)
  PROVE  SignInv'
<1> USE DEF SameUsers, SameRoles, SameTokens, SameLocks
<1>1. Earned(r) /\ Invited(r) /\ Guarded(r) BY DEF SignInv
<1>2. /\ req[r].pc = "linkUp" /\ session[r] = "none" /\ Odd(req[r].id)
      /\ req[r].op \in {"oidc", "federate"} /\ req[r].who \in Humans
  BY <1>1, NoSessionYet DEF linkUp, Earned
<1>3. PICK x \in RequestRecords :
           /\ req' = [req EXCEPT ![r] = x]
           /\ x.pc = "session" /\ x.op = req[r].op /\ x.who = req[r].who /\ x.by = req[r].by
           /\ x.id = req[r].id /\ x.arg = req[r].arg /\ x.saw = req[r].saw
  BY SMTT(30), GoIs DEF linkUp, SiPcs
<1>4. req'[r] = x BY <1>3 DEF SignInv, RequestsOK
<1>5. UNCHANGED <<sduty, row, held, link, session, reader, claimer, roleRow, disabled, owner, cred, nonce>>
  BY DEF linkUp
<1>6. LeavesOthers(r) BY <1>5 DEF LeavesOthers, HasAdmin
<1>7. SignInTypeOK' BY <1>2, <1>5 DEF linkUp, SignInv, SignInTypeOK
<1>8. TablesAgree' BY <1>2, <1>5 DEF linkUp, SignInv, TablesAgree
<1>9. OneAcceptance' BY SMTT(30), <1>3, <1>5, <1>4 DEF SignInv, RequestsOK, OneAcceptance
<1>10. Earned(r)' BY <1>2, <1>3, <1>4, <1>5 DEF Earned, AdminOps, SaOps
<1>11. Invited(r)' BY <1>2, <1>3, <1>4 DEF Invited
<1>12. Guarded(r)' BY <1>1, <1>2, <1>3, <1>4, <1>5 DEF Guarded, AdminOps
<1>13. link' \in LinkRecords BY <1>5 DEF SignInv, RequestsOK
<1> QED BY <1>3, <1>6, <1>7, <1>8, <1>9, <1>10, <1>11, <1>12, <1>13, Writes

(* register inserts a row where there was none, so no session is of it.    *)
LEMMA Registers ==
  ASSUME SignInv, NEW r \in Requests, UNCHANGED sduty, register(r)
  PROVE  SignInv'
<1> USE DEF SameUsers, SameRoles, SameTokens, SameLocks
<1>1. Earned(r) /\ Invited(r) /\ Guarded(r) BY DEF SignInv
<1>2. /\ req[r].pc = "insert" /\ session[r] = "none"
      /\ req[r].op \in {"oidc", "federate"} /\ req[r].who \in Humans
  BY <1>1, NoSessionYet DEF register, Earned
<1>3. UNCHANGED <<sduty, held, link, session, reader, claimer, roleRow, disabled, owner, cred, nonce>>
  BY DEF register
<1>4. CASE Fail(r) /\ UNCHANGED <<row, oidcSub>>
  BY <1>3, <1>4, UnreadKept, Finishes DEF Fail
<1>5. CASE /\ ~Present(req[r].who) /\ row[req[r].who] < MaxRow
           /\ row' = [row EXCEPT ![req[r].who] = @ + 1]
           /\ oidcSub' = oidcSub \cup {req[r].who}
           /\ req' = [req EXCEPT ![r].pc = "boot", ![r].id = row[req[r].who] + 1]
  <2> DEFINE h == req[r].who
             x == [req[r] EXCEPT !.pc = "boot", !.id = row[h] + 1]
  <2>1. req[r] \in RequestRecords /\ req \in [Requests -> RequestRecords] BY DEF SignInv, RequestsOK
  <2>2. h \in Principals /\ row \in [Principals -> 0..MaxRow] /\ row[h] \in Nat
    BY SMTT(30), <1>2, SignInAssumption DEF SignInv, SignInTypeOK, Principals
  <2>3. ~Odd(row[h]) BY <1>5 DEF Present, Odd
  <2>4. Odd(row[h] + 1) BY <2>2, <2>3, OddNext
  <2>5. row[h] + 1 \in 0..MaxRow BY SMTT(30), <1>5, <2>2, SignInAssumption
  <2>6. row'[h] = row[h] + 1 /\ row' \in [Principals -> 0..MaxRow] /\ \A p \in Principals \ {h} : row'[p] = row[p]
    BY <1>5, <2>2, <2>5
  <2>7. x \in RequestRecords
    <3>1. row[h] + 1 \in Nat BY SMTT(30), <2>2
    <3> HIDE DEF h
    <3> QED BY <2>1, <3>1 DEF RequestRecords, SiPcs
  <2>8. /\ x.pc = "boot" /\ x.op = req[r].op /\ x.who = h /\ x.by = req[r].by /\ x.arg = req[r].arg
        /\ x.id = row[h] + 1
    BY <2>1 DEF RequestRecords
  <2>9. req' = [req EXCEPT ![r] = x] BY <1>5, <2>1
  <2> HIDE DEF x
  <2>10. req'[r] = x /\ \A k \in Requests \ {r} : req'[k] = req[k] BY <2>1, <2>9
  <2>11. LeavesOthers(r)
    <3>1. ASSUME NEW k \in Requests, session[k] = "live" PROVE row'[req[k].who] = row[req[k].who]
      BY <2>3, <2>6, <3>1, LiveSession DEF Principals
    <3> QED BY <1>3, <3>1 DEF LeavesOthers, HasAdmin
  <2>12. SignInTypeOK' BY <1>2, <1>3, <1>5, <2>6 DEF SignInv, SignInTypeOK
  <2>13. TablesAgree'
    <3>1. \A p \in Principals : Odd(row[p]) => Odd(row'[p]) BY <2>3, <2>6
    <3>2. \A p \in oidcSub' : Odd(row'[p])
      BY <1>5, <2>4, <2>6, <3>1 DEF SignInv, SignInTypeOK, TablesAgree, Principals
    <3> QED BY <1>3, <3>1, <3>2 DEF SignInv, TablesAgree
  <2>14. OneAcceptance' BY SMTT(30), <1>2, <1>3, <2>10 DEF SignInv, OneAcceptance
  <2>15. Earned(r)' BY <1>2, <1>3, <2>4, <2>8, <2>10 DEF Earned, AdminOps, SaOps
  <2>16. Invited(r)' BY <1>2, <2>8, <2>10 DEF Invited
  <2>17. Guarded(r)' BY <1>1, <1>2, <1>3, <2>8, <2>10 DEF Guarded, AdminOps
  <2>18. link' \in LinkRecords BY <1>3 DEF SignInv, RequestsOK
  <2> QED BY <2>7, <2>9, <2>11, <2>12, <2>13, <2>14, <2>15, <2>16, <2>17, <2>18, Writes
<1> QED BY <1>4, <1>5 DEF register

(* giveRole assigns to the account the request read, if it still exists.   *)
LEMMA GivesRole ==
  ASSUME SignInv, NEW r \in Requests, UNCHANGED sduty, giveRole(r)
  PROVE  SignInv'
<1> USE DEF SameUsers, SameRoles, SameTokens, SameLocks
<1>1. Earned(r) /\ Invited(r) /\ Guarded(r) BY DEF SignInv
<1>2. /\ req[r].pc = "role" /\ session[r] = "none" /\ Odd(req[r].id)
      /\ req[r].op \in {"oidc", "federate"} /\ req[r].who \in Humans
  BY <1>1, NoSessionYet DEF giveRole, Earned
<1>3. UNCHANGED <<sduty, row, oidcSub, link, session, reader, claimer, roleRow, disabled, owner, cred, nonce>>
  BY DEF giveRole
<1>4. CASE Fail(r) /\ UNCHANGED held
  BY <1>3, <1>4, UnreadKept, Finishes DEF Fail
<1>5. CASE /\ row[req[r].who] = req[r].id
           /\ held' = held \cup {<<req[r].who, pick_initial_role(req[r])>>}
           /\ Go(r, "session")
  <2>1. PICK x \in RequestRecords :
             /\ req' = [req EXCEPT ![r] = x]
             /\ x.pc = "session" /\ x.op = req[r].op /\ x.who = req[r].who /\ x.by = req[r].by
             /\ x.id = req[r].id /\ x.arg = req[r].arg /\ x.saw = req[r].saw
    BY SMTT(30), <1>5, GoIs DEF SiPcs
  <2>2. req'[r] = x /\ \A k \in Requests \ {r} : req'[k] = req[k] BY <2>1 DEF SignInv, RequestsOK
  <2>3. pick_initial_role(req[r]) \in SRoles
    BY DEF SignInv, RequestsOK, RequestRecords, pick_initial_role, SRoles
  <2>4. req[r].who \in Principals /\ req[r].who \notin Services BY <1>2, SignInAssumption DEF Principals
  <2>5. held' \subseteq Principals \X SRoles /\ held \subseteq held'
    BY SMTT(30), <1>5, <2>3, <2>4 DEF SignInv, SignInTypeOK
  <2>6. LeavesOthers(r) BY <1>3, <2>5 DEF LeavesOthers, HasAdmin
  <2>7. SignInTypeOK' BY <1>3, <2>5 DEF SignInv, SignInTypeOK
  <2>8. TablesAgree' BY <1>2, <1>3, <1>5, <2>4 DEF SignInv, TablesAgree
  <2>9. OneAcceptance' BY SMTT(30), <1>3, <2>1, <2>2 DEF SignInv, OneAcceptance
  <2>10. Earned(r)' BY <1>2, <1>3, <2>1, <2>2 DEF Earned, AdminOps, SaOps
  <2>11. Invited(r)' BY <1>2, <2>1, <2>2 DEF Invited
  <2>12. Guarded(r)' BY <1>1, <1>2, <1>3, <2>1, <2>2 DEF Guarded, AdminOps
  <2>13. link' \in LinkRecords BY <1>3 DEF SignInv, RequestsOK
  <2> QED BY <2>1, <2>6, <2>7, <2>8, <2>9, <2>10, <2>11, <2>12, <2>13, Writes
<1> QED BY <1>4, <1>5 DEF giveRole

(* A request that ends with a write keeps the invariant if the write does. *)
LEMMA EndsWriting ==
  ASSUME SignInv, NEW r \in Requests, NEW pc \in {"done", "failed"}, Over(r, pc), sduty' = sduty,
         session[r] = "none", session'[r] = "none", LeavesOthers(r),
         SignInTypeOK', link' \in LinkRecords, TablesAgree'
  PROVE  SignInv'
<1>1. /\ \E x \in RequestRecords : req' = [req EXCEPT ![r] = x]
      /\ req'[r].op \in {req[r].op, "idle"}
      /\ Earned(r)' /\ Invited(r)' /\ Guarded(r)'
  BY OverInOrder
<1>2. \A k \in Requests \ {r} : req'[k] = req[k] BY <1>1 DEF SignInv, RequestsOK
<1>3. OneAcceptance' BY SMTT(30), <1>2 DEF SignInv, OneAcceptance, LeavesOthers
<1> QED BY <1>1, <1>3, Writes

(* The session is of the account the request read, which still exists.     *)
LEMMA OpensSession ==
  ASSUME SignInv, NEW r \in Requests, UNCHANGED sduty, openSession(r)
  PROVE  SignInv'
<1> USE DEF SameUsers, SameRoles, SameTokens, SameLocks
<1>1. Earned(r) /\ Invited(r) /\ Guarded(r) BY DEF SignInv
<1>2. /\ req[r].pc = "session" /\ session[r] = "none" /\ Odd(req[r].id)
      /\ req[r].op = "oidc" /\ req[r].who \in Humans
  BY <1>1, NoSessionYet DEF openSession, Earned
<1>3. UNCHANGED <<sduty, row, oidcSub, held, link, reader, claimer, roleRow, disabled, owner, cred>>
  BY DEF openSession
<1>4. CASE Fail(r) /\ UNCHANGED <<session, nonce>>
  BY <1>3, <1>4, UnreadKept, Finishes DEF Fail
<1>5. CASE /\ row[req[r].who] = req[r].id
           /\ session' = [session EXCEPT ![r] = "live"]
           /\ deliverTokens(r)
  <2>1. session'[r] = "live" /\ (\A k \in Requests \ {r} : session'[k] = session[k])
        /\ session' \in [Requests -> {"none", "live", "gone"}]
    BY <1>5 DEF SignInv, SignInTypeOK
  <2>2. \E x \in RequestRecords :
          /\ req' = [req EXCEPT ![r] = x]
          /\ x.pc \in {"exchange", "done"} /\ x.op = "oidc" /\ x.who = req[r].who /\ x.id = req[r].id
    <3>1. CASE Go(r, "exchange") BY SMTT(30), <1>2, <3>1, GoIs DEF SiPcs
    <3>2. CASE Done(r) BY SMTT(30), <1>2, <3>2, OverIs DEF Done
    <3> QED BY <1>5, <3>1, <3>2 DEF deliverTokens
  <2>3. PICK x \in RequestRecords :
          /\ req' = [req EXCEPT ![r] = x]
          /\ x.pc \in {"exchange", "done"} /\ x.op = "oidc" /\ x.who = req[r].who /\ x.id = req[r].id
    BY <2>2
  <2>4. req'[r] = x /\ \A k \in Requests \ {r} : req'[k] = req[k] BY <2>3 DEF SignInv, RequestsOK
  <2>5. LeavesOthers(r) BY <1>3, <2>1 DEF LeavesOthers, HasAdmin
  <2>6. SignInTypeOK'
    <3>1. nonce' \in [Requests -> {"none", "live"}]
      BY <1>5 DEF deliverTokens, SignInv, SignInTypeOK
    <3> QED BY <1>3, <2>1, <3>1 DEF SignInv, SignInTypeOK
  <2>7. TablesAgree' BY <1>3 DEF SignInv, TablesAgree
  <2>8. OneAcceptance' BY SMTT(30), <2>1, <2>3, <2>4 DEF SignInv, OneAcceptance
  <2>9. Earned(r)' BY SMTT(30), <1>2, <1>3, <1>5, <2>1, <2>3, <2>4 DEF Earned, AdminOps, SaOps
  <2>10. Invited(r)' BY <2>3, <2>4 DEF Invited
  <2>11. Guarded(r)' BY <1>1, <1>2, <1>3, <2>3, <2>4 DEF Guarded, AdminOps
  <2>12. link' \in LinkRecords BY <1>3 DEF SignInv, RequestsOK
  <2> QED BY <2>3, <2>5, <2>6, <2>7, <2>8, <2>9, <2>10, <2>11, <2>12, Writes
<1> QED BY <1>4, <1>5 DEF openSession

(* A holder of the invitation's row lock, and of the admin rows' locks, is *)
(* the only one.                                                           *)
LEMMA LocksExclude ==
  ASSUME SignInv, NEW k \in Requests
  PROVE  /\ req[k].pc = "spend" => claimer = k /\ claimer # Nobody /\ link.st = "live"
         /\ req[k].pc = "write" => reader = k /\ reader # Nobody
BY SMTT(30), SignInAssumption DEF SignInv, Invited, Guarded, Nobody

(* mintLink writes the one invitation there is.                            *)
LEMMA MintsLink ==
  ASSUME SignInv, NEW r \in Requests, UNCHANGED sduty, mintLink(r)
  PROVE  SignInv'
<1> USE DEF SameUsers, SameRoles, SameTokens, SameLocks
<1>1. Earned(r) /\ Invited(r) BY DEF SignInv
<1>2. /\ req[r].pc = "mint" /\ session[r] = "none" /\ req[r].op = "generate"
      /\ req[r].who \in Principals /\ req[r].arg \in {"none", "lead"} /\ req[r].by \in Humans \cup {Nobody}
  BY <1>1, NoSessionYet DEF mintLink, Earned, Invited
<1>3. UNCHANGED <<sduty, row, oidcSub, held, session, reader, claimer, roleRow, disabled, owner, cred, nonce>>
  BY DEF mintLink
<1>4. CASE Fail(r) /\ UNCHANGED link
  BY <1>3, <1>4, UnreadKept, Finishes DEF Fail
<1>5. CASE /\ link.st = "none" /\ Done(r)
           /\ link' = [st |-> "live", mail |-> req[r].who, role |-> req[r].arg, by |-> req[r].by]
  <2>1. link' \in LinkRecords /\ link'.st = "live" /\ link'.mail \in Principals
    BY <1>2, <1>5 DEF LinkRecords
  <2>2. LeavesOthers(r) BY <1>3, <1>5, LocksExclude DEF LeavesOthers, HasAdmin
  <2>3. SignInTypeOK' BY <1>3, <2>1 DEF SignInv, SignInTypeOK
  <2>4. TablesAgree' BY <1>3, <2>1 DEF SignInv, TablesAgree
  <2> QED BY <1>2, <1>3, <1>5, <2>1, <2>2, <2>3, <2>4, EndsWriting DEF Done
<1> QED BY <1>4, <1>5 DEF mintLink

(* The UPDATE that claims the invitation takes its row lock.               *)
LEMMA ClaimsLink ==
  ASSUME SignInv, NEW r \in Requests, UNCHANGED sduty, consumeClaim(r)
  PROVE  SignInv'
<1> USE DEF SameUsers, SameRoles, SameTokens, SameLocks
<1>1. Earned(r) /\ Invited(r) /\ Guarded(r) BY DEF SignInv
<1>2. /\ req[r].pc = "start" /\ session[r] = "none" /\ req[r].op = "consume"
      /\ req[r].who \in Principals /\ claimer = Nobody
  BY <1>1, NoSessionYet DEF consumeClaim, Earned
<1>3. UNCHANGED <<sduty, row, oidcSub, held, session, link, reader, roleRow, disabled, owner, cred, nonce>>
  BY DEF consumeClaim
<1>4. CASE Fail(r) /\ UNCHANGED claimer
  BY <1>3, <1>4, UnreadKept, Finishes DEF Fail
<1>5. CASE /\ link.st = "live" /\ claimer' = r
           /\ req' = [req EXCEPT ![r].pc = "spend", ![r].saw = Present(link.mail),
                                 ![r].id = row[link.mail], ![r].arg = link.role]
  <2> DEFINE n == row[link.mail]
             b == Present(link.mail)
             a == link.role
             x == [req[r] EXCEPT !.pc = "spend", !.saw = b, !.id = n, !.arg = a]
  <2>1. req[r] \in RequestRecords /\ req \in [Requests -> RequestRecords] /\ link \in LinkRecords
    BY DEF SignInv, RequestsOK
  <2>2. link.mail \in Principals BY <1>5 DEF SignInv, TablesAgree
  <2>3. n \in Nat BY SMTT(30), <2>2, SignInAssumption DEF SignInv, SignInTypeOK
  <2>4. b \in BOOLEAN /\ b = Odd(n) BY DEF Present, Odd
  <2>5. a \in {"none", "lead"} BY <2>1 DEF LinkRecords
  <2>6. req' = [req EXCEPT ![r] = x] BY <1>5, <2>1
  <2> HIDE DEF n, b, a
  <2>7. x \in RequestRecords
    <3>1. a \in SRoles \cup {"none"} BY <2>5 DEF SRoles
    <3> QED BY <2>1, <2>3, <2>4, <3>1 DEF RequestRecords, SiPcs
  <2>8. /\ x.pc = "spend" /\ x.op = req[r].op /\ x.who = req[r].who
        /\ x.id = n /\ x.saw = b /\ x.arg = a
    BY <2>1 DEF RequestRecords
  <2> HIDE DEF x
  <2>9. req'[r] = x /\ \A k \in Requests \ {r} : req'[k] = req[k] BY <2>1, <2>6
  <2>10. LeavesOthers(r) BY <1>2, <1>3, LocksExclude DEF LeavesOthers, HasAdmin
  <2>11. SignInTypeOK' BY <1>3, <1>5 DEF SignInv, SignInTypeOK
  <2>12. TablesAgree' BY <1>3 DEF SignInv, TablesAgree
  <2>13. OneAcceptance' BY SMTT(30), <1>3, <2>8, <2>9 DEF SignInv, OneAcceptance
  <2>14. Earned(r)' BY <1>2, <1>3, <2>8, <2>9 DEF Earned, AdminOps, SaOps
  <2>15. Invited(r)' BY <1>2, <1>3, <1>5, <2>4, <2>5, <2>8, <2>9 DEF Invited
  <2>16. Guarded(r)' BY <1>1, <1>2, <1>3, <2>8, <2>9 DEF Guarded, AdminOps
  <2>17. link' \in LinkRecords BY <1>3, <2>1
  <2> QED BY <2>6, <2>7, <2>10, <2>11, <2>12, <2>13, <2>14, <2>15, <2>16, <2>17, Writes
<1> QED BY <1>4, <1>5 DEF consumeClaim

(* The COMMIT of an acceptance: the only one, since it finds the           *)
(* invitation live, and of an account that exists from here on.            *)
LEMMA CommitsAcceptance ==
  ASSUME SignInv, NEW r \in Requests, UNCHANGED sduty, consumeCommit(r)
  PROVE  SignInv'
<1>1. Earned(r) /\ Invited(r) /\ Guarded(r) BY DEF SignInv
<1>2. /\ req[r].pc = "spend" /\ session[r] = "none" /\ req[r].op = "consume"
      /\ req[r].who \in Principals /\ claimer = r /\ link.st = "live" /\ claimer' = Nobody
      /\ req[r].saw = Odd(req[r].id) /\ req[r].arg \in {"none", "lead"}
  BY <1>1, NoSessionYet DEF consumeCommit, Earned, Invited
<1>3. UNCHANGED <<sduty, oidcSub, reader, roleRow, disabled, owner, cred, nonce>> BY DEF consumeCommit
<1>4. \A k \in Requests \ {r} : req[k].pc # "spend" BY <1>2, LocksExclude
<1>5. CASE Fail(r) /\ UNCHANGED <<row, held, session, link>>
  <2>1. LeavesOthers(r) BY <1>3, <1>4, <1>5 DEF LeavesOthers, HasAdmin
  <2>2. SignInTypeOK' BY <1>2, <1>3, <1>5 DEF SignInv, SignInTypeOK
  <2>3. TablesAgree' BY <1>3, <1>5 DEF SignInv, TablesAgree
  <2>4. link' \in LinkRecords BY <1>5 DEF SignInv, RequestsOK
  <2> QED BY <1>2, <1>3, <1>5, <2>1, <2>2, <2>3, <2>4, EndsWriting DEF Fail
<1> DEFINE h == req[r].who
           id == IF req[r].saw THEN req[r].id ELSE req[r].id + 1
<1>6. CASE /\ row[h] = req[r].id /\ id <= MaxRow
           /\ row' = [row EXCEPT ![h] = id]
           /\ held' = IF req[r].arg = "none" THEN held ELSE held \cup {<<h, req[r].arg>>}
           /\ session' = [session EXCEPT ![r] = "live"]
           /\ link' = IF link = NoLink THEN NoLink ELSE [link EXCEPT !.st = "spent"]
           /\ req' = [req EXCEPT ![r] = [Idle EXCEPT !.op = "consume", !.pc = "done", !.who = h, !.id = id]]
  <2> DEFINE x == [Idle EXCEPT !.op = "consume", !.pc = "done", !.who = h, !.id = id]
  <2>1. req[r] \in RequestRecords /\ req \in [Requests -> RequestRecords] /\ link \in LinkRecords
    BY DEF SignInv, RequestsOK
  <2>2. h \in Principals BY <1>2
  <2>3. req[r].id \in Nat /\ row \in [Principals -> 0..MaxRow] BY <2>1 DEF RequestRecords, SignInv, SignInTypeOK
  <2>4. id \in Nat /\ Odd(id) /\ (Odd(row[h]) => id = row[h]) BY SMTT(30), <1>2, <1>6, <2>3, OddNext
  <2>5. id \in 0..MaxRow BY SMTT(30), <1>6, <2>4, SignInAssumption
  <2> HIDE DEF id
  <2>6. row'[h] = id /\ row' \in [Principals -> 0..MaxRow] /\ \A p \in Principals \ {h} : row'[p] = row[p]
    BY <1>6, <2>2, <2>3, <2>5
  <2>7. session'[r] = "live" /\ (\A k \in Requests \ {r} : session'[k] = session[k])
        /\ session' \in [Requests -> {"none", "live", "gone"}]
    BY <1>6 DEF SignInv, SignInTypeOK
  <2>8. link' \in LinkRecords /\ link'.st = "spent" /\ link'.mail = link.mail
    <3>1. link # NoLink BY SMTT(30), <1>2 DEF NoLink
    <3>2. link' = [link EXCEPT !.st = "spent"] BY <1>6, <3>1
    <3> QED BY <2>1, <3>2 DEF LinkRecords
  <2>9. held' \subseteq Principals \X SRoles /\ held \subseteq held'
        /\ \A p \in Principals, role \in SRoles :
             <<p, role>> \in held' => <<p, role>> \in held \/ (p = h /\ role # "admin")
    BY SMTT(30), <1>2, <1>6, <2>2 DEF SignInv, SignInTypeOK, SRoles
  <2> HIDE DEF h
  <2>10. x \in RequestRecords BY <2>2, <2>4 DEF Idle, RequestRecords, SiPcs, SiOperations, SRoles
  <2>11. x.pc = "done" /\ x.op = "consume" /\ x.who = h /\ x.id = id BY DEF Idle
  <2>12. req' = [req EXCEPT ![r] = x] BY <1>6
  <2> HIDE DEF x
  <2>13. req'[r] = x /\ \A k \in Requests \ {r} : req'[k] = req[k] BY <2>1, <2>12
  <2>14. LeavesOthers(r)
    <3>1. ASSUME NEW k \in Requests, session[k] = "live" PROVE row'[req[k].who] = row[req[k].who]
      BY <2>4, <2>6, <3>1, LiveSession DEF Principals
    <3>2. HasAdmin => HasAdmin' BY <2>9 DEF HasAdmin
    <3> QED BY <1>2, <1>3, <1>4, <2>7, <2>8, <2>9, <3>1, <3>2 DEF LeavesOthers
  <2>15. SignInTypeOK' BY <1>2, <1>3, <2>6, <2>7, <2>8, <2>9 DEF SignInv, SignInTypeOK
  <2>16. TablesAgree'
    <3>1. \A p \in Principals : Odd(row[p]) => Odd(row'[p]) BY <2>4, <2>6
    <3>2. \A p \in oidcSub' : Odd(row'[p]) BY <1>3, <3>1 DEF SignInv, SignInTypeOK, TablesAgree, Principals
    <3>3. \A p \in Principals, role \in SRoles : <<p, role>> \in held' => Odd(row'[p])
      BY <2>4, <2>6, <2>9, <3>1 DEF SignInv, TablesAgree
    <3>4. link'.st = "spent" /\ link'.mail \in Principals BY <1>2, <2>8 DEF SignInv, TablesAgree
    <3>5. (\A k \in Requests : "assign" \notin sduty'.ops[k]) => \A s \in Services : <<s, "admin">> \notin held'
      BY <1>3, <2>2, <2>9 DEF SignInv, TablesAgree, Principals, SRoles
    <3> QED BY <3>2, <3>3, <3>4, <3>5 DEF TablesAgree
  <2>17. OneAcceptance'
    <3>1. \A k \in Requests : req[k].op = "consume" => session[k] = "none"
      BY <1>2 DEF SignInv, Invited
    <3> QED BY SMTT(30), <2>7, <2>13, <3>1 DEF OneAcceptance
  <2>18. Earned(r)' BY <1>2, <2>4, <2>6, <2>11, <2>13 DEF Earned, AdminOps, SaOps, h
  <2>19. Invited(r)' BY <2>8, <2>11, <2>13 DEF Invited
  <2>20. Guarded(r)' BY <1>1, <1>2, <1>3, <2>11, <2>13 DEF Guarded, AdminOps
  <2> QED BY <1>3, <2>8, <2>10, <2>12, <2>14, <2>15, <2>16, <2>17, <2>18, <2>19, <2>20, Writes
<1> QED BY <1>5, <1>6 DEF consumeCommit

(* An invitation expires only while nobody is accepting it.                *)
LEMMA LinkEnds ==
  ASSUME SignInv, UNCHANGED sduty, linkExpires
  PROVE  SignInv'
<1> USE DEF SameUsers, SameRoles, SameTokens, SameLocks
<1>1. link.st = "live" /\ claimer = Nobody /\ link' = [link EXCEPT !.st = "spent"] BY DEF linkExpires
<1>2. UNCHANGED <<sduty, row, oidcSub, held, session, reader, claimer, roleRow, disabled, owner, cred, nonce, req>>
  BY DEF linkExpires
<1>3. link \in LinkRecords BY DEF SignInv, RequestsOK
<1>4. link' \in LinkRecords /\ link'.st = "spent" /\ link'.mail = link.mail BY <1>1, <1>3 DEF LinkRecords
<1>5. SignInTypeOK' BY <1>2, <1>4 DEF SignInv, SignInTypeOK
<1>6. RequestsOK' BY <1>2, <1>4 DEF SignInv, RequestsOK
<1>7. TablesAgree' BY <1>1, <1>2, <1>4 DEF SignInv, TablesAgree
<1>8. OneAcceptance' BY <1>2 DEF SignInv, OneAcceptance
<1>9. ASSUME NEW k \in Requests PROVE Earned(k)' /\ Invited(k)' /\ Guarded(k)'
  <2>1. Earned(k) /\ Invited(k) /\ Guarded(k) BY DEF SignInv
  <2>2. req[k].pc # "spend" BY <1>1, LocksExclude
  <2>3. HasAdmin' = HasAdmin BY <1>2 DEF HasAdmin
  <2>4. Earned(k)' BY <1>2, <2>1, OthersEarned
  <2>5. Invited(k)' BY <1>2, <1>4, <2>1, <2>2, OthersInvited
  <2>6. Guarded(k)' BY <1>2, <2>1, <2>3, OthersGuarded
  <2> QED BY <2>4, <2>5, <2>6
<1> QED BY <1>5, <1>6, <1>7, <1>8, <1>9 DEF SignInv

(* logout ends the session of another request.                             *)
LEMMA LogsOut ==
  ASSUME SignInv, NEW r \in Requests, UNCHANGED sduty, logout(r)
  PROVE  SignInv'
<1> USE DEF SameUsers, SameRoles, SameTokens, SameLocks
<1>1. Earned(r) BY DEF SignInv
<1>2. /\ req[r].pc = "start" /\ session[r] = "none" /\ req[r].op = "logout"
      /\ req[r].by \in Requests /\ session[req[r].by] # "none"
  BY <1>1, NoSessionYet DEF logout, Earned
<1>3. UNCHANGED <<sduty, row, oidcSub, held, link, reader, claimer, roleRow, disabled, owner, cred, nonce>>
  BY DEF logout
<1>4. /\ session' \in [Requests -> {"none", "live", "gone"}]
      /\ session'[req[r].by] = "gone" /\ \A k \in Requests \ {req[r].by} : session'[k] = session[k]
  BY <1>2 DEF logout, SignInv, SignInTypeOK
<1>5. LeavesOthers(r)
  <2>1. \A k \in Requests : session'[k] = "none" <=> session[k] = "none" BY <1>2, <1>4
  <2>2. \A k \in Requests : session'[k] = "live" => session[k] = "live" BY <1>4
  <2>3. HasAdmin' = HasAdmin BY <1>3 DEF HasAdmin
  <2> QED BY <1>3, <2>1, <2>2, <2>3 DEF LeavesOthers
<1>6. SignInTypeOK' BY <1>3, <1>4 DEF SignInv, SignInTypeOK
<1>7. TablesAgree' BY <1>3 DEF SignInv, TablesAgree
<1>8. link' \in LinkRecords BY <1>3 DEF SignInv, RequestsOK
<1>9. Over(r, "done") /\ session'[r] = "none" BY <1>2, <1>4 DEF logout, Done
<1> QED BY <1>2, <1>3, <1>5, <1>6, <1>7, <1>8, <1>9, EndsWriting

(* assign_role names an account that exists.                               *)
LEMMA AssignsRole ==
  ASSUME SignInv, NEW r \in Requests, UNCHANGED sduty, assign_role(r)
  PROVE  SignInv'
<1> USE DEF SameUsers, SameRoles, SameTokens, SameLocks
<1>1. Earned(r) /\ Guarded(r) BY DEF SignInv
<1>2. /\ req[r].pc = "act" /\ session[r] = "none" /\ req[r].op = "assign"
      /\ req[r].who \in Principals /\ req[r].arg \in SRoles
  BY <1>1, NoSessionYet DEF assign_role, Earned, AdminOps
<1>3. UNCHANGED <<sduty, row, oidcSub, link, session, reader, claimer, roleRow, disabled, owner, cred, nonce>>
  BY DEF assign_role
<1>4. CASE Fail(r) /\ UNCHANGED held
  BY <1>3, <1>4, UnreadKept, Finishes DEF Fail
<1>5. CASE Present(req[r].who) /\ held' = held \cup {<<req[r].who, req[r].arg>>} /\ Done(r)
  <2>1. held' \subseteq Principals \X SRoles /\ held \subseteq held'
    BY SMTT(30), <1>2, <1>5 DEF SignInv, SignInTypeOK
  <2>2. HasAdmin => HasAdmin' BY <2>1 DEF HasAdmin
  <2>3. LeavesOthers(r) BY <1>3, <2>1, <2>2 DEF LeavesOthers
  <2>4. SignInTypeOK' BY <1>3, <2>1 DEF SignInv, SignInTypeOK
  <2>5. TablesAgree'
    <3>1. "assign" \in sduty.ops[r] BY <1>1, <1>2 DEF Guarded
    <3>2. Odd(row[req[r].who]) BY <1>5 DEF Present, Odd
    <3>3. \A p \in Principals, role \in SRoles : <<p, role>> \in held' => Odd(row'[p])
      BY <1>3, <1>5, <3>2 DEF SignInv, TablesAgree
    <3> QED BY <1>3, <3>1, <3>3 DEF SignInv, TablesAgree
  <2>6. link' \in LinkRecords BY <1>3 DEF SignInv, RequestsOK
  <2> QED BY <1>2, <1>3, <1>5, <2>3, <2>4, <2>5, <2>6, EndsWriting DEF Done
<1> QED BY <1>4, <1>5 DEF assign_role

(* Two administrators are more than one principal.                         *)
LEMMA AnotherAdmin ==
  ASSUME NEW q, ~(Cardinality(Admins) <= 1)
  PROVE  \E p \in Principals : p # q /\ <<p, "admin">> \in held
<1> SUFFICES ASSUME \A p \in Admins : p = q PROVE FALSE BY DEF Admins
<1>1. Admins = {} \/ Admins = {q} OBVIOUS
<1>2. CASE Admins = {} BY SMTT(30), <1>2, FS_EmptySet
<1>3. CASE Admins = {q} BY SMTT(30), <1>3, FS_Singleton
<1> QED BY <1>1, <1>2, <1>3

(* The guard counts under the locks, so another administrator is left.     *)
LEMMA LocksAdmins ==
  ASSUME SignInv, NEW r \in Requests, UNCHANGED sduty, lockAdmins(r)
  PROVE  SignInv'
<1> USE DEF SameUsers, SameRoles, SameTokens, SameLocks
<1>1. Earned(r) /\ Guarded(r) BY DEF SignInv
<1>2. /\ req[r].pc = "act" /\ session[r] = "none" /\ req[r].op \in {"revoke", "dropUser"} /\ reader = Nobody
      /\ req[r].who \in Principals /\ req[r].arg \in SRoles
  BY <1>1, NoSessionYet DEF lockAdmins, Earned, AdminOps
<1>3. UNCHANGED <<sduty, row, oidcSub, held, link, session, claimer, roleRow, disabled, owner, cred, nonce>>
  BY DEF lockAdmins
<1>4. CASE Fail(r) /\ UNCHANGED reader
  BY <1>3, <1>4, UnreadKept, Finishes DEF Fail
<1>5. CASE /\ ~ /\ Cardinality(Admins) <= 1
                /\ req[r].op = "revoke" => req[r].arg = "admin"
                /\ req[r].op = "dropUser" => req[r].who \in Admins
           /\ reader' = r /\ Go(r, "write")
  <2>1. PICK x \in RequestRecords :
             /\ req' = [req EXCEPT ![r] = x]
             /\ x.pc = "write" /\ x.op = req[r].op /\ x.who = req[r].who /\ x.by = req[r].by
             /\ x.id = req[r].id /\ x.arg = req[r].arg /\ x.saw = req[r].saw
    BY SMTT(30), <1>5, GoIs DEF SiPcs
  <2>2. req'[r] = x /\ \A k \in Requests \ {r} : req'[k] = req[k] BY <2>1 DEF SignInv, RequestsOK
  <2>3. HasAdmin' = HasAdmin /\ ServiceMayAdminister' = ServiceMayAdminister
    BY <1>3 DEF HasAdmin, ServiceMayAdminister
  <2>4. LeavesOthers(r) BY <1>2, <1>3, <2>3, LocksExclude DEF LeavesOthers
  <2>5. SignInTypeOK' BY <1>3, <1>5 DEF SignInv, SignInTypeOK
  <2>6. TablesAgree' BY <1>3 DEF SignInv, TablesAgree
  <2>7. OneAcceptance' BY SMTT(30), <1>3, <2>1, <2>2 DEF SignInv, OneAcceptance
  <2>8. Earned(r)' BY <1>2, <1>3, <2>1, <2>2 DEF Earned, AdminOps, SaOps
  <2>9. Invited(r)' BY <1>2, <2>1, <2>2 DEF Invited
  <2>10. ASSUME ~ServiceMayAdminister, req[r].op = "revoke" => req[r].arg = "admin"
         PROVE  \E p \in Principals : p # req[r].who /\ <<p, "admin">> \in held
    <3>1. CASE ~(Cardinality(Admins) <= 1) BY <3>1, AnotherAdmin
    <3>2. CASE req[r].op = "dropUser" /\ req[r].who \notin Admins
      <4>1. HasAdmin BY <1>1, <1>2, <2>10 DEF Guarded, AdminOps
      <4> QED BY <1>2, <3>2, <4>1 DEF HasAdmin, Admins
    <3> QED BY <1>5, <2>10, <3>1, <3>2
  <2>11. ~ServiceMayAdminister => HasAdmin BY <1>1, <1>2 DEF Guarded, AdminOps
  <2>12. Guarded(r)'
    BY <1>1, <1>2, <1>3, <1>5, <2>1, <2>2, <2>3, <2>10, <2>11 DEF Guarded
  <2>13. link' \in LinkRecords BY <1>3 DEF SignInv, RequestsOK
  <2> QED BY <1>3, <2>1, <2>4, <2>5, <2>6, <2>7, <2>8, <2>9, <2>12, <2>13, Writes
<1> QED BY <1>4, <1>5 DEF lockAdmins

(* While one request writes under the admin locks no other one does.       *)
LEMMA OneGuard ==
  ASSUME SignInv, NEW r \in Requests, req[r].pc = "write"
  PROVE  \A k \in Requests \ {r} : req[k].pc # "write"
BY LocksExclude

(* revoke_role takes one assignment away and leaves an administrator.      *)
LEMMA RevokesRole ==
  ASSUME SignInv, NEW r \in Requests, UNCHANGED sduty, revoke_role(r)
  PROVE  SignInv' /\ (~ServiceMayAdminister /\ HasAdmin => HasAdmin')
<1> USE DEF SameUsers, SameRoles, SameTokens, SameLocks
<1>1. Earned(r) /\ Guarded(r) BY DEF SignInv
<1>2. /\ req[r].pc = "write" /\ session[r] = "none" /\ req[r].op = "revoke"
      /\ held' = held \ {<<req[r].who, req[r].arg>>} /\ reader' = Nobody /\ Done(r)
  BY <1>1, NoSessionYet DEF revoke_role, Earned
<1>3. UNCHANGED <<sduty, row, oidcSub, link, session, claimer, roleRow, disabled, owner, cred, nonce>>
  BY DEF revoke_role
<1>4. ~ServiceMayAdminister /\ HasAdmin => HasAdmin'
  <2>1. CASE req[r].arg = "admin" /\ ~ServiceMayAdminister
    <3>1. PICK p \in Principals : p # req[r].who /\ <<p, "admin">> \in held
      BY <1>1, <1>2, <2>1 DEF Guarded
    <3> QED BY <1>2, <3>1 DEF HasAdmin
  <2>2. CASE req[r].arg # "admin" BY <1>2, <2>2 DEF HasAdmin
  <2> QED BY <2>1, <2>2
<1>5. LeavesOthers(r) BY <1>2, <1>3, <1>4, OneGuard DEF LeavesOthers
<1>6. SignInTypeOK' BY <1>2, <1>3 DEF SignInv, SignInTypeOK
<1>7. TablesAgree' BY <1>2, <1>3 DEF SignInv, TablesAgree
<1>8. link' \in LinkRecords BY <1>3 DEF SignInv, RequestsOK
<1> QED BY <1>2, <1>3, <1>4, <1>5, <1>6, <1>7, <1>8, EndsWriting DEF Done

(* What a deletion leaves of the sessions: those of other accounts.         *)
LEMMA SessionsLeft ==
  ASSUME SignInv, NEW p, session' = SessionsWithout(p)
  PROVE  /\ session' \in [Requests -> {"none", "live", "gone"}]
         /\ \A k \in Requests : session'[k] = "none" <=> session[k] = "none"
         /\ \A k \in Requests : session'[k] = "live" => session[k] = "live" /\ req[k].who # p
<1>1. session \in [Requests -> {"none", "live", "gone"}] BY DEF SignInv, SignInTypeOK
<1>2. session' \in [Requests -> {"none", "live", "gone"}] BY <1>1 DEF SessionsWithout
<1>3. \A k \in Requests : session'[k] = "none" <=> session[k] = "none" BY DEF SessionsWithout
<1>4. \A k \in Requests : session'[k] = "live" => session[k] = "live" /\ ~(req[k].who = p /\ req[k].id = row[p])
  BY DEF SessionsWithout
<1> QED BY <1>2, <1>3, <1>4, LiveSession

(* delete_user takes the sessions and the assignments with the account,    *)
(* and leaves an administrator.                                            *)
LEMMA DeletesUser ==
  ASSUME SignInv, NEW r \in Requests, UNCHANGED sduty, delete_user(r)
  PROVE  SignInv' /\ (~ServiceMayAdminister /\ HasAdmin => HasAdmin')
<1>1. Earned(r) /\ Guarded(r) BY DEF SignInv
<1>2. /\ req[r].pc = "write" /\ session[r] = "none" /\ req[r].op = "dropUser" /\ reader' = Nobody
  BY <1>1, NoSessionYet DEF delete_user, Earned
<1>3. UNCHANGED <<sduty, claimer, roleRow, disabled, owner, cred, nonce>> BY DEF delete_user
<1>4. CASE Fail(r) /\ UNCHANGED <<row, oidcSub, held, session, link>>
  <2>1. HasAdmin' = HasAdmin BY <1>4 DEF HasAdmin
  <2>2. LeavesOthers(r) BY <1>2, <1>3, <1>4, <2>1, OneGuard DEF LeavesOthers
  <2>3. SignInTypeOK' BY <1>2, <1>3, <1>4 DEF SignInv, SignInTypeOK
  <2>4. TablesAgree' BY <1>3, <1>4 DEF SignInv, TablesAgree
  <2>5. link' \in LinkRecords BY <1>4 DEF SignInv, RequestsOK
  <2> QED BY <1>2, <1>3, <1>4, <2>1, <2>2, <2>3, <2>4, <2>5, EndsWriting DEF Fail
<1> DEFINE h == req[r].who
<1>5. CASE /\ Present(h) /\ row[h] < MaxRow
           /\ ~(link.by = h /\ claimer # Nobody)
           /\ row' = [row EXCEPT ![h] = @ + 1]
           /\ oidcSub' = oidcSub \ {h}
           /\ held' = {a \in held : a[1] # h}
           /\ session' = SessionsWithout(h)
           /\ link' = IF link.by = h THEN [link EXCEPT !.st = "spent"] ELSE link
           /\ Done(r)
  <2>0. h \in Principals BY <1>1, <1>2 DEF Earned, AdminOps
  <2>1. h \in Principals /\ row \in [Principals -> 0..MaxRow] /\ row[h] + 1 \in 0..MaxRow
    BY SMTT(30), <1>5, <2>0, SignInAssumption DEF SignInv, SignInTypeOK
  <2>2. row'[h] = row[h] + 1 /\ row' \in [Principals -> 0..MaxRow] /\ \A p \in Principals \ {h} : row'[p] = row[p]
    BY <1>5, <2>1
  <2>3. held' \subseteq Principals \X SRoles
        /\ \A p \in Principals, role \in SRoles : <<p, role>> \in held' <=> <<p, role>> \in held /\ p # h
    BY <1>5 DEF SignInv, SignInTypeOK
  <2>4. session' \in [Requests -> {"none", "live", "gone"}]
        /\ \A k \in Requests : session'[k] = "none" <=> session[k] = "none"
    BY <1>5, SessionsLeft
  <2>5. ASSUME NEW k \in Requests, session'[k] = "live"
        PROVE  session[k] = "live" /\ row'[req[k].who] = row[req[k].who]
    <3>1. session[k] = "live" /\ req[k].who # h BY <1>5, <2>5, SessionsLeft
    <3>2. req[k].who \in Principals BY <3>1, LiveSession
    <3> QED BY <2>2, <3>1, <3>2
  <2>6. /\ link' \in LinkRecords /\ link'.mail = link.mail
        /\ link'.st = "spent" \/ link' = link
        /\ claimer # Nobody => link' = link
    <3>1. link \in LinkRecords BY DEF SignInv, RequestsOK
    <3>2. CASE link.by # h BY <1>5, <3>1, <3>2
    <3>3. CASE link.by = h
      <4>1. link' = [link EXCEPT !.st = "spent"] BY <1>5, <3>3
      <4>2. claimer = Nobody BY <1>5, <3>3
      <4>3. link' \in LinkRecords /\ link'.mail = link.mail /\ link'.st = "spent"
        BY <3>1, <4>1 DEF LinkRecords
      <4> QED BY <4>2, <4>3
    <3> QED BY <3>2, <3>3
  <2> HIDE DEF h
  <2>7. ~ServiceMayAdminister => HasAdmin'
    <3> SUFFICES ASSUME ~ServiceMayAdminister PROVE HasAdmin' OBVIOUS
    <3>1. PICK p \in Principals : p # h /\ <<p, "admin">> \in held BY <1>1, <1>2 DEF Guarded, h
    <3>2. "admin" \in SRoles BY DEF SRoles
    <3> QED BY <2>3, <3>1, <3>2 DEF HasAdmin
  <2>8. LeavesOthers(r)
    <3>1. \A k \in Requests : req[k].pc = "spend" => link'.st = link.st BY <2>6, LocksExclude
    <3> QED BY <1>2, <1>3, <2>4, <2>5, <2>6, <2>7, <3>1, OneGuard DEF LeavesOthers
  <2>9. SignInTypeOK'
    <3>1. oidcSub' \subseteq Humans BY <1>5 DEF SignInv, SignInTypeOK
    <3>2. link'.st \in {"none", "live", "spent"} BY <2>6 DEF SignInv, SignInTypeOK
    <3> QED BY <1>2, <1>3, <2>2, <2>3, <2>4, <3>1, <3>2 DEF SignInv, SignInTypeOK
  <2>10. TablesAgree'
    <3>1. \A p \in oidcSub' : Odd(row'[p]) BY <1>5, <2>2 DEF SignInv, SignInTypeOK, TablesAgree, Principals
    <3>2. \A p \in Principals, role \in SRoles : <<p, role>> \in held' => Odd(row'[p])
      BY <2>2, <2>3 DEF SignInv, TablesAgree
    <3>3. IF link'.st = "none" THEN link'.by = Nobody ELSE link'.mail \in Principals
      <4>1. CASE link' = link BY <4>1 DEF SignInv, TablesAgree
      <4>2. CASE link' # link
        <5>1. link.by = h /\ link'.st = "spent" BY <1>5, <2>6, <4>2
        <5>2. h # Nobody BY <2>1, SignInAssumption DEF Nobody, Principals
        <5> QED BY <2>6, <5>1, <5>2 DEF SignInv, TablesAgree
      <4> QED BY <4>1, <4>2
    <3>4. (\A k \in Requests : "assign" \notin sduty'.ops[k]) => \A s \in Services : <<s, "admin">> \notin held'
      BY <1>3, <1>5 DEF SignInv, TablesAgree
    <3> QED BY <3>1, <3>2, <3>3, <3>4 DEF TablesAgree
  <2> QED BY <1>2, <1>3, <1>5, <2>4, <2>6, <2>7, <2>8, <2>9, <2>10, EndsWriting DEF Done
<1> QED BY <1>4, <1>5 DEF delete_user

(* delete_role and the sweep of its assignments leave the admin role.      *)
LEMMA DeletesRole ==
  ASSUME SignInv, NEW r \in Requests, UNCHANGED sduty, delete_role(r)
  PROVE  SignInv' /\ (HasAdmin => HasAdmin')
<1> USE DEF SameUsers, SameRoles, SameTokens, SameLocks
<1>1. req[r].pc \in {"act", "sweep"} /\ session[r] = "none" /\ req[r].op = "dropRole"
  BY NoSessionYet DEF delete_role
<1>2. UNCHANGED <<sduty, row, oidcSub, link, session, reader, claimer, disabled, owner, cred, nonce>>
  BY DEF delete_role
<1>3. CASE UNCHANGED held /\ roleRow' \subseteq roleRow /\ (Fail(r) \/ Go(r, "sweep"))
  <2>1. Unread BY <1>2, <1>3 DEF SignInv, SignInTypeOK, Unread
  <2>2. HasAdmin' = HasAdmin BY <1>3 DEF HasAdmin
  <2>3. CASE Fail(r) BY <1>2, <1>3, <2>1, <2>2, <2>3, Finishes DEF Fail
  <2>4. CASE Go(r, "sweep") BY <1>1, <1>2, <1>3, <2>1, <2>2, <2>4, GoesOn DEF SiPcs
  <2> QED BY <1>3, <2>3, <2>4
<1>4. CASE held' = {a \in held : a[2] # "lead"} /\ Done(r) /\ UNCHANGED roleRow
  <2>1. /\ held' \subseteq held
        /\ \A p \in Principals : <<p, "admin">> \in held => <<p, "admin">> \in held'
    BY <1>4
  <2>2. HasAdmin => HasAdmin' BY <2>1 DEF HasAdmin
  <2>3. LeavesOthers(r) BY <1>2, <2>1, <2>2 DEF LeavesOthers
  <2>4. SignInTypeOK' BY <1>2, <1>4, <2>1 DEF SignInv, SignInTypeOK
  <2>5. TablesAgree' BY <1>2, <2>1 DEF SignInv, TablesAgree
  <2>6. link' \in LinkRecords BY <1>2 DEF SignInv, RequestsOK
  <2> QED BY <1>1, <1>2, <1>4, <2>2, <2>3, <2>4, <2>5, <2>6, EndsWriting DEF Done
<1> QED BY <1>3, <1>4 DEF delete_role

(* A service account's row made or deleted.                                *)
LEMMA ServiceRowMoves ==
  ASSUME SignInv, NEW s \in Services, row[s] < MaxRow, row' = [row EXCEPT ![s] = @ + 1]
  PROVE  /\ row' \in [Principals -> 0..MaxRow] /\ row'[s] = row[s] + 1
         /\ \A p \in Principals \ {s} : row'[p] = row[p]
         /\ \A h \in oidcSub : row'[h] = row[h]
<1>1. s \in Principals /\ row \in [Principals -> 0..MaxRow] /\ s \notin Humans /\ oidcSub \subseteq Humans
  BY SignInAssumption DEF SignInv, SignInTypeOK, Principals
<1>2. row[s] + 1 \in 0..MaxRow BY SMTT(30), <1>1, SignInAssumption
<1>3. row' \in [Principals -> 0..MaxRow] /\ row'[s] = row[s] + 1 BY <1>1, <1>2
<1>4. \A p \in Principals \ {s} : row'[p] = row[p] BY <1>1
<1>5. \A h \in oidcSub : row'[h] = row[h] BY <1>1, <1>4 DEF Principals
<1> QED BY <1>3, <1>4, <1>5

(* create_sa makes an account where there was none.                        *)
LEMMA CreatesService ==
  ASSUME SignInv, NEW r \in Requests, UNCHANGED sduty, create_sa(r)
  PROVE  SignInv'
<1> USE DEF SameUsers, SameRoles, SameTokens, SameLocks
<1>1. Earned(r) BY DEF SignInv
<1>2. req[r].pc = "act" /\ session[r] = "none" /\ req[r].op = "makeSa" /\ req[r].who \in Services
  BY <1>1, NoSessionYet DEF create_sa, Earned, SaOps
<1>3. UNCHANGED <<sduty, oidcSub, held, link, session, reader, claimer, roleRow, nonce>> BY DEF create_sa
<1>4. CASE Fail(r) /\ UNCHANGED <<row, owner, cred, disabled>>
  BY <1>3, <1>4, UnreadKept, Finishes DEF Fail
<1> DEFINE s == req[r].who
<1>5. CASE /\ ~Present(s) /\ Present(req[r].by) /\ row[s] < MaxRow
           /\ row' = [row EXCEPT ![s] = @ + 1]
           /\ owner' = [owner EXCEPT ![s] = req[r].by]
           /\ cred' = [cred EXCEPT ![s] = "none"]
           /\ disabled' = disabled \ {s}
           /\ Done(r)
  <2>1. /\ row' \in [Principals -> 0..MaxRow] /\ row'[s] = row[s] + 1
        /\ \A p \in Principals \ {s} : row'[p] = row[p]
        /\ \A h \in oidcSub : row'[h] = row[h]
    BY <1>2, <1>5, ServiceRowMoves
  <2>2. ~Odd(row[s]) BY <1>5 DEF Present, Odd
  <2>3. HasAdmin' = HasAdmin BY <1>3 DEF HasAdmin
  <2>4. LeavesOthers(r)
    <3>1. \A k \in Requests : session[k] = "live" => row'[req[k].who] = row[req[k].who]
      BY <2>1, <2>2, LiveSession
    <3> QED BY <1>3, <2>3, <3>1 DEF LeavesOthers
  <2>5. SignInTypeOK'
    <3>1. req[r].by \in Principals \cup {Nobody} BY <1>1, <1>2 DEF Earned, SaOps
    <3>2. owner' \in [Services -> Principals \cup {Nobody}] BY <1>5, <3>1 DEF SignInv, SignInTypeOK
    <3>3. cred' \in [Services -> {"none", "live", "revoked"}] /\ disabled' \subseteq Services
      BY <1>5 DEF SignInv, SignInTypeOK
    <3> QED BY <1>3, <2>1, <3>2, <3>3 DEF SignInv, SignInTypeOK
  <2>6. TablesAgree'
    <3>1. \A p \in Principals, role \in SRoles : <<p, role>> \in held => Odd(row'[p])
      BY <2>1, <2>2 DEF SignInv, TablesAgree
    <3> QED BY <1>3, <2>1, <3>1 DEF SignInv, TablesAgree
  <2>7. link' \in LinkRecords BY <1>3 DEF SignInv, RequestsOK
  <2> QED BY <1>2, <1>3, <1>5, <2>4, <2>5, <2>6, <2>7, EndsWriting DEF Done
<1> QED BY <1>4, <1>5 DEF create_sa

(* delete_sa takes the account's assignments with it; unless one could     *)
(* have been made an administrator, none of them is the last one.          *)
LEMMA DeletesService ==
  ASSUME SignInv, NEW r \in Requests, UNCHANGED sduty, delete_sa(r)
  PROVE  SignInv' /\ (~ServiceMayAdminister /\ HasAdmin => HasAdmin')
<1> USE DEF SameUsers, SameRoles, SameTokens, SameLocks
<1>1. Earned(r) /\ Guarded(r) BY DEF SignInv
<1>2. req[r].pc = "act" /\ session[r] = "none" /\ req[r].op = "dropSa" /\ req[r].who \in Services
  BY <1>1, NoSessionYet DEF delete_sa, Earned, SaOps
<1>3. UNCHANGED <<sduty, oidcSub, link, reader, claimer, roleRow, nonce>> BY DEF delete_sa
<1>4. CASE Fail(r) /\ UNCHANGED <<row, owner, cred, disabled, held, session>>
  <2>1. HasAdmin' = HasAdmin BY <1>4 DEF HasAdmin
  <2> QED BY <1>3, <1>4, <2>1, UnreadKept, Finishes DEF Fail
<1> DEFINE s == req[r].who
<1>5. CASE /\ row[s] < MaxRow
           /\ reader = Nobody \/ <<s, "admin">> \notin held
           /\ row' = [row EXCEPT ![s] = @ + 1]
           /\ owner' = [owner EXCEPT ![s] = Nobody]
           /\ cred' = [cred EXCEPT ![s] = "none"]
           /\ disabled' = disabled \ {s}
           /\ held' = {a \in held : a[1] # s}
           /\ session' = SessionsWithout(s)
           /\ Done(r)
  <2>1. /\ row' \in [Principals -> 0..MaxRow] /\ row'[s] = row[s] + 1
        /\ \A p \in Principals \ {s} : row'[p] = row[p]
        /\ \A h \in oidcSub : row'[h] = row[h]
    BY <1>2, <1>5, ServiceRowMoves
  <2>2. held' \subseteq held
        /\ \A p \in Principals, role \in SRoles : <<p, role>> \in held' <=> <<p, role>> \in held /\ p # s
    BY <1>5 DEF SignInv, SignInTypeOK
  <2>3. ~ServiceMayAdminister => <<s, "admin">> \notin held
    <3>1. "dropSa" \in sduty.ops[r] BY <1>1, <1>2 DEF Guarded
    <3> QED BY <1>2, <3>1 DEF ServiceMayAdminister, SignInv, TablesAgree
  <2>4. ~ServiceMayAdminister /\ HasAdmin => HasAdmin'
    BY <2>2, <2>3 DEF HasAdmin, SRoles
  <2>5. ~ServiceMayAdminister => \A p \in Principals : <<p, "admin">> \in held => <<p, "admin">> \in held'
    BY <2>2, <2>3 DEF SRoles
  <2>6. LeavesOthers(r)
    <3>1. \A k \in Requests : session'[k] = "none" <=> session[k] = "none" BY <1>5, SessionsLeft
    <3>2. \A k \in Requests : session'[k] = "live" => session[k] = "live" /\ row'[req[k].who] = row[req[k].who]
      BY <1>5, <2>1, SessionsLeft, LiveSession
    <3> QED BY <1>3, <2>4, <2>5, <3>1, <3>2 DEF LeavesOthers
  <2>7. SignInTypeOK'
    <3>1. owner' \in [Services -> Principals \cup {Nobody}] BY <1>5 DEF SignInv, SignInTypeOK
    <3>2. cred' \in [Services -> {"none", "live", "revoked"}] /\ disabled' \subseteq Services
      BY <1>5 DEF SignInv, SignInTypeOK
    <3>3. held' \subseteq Principals \X SRoles BY <2>2 DEF SignInv, SignInTypeOK
    <3>4. session' \in [Requests -> {"none", "live", "gone"}] BY <1>5, SessionsLeft
    <3> QED BY <1>3, <2>1, <3>1, <3>2, <3>3, <3>4 DEF SignInv, SignInTypeOK
  <2>8. TablesAgree'
    <3>1. \A p \in Principals, role \in SRoles : <<p, role>> \in held' => Odd(row'[p])
      BY <2>1, <2>2 DEF SignInv, TablesAgree
    <3> QED BY <1>3, <2>1, <2>2, <3>1 DEF SignInv, TablesAgree
  <2>9. link' \in LinkRecords BY <1>3 DEF SignInv, RequestsOK
  <2>10. session'[r] = "none" BY <1>2, <1>5, SessionsLeft
  <2> QED BY <1>2, <1>3, <1>5, <2>4, <2>6, <2>7, <2>8, <2>9, <2>10, EndsWriting DEF Done
<1> QED BY <1>4, <1>5 DEF delete_sa

-----------------------------------------------------------------------------
(***************************************************************************)
(* The theorems.                                                           *)
(***************************************************************************)
(* Four statements take assignments away; no other one does.               *)
TakesAway(r) == revoke_role(r) \/ delete_user(r) \/ delete_role(r) \/ delete_sa(r)

(* Every other step keeps every assignment.                                *)
LEMMA AssignmentsGrow ==
  ASSUME NEW r \in Requests, SignInStep(r), ~TakesAway(r)
  PROVE  held \subseteq held'
<1> USE DEF SameRoles
<1>1. CASE \/ authorize(r) \/ callback(r) \/ token_exchange(r) \/ freshen(r) \/ findByMail(r) \/ linkUp(r) \/ register(r)
           \/ firstBoot(r) \/ openSession(r) \/ nonce_exchange(r) \/ generate(r) \/ mintLink(r)
  BY <1>1 DEF authorize, callback, token_exchange, freshen, findByMail, linkUp, register, firstBoot, openSession,
              nonce_exchange, generate, mintLink
<1>2. CASE \/ consumeClaim(r) \/ refresh(r) \/ logout(r) \/ adminCheck(r) \/ lockAdmins(r) \/ create_role(r)
           \/ saCheck(r) \/ create_sa(r) \/ transfer_ownership(r) \/ set_disabled(r) \/ credential(r)
           \/ issue_token(r)
  BY <1>2 DEF consumeClaim, refresh, logout, adminCheck, lockAdmins, create_role, saCheck, create_sa,
              transfer_ownership, set_disabled, credential, issue_token
<1>3. CASE giveRole(r) BY <1>3 DEF giveRole
<1>4. CASE assign_role(r) BY <1>4 DEF assign_role
<1>5. CASE consumeCommit(r) BY <1>5 DEF consumeCommit
<1> QED BY <1>1, <1>2, <1>3, <1>4, <1>5 DEF SignInStep, TakesAway

(* Every step of a request keeps the invariant and an administrator.       *)
LEMMA StepsKeep ==
  ASSUME SignInv, NEW r \in Requests, UNCHANGED sduty, SignInStep(r)
  PROVE  SignInv' /\ (~ServiceMayAdminister /\ HasAdmin => HasAdmin')
<1>1. CASE TakesAway(r) BY <1>1, RevokesRole, DeletesUser, DeletesRole, DeletesService DEF TakesAway
<1>2. CASE ~TakesAway(r)
  <2>1. held \subseteq held' BY <1>2, AssignmentsGrow
  <2>2. HasAdmin => HasAdmin' BY <2>1 DEF HasAdmin
  <2>3. SignInv'
    BY <1>2, ReadsOfSignIn, LinksUp, Registers, ReadsOfRegistration, GivesRole, OpensSession, QuietWrites,
       Checks, MintsLink, ClaimsLink, CommitsAcceptance, LogsOut, AssignsRole, LocksAdmins,
       CreatesService, ReadsOfTokens
    DEF SignInStep, TakesAway
  <2> QED BY <2>2, <2>3
<1> QED BY <1>1, <1>2

(* So does every step of the tenant.                                       *)
LEMMA TenantKeeps ==
  ASSUME SignInv, [SignInNext]_signVars
  PROVE  SignInv' /\ (~ServiceMayAdminister /\ HasAdmin => HasAdmin')
<1>1. CASE \E r \in Requests : Start(r)
  <2>1. UNCHANGED held
    <3>1. \A r, op, who, by, arg : Begin(r, op, who, by, arg) => UNCHANGED held BY DEF Begin
    <3> QED BY SMTT(30), <1>1, <3>1 DEF Start
  <2>2. HasAdmin' = HasAdmin BY <2>1 DEF HasAdmin
  <2> QED BY <1>1, <2>2, Starts
<1>2. CASE \E r \in Requests : SignInStep(r) /\ UNCHANGED sduty BY <1>2, StepsKeep
<1>3. CASE linkExpires /\ UNCHANGED sduty
  <2>1. HasAdmin' = HasAdmin BY <1>3 DEF linkExpires, SameRoles, HasAdmin
  <2> QED BY <1>3, <2>1, LinkEnds
<1>4. CASE UNCHANGED signVars
  <2>1. HasAdmin' = HasAdmin BY <1>4 DEF signVars, HasAdmin
  <2>2. SignInTypeOK' BY <1>4 DEF SignInv, SignInTypeOK, signVars
  <2>3. RequestsOK' /\ OneAcceptance' BY <1>4 DEF SignInv, RequestsOK, OneAcceptance, signVars
  <2>4. TablesAgree' BY <1>4 DEF SignInv, TablesAgree, signVars
  <2>5. ASSUME NEW k \in Requests PROVE Earned(k)' /\ Invited(k)' /\ Guarded(k)'
    <3>1. Earned(k) /\ Invited(k) /\ Guarded(k) BY DEF SignInv
    <3>2. Earned(k)' BY <1>4, <3>1, OthersEarned DEF signVars
    <3>3. Invited(k)' BY <1>4, <3>1, OthersInvited DEF signVars
    <3>4. Guarded(k)' BY <1>4, <2>1, <3>1, OthersGuarded DEF signVars
    <3> QED BY <3>2, <3>3, <3>4
  <2> QED BY <2>1, <2>2, <2>3, <2>4, <2>5 DEF SignInv
<1> QED BY <1>1, <1>2, <1>3, <1>4 DEF SignInNext

(* The inductive invariant: what every request has read about an account,  *)
(* the invitation and the administrators still holds when it writes.       *)
THEOREM SignInInvariant == SignInSpec => []SignInv
<1>1. SignInv /\ [SignInNext]_signVars => SignInv' BY TenantKeeps
<1> QED BY <1>1, SignInInitially, PTL DEF SignInSpec

(* One invitation opens at most one session, and no session and no         *)
(* assignment outlives its account, however sign-ins, acceptances,         *)
(* deletions and re-creations interleave (find_or_create_user,             *)
(* consume_inner, delete_user, delete_sa).                                 *)
THEOREM SessionsEarned == SignInSpec => []SessionsAreEarned
<1>1. SignInv => SessionsAreEarned
  <2> SUFFICES ASSUME SignInv PROVE SessionsAreEarned OBVIOUS
  <2> DEFINE accepted == {r \in Requests : req[r].op = "consume" /\ session[r] # "none"}
  <2>1. \A r, k \in accepted : r = k BY DEF SignInv, OneAcceptance
  <2>2. Cardinality(accepted) <= 1
    <3>1. CASE accepted = {} BY SMTT(30), <3>1, FS_EmptySet
    <3>2. CASE accepted # {}
      <4>1. PICK r \in accepted : TRUE BY <3>2
      <4>2. accepted = {r} BY <2>1, <4>1
      <4>3. Cardinality({r}) = 1 BY FS_Singleton
      <4> HIDE DEF accepted
      <4> QED BY SMTT(30), <4>2, <4>3
    <3> QED BY <3>1, <3>2
  <2>3. (\E r \in Requests : req[r].op = "consume" /\ session[r] # "none") => link.st = "spent"
    BY DEF SignInv, Invited
  <2>4. \A r \in Requests : session[r] = "live" => row[req[r].who] = req[r].id BY DEF SignInv, Earned
  <2>5. ASSUME NEW a \in held PROVE Present(a[1])
    <3>1. a[1] \in Principals /\ a[2] \in SRoles /\ a = <<a[1], a[2]>> BY SMTT(30) DEF SignInv, SignInTypeOK
    <3>2. Odd(row[a[1]]) BY <3>1 DEF SignInv, TablesAgree
    <3> QED BY <3>2 DEF Present, Odd
  <2> QED BY <2>2, <2>3, <2>4, <2>5
          DEF SignInv, SessionsAreEarned, LinkOpensOneSession, NothingOutlivesTheAccount
<1> QED BY <1>1, SignInInvariant, PTL

(* A tenant that has an administrator keeps one, whatever the order of     *)
(* revocations and deletions between count and write (revoke_role,         *)
(* delete_user), as long as no service account can be the last one.        *)
THEOREM AdminsRemain == SignInSpec => AdminRemains
<1>1. SignInv /\ [SignInNext]_signVars => [~ServiceMayAdminister /\ HasAdmin => HasAdmin']_signVars
  BY TenantKeeps
<1> QED BY <1>1, SignInInvariant, PTL DEF SignInSpec, AdminRemains
=============================================================================

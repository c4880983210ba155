-------------------------- MODULE ConnectionsProofs --------------------------
(***************************************************************************)
(* Proofs about Connections, for any number of requests: a connection      *)
(* whose database never failed keeps a refresh token that is still good.   *)
(***************************************************************************)
EXTENDS Connections, TLAPS

(* Zenon proves every leaf that does not cite SMTT or PTL.                 *)
USE ZenonT(60)

(***************************************************************************)
(* The inductive invariant.  A refresh token has one place at a time: the  *)
(* secret of a connection, the flow that will store it, or the renewal     *)
(* that got it.  Only the holder of the connection's guard presents a      *)
(* stored token, and it replaces what it spent before it lets go.          *)
(***************************************************************************)
Cfgs == {"default", "named"}
CnPcs ==
  {"begin", "over", "upsert", "insert", "revive", "store", "keys", "unkey", "unrow", "pending",
   "load", "point", "wipe", "unsecret", "drop", "bound", "select", "delegated", "fetch", "call",
   "guard", "fence", "exchange", "recheck", "persist", "reject", "failed"}
Storing == {"upsert", "insert", "revive", "store"}
Writing == {"recheck", "persist"}
Renewing == Writing \cup {"exchange"}
Guarding == Renewing \cup {"fence", "reject"}

ConnRecords == [st : {"none", "active", "dead"}, user : Users, kind : {"direct", "delegation"}, cfg : Cfgs]
SecretRecords ==
  [st : {"none", "tokens", "delegate"}, rt : Nat, by : Cfgs, live : BOOLEAN, src : Conns]
ReqRecords ==
  [pc : CnPcs, c : Conns, cfg : Cfgs, client : BOOLEAN, cred : SecretRecords, eff : Users,
   todo : SUBSET (Conns \cup {"unbound"}), next : Nat, dirty : BOOLEAN]

(* What a request carries from one step to the next.                       *)
Visits(y) ==
  /\ y.pc = "wipe" => y.todo \subseteq Conns
  /\ y.pc \notin Writing => y.next = 0
  /\ y.pc = "point" => y.cred.rt = 0

CnTables ==
  /\ cnDuty \in CnDuties /\ conn \in [Conns -> ConnRecords] /\ secret \in [Conns -> SecretRecords]
  /\ binding \in [Scopes -> Conns \cup {"unbound"}] /\ guard \in [Conns -> CnReqs \cup {"free"}]
  /\ creq \in [CnReqs -> ReqRecords] /\ (\A r \in CnReqs : Visits(creq[r]))
  /\ issued \in Nat /\ faults \in Nat

(* The guard of a connection names the request that renews it.             *)
GuardIsHeld ==
  /\ \A c \in Conns : guard[c] # "free" => creq[guard[c]].c = c /\ creq[guard[c]].pc \in Guarding
  /\ \A r \in CnReqs : creq[r].pc \in Guarding => guard[creq[r].c] = r

(* A token that is stored nowhere yet, and the token a renewal presents.   *)
unstored(y) ==
  IF y.pc \in Storing THEN {y.cred.rt} ELSE IF y.pc \in Writing THEN {y.next} \ {0} ELSE {}
shown(y) == IF y.pc \in Renewing THEN {y.cred.rt} ELSE {}

(* Tokens in use were issued.                                              *)
TokensAreIssued ==
  /\ \A n \in spent : n \in Nat /\ n # 0 /\ n <= issued
  /\ \A c \in Conns : secret[c].rt <= issued
  /\ \A r \in CnReqs : \A n \in unstored(creq[r]) \cup shown(creq[r]) : n \in Nat /\ n # 0 /\ n <= issued

(* A token has one place: a connection, or a flow that will store it.      *)
TokensHaveOnePlace ==
  /\ \A c, d \in Conns : c # d /\ secret[c].rt # 0 => secret[c].rt # secret[d].rt
  /\ \A r \in CnReqs : \A n \in unstored(creq[r]) :
       /\ n \notin spent
       /\ \A c \in Conns : secret[c].rt # n
       /\ \A q \in CnReqs : n \notin shown(creq[q]) /\ (q # r => n \notin unstored(creq[q]))
  /\ \A r \in CnReqs : \A n \in shown(creq[r]) :
       /\ \A c \in Conns : c # creq[r].c => secret[c].rt # n
       /\ \A q \in CnReqs : q # r => n \notin shown(creq[q])

(* Before the exchange, and after one that rotated nothing.                *)
Intact(y) == y.pc = "exchange" \/ (y.pc \in Writing /\ y.next = 0)
(* Unless the database failed, a spent token that is still stored is about *)
(* to be replaced by the request that spent it.                            *)
SpentAreReplaced ==
  faults = 0 =>
    /\ \A r \in CnReqs : Intact(creq[r]) => creq[r].cred.rt \notin spent
    /\ \A c \in Conns : secret[c].rt \in spent =>
         guard[c] # "free" /\ creq[guard[c]].pc \in Writing /\ creq[guard[c]].cred.rt = secret[c].rt

(* A renewal marked as overtaken presents a token that is stored no more.  *)
Overtaken(y) ==
  y.dirty => y.pc \in {"exchange", "recheck", "reject"} /\ (y.pc # "reject" => secret[y.c].rt # y.cred.rt)

ConnInv ==
  /\ CnTables /\ GuardIsHeld /\ TokensAreIssued /\ TokensHaveOnePlace /\ SpentAreReplaced
  /\ \A r \in CnReqs : Overtaken(creq[r])

-----------------------------------------------------------------------------
(***************************************************************************)
(* Steps that leave the tokens where they are.                             *)
(***************************************************************************)
(* One request moves.                                                      *)
Moves(r, y) ==
  /\ creq' \in [CnReqs -> ReqRecords] /\ creq'[r] = y
  /\ \A q \in CnReqs : q # r => creq'[q] = creq[q]

(* The tables no renewal looks at.                                         *)
Besides ==
  /\ cnDuty' = cnDuty /\ conn' \in [Conns -> ConnRecords]
  /\ binding' \in [Scopes -> Conns \cup {"unbound"}]
  /\ faults' \in Nat /\ (faults' = 0 => faults = 0)

(* Replacing a request's record moves that request alone.                  *)
LEMMA SetsOne ==
  ASSUME CnTables, NEW r \in CnReqs, NEW y \in ReqRecords, CnSet(r, y)
  PROVE  Moves(r, y)
BY DEF CnTables, CnSet, Moves

(* Fewer tokens in the hands of requests, the same in the tables.          *)
LEMMA Shrinks ==
  ASSUME TokensAreIssued, TokensHaveOnePlace, spent' = spent, issued' = issued,
         \A c \in Conns : secret'[c].rt = secret[c].rt,
         \A q \in CnReqs : /\ unstored(creq'[q]) \subseteq unstored(creq[q])
                           /\ shown(creq'[q]) \subseteq shown(creq[q])
                           /\ shown(creq'[q]) # {} => creq'[q].c = creq[q].c
  PROVE  TokensAreIssued' /\ TokensHaveOnePlace'
<1>1. TokensAreIssued' BY DEF TokensAreIssued
<1>2. (\A c, d \in Conns : c # d /\ secret[c].rt # 0 => secret[c].rt # secret[d].rt)'
  BY DEF TokensHaveOnePlace
<1>3. ASSUME NEW r \in CnReqs, NEW n \in unstored(creq'[r])
      PROVE  /\ n \notin spent' /\ (\A c \in Conns : secret'[c].rt # n)
             /\ \A q \in CnReqs : n \notin shown(creq'[q]) /\ (q # r => n \notin unstored(creq'[q]))
  <2>1. n \in unstored(creq[r]) OBVIOUS
  <2> QED BY <2>1 DEF TokensHaveOnePlace
<1>4. ASSUME NEW r \in CnReqs, NEW n \in shown(creq'[r])
      PROVE  /\ \A c \in Conns : c # creq'[r].c => secret'[c].rt # n
             /\ \A q \in CnReqs : q # r => n \notin shown(creq'[q])
  <2>1. n \in shown(creq[r]) /\ creq'[r].c = creq[r].c BY <1>4
  <2>2. /\ \A c \in Conns : c # creq[r].c => secret[c].rt # n
        /\ \A q \in CnReqs : q # r => n \notin shown(creq[q])
    BY <2>1 DEF TokensHaveOnePlace
  <2> QED BY <2>1, <2>2
<1> QED BY <1>1, <1>2, <1>3, <1>4 DEF TokensHaveOnePlace

(* The guards stay, and so do their holders.                               *)
LEMMA GuardsStay ==
  ASSUME GuardIsHeld, guard' = guard, guard \in [Conns -> CnReqs \cup {"free"}],
         \A q \in CnReqs : /\ creq'[q].pc \in Guarding <=> creq[q].pc \in Guarding
                           /\ creq[q].pc \in Guarding => creq'[q].c = creq[q].c
  PROVE  GuardIsHeld'
<1>1. ASSUME NEW c \in Conns, guard'[c] # "free"
      PROVE  creq'[guard'[c]].c = c /\ creq'[guard'[c]].pc \in Guarding
  <2>1. guard[c] \in CnReqs BY <1>1
  <2> QED BY <1>1, <2>1 DEF GuardIsHeld
<1>2. ASSUME NEW r \in CnReqs, creq'[r].pc \in Guarding PROVE guard'[creq'[r].c] = r
  BY <1>2 DEF GuardIsHeld
<1> QED BY <1>1, <1>2 DEF GuardIsHeld

(* Nothing is spent, and who is to replace a spent token still is.         *)
LEMMA StillReplaced ==
  ASSUME SpentAreReplaced, spent' = spent, guard' = guard, faults' = 0 => faults = 0,
         guard \in [Conns -> CnReqs \cup {"free"}],
         \A c \in Conns : secret'[c].rt = secret[c].rt,
         \A q \in CnReqs : /\ Intact(creq'[q]) => Intact(creq[q])
                           /\ Intact(creq'[q]) \/ creq[q].pc \in Writing =>
                                creq'[q].cred.rt = creq[q].cred.rt
                           /\ creq[q].pc \in Writing => creq'[q].pc \in Writing
  PROVE  SpentAreReplaced'
<1> SUFFICES ASSUME faults' = 0 PROVE
      /\ \A r \in CnReqs : Intact(creq'[r]) => creq'[r].cred.rt \notin spent'
      /\ \A c \in Conns : secret'[c].rt \in spent' =>
           guard'[c] # "free" /\ creq'[guard'[c]].pc \in Writing /\ creq'[guard'[c]].cred.rt = secret'[c].rt
  BY DEF SpentAreReplaced
<1>1. ASSUME NEW r \in CnReqs, Intact(creq'[r]) PROVE creq'[r].cred.rt \notin spent'
  BY <1>1 DEF SpentAreReplaced
<1>2. ASSUME NEW c \in Conns, secret'[c].rt \in spent'
      PROVE  guard'[c] # "free" /\ creq'[guard'[c]].pc \in Writing /\ creq'[guard'[c]].cred.rt = secret'[c].rt
  <2>1. /\ guard[c] # "free" /\ creq[guard[c]].pc \in Writing
        /\ creq[guard[c]].cred.rt = secret[c].rt
    BY <1>2 DEF SpentAreReplaced
  <2>2. guard[c] \in CnReqs BY <2>1
  <2> QED BY <2>1, <2>2
<1> QED BY <1>1, <1>2

(* A request that neither renews nor brings a token moves.                 *)
LEMMA Aside ==
  ASSUME ConnInv, NEW r \in CnReqs, NEW y \in ReqRecords, Visits(y), Moves(r, y), Besides,
         creq[r].pc \notin Guarding, y.pc \notin Guarding, ~y.dirty,
         unstored(y) \subseteq unstored(creq[r]),
         UNCHANGED <<secret, guard, spent, issued>>
  PROVE  ConnInv'
<1>1. /\ CnTables /\ GuardIsHeld /\ TokensAreIssued /\ TokensHaveOnePlace /\ SpentAreReplaced
      /\ \A q \in CnReqs : Overtaken(creq[q])
  BY DEF ConnInv
<1>2. \A q \in CnReqs : q = r \/ creq'[q] = creq[q] BY DEF Moves
<1>3. creq'[r] = y BY DEF Moves
<1>4. shown(y) = {} /\ ~Intact(y) /\ creq[r].pc \notin Writing
  BY DEF shown, Intact, Guarding, Renewing, Writing
<1>5. CnTables' BY <1>1, <1>2, <1>3 DEF CnTables, Moves, Besides
<1>6. GuardIsHeld'
  <2>1. \A q \in CnReqs : /\ creq'[q].pc \in Guarding <=> creq[q].pc \in Guarding
                          /\ creq[q].pc \in Guarding => creq'[q].c = creq[q].c
    BY <1>2, <1>3
  <2> QED BY <1>1, <2>1, GuardsStay DEF CnTables
<1>7. TokensAreIssued' /\ TokensHaveOnePlace'
  <2>1. \A q \in CnReqs : /\ unstored(creq'[q]) \subseteq unstored(creq[q])
                          /\ shown(creq'[q]) \subseteq shown(creq[q])
                          /\ shown(creq'[q]) # {} => creq'[q].c = creq[q].c
    BY <1>2, <1>3, <1>4
  <2> QED BY <1>1, <2>1, Shrinks
<1>8. SpentAreReplaced'
  <2>1. \A q \in CnReqs : /\ Intact(creq'[q]) => Intact(creq[q])
                          /\ Intact(creq'[q]) \/ creq[q].pc \in Writing =>
                               creq'[q].cred.rt = creq[q].cred.rt
                          /\ creq[q].pc \in Writing => creq'[q].pc \in Writing
    BY <1>2, <1>3, <1>4
  <2> QED BY <1>1, <2>1, StillReplaced DEF CnTables, Besides
<1>9. \A q \in CnReqs : Overtaken(creq[q])' BY <1>1, <1>2, <1>3 DEF Overtaken
<1> QED BY <1>5, <1>6, <1>7, <1>8, <1>9 DEF ConnInv

(* The provider hands a connect flow its first token.                      *)
LEMMA Brings ==
  ASSUME ConnInv, NEW r \in CnReqs, NEW y \in ReqRecords, Visits(y), Moves(r, y), Besides,
         creq[r].pc \notin Guarding \cup Storing, y.pc = "upsert", ~y.dirty,
         y.cred.rt = issued + 1, issued' = issued + 1,
         UNCHANGED <<secret, guard, spent>>
  PROVE  ConnInv'
<1>1. /\ CnTables /\ GuardIsHeld /\ TokensAreIssued /\ TokensHaveOnePlace /\ SpentAreReplaced
      /\ \A q \in CnReqs : Overtaken(creq[q])
  BY DEF ConnInv
<1>2. \A q \in CnReqs : q = r \/ creq'[q] = creq[q] BY DEF Moves
<1>3. creq'[r] = y BY DEF Moves
<1>4. y.pc \notin Guarding /\ unstored(y) = {issued + 1} /\ shown(y) = {} /\ ~Intact(y)
  BY DEF unstored, shown, Intact, Guarding, Renewing, Writing, Storing
<1>5. creq[r].pc \notin Writing BY DEF Guarding, Renewing
<1>6. issued \in Nat BY <1>1 DEF CnTables
<1>7. /\ issued + 1 \in Nat /\ issued + 1 # 0
      /\ \A n \in Nat : n <= issued => n <= issued + 1 /\ n # issued + 1
  BY <1>6, SMTT(30)
<1> DEFINE top == issued + 1
<1>8. top \in Nat /\ top # 0 /\ top <= issued' /\ \A n \in Nat : n <= issued => n <= issued' /\ n # top
  BY <1>6, <1>7, SMTT(30)
<1>9. unstored(y) = {top} BY <1>4
<1> HIDE DEF top
<1>10. /\ \A c \in Conns : secret[c].rt \in Nat /\ secret[c].rt <= issued
       /\ \A n \in spent : n \in Nat /\ n <= issued
       /\ \A q \in CnReqs : \A n \in unstored(creq[q]) \cup shown(creq[q]) : n \in Nat /\ n # 0 /\ n <= issued
  BY <1>1 DEF CnTables, TokensAreIssued, SecretRecords
<1>11. CnTables' BY <1>1, <1>2, <1>3, <1>6, <1>7 DEF CnTables, Moves, Besides
<1>12. GuardIsHeld'
  <2>1. \A q \in CnReqs : /\ creq'[q].pc \in Guarding <=> creq[q].pc \in Guarding
                          /\ creq[q].pc \in Guarding => creq'[q].c = creq[q].c
    BY <1>2, <1>3, <1>4
  <2> QED BY <1>1, <2>1, GuardsStay DEF CnTables
<1>13. TokensAreIssued'
  <2>1. \A n \in spent' : n \in Nat /\ n # 0 /\ n <= issued' BY <1>1, <1>8 DEF TokensAreIssued
  <2>2. \A c \in Conns : secret'[c].rt <= issued' BY <1>8, <1>10
  <2>3. \A q \in CnReqs : \A n \in unstored(creq'[q]) \cup shown(creq'[q]) : n \in Nat /\ n # 0 /\ n <= issued'
    BY <1>2, <1>3, <1>4, <1>8, <1>9, <1>10
  <2> QED BY <2>1, <2>2, <2>3 DEF TokensAreIssued
<1>14. TokensHaveOnePlace'
  <2>1. top \notin spent /\ \A c \in Conns : secret[c].rt # top BY <1>8, <1>10
  <2>2. \A q \in CnReqs : top \notin unstored(creq[q]) \cup shown(creq[q]) BY <1>8, <1>10
  <2>3. (\A c, d \in Conns : c # d /\ secret[c].rt # 0 => secret[c].rt # secret[d].rt)'
    BY <1>1 DEF TokensHaveOnePlace
  <2>4. ASSUME NEW p \in CnReqs, NEW n \in unstored(creq'[p])
        PROVE  /\ n \notin spent' /\ (\A c \in Conns : secret'[c].rt # n)
               /\ \A q \in CnReqs : n \notin shown(creq'[q]) /\ (q # p => n \notin unstored(creq'[q]))
    <3>1. CASE p = r
      <4>1. n = top BY <1>3, <1>9, <3>1
      <4> QED BY <1>2, <1>3, <1>4, <2>1, <2>2, <3>1, <4>1
    <3>2. CASE p # r
      <4>1. n \in unstored(creq[p]) BY <1>2, <3>2
      <4>2. n # top BY <2>2, <4>1
      <4>3. /\ n \notin spent /\ (\A c \in Conns : secret[c].rt # n)
            /\ \A q \in CnReqs : n \notin shown(creq[q]) /\ (q # p => n \notin unstored(creq[q]))
        BY <1>1, <4>1 DEF TokensHaveOnePlace
      <4> QED BY <1>2, <1>3, <1>4, <1>9, <4>2, <4>3
    <3> QED BY <3>1, <3>2
  <2>5. ASSUME NEW p \in CnReqs, NEW n \in shown(creq'[p])
        PROVE  /\ \A c \in Conns : c # creq'[p].c => secret'[c].rt # n
               /\ \A q \in CnReqs : q # p => n \notin shown(creq'[q])
    <3>1. p # r /\ creq'[p] = creq[p] BY <1>2, <1>3, <1>4, <2>5
    <3>2. n \in shown(creq[p]) BY <3>1
    <3>3. /\ \A c \in Conns : c # creq[p].c => secret[c].rt # n
          /\ \A q \in CnReqs : q # p => n \notin shown(creq[q])
      BY <1>1, <3>2 DEF TokensHaveOnePlace
    <3> QED BY <1>2, <1>3, <1>4, <3>1, <3>3
  <2> QED BY <2>3, <2>4, <2>5 DEF TokensHaveOnePlace
<1>15. SpentAreReplaced'
  <2>1. \A q \in CnReqs : /\ Intact(creq'[q]) => Intact(creq[q])
                          /\ Intact(creq'[q]) \/ creq[q].pc \in Writing =>
                               creq'[q].cred.rt = creq[q].cred.rt
                          /\ creq[q].pc \in Writing => creq'[q].pc \in Writing
    BY <1>2, <1>3, <1>4, <1>5
  <2> QED BY <1>1, <2>1, StillReplaced DEF CnTables, Besides
<1>16. \A q \in CnReqs : Overtaken(creq[q])' BY <1>1, <1>2, <1>3 DEF Overtaken
<1> QED BY <1>11, <1>12, <1>13, <1>14, <1>15, <1>16 DEF ConnInv

(* The others' renewals of a connection may be marked.                     *)
Marks(r, c) ==
  \A q \in CnReqs : q # r =>
    /\ creq'[q].pc = creq[q].pc /\ creq'[q].c = creq[q].c /\ creq'[q].cred = creq[q].cred
    /\ creq'[q].next = creq[q].next /\ creq'[q].todo = creq[q].todo
    /\ creq'[q].dirty => creq[q].dirty \/ (creq[q].c = c /\ creq[q].pc \in {"exchange", "recheck"})

(* A credential is replaced or removed without the guard: by a token no    *)
(* one has stored, or by none.  Renewals under way may be marked.          *)
LEMMA Overwrites ==
  ASSUME ConnInv, NEW r \in CnReqs, NEW y \in ReqRecords, NEW c \in Conns, NEW blob \in SecretRecords,
         Visits(y), Besides, creq' \in [CnReqs -> ReqRecords], creq'[r] = y,
         creq[r].pc \notin Guarding, y.pc \notin Guarding \cup Storing, ~y.dirty,
         blob.rt = 0 \/ blob.rt \in unstored(creq[r]),
         secret' = [secret EXCEPT ![c] = blob], Marks(r, c),
         UNCHANGED <<guard, spent, issued>>
  PROVE  ConnInv'
<1> USE DEF Marks
<1>1. /\ CnTables /\ GuardIsHeld /\ TokensAreIssued /\ TokensHaveOnePlace /\ SpentAreReplaced
      /\ \A q \in CnReqs : Overtaken(creq[q])
  BY DEF ConnInv
<1>2. /\ secret' \in [Conns -> SecretRecords] /\ secret'[c] = blob
      /\ \A d \in Conns : d # c => secret'[d] = secret[d]
  BY <1>1 DEF CnTables
<1>3. unstored(y) = {} /\ shown(y) = {} /\ ~Intact(y) /\ creq[r].pc \notin Writing /\ shown(creq[r]) = {}
  BY DEF unstored, shown, Intact, Guarding, Renewing, Writing, Storing
<1>4. \A q \in CnReqs : q # r => unstored(creq'[q]) = unstored(creq[q]) /\ shown(creq'[q]) = shown(creq[q])
  BY DEF unstored, shown
<1>5. \A q \in CnReqs : unstored(creq'[q]) \subseteq unstored(creq[q]) /\ shown(creq'[q]) = shown(creq[q])
  BY <1>3, <1>4
<1>6. blob.rt \in Nat /\ blob.rt <= issued
  <2>1. blob.rt = 0 => blob.rt <= issued BY <1>1, SMTT(30) DEF CnTables
  <2> QED BY <1>1, <2>1 DEF TokensAreIssued, SecretRecords
<1>7. CnTables'
  <2>1. \A q \in CnReqs : q # r => Visits(creq'[q])
    BY <1>1 DEF CnTables, Visits
  <2> QED BY <1>1, <1>2, <2>1 DEF CnTables, Besides
<1>8. GuardIsHeld'
  <2>1. \A q \in CnReqs : /\ creq'[q].pc \in Guarding <=> creq[q].pc \in Guarding
                          /\ creq[q].pc \in Guarding => creq'[q].c = creq[q].c
    OBVIOUS
  <2> QED BY <1>1, <2>1, GuardsStay DEF CnTables
<1>9. TokensAreIssued' BY <1>1, <1>2, <1>5, <1>6 DEF TokensAreIssued
<1>10. blob.rt # 0 => /\ blob.rt \notin spent /\ (\A d \in Conns : secret[d].rt # blob.rt)
                      /\ \A q \in CnReqs : blob.rt \notin shown(creq[q]) /\ blob.rt \notin unstored(creq'[q])
  BY <1>1, <1>3, <1>4 DEF TokensHaveOnePlace
<1>11. TokensHaveOnePlace'
  <2>1. ASSUME NEW d \in Conns, NEW e \in Conns, d # e, secret'[d].rt # 0 PROVE secret'[d].rt # secret'[e].rt
    <3>1. CASE d = c BY <1>2, <1>10, <2>1, <3>1
    <3>2. CASE e = c BY <1>2, <1>10, <2>1, <3>2
    <3>3. CASE d # c /\ e # c BY <1>1, <1>2, <2>1, <3>3 DEF TokensHaveOnePlace
    <3> QED BY <3>1, <3>2, <3>3
  <2>2. ASSUME NEW p \in CnReqs, NEW n \in unstored(creq'[p])
        PROVE  /\ n \notin spent' /\ (\A d \in Conns : secret'[d].rt # n)
               /\ \A q \in CnReqs : n \notin shown(creq'[q]) /\ (q # p => n \notin unstored(creq'[q]))
    <3>1. n \in unstored(creq[p]) BY <1>5
    <3>2. /\ n \notin spent /\ (\A d \in Conns : secret[d].rt # n)
          /\ \A q \in CnReqs : n \notin shown(creq[q]) /\ (q # p => n \notin unstored(creq[q]))
      BY <1>1, <3>1 DEF TokensHaveOnePlace
    <3>3. n # 0 BY <1>1, <3>1 DEF TokensAreIssued
    <3>4. blob.rt # n BY <1>10, <3>3
    <3> QED BY <1>2, <1>5, <3>2, <3>4
  <2>3. ASSUME NEW p \in CnReqs, NEW n \in shown(creq'[p])
        PROVE  /\ \A d \in Conns : d # creq'[p].c => secret'[d].rt # n
               /\ \A q \in CnReqs : q # p => n \notin shown(creq'[q])
    <3>1. n \in shown(creq[p]) /\ p # r BY <1>3, <1>5
    <3>2. /\ \A d \in Conns : d # creq[p].c => secret[d].rt # n
          /\ \A q \in CnReqs : q # p => n \notin shown(creq[q])
      BY <1>1, <3>1 DEF TokensHaveOnePlace
    <3>3. n # 0 BY <1>1, <3>1 DEF TokensAreIssued
    <3>4. blob.rt # n BY <1>10, <3>1, <3>3
    <3>5. creq'[p].c = creq[p].c BY <3>1
    <3> QED BY <1>2, <1>5, <3>2, <3>4, <3>5
  <2> QED BY <2>1, <2>2, <2>3 DEF TokensHaveOnePlace
<1>12. SpentAreReplaced'
  <2> SUFFICES ASSUME faults' = 0 PROVE
        /\ \A q \in CnReqs : Intact(creq'[q]) => creq'[q].cred.rt \notin spent'
        /\ \A d \in Conns : secret'[d].rt \in spent' =>
             guard'[d] # "free" /\ creq'[guard'[d]].pc \in Writing /\ creq'[guard'[d]].cred.rt = secret'[d].rt
    BY DEF SpentAreReplaced
  <2>1. faults = 0 BY DEF Besides
  <2>2. ASSUME NEW q \in CnReqs, Intact(creq'[q]) PROVE creq'[q].cred.rt \notin spent'
    <3>1. q # r BY <1>3, <2>2
    <3>2. Intact(creq[q]) BY <2>2, <3>1 DEF Intact
    <3> QED BY <1>1, <2>1, <3>1, <3>2 DEF SpentAreReplaced
  <2>3. ASSUME NEW d \in Conns, secret'[d].rt \in spent'
        PROVE  guard'[d] # "free" /\ creq'[guard'[d]].pc \in Writing /\ creq'[guard'[d]].cred.rt = secret'[d].rt
    <3>1. blob.rt \notin spent BY <1>1, <1>10 DEF TokensAreIssued
    <3>2. d # c /\ secret[d].rt \in spent /\ secret'[d] = secret[d] BY <1>2, <2>3, <3>1
    <3>3. /\ guard[d] # "free" /\ creq[guard[d]].pc \in Writing
          /\ creq[guard[d]].cred.rt = secret[d].rt
      BY <1>1, <2>1, <3>2 DEF SpentAreReplaced
    <3>4. guard[d] \in CnReqs BY <1>1, <3>3 DEF CnTables
    <3>5. guard[d] # r BY <1>3, <3>3
    <3> QED BY <3>2, <3>3, <3>4, <3>5
  <2> QED BY <2>2, <2>3
<1>13. ASSUME NEW q \in CnReqs PROVE Overtaken(creq[q])'
  <2>1. CASE q = r BY <2>1 DEF Overtaken
  <2>2. CASE q # r
    <3> SUFFICES ASSUME creq'[q].dirty
                 PROVE  /\ creq'[q].pc \in {"exchange", "recheck", "reject"}
                        /\ creq'[q].pc # "reject" => secret'[creq'[q].c].rt # creq'[q].cred.rt
      BY DEF Overtaken
    <3>1. creq[q].pc \in {"exchange", "recheck", "reject"} BY <1>1, <2>2 DEF Overtaken
    <3>2. ASSUME creq[q].pc # "reject" PROVE secret'[creq[q].c].rt # creq[q].cred.rt
      <4>1. creq[q].cred.rt \in shown(creq[q]) BY <3>1, <3>2 DEF shown, Renewing, Writing
      <4>2. creq[q].cred.rt # 0 BY <1>1, <4>1 DEF TokensAreIssued
      <4>3. blob.rt # creq[q].cred.rt BY <1>10, <4>1, <4>2
      <4>4. creq[q].c # c => secret[creq[q].c].rt # creq[q].cred.rt BY <1>1, <2>2, <3>2 DEF Overtaken
      <4>5. creq[q].c \in Conns BY <1>1 DEF CnTables, ReqRecords
      <4> QED BY <1>2, <4>3, <4>4, <4>5
    <3> QED BY <2>2, <3>1, <3>2
  <2> QED BY <2>1, <2>2
<1> QED BY <1>7, <1>8, <1>9, <1>11, <1>12, <1>13 DEF ConnInv

(* A token that was shown is spent: it is nowhere but in its connection.   *)
LEMMA SpendsOne ==
  ASSUME TokensAreIssued, TokensHaveOnePlace, NEW r \in CnReqs, NEW n \in shown(creq[r]),
         spent' = spent \cup {n}, issued' = issued,
         \A c \in Conns : secret'[c].rt = secret[c].rt,
         \A q \in CnReqs : /\ unstored(creq'[q]) \subseteq unstored(creq[q])
                           /\ shown(creq'[q]) \subseteq shown(creq[q])
                           /\ shown(creq'[q]) # {} => creq'[q].c = creq[q].c
  PROVE  TokensAreIssued' /\ TokensHaveOnePlace'
<1>1. n \in Nat /\ n # 0 /\ n <= issued BY DEF TokensAreIssued
<1>2. TokensAreIssued' BY <1>1 DEF TokensAreIssued
<1>3. (\A c, d \in Conns : c # d /\ secret[c].rt # 0 => secret[c].rt # secret[d].rt)'
  BY DEF TokensHaveOnePlace
<1>4. ASSUME NEW p \in CnReqs, NEW m \in unstored(creq'[p])
      PROVE  /\ m \notin spent' /\ (\A c \in Conns : secret'[c].rt # m)
             /\ \A q \in CnReqs : m \notin shown(creq'[q]) /\ (q # p => m \notin unstored(creq'[q]))
  <2>1. m \in unstored(creq[p]) OBVIOUS
  <2>2. /\ m \notin spent /\ (\A c \in Conns : secret[c].rt # m)
        /\ \A q \in CnReqs : m \notin shown(creq[q]) /\ (q # p => m \notin unstored(creq[q]))
    BY <2>1 DEF TokensHaveOnePlace
  <2>3. m # n BY <2>2
  <2> QED BY <2>2, <2>3
<1>5. ASSUME NEW p \in CnReqs, NEW m \in shown(creq'[p])
      PROVE  /\ \A c \in Conns : c # creq'[p].c => secret'[c].rt # m
             /\ \A q \in CnReqs : q # p => m \notin shown(creq'[q])
  <2>1. m \in shown(creq[p]) /\ creq'[p].c = creq[p].c BY <1>5
  <2>2. /\ \A c \in Conns : c # creq[p].c => secret[c].rt # m
        /\ \A q \in CnReqs : q # p => m \notin shown(creq[q])
    BY <2>1 DEF TokensHaveOnePlace
  <2> QED BY <2>1, <2>2
<1> QED BY <1>2, <1>3, <1>4, <1>5 DEF TokensHaveOnePlace

-----------------------------------------------------------------------------
(***************************************************************************)
(* A renewal: its guard, its exchange, its write.                          *)
(***************************************************************************)
LEMMA TakesTheGuard ==
  ASSUME ConnInv, NEW r \in CnReqs, NEW y \in ReqRecords, Visits(y), Moves(r, y), Besides,
         creq[r].pc \notin Guarding \cup Storing, y.pc = "fence", ~y.dirty, y.c = creq[r].c,
         guard[creq[r].c] = "free", guard' = [guard EXCEPT ![creq[r].c] = r],
         UNCHANGED <<secret, spent, issued>>
  PROVE  ConnInv'
<1>1. /\ CnTables /\ GuardIsHeld /\ TokensAreIssued /\ TokensHaveOnePlace /\ SpentAreReplaced
      /\ \A q \in CnReqs : Overtaken(creq[q])
  BY DEF ConnInv
<1>2. \A q \in CnReqs : q = r \/ creq'[q] = creq[q] BY DEF Moves
<1>3. creq'[r] = y BY DEF Moves
<1>4. /\ y.pc \in Guarding /\ unstored(y) = {} /\ shown(y) = {} /\ ~Intact(y)
      /\ creq[r].pc \notin Writing
  BY DEF unstored, shown, Intact, Guarding, Renewing, Writing, Storing
<1> DEFINE k == creq[r].c
<1>5. k \in Conns BY <1>1 DEF CnTables, ReqRecords
<1>6. /\ guard' \in [Conns -> CnReqs \cup {"free"}] /\ guard'[k] = r
      /\ \A c \in Conns : c # k => guard'[c] = guard[c]
  BY <1>1, <1>5 DEF CnTables
<1>7. guard[k] = "free" /\ y.c = k OBVIOUS
<1> HIDE DEF k
<1>8. r # "free" /\ "free" \notin CnReqs BY CnAssumption
<1>9. CnTables' BY <1>1, <1>2, <1>3, <1>6 DEF CnTables, Moves, Besides
<1>10. GuardIsHeld'
  <2>1. ASSUME NEW c \in Conns, guard'[c] # "free"
        PROVE  creq'[guard'[c]].c = c /\ creq'[guard'[c]].pc \in Guarding
    <3>1. CASE c = k BY <1>3, <1>4, <1>6, <1>7, <3>1
    <3>2. CASE c # k
      <4>1. guard'[c] = guard[c] /\ guard[c] \in CnReqs BY <1>1, <1>6, <2>1, <3>2 DEF CnTables
      <4>2. creq[guard[c]].c = c /\ creq[guard[c]].pc \in Guarding BY <1>1, <2>1, <4>1 DEF GuardIsHeld
      <4>3. guard[c] # r BY <4>2
      <4> QED BY <1>2, <4>1, <4>2, <4>3
    <3> QED BY <3>1, <3>2
  <2>2. ASSUME NEW q \in CnReqs, creq'[q].pc \in Guarding PROVE guard'[creq'[q].c] = q
    <3>1. CASE q = r BY <1>3, <1>6, <1>7, <3>1
    <3>2. CASE q # r
      <4>1. creq'[q] = creq[q] BY <1>2, <3>2
      <4>2. guard[creq[q].c] = q BY <1>1, <2>2, <4>1 DEF GuardIsHeld
      <4>3. creq[q].c # k BY <1>7, <1>8, <4>2
      <4>4. creq[q].c \in Conns BY <1>1 DEF CnTables, ReqRecords
      <4> QED BY <1>6, <4>1, <4>2, <4>3, <4>4
    <3> QED BY <3>1, <3>2
  <2> QED BY <2>1, <2>2 DEF GuardIsHeld
<1>11. TokensAreIssued' /\ TokensHaveOnePlace'
  <2>1. \A q \in CnReqs : /\ unstored(creq'[q]) \subseteq unstored(creq[q])
                          /\ shown(creq'[q]) \subseteq shown(creq[q])
                          /\ shown(creq'[q]) # {} => creq'[q].c = creq[q].c
    BY <1>2, <1>3, <1>4
  <2> QED BY <1>1, <2>1, Shrinks
<1>12. SpentAreReplaced'
  <2> SUFFICES ASSUME faults' = 0 PROVE
        /\ \A q \in CnReqs : Intact(creq'[q]) => creq'[q].cred.rt \notin spent'
        /\ \A d \in Conns : secret'[d].rt \in spent' =>
             guard'[d] # "free" /\ creq'[guard'[d]].pc \in Writing /\ creq'[guard'[d]].cred.rt = secret'[d].rt
    BY DEF SpentAreReplaced
  <2>1. faults = 0 BY DEF Besides
  <2>2. ASSUME NEW q \in CnReqs, Intact(creq'[q]) PROVE creq'[q].cred.rt \notin spent'
    <3>1. creq'[q] = creq[q] BY <1>2, <1>3, <1>4, <2>2
    <3> QED BY <1>1, <2>1, <2>2, <3>1 DEF SpentAreReplaced
  <2>3. ASSUME NEW d \in Conns, secret'[d].rt \in spent'
        PROVE  guard'[d] # "free" /\ creq'[guard'[d]].pc \in Writing /\ creq'[guard'[d]].cred.rt = secret'[d].rt
    <3>1. /\ guard[d] # "free" /\ creq[guard[d]].pc \in Writing
          /\ creq[guard[d]].cred.rt = secret[d].rt
      BY <1>1, <2>1, <2>3 DEF SpentAreReplaced
    <3>2. d # k BY <1>7, <3>1
    <3>3. guard[d] \in CnReqs /\ guard[d] # r BY <1>1, <1>4, <3>1 DEF CnTables
    <3> QED BY <1>2, <1>6, <3>1, <3>2, <3>3
  <2> QED BY <2>2, <2>3
<1>13. \A q \in CnReqs : Overtaken(creq[q])' BY <1>1, <1>2, <1>3 DEF Overtaken
<1> QED BY <1>9, <1>10, <1>11, <1>12, <1>13 DEF ConnInv

(* The guard is let go; only a failure lets it go over a spent token.      *)
LEMMA LetsGuardGo ==
  ASSUME ConnInv, NEW r \in CnReqs, NEW y \in ReqRecords, Visits(y), Moves(r, y), Besides,
         creq[r].pc \in Guarding, y.pc \notin Guarding \cup Storing, ~y.dirty,
         guard' = [guard EXCEPT ![creq[r].c] = "free"], UNCHANGED <<secret, issued>>,
         spent' = spent \/ (faults' # 0 /\ creq[r].pc = "exchange" /\ spent' = spent \cup {creq[r].cred.rt}),
         faults' = 0 => creq[r].pc \notin Writing \/ secret[creq[r].c].rt # creq[r].cred.rt
  PROVE  ConnInv'
<1>1. /\ CnTables /\ GuardIsHeld /\ TokensAreIssued /\ TokensHaveOnePlace /\ SpentAreReplaced
      /\ \A q \in CnReqs : Overtaken(creq[q])
  BY DEF ConnInv
<1>2. \A q \in CnReqs : q = r \/ creq'[q] = creq[q] BY DEF Moves
<1>3. creq'[r] = y BY DEF Moves
<1>4. unstored(y) = {} /\ shown(y) = {} /\ ~Intact(y) /\ y.pc \notin Guarding
  BY DEF unstored, shown, Intact, Guarding, Renewing, Writing, Storing
<1> DEFINE k == creq[r].c
<1>5. k \in Conns /\ guard[k] = r BY <1>1 DEF CnTables, ReqRecords, GuardIsHeld
<1>6. /\ guard' \in [Conns -> CnReqs \cup {"free"}] /\ guard'[k] = "free"
      /\ \A c \in Conns : c # k => guard'[c] = guard[c]
  BY <1>1, <1>5 DEF CnTables
<1>7. faults' = 0 => creq[r].pc \notin Writing \/ secret[k].rt # creq[r].cred.rt OBVIOUS
<1> HIDE DEF k
<1>8. CnTables' BY <1>1, <1>2, <1>3, <1>6 DEF CnTables, Moves, Besides
<1>9. GuardIsHeld'
  <2>1. ASSUME NEW c \in Conns, guard'[c] # "free"
        PROVE  creq'[guard'[c]].c = c /\ creq'[guard'[c]].pc \in Guarding
    <3>1. c # k /\ guard'[c] = guard[c] BY <1>6, <2>1
    <3>2. guard[c] \in CnReqs BY <1>1, <2>1, <3>1 DEF CnTables
    <3>3. creq[guard[c]].c = c /\ creq[guard[c]].pc \in Guarding BY <1>1, <2>1, <3>1 DEF GuardIsHeld
    <3>4. guard[c] # r BY <3>1, <3>3 DEF k
    <3> QED BY <1>2, <3>1, <3>2, <3>3, <3>4
  <2>2. ASSUME NEW q \in CnReqs, creq'[q].pc \in Guarding PROVE guard'[creq'[q].c] = q
    <3>1. q # r /\ creq'[q] = creq[q] BY <1>2, <1>3, <1>4, <2>2
    <3>2. guard[creq[q].c] = q BY <1>1, <2>2, <3>1 DEF GuardIsHeld
    <3>3. creq[q].c # k BY <1>5, <3>1, <3>2
    <3>4. creq[q].c \in Conns BY <1>1 DEF CnTables, ReqRecords
    <3> QED BY <1>6, <3>1, <3>2, <3>3, <3>4
  <2> QED BY <2>1, <2>2 DEF GuardIsHeld
<1>10. TokensAreIssued' /\ TokensHaveOnePlace'
  <2>1. \A q \in CnReqs : /\ unstored(creq'[q]) \subseteq unstored(creq[q])
                          /\ shown(creq'[q]) \subseteq shown(creq[q])
                          /\ shown(creq'[q]) # {} => creq'[q].c = creq[q].c
    BY <1>2, <1>3, <1>4
  <2>2. CASE spent' = spent BY <1>1, <2>1, <2>2, Shrinks
  <2>3. CASE spent' = spent \cup {creq[r].cred.rt} /\ creq[r].pc = "exchange"
    <3>1. creq[r].cred.rt \in shown(creq[r]) BY <2>3 DEF shown, Renewing
    <3> QED BY <1>1, <2>1, <2>3, <3>1, SpendsOne
  <2> QED BY <2>2, <2>3
<1>11. SpentAreReplaced'
  <2> SUFFICES ASSUME faults' = 0 PROVE
        /\ \A q \in CnReqs : Intact(creq'[q]) => creq'[q].cred.rt \notin spent'
        /\ \A d \in Conns : secret'[d].rt \in spent' =>
             guard'[d] # "free" /\ creq'[guard'[d]].pc \in Writing /\ creq'[guard'[d]].cred.rt = secret'[d].rt
    BY DEF SpentAreReplaced
  <2>1. faults = 0 /\ spent' = spent BY DEF Besides
  <2>2. ASSUME NEW q \in CnReqs, Intact(creq'[q]) PROVE creq'[q].cred.rt \notin spent'
    <3>1. creq'[q] = creq[q] BY <1>2, <1>3, <1>4, <2>2
    <3> QED BY <1>1, <2>1, <2>2, <3>1 DEF SpentAreReplaced
  <2>3. ASSUME NEW d \in Conns, secret'[d].rt \in spent'
        PROVE  guard'[d] # "free" /\ creq'[guard'[d]].pc \in Writing /\ creq'[guard'[d]].cred.rt = secret'[d].rt
    <3>1. /\ guard[d] # "free" /\ creq[guard[d]].pc \in Writing
          /\ creq[guard[d]].cred.rt = secret[d].rt
      BY <1>1, <2>1, <2>3 DEF SpentAreReplaced
    <3>2. d # k BY <1>5, <1>7, <3>1
    <3>3. guard[d] \in CnReqs BY <1>1, <3>1 DEF CnTables
    <3>4. guard[d] # r BY <1>1, <3>1, <3>2 DEF GuardIsHeld, k
    <3> QED BY <1>2, <1>6, <3>1, <3>2, <3>3, <3>4
  <2> QED BY <2>2, <2>3
<1>12. \A q \in CnReqs : Overtaken(creq[q])' BY <1>1, <1>2, <1>3 DEF Overtaken
<1> QED BY <1>8, <1>9, <1>10, <1>11, <1>12 DEF ConnInv

(* A renewal goes on with the token it showed, or stops after a refusal.   *)
LEMMA GoesOn ==
  ASSUME ConnInv, NEW r \in CnReqs, NEW y \in ReqRecords, Visits(y), Moves(r, y), Besides,
         creq[r].pc \in Guarding, y.pc \in Guarding, Overtaken(y),
         y.c = creq[r].c, y.cred = creq[r].cred,
         unstored(y) \subseteq unstored(creq[r]), shown(y) \subseteq shown(creq[r]),
         Intact(y) => Intact(creq[r]), creq[r].pc \in Writing => y.pc \in Writing,
         UNCHANGED <<secret, guard, spent, issued>>
  PROVE  ConnInv'
<1>1. /\ CnTables /\ GuardIsHeld /\ TokensAreIssued /\ TokensHaveOnePlace /\ SpentAreReplaced
      /\ \A q \in CnReqs : Overtaken(creq[q])
  BY DEF ConnInv
<1>2. \A q \in CnReqs : q = r \/ creq'[q] = creq[q] BY DEF Moves
<1>3. creq'[r] = y BY DEF Moves
<1>4. CnTables' BY <1>1, <1>2, <1>3 DEF CnTables, Moves, Besides
<1>5. GuardIsHeld'
  <2>1. \A q \in CnReqs : /\ creq'[q].pc \in Guarding <=> creq[q].pc \in Guarding
                          /\ creq[q].pc \in Guarding => creq'[q].c = creq[q].c
    BY <1>2, <1>3
  <2> QED BY <1>1, <2>1, GuardsStay DEF CnTables
<1>6. TokensAreIssued' /\ TokensHaveOnePlace'
  <2>1. \A q \in CnReqs : /\ unstored(creq'[q]) \subseteq unstored(creq[q])
                          /\ shown(creq'[q]) \subseteq shown(creq[q])
                          /\ shown(creq'[q]) # {} => creq'[q].c = creq[q].c
    BY <1>2, <1>3
  <2> QED BY <1>1, <2>1, Shrinks
<1>7. SpentAreReplaced'
  <2>1. \A q \in CnReqs : /\ Intact(creq'[q]) => Intact(creq[q])
                          /\ Intact(creq'[q]) \/ creq[q].pc \in Writing =>
                               creq'[q].cred.rt = creq[q].cred.rt
                          /\ creq[q].pc \in Writing => creq'[q].pc \in Writing
    BY <1>2, <1>3
  <2> QED BY <1>1, <2>1, StillReplaced DEF CnTables, Besides
<1>8. \A q \in CnReqs : Overtaken(creq[q])' BY <1>1, <1>2, <1>3 DEF Overtaken
<1> QED BY <1>4, <1>5, <1>6, <1>7, <1>8 DEF ConnInv

(* The read-back: what is stored under the guard goes to the provider.     *)
LEMMA Presents ==
  ASSUME ConnInv, NEW r \in CnReqs, NEW y \in ReqRecords, Visits(y), Moves(r, y), Besides,
         creq[r].pc = "fence", y.pc = "exchange", ~y.dirty, y.c = creq[r].c,
         y.cred = secret[creq[r].c], y.cred.rt # 0,
         UNCHANGED <<secret, guard, spent, issued>>
  PROVE  ConnInv'
<1>1. /\ CnTables /\ GuardIsHeld /\ TokensAreIssued /\ TokensHaveOnePlace /\ SpentAreReplaced
      /\ \A q \in CnReqs : Overtaken(creq[q])
  BY DEF ConnInv
<1>2. \A q \in CnReqs : q = r \/ creq'[q] = creq[q] BY DEF Moves
<1>3. creq'[r] = y BY DEF Moves
<1>4. /\ creq[r].pc \in Guarding /\ y.pc \in Guarding /\ unstored(y) = {} /\ shown(y) = {y.cred.rt}
      /\ creq[r].pc \notin Writing
  BY DEF unstored, shown, Guarding, Renewing, Writing, Storing
<1> DEFINE k == creq[r].c   n == y.cred.rt
<1>5. k \in Conns /\ guard[k] = r /\ secret[k].rt = n /\ n # 0 /\ n \in Nat /\ y.c = k
  BY <1>1, <1>4 DEF CnTables, ReqRecords, SecretRecords, GuardIsHeld
<1>6. shown(y) = {n} BY <1>4
<1> HIDE DEF k, n
<1>7. ASSUME NEW q \in CnReqs, q # r
      PROVE  n \notin shown(creq[q]) /\ n \notin unstored(creq[q])
  <2>1. n \notin unstored(creq[q]) BY <1>1, <1>5 DEF TokensHaveOnePlace
  <2>2. ASSUME n \in shown(creq[q]) PROVE FALSE
    <3>1. creq[q].pc \in Guarding BY <2>2 DEF shown, Guarding
    <3>2. creq[q].c # k BY <1>1, <1>5, <1>7, <3>1 DEF GuardIsHeld
    <3> QED BY <1>1, <1>5, <2>2, <3>2 DEF TokensHaveOnePlace
  <2> QED BY <2>1, <2>2
<1>8. CnTables' BY <1>1, <1>2, <1>3 DEF CnTables, Moves, Besides
<1>9. GuardIsHeld'
  <2>1. \A q \in CnReqs : /\ creq'[q].pc \in Guarding <=> creq[q].pc \in Guarding
                          /\ creq[q].pc \in Guarding => creq'[q].c = creq[q].c
    BY <1>2, <1>3, <1>4
  <2> QED BY <1>1, <2>1, GuardsStay DEF CnTables
<1>10. TokensAreIssued'
  <2>1. n <= issued BY <1>1, <1>5 DEF TokensAreIssued
  <2>2. \A q \in CnReqs : \A m \in unstored(creq'[q]) \cup shown(creq'[q]) : m \in Nat /\ m # 0 /\ m <= issued
    <3>1. \A m \in unstored(creq'[r]) \cup shown(creq'[r]) : m = n BY <1>3, <1>4, <1>6
    <3>2. \A q \in CnReqs : \A m \in unstored(creq[q]) \cup shown(creq[q]) : m \in Nat /\ m # 0 /\ m <= issued
      BY <1>1 DEF TokensAreIssued
    <3> QED BY <1>2, <1>5, <2>1, <3>1, <3>2
  <2> QED BY <1>1, <2>2 DEF TokensAreIssued
<1>11. TokensHaveOnePlace'
  <2>1. (\A c, d \in Conns : c # d /\ secret[c].rt # 0 => secret[c].rt # secret[d].rt)'
    BY <1>1 DEF TokensHaveOnePlace
  <2>2. ASSUME NEW p \in CnReqs, NEW m \in unstored(creq'[p])
        PROVE  /\ m \notin spent' /\ (\A c \in Conns : secret'[c].rt # m)
               /\ \A q \in CnReqs : m \notin shown(creq'[q]) /\ (q # p => m \notin unstored(creq'[q]))
    <3>1. p # r /\ m \in unstored(creq[p]) BY <1>2, <1>3, <1>4, <2>2
    <3>2. /\ m \notin spent /\ (\A c \in Conns : secret[c].rt # m)
          /\ \A q \in CnReqs : m \notin shown(creq[q]) /\ (q # p => m \notin unstored(creq[q]))
      BY <1>1, <3>1 DEF TokensHaveOnePlace
    <3>3. m # n BY <1>5, <3>2
    <3> QED BY <1>2, <1>3, <1>4, <1>6, <3>2, <3>3
  <2>3. ASSUME NEW p \in CnReqs, NEW m \in shown(creq'[p])
        PROVE  /\ \A c \in Conns : c # creq'[p].c => secret'[c].rt # m
               /\ \A q \in CnReqs : q # p => m \notin shown(creq'[q])
    <3>1. CASE p = r
      <4>1. m = n BY <1>3, <1>6, <3>1
      <4>2. \A c \in Conns : c # k => secret[c].rt # n BY <1>1, <1>5 DEF TokensHaveOnePlace
      <4> QED BY <1>2, <1>3, <1>5, <1>7, <3>1, <4>1, <4>2
    <3>2. CASE p # r
      <4>1. creq'[p] = creq[p] /\ m \in shown(creq[p]) BY <1>2, <3>2
      <4>2. m # n BY <1>7, <3>2, <4>1
      <4>3. /\ \A c \in Conns : c # creq[p].c => secret[c].rt # m
            /\ \A q \in CnReqs : q # p => m \notin shown(creq[q])
        BY <1>1, <4>1 DEF TokensHaveOnePlace
      <4> QED BY <1>2, <1>3, <1>6, <4>1, <4>2, <4>3
    <3> QED BY <3>1, <3>2
  <2> QED BY <2>1, <2>2, <2>3 DEF TokensHaveOnePlace
<1>12. SpentAreReplaced'
  <2> SUFFICES ASSUME faults' = 0 PROVE
        /\ \A q \in CnReqs : Intact(creq'[q]) => creq'[q].cred.rt \notin spent'
        /\ \A d \in Conns : secret'[d].rt \in spent' =>
             guard'[d] # "free" /\ creq'[guard'[d]].pc \in Writing /\ creq'[guard'[d]].cred.rt = secret'[d].rt
    BY DEF SpentAreReplaced
  <2>1. faults = 0 BY DEF Besides
  <2>2. n \notin spent BY <1>1, <1>4, <1>5, <2>1 DEF SpentAreReplaced
  <2>3. ASSUME NEW q \in CnReqs, Intact(creq'[q]) PROVE creq'[q].cred.rt \notin spent'
    <3>1. CASE q = r BY <1>3, <2>2, <3>1 DEF n
    <3>2. CASE q # r BY <1>1, <1>2, <2>1, <2>3, <3>2 DEF SpentAreReplaced
    <3> QED BY <3>1, <3>2
  <2>4. ASSUME NEW d \in Conns, secret'[d].rt \in spent'
        PROVE  guard'[d] # "free" /\ creq'[guard'[d]].pc \in Writing /\ creq'[guard'[d]].cred.rt = secret'[d].rt
    <3>1. /\ guard[d] # "free" /\ creq[guard[d]].pc \in Writing
          /\ creq[guard[d]].cred.rt = secret[d].rt
      BY <1>1, <2>1, <2>4 DEF SpentAreReplaced
    <3>2. guard[d] \in CnReqs /\ guard[d] # r BY <1>1, <1>4, <3>1 DEF CnTables
    <3> QED BY <1>2, <3>1, <3>2
  <2> QED BY <2>3, <2>4
<1>13. \A q \in CnReqs : Overtaken(creq[q])' BY <1>1, <1>2, <1>3 DEF Overtaken
<1> QED BY <1>8, <1>9, <1>10, <1>11, <1>12, <1>13 DEF ConnInv

(* The provider rotates: the token shown is spent and a new one is on its  *)
(* way.                                                                    *)
LEMMA Rotates ==
  ASSUME ConnInv, NEW r \in CnReqs, NEW y \in ReqRecords, Visits(y), Moves(r, y), Besides,
         creq[r].pc = "exchange", y.pc = "recheck", y.dirty = creq[r].dirty,
         y.c = creq[r].c, y.cred = creq[r].cred, y.next = issued + 1, issued' = issued + 1,
         spent' = spent \cup {creq[r].cred.rt}, UNCHANGED <<secret, guard>>
  PROVE  ConnInv'
<1>1. /\ CnTables /\ GuardIsHeld /\ TokensAreIssued /\ TokensHaveOnePlace /\ SpentAreReplaced
      /\ \A q \in CnReqs : Overtaken(creq[q])
  BY DEF ConnInv
<1>2. \A q \in CnReqs : q = r \/ creq'[q] = creq[q] BY DEF Moves
<1>3. creq'[r] = y BY DEF Moves
<1> DEFINE top == issued + 1   n == creq[r].cred.rt
<1>4. issued \in Nat BY <1>1 DEF CnTables
<1>5. /\ top \in Nat /\ top # 0 /\ top <= issued'
      /\ \A m \in Nat : m <= issued => m <= issued' /\ m # top
  BY <1>4, SMTT(30)
<1>6. /\ creq[r].pc \in Guarding /\ y.pc \in Guarding /\ creq[r].pc \notin Writing /\ y.pc \in Writing
      /\ unstored(y) = {top} /\ shown(y) = {n} /\ shown(creq[r]) = {n} /\ ~Intact(y) /\ Intact(creq[r])
  BY <1>5 DEF unstored, shown, Intact, Guarding, Renewing, Writing, Storing
<1>7. issued' = top /\ spent' = spent \cup {n} /\ y.cred.rt = n OBVIOUS
<1> HIDE DEF top, n
<1>8. /\ \A c \in Conns : secret[c].rt \in Nat /\ secret[c].rt <= issued
      /\ \A m \in spent : m \in Nat /\ m # 0 /\ m <= issued
      /\ \A q \in CnReqs : \A m \in unstored(creq[q]) \cup shown(creq[q]) : m \in Nat /\ m # 0 /\ m <= issued
  BY <1>1 DEF CnTables, TokensAreIssued, SecretRecords
<1>9. n \in Nat /\ n # 0 /\ n <= issued BY <1>6, <1>8
<1>10. \A q \in CnReqs : top \notin unstored(creq[q]) /\ top \notin shown(creq[q]) BY <1>5, <1>8
<1>11. top \notin spent' /\ (\A c \in Conns : secret[c].rt # top) /\ n # top BY <1>5, <1>7, <1>8, <1>9
<1>12. CnTables' BY <1>1, <1>2, <1>3, <1>5, <1>7 DEF CnTables, Moves, Besides
<1>13. GuardIsHeld'
  <2>1. \A q \in CnReqs : /\ creq'[q].pc \in Guarding <=> creq[q].pc \in Guarding
                          /\ creq[q].pc \in Guarding => creq'[q].c = creq[q].c
    BY <1>2, <1>3, <1>6
  <2> QED BY <1>1, <2>1, GuardsStay DEF CnTables
<1>14. TokensAreIssued'
  <2>1. \A m \in spent' : m \in Nat /\ m # 0 /\ m <= issued' BY <1>5, <1>7, <1>8, <1>9
  <2>2. \A c \in Conns : secret'[c].rt <= issued' BY <1>5, <1>8
  <2>3. \A q \in CnReqs : \A m \in unstored(creq'[q]) \cup shown(creq'[q]) : m \in Nat /\ m # 0 /\ m <= issued'
    BY <1>2, <1>3, <1>5, <1>6, <1>8, <1>9
  <2> QED BY <2>1, <2>2, <2>3 DEF TokensAreIssued
<1>15. TokensHaveOnePlace'
  <2>1. (\A c, d \in Conns : c # d /\ secret[c].rt # 0 => secret[c].rt # secret[d].rt)'
    BY <1>1 DEF TokensHaveOnePlace
  <2>2. \A q \in CnReqs : shown(creq'[q]) = shown(creq[q]) BY <1>2, <1>3, <1>6
  <2>3. ASSUME NEW p \in CnReqs, NEW m \in unstored(creq'[p])
        PROVE  /\ m \notin spent' /\ (\A c \in Conns : secret'[c].rt # m)
               /\ \A q \in CnReqs : m \notin shown(creq'[q]) /\ (q # p => m \notin unstored(creq'[q]))
    <3>1. CASE p = r
      <4>1. m = top BY <1>3, <1>6, <3>1
      <4> QED BY <1>2, <1>10, <1>11, <2>2, <3>1, <4>1
    <3>2. CASE p # r
      <4>1. m \in unstored(creq[p]) BY <1>2, <3>2
      <4>2. /\ m \notin spent /\ (\A c \in Conns : secret[c].rt # m)
            /\ \A q \in CnReqs : m \notin shown(creq[q]) /\ (q # p => m \notin unstored(creq[q]))
        BY <1>1, <4>1 DEF TokensHaveOnePlace
      <4>3. m # top BY <1>10, <4>1
      <4>4. m # n BY <1>6, <4>2
      <4> QED BY <1>2, <1>3, <1>6, <1>7, <2>2, <4>2, <4>3, <4>4
    <3> QED BY <3>1, <3>2
  <2>4. ASSUME NEW p \in CnReqs, NEW m \in shown(creq'[p])
        PROVE  /\ \A c \in Conns : c # creq'[p].c => secret'[c].rt # m
               /\ \A q \in CnReqs : q # p => m \notin shown(creq'[q])
    <3>1. m \in shown(creq[p]) /\ creq'[p].c = creq[p].c BY <1>2, <1>3, <2>2
    <3> QED BY <1>1, <2>2, <3>1 DEF TokensHaveOnePlace
  <2> QED BY <2>1, <2>3, <2>4 DEF TokensHaveOnePlace
<1>16. SpentAreReplaced'
  <2> SUFFICES ASSUME faults' = 0 PROVE
        /\ \A q \in CnReqs : Intact(creq'[q]) => creq'[q].cred.rt \notin spent'
        /\ \A d \in Conns : secret'[d].rt \in spent' =>
             guard'[d] # "free" /\ creq'[guard'[d]].pc \in Writing /\ creq'[guard'[d]].cred.rt = secret'[d].rt
    BY DEF SpentAreReplaced
  <2>1. faults = 0 BY DEF Besides
  <2>2. ASSUME NEW q \in CnReqs, Intact(creq'[q]) PROVE creq'[q].cred.rt \notin spent'
    <3>1. q # r /\ creq'[q] = creq[q] BY <1>2, <1>3, <1>6, <2>2
    <3>2. creq[q].cred.rt \notin spent BY <1>1, <2>1, <2>2, <3>1 DEF SpentAreReplaced
    <3>3. creq[q].cred.rt \in shown(creq[q]) BY <2>2, <3>1 DEF shown, Intact, Renewing
    <3>4. creq[q].cred.rt # n BY <1>1, <1>6, <3>1, <3>3 DEF TokensHaveOnePlace
    <3> QED BY <1>7, <3>1, <3>2, <3>4
  <2>3. ASSUME NEW d \in Conns, secret'[d].rt \in spent'
        PROVE  guard'[d] # "free" /\ creq'[guard'[d]].pc \in Writing /\ creq'[guard'[d]].cred.rt = secret'[d].rt
    <3>1. CASE secret[d].rt \in spent
      <4>1. /\ guard[d] # "free" /\ creq[guard[d]].pc \in Writing
            /\ creq[guard[d]].cred.rt = secret[d].rt
        BY <1>1, <2>1, <3>1 DEF SpentAreReplaced
      <4>2. guard[d] \in CnReqs /\ guard[d] # r BY <1>1, <1>6, <4>1 DEF CnTables
      <4> QED BY <1>2, <4>1, <4>2
    <3>2. CASE secret[d].rt = n
      <4>1. d = creq[r].c BY <1>1, <1>6, <3>2 DEF TokensHaveOnePlace
      <4>2. guard[d] = r BY <1>1, <1>6, <4>1 DEF GuardIsHeld
      <4>3. r # "free" BY CnAssumption
      <4> QED BY <1>3, <1>6, <1>7, <3>2, <4>2, <4>3
    <3> QED BY <1>7, <2>3, <3>1, <3>2
  <2> QED BY <2>2, <2>3
<1>17. \A q \in CnReqs : Overtaken(creq[q])' BY <1>1, <1>2, <1>3 DEF Overtaken
<1> QED BY <1>12, <1>13, <1>14, <1>15, <1>16, <1>17 DEF ConnInv

(* The renewal writes the token that came, or the one it showed, and lets  *)
(* the guard go.                                                           *)
LEMMA Persists ==
  ASSUME ConnInv, NEW r \in CnReqs, NEW y \in ReqRecords, NEW blob \in SecretRecords,
         Visits(y), Moves(r, y), Besides,
         creq[r].pc = "persist", y.pc \notin Guarding \cup Storing, ~y.dirty,
         blob.rt = IF creq[r].next = 0 THEN creq[r].cred.rt ELSE creq[r].next,
         secret' = [secret EXCEPT ![creq[r].c] = blob],
         guard' = [guard EXCEPT ![creq[r].c] = "free"], UNCHANGED <<spent, issued>>
  PROVE  ConnInv'
<1>1. /\ CnTables /\ GuardIsHeld /\ TokensAreIssued /\ TokensHaveOnePlace /\ SpentAreReplaced
      /\ \A q \in CnReqs : Overtaken(creq[q])
  BY DEF ConnInv
<1>2. \A q \in CnReqs : q = r \/ creq'[q] = creq[q] BY DEF Moves
<1>3. creq'[r] = y BY DEF Moves
<1>4. unstored(y) = {} /\ shown(y) = {} /\ ~Intact(y) /\ y.pc \notin Guarding /\ creq[r].pc \in Guarding
  BY DEF unstored, shown, Intact, Guarding, Renewing, Writing, Storing
<1> DEFINE k == creq[r].c   n == blob.rt
<1>5. k \in Conns /\ guard[k] = r BY <1>1, <1>4 DEF CnTables, ReqRecords, GuardIsHeld
<1>6. /\ guard' \in [Conns -> CnReqs \cup {"free"}] /\ guard'[k] = "free"
      /\ \A c \in Conns : c # k => guard'[c] = guard[c]
  BY <1>1, <1>5 DEF CnTables
<1>7. /\ secret' \in [Conns -> SecretRecords] /\ secret'[k].rt = n
      /\ \A c \in Conns : c # k => secret'[c] = secret[c]
  BY <1>1, <1>5 DEF CnTables
<1>8. n \in unstored(creq[r]) \/ (n \in shown(creq[r]) /\ Intact(creq[r]) /\ n = creq[r].cred.rt)
  BY DEF unstored, shown, Intact, Renewing, Writing, Storing
<1> HIDE DEF k, n
<1>9. n \in Nat /\ n # 0 /\ n <= issued BY <1>1, <1>8 DEF TokensAreIssued
<1>10. /\ \A c \in Conns : c # k => secret[c].rt # n
       /\ \A q \in CnReqs : q # r => n \notin shown(creq[q]) /\ n \notin unstored(creq[q])
  BY <1>1, <1>8 DEF TokensHaveOnePlace, k
<1>11. \A q \in CnReqs : q # r /\ creq[q].pc \in Guarding => creq[q].c # k
  BY <1>1, <1>5 DEF GuardIsHeld
<1>12. CnTables' BY <1>1, <1>2, <1>3, <1>6, <1>7 DEF CnTables, Moves, Besides
<1>13. GuardIsHeld'
  <2>1. ASSUME NEW c \in Conns, guard'[c] # "free"
        PROVE  creq'[guard'[c]].c = c /\ creq'[guard'[c]].pc \in Guarding
    <3>1. c # k /\ guard'[c] = guard[c] BY <1>6, <2>1
    <3>2. guard[c] \in CnReqs BY <1>1, <2>1, <3>1 DEF CnTables
    <3>3. creq[guard[c]].c = c /\ creq[guard[c]].pc \in Guarding BY <1>1, <2>1, <3>1 DEF GuardIsHeld
    <3>4. guard[c] # r BY <3>1, <3>3 DEF k
    <3> QED BY <1>2, <3>1, <3>2, <3>3, <3>4
  <2>2. ASSUME NEW q \in CnReqs, creq'[q].pc \in Guarding PROVE guard'[creq'[q].c] = q
    <3>1. q # r /\ creq'[q] = creq[q] BY <1>2, <1>3, <1>4, <2>2
    <3>2. guard[creq[q].c] = q BY <1>1, <2>2, <3>1 DEF GuardIsHeld
    <3>3. creq[q].c # k BY <1>5, <3>1, <3>2
    <3>4. creq[q].c \in Conns BY <1>1 DEF CnTables, ReqRecords
    <3> QED BY <1>6, <3>1, <3>2, <3>3, <3>4
  <2> QED BY <2>1, <2>2 DEF GuardIsHeld
<1>14. TokensAreIssued' BY <1>1, <1>2, <1>3, <1>4, <1>7, <1>9 DEF TokensAreIssued
<1>15. TokensHaveOnePlace'
  <2>1. ASSUME NEW d \in Conns, NEW e \in Conns, d # e, secret'[d].rt # 0 PROVE secret'[d].rt # secret'[e].rt
    <3>1. CASE d = k BY <1>7, <1>10, <2>1, <3>1
    <3>2. CASE e = k BY <1>7, <1>10, <2>1, <3>2
    <3>3. CASE d # k /\ e # k
      <4>1. secret'[d] = secret[d] /\ secret'[e] = secret[e] BY <1>7, <3>3
      <4>2. secret[d].rt # 0 BY <2>1, <4>1
      <4>3. secret[d].rt # secret[e].rt BY <1>1, <2>1, <4>2 DEF TokensHaveOnePlace
      <4> QED BY <4>1, <4>3
    <3> QED BY <3>1, <3>2, <3>3
  <2>2. ASSUME NEW p \in CnReqs, NEW m \in unstored(creq'[p])
        PROVE  /\ m \notin spent' /\ (\A d \in Conns : secret'[d].rt # m)
               /\ \A q \in CnReqs : m \notin shown(creq'[q]) /\ (q # p => m \notin unstored(creq'[q]))
    <3>1. p # r /\ m \in unstored(creq[p]) BY <1>2, <1>3, <1>4, <2>2
    <3>2. /\ m \notin spent /\ (\A d \in Conns : secret[d].rt # m)
          /\ \A q \in CnReqs : m \notin shown(creq[q]) /\ (q # p => m \notin unstored(creq[q]))
      BY <1>1, <3>1 DEF TokensHaveOnePlace
    <3>3. m # n BY <1>10, <3>1
    <3> QED BY <1>2, <1>3, <1>4, <1>7, <3>2, <3>3
  <2>3. ASSUME NEW p \in CnReqs, NEW m \in shown(creq'[p])
        PROVE  /\ \A d \in Conns : d # creq'[p].c => secret'[d].rt # m
               /\ \A q \in CnReqs : q # p => m \notin shown(creq'[q])
    <3>1. p # r /\ creq'[p] = creq[p] /\ m \in shown(creq[p]) BY <1>2, <1>3, <1>4, <2>3
    <3>2. /\ \A d \in Conns : d # creq[p].c => secret[d].rt # m
          /\ \A q \in CnReqs : q # p => m \notin shown(creq[q])
      BY <1>1, <3>1 DEF TokensHaveOnePlace
    <3>3. m # n BY <1>10, <3>1
    <3> QED BY <1>2, <1>3, <1>4, <1>7, <3>1, <3>2, <3>3
  <2> QED BY <2>1, <2>2, <2>3 DEF TokensHaveOnePlace
<1>16. SpentAreReplaced'
  <2> SUFFICES ASSUME faults' = 0 PROVE
        /\ \A q \in CnReqs : Intact(creq'[q]) => creq'[q].cred.rt \notin spent'
        /\ \A d \in Conns : secret'[d].rt \in spent' =>
             guard'[d] # "free" /\ creq'[guard'[d]].pc \in Writing /\ creq'[guard'[d]].cred.rt = secret'[d].rt
    BY DEF SpentAreReplaced
  <2>1. faults = 0 BY DEF Besides
  <2>2. ASSUME NEW q \in CnReqs, Intact(creq'[q]) PROVE creq'[q].cred.rt \notin spent'
    <3>1. creq'[q] = creq[q] BY <1>2, <1>3, <1>4, <2>2
    <3> QED BY <1>1, <2>1, <2>2, <3>1 DEF SpentAreReplaced
  <2>3. n \notin spent
    <3>1. CASE n \in unstored(creq[r]) BY <1>1, <3>1 DEF TokensHaveOnePlace
    <3>2. CASE Intact(creq[r]) /\ n = creq[r].cred.rt BY <1>1, <2>1, <3>2 DEF SpentAreReplaced
    <3> QED BY <1>8, <3>1, <3>2
  <2>4. ASSUME NEW d \in Conns, secret'[d].rt \in spent'
        PROVE  guard'[d] # "free" /\ creq'[guard'[d]].pc \in Writing /\ creq'[guard'[d]].cred.rt = secret'[d].rt
    <3>1. d # k /\ secret'[d] = secret[d] /\ secret[d].rt \in spent
      <4>1. d # k BY <1>7, <2>3, <2>4
      <4>2. secret'[d] = secret[d] BY <1>7, <4>1
      <4>3. spent' = spent OBVIOUS
      <4>4. secret[d].rt \in spent BY <2>4, <4>2, <4>3
      <4> QED BY <4>1, <4>2, <4>4
    <3>2. /\ guard[d] # "free" /\ creq[guard[d]].pc \in Writing
          /\ creq[guard[d]].cred.rt = secret[d].rt
      BY <1>1, <2>1, <3>1 DEF SpentAreReplaced
    <3>3. guard[d] \in CnReqs BY <1>1, <3>2 DEF CnTables
    <3>4. guard[d] # r BY <1>1, <3>1, <3>2 DEF GuardIsHeld, k
    <3> QED BY <1>2, <1>6, <3>1, <3>2, <3>3, <3>4
  <2> QED BY <2>2, <2>4
<1>17. ASSUME NEW q \in CnReqs PROVE Overtaken(creq[q])'
  <2>1. CASE q = r BY <1>3, <2>1 DEF Overtaken
  <2>2. CASE q # r /\ creq[q].dirty
    <3>1. creq'[q] = creq[q] /\ creq[q].pc \in Guarding
      BY <1>1, <1>2, <2>2 DEF Overtaken, Guarding, Renewing, Writing
    <3>2. creq[q].c # k /\ creq[q].c \in Conns BY <1>1, <1>11, <2>2, <3>1 DEF CnTables, ReqRecords
    <3> QED BY <1>1, <1>7, <2>2, <3>1, <3>2 DEF Overtaken
  <2>3. CASE q # r /\ ~creq[q].dirty BY <1>2, <2>3 DEF Overtaken
  <2> QED BY <2>1, <2>2, <2>3
<1> QED BY <1>12, <1>13, <1>14, <1>15, <1>16, <1>17 DEF ConnInv

(* Access tokens age; refresh tokens do not.                               *)
LEMMA Expires == ASSUME ConnInv, expire PROVE ConnInv'
<1>1. /\ CnTables /\ GuardIsHeld /\ TokensAreIssued /\ TokensHaveOnePlace /\ SpentAreReplaced
      /\ \A q \in CnReqs : Overtaken(creq[q])
  BY DEF ConnInv
<1>2. PICK k \in Conns : secret' = [secret EXCEPT ![k].live = FALSE] BY DEF expire
<1>3. UNCHANGED <<cnDuty, conn, binding, guard, spent, issued, faults, creq>>
  BY DEF expire, rows, provider
<1> DEFINE blob == [secret[k] EXCEPT !.live = FALSE]
<1>4. secret[k] \in SecretRecords BY <1>1 DEF CnTables
<1>5. blob \in SecretRecords BY <1>4 DEF SecretRecords
<1>6. blob.rt = secret[k].rt BY <1>4, SMTT(30) DEF SecretRecords
<1>7. secret' = [secret EXCEPT ![k] = blob] BY <1>2
<1> HIDE DEF blob
<1>8. secret' \in [Conns -> SecretRecords] /\ \A c \in Conns : secret'[c].rt = secret[c].rt
  BY <1>1, <1>5, <1>6, <1>7 DEF CnTables
<1>9. CnTables' BY <1>1, <1>3, <1>8 DEF CnTables
<1>10. GuardIsHeld' BY <1>1, <1>3 DEF GuardIsHeld
<1>11. TokensAreIssued' /\ TokensHaveOnePlace' BY <1>1, <1>3, <1>8, Shrinks
<1>12. SpentAreReplaced' BY <1>1, <1>3, <1>8, StillReplaced DEF CnTables
<1>13. ASSUME NEW q \in CnReqs PROVE Overtaken(creq[q])'
  <2>1. creq[q].c \in Conns BY <1>1 DEF CnTables, ReqRecords
  <2> QED BY <1>1, <1>3, <1>8, <2>1 DEF Overtaken
<1> QED BY <1>9, <1>10, <1>11, <1>12, <1>13 DEF ConnInv

-----------------------------------------------------------------------------
(***************************************************************************)
(* The actions, one after the other.                                       *)
(***************************************************************************)
LEMMA ConnInitially == ConnInit => ConnInv
<1> SUFFICES ASSUME ConnInit PROVE ConnInv OBVIOUS
<1>1. /\ cnDuty \in CnDuties /\ issued = 1 /\ spent = {} /\ faults = 0
      /\ guard = [c \in Conns |-> "free"] /\ creq = [r \in CnReqs |-> CnIdle]
      /\ secret = [c \in Conns |-> IF c = "c0" THEN Tokens(1, "default", TRUE) ELSE NoSecret]
  BY DEF ConnInit
<1>2. CnIdle \in ReqRecords /\ CnIdle.pc = "begin" /\ CnIdle.dirty = FALSE /\ CnIdle.next = 0
  BY DEF CnIdle, NoSecret, ReqRecords, SecretRecords, CnPcs, Conns, Cfgs, Users
<1>3. NoSecret \in SecretRecords /\ NoSecret.rt = 0 BY DEF NoSecret, SecretRecords, Conns, Cfgs
<1>4. Tokens(1, "default", TRUE) \in SecretRecords /\ Tokens(1, "default", TRUE).rt = 1
  BY DEF Tokens, NoSecret, SecretRecords, Conns, Cfgs
<1>5. conn \in [Conns -> ConnRecords]
  <2>1. NoConn \in ConnRecords /\ [NoConn EXCEPT !.st = "active"] \in ConnRecords
    BY DEF NoConn, ConnRecords, Users, Cfgs
  <2> QED BY <2>1 DEF ConnInit
<1>6. binding \in [Scopes -> Conns \cup {"unbound"}] BY DEF ConnInit, Conns
<1>7. secret \in [Conns -> SecretRecords] /\ \A c \in Conns : secret[c].rt = IF c = "c0" THEN 1 ELSE 0
  BY <1>1, <1>3, <1>4
<1>8. \A r \in CnReqs : /\ creq[r] = CnIdle /\ unstored(creq[r]) = {} /\ shown(creq[r]) = {}
                        /\ ~Intact(creq[r]) /\ creq[r].pc \notin Guarding /\ Visits(creq[r])
  BY <1>1, <1>2 DEF unstored, shown, Intact, Visits, Guarding, Renewing, Writing, Storing
<1>9. CnTables BY <1>1, <1>2, <1>5, <1>6, <1>7, <1>8 DEF CnTables
<1>10. GuardIsHeld BY <1>1, <1>8 DEF GuardIsHeld
<1>11. TokensAreIssued
  <2>1. 0 <= 1 /\ 1 <= 1 BY SMTT(30)
  <2> QED BY <1>1, <1>7, <1>8, <2>1 DEF TokensAreIssued
<1>12. TokensHaveOnePlace
  <2>1. 1 # 0 BY SMTT(30)
  <2> QED BY <1>7, <1>8, <2>1 DEF TokensHaveOnePlace
<1>13. SpentAreReplaced BY <1>1, <1>8 DEF SpentAreReplaced
<1>14. \A r \in CnReqs : Overtaken(creq[r]) BY <1>2, <1>8 DEF Overtaken
<1> QED BY <1>9, <1>10, <1>11, <1>12, <1>13, <1>14 DEF ConnInv

(* What a request away from the guard carries.                             *)
LEMMA AtRest ==
  ASSUME ConnInv, NEW r \in CnReqs
  PROVE  /\ CnTables /\ creq[r] \in ReqRecords /\ creq[r].c \in Conns /\ Visits(creq[r])
         /\ cnDuty[r].user \in Users /\ cnDuty[r].cfg \in Cfgs
         /\ creq[r].pc \notin Guarding => ~creq[r].dirty /\ creq[r].next = 0
<1>1. CnTables /\ Overtaken(creq[r]) BY DEF ConnInv
<1>2. creq[r] \in ReqRecords /\ Visits(creq[r]) BY <1>1 DEF CnTables
<1>3. creq[r].c \in Conns /\ creq[r].dirty \in BOOLEAN BY <1>2 DEF ReqRecords
<1>4. cnDuty[r].user \in Users /\ cnDuty[r].cfg \in Cfgs
  BY <1>1, CnAssumption DEF CnTables, Cfgs
<1>5. creq[r].pc \notin Guarding => ~creq[r].dirty /\ creq[r].next = 0
  BY <1>1, <1>2 DEF Overtaken, Visits, Guarding, Renewing, Writing
<1> QED BY <1>1, <1>2, <1>3, <1>4, <1>5

(* A finished request carries nothing.                                     *)
LEMMA OverIsRest ==
  /\ CnOver \in ReqRecords /\ CnOver.pc = "over" /\ ~CnOver.dirty /\ CnOver.next = 0
  /\ CnOver.pc \notin Guarding \cup Storing /\ Visits(CnOver) /\ unstored(CnOver) = {}
<1>1. CnIdle \in ReqRecords
  BY DEF CnIdle, NoSecret, ReqRecords, SecretRecords, CnPcs, Conns, Cfgs, Users
<1>2. CnOver \in ReqRecords BY <1>1 DEF CnOver, ReqRecords, CnPcs
<1>3. CnOver.pc = "over" /\ CnOver.dirty = FALSE /\ CnOver.next = 0 BY SMTT(30) DEF CnOver, CnIdle
<1> QED BY <1>2, <1>3 DEF Visits, unstored, Guarding, Renewing, Writing, Storing

(* Ending a request moves it there.                                        *)
LEMMA CnEnds ==
  ASSUME CnTables, NEW r \in CnReqs, CnEnd(r)
  PROVE  Moves(r, CnOver)
BY OverIsRest, SetsOne DEF CnEnd

(* Going to another place keeps what the request carries.                  *)
LEMMA CnGoes ==
  ASSUME CnTables, NEW r \in CnReqs, NEW pc \in CnPcs, CnGo(r, pc)
  PROVE  \E y \in ReqRecords :
           /\ Moves(r, y) /\ y.pc = pc /\ y.c = creq[r].c /\ y.cred = creq[r].cred
           /\ y.next = creq[r].next /\ y.todo = creq[r].todo /\ y.dirty = creq[r].dirty
<1> DEFINE x == creq[r]   y == [x EXCEPT !.pc = pc]
<1>1. x \in ReqRecords BY DEF CnTables
<1>2. creq' = [creq EXCEPT ![r] = y] BY DEF CnGo
<1> HIDE DEF x
<1>3. y \in ReqRecords BY <1>1 DEF ReqRecords
<1>4. /\ y.pc = pc /\ y.c = x.c /\ y.cred = x.cred /\ y.next = x.next /\ y.todo = x.todo
      /\ y.dirty = x.dirty
  BY <1>1, SMTT(30) DEF ReqRecords
<1> HIDE DEF y
<1>5. Moves(r, y) BY <1>2, <1>3, SetsOne DEF CnSet
<1> QED BY <1>3, <1>4, <1>5 DEF x

(* Three forms of a step aside.                                            *)
Quietly == Besides /\ UNCHANGED <<secret, guard, spent, issued>>

(* A request that ends, and no token moves.                                *)
LEMMA AsideEnds ==
  ASSUME ConnInv, NEW r \in CnReqs, creq[r].pc \notin Guarding, CnEnd(r), Quietly
  PROVE  ConnInv'
<1>1. Moves(r, CnOver) BY CnEnds, AtRest
<1> QED BY <1>1, OverIsRest, Aside DEF Quietly

(* A request that goes on, and no token moves.                             *)
LEMMA AsideGoes ==
  ASSUME ConnInv, NEW r \in CnReqs, NEW pc \in CnPcs, creq[r].pc \notin Guarding, CnGo(r, pc), Quietly,
         pc \notin Guarding \cup {"wipe", "point"}, pc \in Storing => creq[r].pc \in Storing
  PROVE  ConnInv'
<1>1. CnTables /\ ~creq[r].dirty /\ creq[r].next = 0 BY AtRest
<1>2. PICK y \in ReqRecords :
        /\ Moves(r, y) /\ y.pc = pc /\ y.c = creq[r].c /\ y.cred = creq[r].cred
        /\ y.next = creq[r].next /\ y.todo = creq[r].todo /\ y.dirty = creq[r].dirty
  BY <1>1, CnGoes
<1>3. Visits(y) BY <1>1, <1>2 DEF Visits
<1>4. unstored(y) \subseteq unstored(creq[r])
  BY <1>2 DEF unstored, Guarding, Renewing
<1> QED BY <1>1, <1>2, <1>3, <1>4, Aside DEF Quietly

(* A request that takes up other work, and no token moves.                 *)
LEMMA AsideSets ==
  ASSUME ConnInv, NEW r \in CnReqs, NEW y \in ReqRecords, creq[r].pc \notin Guarding, CnSet(r, y), Quietly,
         y.pc \notin Guarding \cup Storing, ~y.dirty, Visits(y)
  PROVE  ConnInv'
<1>1. Moves(r, y) BY SetsOne, AtRest
<1>2. unstored(y) = {} BY DEF unstored, Guarding, Renewing
<1> QED BY <1>1, <1>2, Aside DEF Quietly

(* A step that leaves the tables, or a failed query.                       *)
LEMMA Calm ==
  ASSUME ConnInv, UNCHANGED <<cnDuty, conn, secret, binding, guard, provider>>,
         faults' = faults \/ DbFails
  PROVE  Quietly
<1>1. CnTables BY DEF ConnInv
<1>2. faults \in Nat BY <1>1 DEF CnTables
<1>3. faults' \in Nat /\ (faults' = 0 => faults = 0) BY <1>2, SMTT(30) DEF DbFails
<1> QED BY <1>1, <1>3 DEF CnTables, Quietly, Besides, provider

(* The connections of a query are connections.                             *)
LEMMA OldestIsOne ==
  ASSUME NEW S, S \subseteq Conns
  PROVE  oldest(S) \subseteq Conns \cup {"unbound"}
BY DEF oldest

(* Which places lie outside a renewal.                                     *)
LEMMA Pcs ==
  /\ CnPcs \cap Guarding = Guarding /\ Storing \cap Guarding = {}
  /\ \A p \in {"begin", "over", "keys", "unkey", "unrow", "pending", "load", "point", "wipe",
               "unsecret", "drop",
               "bound", "select", "delegated", "fetch", "call", "guard", "failed"} :
       p \in CnPcs /\ p \notin Guarding /\ p \notin Storing
  /\ \A p \in Storing : p \in CnPcs
BY DEF CnPcs, Guarding, Renewing, Writing, Storing

(* Provider configs.                                                       *)
LEMMA ConfigSteps ==
  ASSUME ConnInv, NEW r \in CnReqs,
         \/ createConfigRow(r) \/ save_config_secrets_at(r) \/ deleteConfigCheck(r)
         \/ deleteConfigSecrets(r) \/ deleteConfigRow(r)
  PROVE  ConnInv'
<1>1. Quietly
  BY Calm DEF createConfigRow, save_config_secrets_at, deleteConfigCheck, deleteConfigSecrets,
     deleteConfigRow, rows
<1>2. creq[r].pc \notin Guarding
  BY Pcs DEF createConfigRow, save_config_secrets_at, deleteConfigCheck, deleteConfigSecrets,
     deleteConfigRow, CnAt
<1>3. CnEnd(r) \/ CnGo(r, "keys") \/ CnGo(r, "unkey") \/ CnGo(r, "unrow")
  BY DEF createConfigRow, save_config_secrets_at, deleteConfigCheck, deleteConfigSecrets, deleteConfigRow
<1>4. \A p \in {"keys", "unkey", "unrow"} : CnGo(r, p) => ConnInv'
  <2> SUFFICES ASSUME NEW p \in {"keys", "unkey", "unrow"}, CnGo(r, p) PROVE ConnInv' OBVIOUS
  <2>1. p \in CnPcs /\ p \notin Guarding \cup {"wipe", "point"} /\ p \notin Storing BY Pcs
  <2> QED BY <1>1, <1>2, <2>1, AsideGoes
<1> QED BY <1>1, <1>2, <1>3, <1>4, AsideEnds

(* A connect flow, up to its credential.                                   *)
LEMMA FlowBegins ==
  ASSUME ConnInv, NEW r \in CnReqs, auth_start(r)
  PROVE  ConnInv'
<1>1. Quietly BY Calm DEF auth_start, rows
<1>2. creq[r].pc \notin Guarding BY Pcs DEF auth_start, CnAt
<1> DEFINE x == creq[r]   f == cnDuty[r].cfg   y == [x EXCEPT !.pc = "pending", !.cfg = f]
<1>3. x \in ReqRecords /\ ~x.dirty /\ x.next = 0 /\ f \in Cfgs BY <1>2, AtRest
<1>4. CnEnd(r) \/ CnSet(r, y) BY DEF auth_start
<1> HIDE DEF x, f
<1>5. y \in ReqRecords BY <1>3 DEF ReqRecords, CnPcs
<1>6. y.pc = "pending" /\ y.dirty = x.dirty /\ y.next = x.next BY <1>3, SMTT(30) DEF ReqRecords
<1> HIDE DEF y
<1>7. Visits(y) BY <1>3, <1>6 DEF Visits
<1>8. y.pc \notin Guarding \cup Storing BY <1>6, Pcs
<1> QED BY <1>1, <1>2, <1>3, <1>4, <1>5, <1>6, <1>7, <1>8, AsideEnds, AsideSets

(* A new token enters a flow.                                              *)
LEMMA FlowGets ==
  ASSUME ConnInv, NEW r \in CnReqs, NEW f \in Cfgs, creq[r].pc \in {"begin", "pending"},
         CnSet(r, [creq[r] EXCEPT !.pc = "upsert", !.cred = Tokens(issued + 1, f, FALSE)]),
         issued' = issued + 1, UNCHANGED <<cnDuty, conn, secret, binding, guard, spent, faults>>
  PROVE  ConnInv'
<1>1. creq[r].pc \notin Guarding \cup Storing BY Pcs
<1>2. CnTables /\ issued \in Nat BY AtRest DEF CnTables
<1> DEFINE x == creq[r]   n == issued + 1   k == Tokens(n, f, FALSE)
           y == [x EXCEPT !.pc = "upsert", !.cred = k]
<1>3. n \in Nat BY <1>2, SMTT(30)
<1> HIDE DEF n
<1>4. k \in SecretRecords BY <1>3 DEF Tokens, NoSecret, SecretRecords, Conns, Cfgs
<1>5. k.rt = n BY SMTT(30) DEF Tokens, NoSecret
<1>6. x \in ReqRecords /\ ~x.dirty /\ x.next = 0 BY <1>1, AtRest
<1>7. CnSet(r, y) /\ issued' = n BY DEF n
<1> HIDE DEF x, k
<1>8. y \in ReqRecords BY <1>4, <1>6 DEF ReqRecords, CnPcs
<1>9. y.pc = "upsert" /\ y.dirty = x.dirty /\ y.next = x.next /\ y.cred = k BY <1>6, SMTT(30) DEF ReqRecords
<1> HIDE DEF y
<1>10. Visits(y) BY <1>6, <1>9 DEF Visits
<1>11. Moves(r, y) BY <1>2, <1>7, <1>8, SetsOne
<1>12. Besides BY <1>2 DEF Besides, CnTables
<1> QED BY <1>1, <1>5, <1>6, <1>7, <1>8, <1>9, <1>10, <1>11, <1>12, Brings DEF n

(* A callback or a submitted credential brings a new token.                *)
LEMMA FlowTrades ==
  ASSUME ConnInv, NEW r \in CnReqs, auth_callback(r) \/ submit_credentials(r)
  PROVE  ConnInv'
<1>1. CASE submit_credentials(r)
  <2>1. "default" \in Cfgs /\ creq[r].pc = "begin" BY <1>1 DEF Cfgs, submit_credentials, CnAt
  <2> QED BY <1>1, <2>1, FlowGets DEF submit_credentials, rows
<1>2. CASE auth_callback(r)
  <2>1. creq[r].pc = "pending" /\ creq[r].pc \notin Guarding BY <1>2, Pcs DEF auth_callback, CnAt
  <2>2. creq[r].cfg \in Cfgs BY AtRest DEF ReqRecords
  <2>3. CASE CnEnd(r) /\ UNCHANGED issued
    <3>1. Quietly BY <1>2, <2>3, Calm DEF auth_callback, rows, provider
    <3> QED BY <2>1, <2>3, <3>1, AsideEnds
  <2>4. CASE /\ issued' = issued + 1
             /\ CnSet(r, [creq[r] EXCEPT !.pc = "upsert", !.cred = Tokens(issued + 1, creq[r].cfg, FALSE)])
    BY <1>2, <2>1, <2>2, <2>4, FlowGets DEF auth_callback, rows
  <2> QED BY <1>2, <2>3, <2>4 DEF auth_callback
<1> QED BY <1>1, <1>2

(* upsert_connection: the flow keeps its token.                            *)
LEMMA FlowSelects ==
  ASSUME ConnInv, NEW r \in CnReqs, upsertSelect(r)
  PROVE  ConnInv'
<1>1. Quietly BY Calm DEF upsertSelect, rows
<1>2. creq[r].pc \in Storing /\ creq[r].pc \notin Guarding BY Pcs DEF upsertSelect, Storing
<1>3. oldest(Owned(me(r), "direct")) \subseteq Conns \cup {"unbound"} BY OldestIsOne DEF Owned
<1>4. PICK c \in Conns \cup {"unbound"} :
        CnSet(r, [creq[r] EXCEPT !.pc = IF c = "unbound" THEN "insert" ELSE "revive",
                                 !.c = IF c = "unbound" THEN r ELSE c])
  BY <1>3 DEF upsertSelect
<1> DEFINE x == creq[r]   p == IF c = "unbound" THEN "insert" ELSE "revive"
           d == IF c = "unbound" THEN r ELSE c   y == [x EXCEPT !.pc = p, !.c = d]
<1>5. p \in {"insert", "revive"} /\ d \in Conns BY DEF Conns
<1>6. x \in ReqRecords /\ ~x.dirty /\ x.next = 0 /\ CnTables BY <1>2, AtRest
<1>7. CnSet(r, y) BY <1>4
<1> HIDE DEF x, p, d
<1>8. y \in ReqRecords BY <1>5, <1>6 DEF ReqRecords, CnPcs
<1>9. y.pc = p /\ y.dirty = x.dirty /\ y.next = x.next /\ y.cred = x.cred BY <1>6, SMTT(30) DEF ReqRecords
<1> HIDE DEF y
<1>10. y.pc \in Storing /\ y.pc \notin Guarding BY <1>5, <1>9, Pcs DEF Storing
<1>11. Visits(y) BY <1>5, <1>6, <1>9 DEF Visits
<1>12. unstored(y) = unstored(x) BY <1>2, <1>9, <1>10 DEF unstored, x
<1>13. Moves(r, y) BY <1>6, <1>7, <1>8, SetsOne
<1> QED BY <1>1, <1>2, <1>6, <1>8, <1>9, <1>10, <1>11, <1>12, <1>13, Aside DEF Quietly, x

(* The connection's row is revived or inserted.                            *)
LEMMA FlowUpserts ==
  ASSUME ConnInv, NEW r \in CnReqs, upsertRevive(r) \/ upsertInsert(r)
  PROVE  ConnInv'
<1>1. CnTables /\ creq[r].cfg \in Cfgs /\ creq[r].c \in Conns /\ cnDuty[r].user \in Users
  BY AtRest DEF ReqRecords
<1>2. creq[r].pc \in Storing /\ creq[r].pc \notin Guarding
  BY Pcs DEF upsertRevive, upsertInsert, Storing
<1>3. CnGo(r, "store") BY DEF upsertRevive, upsertInsert
<1>4. "store" \in CnPcs /\ "store" \notin Guarding \cup {"wipe", "point"} BY Pcs DEF Storing
<1>5. conn' \in [Conns -> ConnRecords]
  <2>1. CASE upsertRevive(r)
    <3> DEFINE z == conn[creq[r].c]
    <3>1. z \in ConnRecords BY <1>1 DEF CnTables
    <3>2. [z EXCEPT !.st = "active", !.cfg = creq[r].cfg] \in ConnRecords BY <1>1, <3>1 DEF ConnRecords
    <3> QED BY <1>1, <2>1, <3>1, <3>2 DEF upsertRevive, CnTables
  <2>2. CASE upsertInsert(r)
    <3>1. [st |-> "active", user |-> me(r), kind |-> "direct", cfg |-> creq[r].cfg] \in ConnRecords
      BY <1>1 DEF ConnRecords, me
    <3> QED BY <1>1, <2>2, <3>1 DEF upsertInsert, create_connection, CnTables
  <2> QED BY <2>1, <2>2
<1>6. faults' = faults \/ DbFails BY DEF upsertRevive, upsertInsert
<1>7. faults' \in Nat /\ (faults' = 0 => faults = 0)
  <2>1. faults \in Nat BY <1>1 DEF CnTables
  <2> QED BY <1>6, <2>1, SMTT(30) DEF DbFails
<1>8. Quietly BY <1>1, <1>5, <1>7 DEF Quietly, Besides, CnTables, upsertRevive, upsertInsert, provider
<1> QED BY <1>2, <1>3, <1>4, <1>8, AsideGoes

(* A renewal of the connection is marked, and nothing else of it changes.  *)
LEMMA Lands ==
  ASSUME CnTables, NEW r \in CnReqs, NEW c \in Conns, NEW y \in ReqRecords,
         creq' = [landed(c) EXCEPT ![r] = y]
  PROVE  creq' \in [CnReqs -> ReqRecords] /\ creq'[r] = y /\ Marks(r, c)
<1> DEFINE mark(x) == [x EXCEPT !.dirty = TRUE]
<1>1. \A x \in ReqRecords : mark(x) \in ReqRecords BY DEF ReqRecords
<1>2. \A x \in ReqRecords : /\ mark(x).pc = x.pc /\ mark(x).c = x.c /\ mark(x).cred = x.cred
                            /\ mark(x).next = x.next /\ mark(x).todo = x.todo
  BY SMTT(30) DEF ReqRecords
<1> DEFINE at(q) == creq[q].c = c /\ creq[q].pc \in {"exchange", "recheck"}
<1>3. landed(c) = [q \in CnReqs |-> IF at(q) THEN mark(creq[q]) ELSE creq[q]] BY DEF landed
<1>4. \A q \in CnReqs : creq[q] \in ReqRecords BY DEF CnTables
<1> HIDE DEF mark, at
<1>5. landed(c) \in [CnReqs -> ReqRecords] BY <1>1, <1>3, <1>4
<1>6. creq' \in [CnReqs -> ReqRecords] /\ creq'[r] = y BY <1>5
<1>7. ASSUME NEW q \in CnReqs, q # r
      PROVE  /\ creq'[q].pc = creq[q].pc /\ creq'[q].c = creq[q].c /\ creq'[q].cred = creq[q].cred
             /\ creq'[q].next = creq[q].next /\ creq'[q].todo = creq[q].todo
             /\ creq'[q].dirty => creq[q].dirty \/ at(q)
  <2>1. creq'[q] = IF at(q) THEN mark(creq[q]) ELSE creq[q] BY <1>3, <1>5, <1>7
  <2>2. CASE at(q)
    <3>1. creq'[q] = mark(creq[q]) BY <2>1, <2>2
    <3> QED BY <1>2, <1>4, <2>2, <3>1
  <2>3. CASE ~at(q) BY <2>1, <2>3
  <2> QED BY <2>2, <2>3
<1> QED BY <1>6, <1>7 DEF at, Marks

(* A step that replaces a credential and marks the renewals of it.         *)
LEMMA OverwritesAndLands ==
  ASSUME ConnInv, NEW r \in CnReqs, NEW y \in ReqRecords, NEW c \in Conns, NEW blob \in SecretRecords,
         Visits(y), creq' = [landed(c) EXCEPT ![r] = y],
         creq[r].pc \notin Guarding, y.pc \notin Guarding \cup Storing, ~y.dirty,
         blob.rt = 0 \/ blob.rt \in unstored(creq[r]),
         secret' = [secret EXCEPT ![c] = blob],
         UNCHANGED <<cnDuty, conn, binding, guard, spent, issued, faults>>
  PROVE  ConnInv'
<1>1. CnTables BY DEF ConnInv
<1>2. Besides BY <1>1 DEF CnTables, Besides
<1>3. creq' \in [CnReqs -> ReqRecords] /\ creq'[r] = y /\ Marks(r, c) BY <1>1, Lands
<1> QED BY <1>2, <1>3, Overwrites

(* The absent secret holds no token.                                       *)
LEMMA NoSecretIsNone == NoSecret \in SecretRecords /\ NoSecret.rt = 0
BY DEF NoSecret, SecretRecords, Conns, Cfgs

(* A request that starts to look at a connection.                          *)
LEMMA LooksAt ==
  ASSUME NEW c \in Conns
  PROVE  LET y == [CnIdle EXCEPT !.pc = "load", !.c = c]
         IN  y \in ReqRecords /\ y.pc = "load" /\ y.dirty = FALSE /\ y.next = 0 /\ Visits(y)
<1> DEFINE y == [CnIdle EXCEPT !.pc = "load", !.c = c]
<1>1. CnIdle \in ReqRecords
  BY DEF CnIdle, NoSecret, ReqRecords, SecretRecords, CnPcs, Conns, Cfgs, Users
<1>2. y \in ReqRecords BY <1>1 DEF ReqRecords, CnPcs
<1>3. y.pc = "load" /\ y.dirty = FALSE /\ y.next = 0 BY SMTT(30) DEF CnIdle
<1> HIDE DEF y
<1>4. Visits(y) BY <1>3 DEF Visits
<1> QED BY <1>2, <1>3, <1>4 DEF y

(* The flow's token gets its place: the connection's secret.               *)
LEMMA FlowStores ==
  ASSUME ConnInv, NEW r \in CnReqs, storeCredential(r)
  PROVE  ConnInv'
<1>1. creq[r].pc = "store" BY DEF storeCredential
<1>2. creq[r].pc \notin Guarding /\ unstored(creq[r]) = {creq[r].cred.rt}
  BY <1>1, Pcs DEF Storing, unstored
<1>3. creq[r].c \in Conns /\ creq[r].cred \in SecretRecords /\ CnTables BY AtRest DEF ReqRecords
<1>4. CASE CnEnd(r) /\ DbFails /\ UNCHANGED secret
  <2>1. Quietly BY <1>4, Calm DEF storeCredential, rows
  <2> QED BY <1>2, <1>4, <2>1, AsideEnds
<1>5. CASE /\ secretSet(creq[r].c, creq[r].cred) /\ UNCHANGED faults
           /\ creq' = [landed(creq[r].c) EXCEPT ![r] =
                         IF cnDuty[r].op = "oauth" THEN [CnIdle EXCEPT !.pc = "load", !.c = creq[r].c] ELSE CnOver]
  <2> DEFINE c == creq[r].c   z == [CnIdle EXCEPT !.pc = "load", !.c = c]
             y == IF cnDuty[r].op = "oauth" THEN z ELSE CnOver
  <2>1. z \in ReqRecords /\ z.pc = "load" /\ z.dirty = FALSE /\ z.next = 0 /\ Visits(z)
    BY <1>3, LooksAt
  <2>2. z.pc \notin Guarding \cup Storing BY <2>1, Pcs
  <2> HIDE DEF z
  <2>3. y \in ReqRecords /\ y.pc \notin Guarding \cup Storing /\ ~y.dirty /\ Visits(y)
    BY <2>1, <2>2, OverIsRest
  <2>4. creq' = [landed(c) EXCEPT ![r] = y] BY <1>5 DEF z
  <2> HIDE DEF y
  <2>5. secret' = [secret EXCEPT ![c] = creq[r].cred] BY <1>5 DEF secretSet
  <2>6. UNCHANGED <<cnDuty, conn, binding, guard, spent, issued, faults>>
    BY <1>5 DEF storeCredential, rows, provider
  <2>7. creq[r].cred.rt \in unstored(creq[r]) BY <1>2
  <2> QED BY <1>2, <1>3, <2>3, <2>4, <2>5, <2>6, <2>7, OverwritesAndLands
<1> QED BY <1>4, <1>5 DEF storeCredential

(* A delegation: its row, then the credential that names its source.       *)
LEMMA DelegationRow ==
  ASSUME ConnInv, NEW r \in CnReqs, delegateRow(r)
  PROVE  ConnInv'
<1>1. creq[r].pc \notin Guarding BY Pcs DEF delegateRow, CnAt
<1>2. first_direct_connection(me(r)) \subseteq Conns \cup {"unbound"}
  BY OldestIsOne DEF first_direct_connection, Usable, Owned
<1>3. CASE CnEnd(r) /\ UNCHANGED rows
  <2>1. Quietly BY <1>3, Calm DEF delegateRow, rows
  <2> QED BY <1>1, <1>3, <2>1, AsideEnds
<1>4. ASSUME NEW src \in Conns, create_connection(r, "bot", "delegation", "default"),
             CnSet(r, [creq[r] EXCEPT !.pc = "point", !.c = r,
                         !.cred = [NoSecret EXCEPT !.st = "delegate", !.src = src]])
      PROVE  ConnInv'
  <2> DEFINE x == creq[r]   k == [NoSecret EXCEPT !.st = "delegate", !.src = src]
             y == [x EXCEPT !.pc = "point", !.c = r, !.cred = k]
  <2>1. x \in ReqRecords /\ ~x.dirty /\ x.next = 0 /\ CnTables BY <1>1, AtRest
  <2>2. k \in SecretRecords BY DEF NoSecret, SecretRecords, Conns, Cfgs
  <2>3. k.rt = 0 BY SMTT(30) DEF NoSecret
  <2>4. CnSet(r, y) BY <1>4
  <2> HIDE DEF x, k
  <2>5. y \in ReqRecords BY <2>1, <2>2 DEF ReqRecords, CnPcs, Conns
  <2>6. y.pc = "point" /\ y.dirty = x.dirty /\ y.next = x.next /\ y.cred = k BY <2>1, SMTT(30) DEF ReqRecords
  <2> HIDE DEF y
  <2>7. Visits(y) BY <2>1, <2>3, <2>6 DEF Visits
  <2>8. y.pc \notin Guarding \cup Storing BY <2>6, Pcs
  <2>9. conn' \in [Conns -> ConnRecords]
    <3>1. [st |-> "active", user |-> "bot", kind |-> "delegation", cfg |-> "default"] \in ConnRecords
      BY DEF ConnRecords, Users, Cfgs
    <3> QED BY <1>4, <2>1, <3>1 DEF create_connection, CnTables
  <2>10. Quietly BY <2>1, <2>9 DEF Quietly, Besides, CnTables, delegateRow, provider
  <2> QED BY <1>1, <2>1, <2>4, <2>5, <2>6, <2>7, <2>8, <2>10, AsideSets
<1> QED BY <1>2, <1>3, <1>4 DEF delegateRow

(* The delegation's secret names its source and holds no token.            *)
LEMMA DelegationPoints ==
  ASSUME ConnInv, NEW r \in CnReqs, delegatePoint(r)
  PROVE  ConnInv'
<1>1. creq[r].pc = "point" /\ creq[r].pc \notin Guarding BY Pcs DEF delegatePoint, CnAt
<1>2. creq[r].cred.rt = 0 /\ creq[r].cred \in SecretRecords /\ CnTables BY <1>1, AtRest DEF Visits, ReqRecords
<1>3. Moves(r, CnOver) BY <1>2, CnEnds DEF delegatePoint
<1>4. Besides BY <1>2 DEF delegatePoint, rows, CnTables, Besides
<1>5. r \in Conns /\ secret' = [secret EXCEPT ![r] = creq[r].cred] BY DEF Conns, delegatePoint, secretSet
<1>6. UNCHANGED <<guard, spent, issued>> BY DEF delegatePoint, provider
<1>7. creq' \in [CnReqs -> ReqRecords] /\ creq'[r] = CnOver BY <1>3 DEF Moves
<1>8. Marks(r, r) BY <1>3 DEF Moves, Marks
<1> QED BY <1>1, <1>2, <1>4, <1>5, <1>6, <1>7, <1>8, OverIsRest, Overwrites

(* Disconnecting: the secrets, then the rows.                              *)
LEMMA DropsRows ==
  ASSUME ConnInv, NEW r \in CnReqs, NEW S, dropRows(S), CnEnd(r), creq[r].pc \notin Guarding,
         UNCHANGED <<cnDuty, secret, binding, guard, provider, faults>>
  PROVE  ConnInv'
<1>1. CnTables BY DEF ConnInv
<1>2. NoConn \in ConnRecords BY DEF NoConn, ConnRecords, Users, Cfgs
<1>3. conn' \in [Conns -> ConnRecords] BY <1>1, <1>2 DEF dropRows, CnTables
<1>4. Quietly BY <1>1, <1>3 DEF Quietly, Besides, CnTables, provider
<1> QED BY <1>4, AsideEnds

(* disconnect: the secrets, then the rows.                                 *)
LEMMA Disconnects ==
  ASSUME ConnInv, NEW r \in CnReqs,
         disconnectSelect(r) \/ disconnectSecret(r) \/ disconnectRows(r)
  PROVE  ConnInv'
<1>1. CASE disconnectSelect(r)
  <2>1. creq[r].pc \notin Guarding BY <1>1, Pcs DEF disconnectSelect, CnAt
  <2>2. Quietly BY <1>1, Calm DEF disconnectSelect, rows
  <2> DEFINE x == creq[r]   S == Owned(me(r), "direct") \cup Owned(me(r), "delegation")
             y == [x EXCEPT !.pc = "wipe", !.todo = S]
  <2>3. S \subseteq Conns BY DEF Owned
  <2>4. x \in ReqRecords /\ ~x.dirty /\ x.next = 0 BY <2>1, AtRest
  <2>5. CnSet(r, y) BY <1>1 DEF disconnectSelect
  <2> HIDE DEF x, S
  <2>6. y \in ReqRecords BY <2>3, <2>4 DEF ReqRecords, CnPcs
  <2>7. y.pc = "wipe" /\ y.dirty = x.dirty /\ y.next = x.next /\ y.todo = S BY <2>4, SMTT(30) DEF ReqRecords
  <2> HIDE DEF y
  <2>8. Visits(y) BY <2>3, <2>4, <2>7 DEF Visits
  <2>9. y.pc \notin Guarding \cup Storing BY <2>7, Pcs
  <2> QED BY <2>1, <2>2, <2>4, <2>5, <2>6, <2>7, <2>8, <2>9, AsideSets
<1>2. CASE disconnectSecret(r)
  <2>1. creq[r].pc = "wipe" /\ creq[r].pc \notin Guarding BY <1>2, Pcs DEF disconnectSecret, CnAt
  <2>2. PICK c \in creq[r].todo :
          \/ secretDelete(c) /\ creq' = [landed(c) EXCEPT ![r].todo = @ \ {c}] /\ UNCHANGED faults
          \/ DbFails /\ CnSet(r, [creq[r] EXCEPT !.todo = @ \ {c}]) /\ UNCHANGED secret
    BY <1>2 DEF disconnectSecret
  <2>3. CnTables /\ creq[r] \in ReqRecords /\ creq[r].todo \subseteq Conns /\ ~creq[r].dirty /\ creq[r].next = 0
    BY <2>1, AtRest DEF Visits
  <2>4. c \in Conns BY <2>3
  <2> DEFINE x == creq[r]   y == [x EXCEPT !.todo = x.todo \ {c}]
  <2>5. landed(c)[r] = x BY <2>1 DEF landed
  <2>6. \/ secretDelete(c) /\ creq' = [landed(c) EXCEPT ![r] = y] /\ UNCHANGED faults
        \/ DbFails /\ CnSet(r, y) /\ UNCHANGED secret
    BY <2>2, <2>5
  <2> HIDE DEF x
  <2>7. y \in ReqRecords BY <2>3 DEF ReqRecords, x
  <2>8. y.pc = x.pc /\ y.dirty = x.dirty /\ y.next = x.next /\ y.todo = x.todo \ {c}
    BY <2>3, SMTT(30) DEF ReqRecords, x
  <2> HIDE DEF y
  <2>9. y.pc = "wipe" /\ ~y.dirty /\ y.next = 0 /\ y.todo \subseteq Conns BY <2>1, <2>3, <2>8 DEF x
  <2>10. Visits(y) BY <2>9 DEF Visits
  <2>11. y.pc \notin Guarding \cup Storing BY <2>9, Pcs
  <2>12. UNCHANGED <<cnDuty, conn, binding, guard, spent, issued>>
    BY <1>2 DEF disconnectSecret, rows, provider
  <2>13. CASE secretDelete(c) /\ creq' = [landed(c) EXCEPT ![r] = y] /\ UNCHANGED faults
    <3>1. secret' = [secret EXCEPT ![c] = NoSecret] BY <2>13 DEF secretDelete
    <3> QED BY <2>1, <2>4, <2>7, <2>9, <2>10, <2>11, <2>12, <2>13, <3>1, NoSecretIsNone, OverwritesAndLands
  <2>14. CASE DbFails /\ CnSet(r, y) /\ UNCHANGED secret
    <3>1. Quietly BY <2>12, <2>14, Calm DEF provider
    <3> QED BY <2>1, <2>7, <2>9, <2>10, <2>11, <2>14, <3>1, AsideSets
  <2> QED BY <2>6, <2>13, <2>14
<1>3. CASE disconnectRows(r)
  <2>1. creq[r].pc \notin Guarding BY <1>3, Pcs DEF disconnectRows, CnAt
  <2> QED BY <1>3, <2>1, DropsRows DEF disconnectRows
<1> QED BY <1>1, <1>2, <1>3

(* delete_connection: the owner, the secret, then the row.                 *)
LEMMA Deletes ==
  ASSUME ConnInv, NEW r \in CnReqs, delete_connection(r) \/ deleteSecret(r) \/ deleteRow(r)
  PROVE  ConnInv'
<1>1. CASE deleteRow(r)
  <2>1. creq[r].pc \notin Guarding BY <1>1, Pcs DEF deleteRow, CnAt
  <2> QED BY <1>1, <2>1, DropsRows DEF deleteRow
<1>2. CASE delete_connection(r)
  <2>1. creq[r].pc \notin Guarding BY <1>2, Pcs DEF delete_connection, CnAt
  <2>2. Quietly BY <1>2, Calm DEF delete_connection, rows
  <2>3. CnEnd(r) \/ CnGo(r, "unsecret") BY <1>2 DEF delete_connection
  <2>4. "unsecret" \in CnPcs /\ "unsecret" \notin Guarding \cup {"wipe", "point"} /\ "unsecret" \notin Storing
    BY Pcs
  <2> QED BY <2>1, <2>2, <2>3, <2>4, AsideEnds, AsideGoes
<1>3. CASE deleteSecret(r)
  <2>1. creq[r].pc = "unsecret" /\ creq[r].pc \notin Guarding BY <1>3, Pcs DEF deleteSecret, CnAt
  <2>2. CASE DbFails /\ CnGo(r, "drop") /\ UNCHANGED <<secret, revoked>>
    <3>1. Quietly BY <1>3, <2>2, Calm DEF deleteSecret, rows
    <3>2. "drop" \in CnPcs /\ "drop" \notin Guarding \cup {"wipe", "point"} /\ "drop" \notin Storing BY Pcs
    <3> QED BY <2>1, <2>2, <3>1, <3>2, AsideGoes
  <2>3. CASE secretDelete("c0") /\ creq' = [landed("c0") EXCEPT ![r].pc = "drop"] /\ UNCHANGED faults
    <3>1. CnTables /\ creq[r] \in ReqRecords /\ ~creq[r].dirty /\ creq[r].next = 0 BY <2>1, AtRest
    <3> DEFINE x == creq[r]   y == [x EXCEPT !.pc = "drop"]
    <3>2. landed("c0")[r] = x BY <2>1 DEF landed
    <3>3. creq' = [landed("c0") EXCEPT ![r] = y] BY <2>3, <3>2
    <3> HIDE DEF x
    <3>4. y \in ReqRecords BY <3>1 DEF ReqRecords, CnPcs, x
    <3>5. y.pc = "drop" /\ y.dirty = x.dirty /\ y.next = x.next BY <3>1, SMTT(30) DEF ReqRecords, x
    <3> HIDE DEF y
    <3>6. ~y.dirty /\ y.next = 0 BY <3>1, <3>5 DEF x
    <3>7. Visits(y) BY <3>5, <3>6 DEF Visits
    <3>8. y.pc \notin Guarding \cup Storing BY <3>5, Pcs
    <3>9. "c0" \in Conns /\ secret' = [secret EXCEPT !["c0"] = NoSecret] BY <2>3 DEF secretDelete, Conns
    <3>10. UNCHANGED <<cnDuty, conn, binding, guard, spent, issued, faults>>
      BY <1>3, <2>3 DEF deleteSecret, rows, provider
    <3> QED BY <2>1, <3>3, <3>4, <3>6, <3>7, <3>8, <3>9, <3>10, NoSecretIsNone, OverwritesAndLands
  <2> QED BY <1>3, <2>2, <2>3 DEF deleteSecret
<1> QED BY <1>1, <1>2, <1>3

(* Bindings hold no token.                                                 *)
LEMMA Binds ==
  ASSUME ConnInv, NEW r \in CnReqs, bind_app(r) \/ unbind_app(r)
  PROVE  ConnInv'
<1>1. creq[r].pc \notin Guarding BY Pcs DEF bind_app, unbind_app, CnAt
<1>2. CnTables BY DEF ConnInv
<1>3. binding' \in [Scopes -> Conns \cup {"unbound"}]
  BY <1>2 DEF bind_app, unbind_app, CnTables, Conns
<1>4. Quietly BY <1>2, <1>3 DEF Quietly, Besides, CnTables, bind_app, unbind_app, rows, provider
<1>5. CnEnd(r) BY DEF bind_app, unbind_app
<1> QED BY <1>1, <1>4, <1>5, AsideEnds

(* Resolving a connection and calling with it.                             *)
LEMMA Reads ==
  ASSUME ConnInv, NEW r \in CnReqs, NEW y \in ReqRecords, Read(r, y) \/ Misread(r, y),
         creq[r].pc \notin Guarding, y.pc \notin Guarding \cup Storing, ~y.dirty, Visits(y)
  PROVE  ConnInv'
<1>1. Quietly BY Calm DEF Read, Misread, rows
<1> QED BY <1>1, AsideSets DEF Read, Misread

(* Going to load a connection that was chosen.                             *)
LEMMA ReadsTo ==
  ASSUME ConnInv, NEW r \in CnReqs, NEW c \in Conns, Read(r, To(r, c)), creq[r].pc \notin Guarding
  PROVE  ConnInv'
<1> DEFINE y == To(r, c)
<1>1. y \in ReqRecords /\ y.pc = "load" /\ y.dirty = FALSE /\ y.next = 0 /\ Visits(y)
  BY LooksAt DEF To
<1>2. Read(r, y) OBVIOUS
<1> HIDE DEF y
<1>3. y.pc \notin Guarding \cup Storing BY <1>1, Pcs
<1> QED BY <1>1, <1>2, <1>3, Reads

(* A request keeps all but its place, and what it is told to change.       *)
LEMMA ReadsOn ==
  ASSUME ConnInv, NEW r \in CnReqs, creq[r].pc \notin Guarding,
         NEW p \in {"bound", "select", "delegated", "fetch", "call", "guard"},
         NEW y \in ReqRecords, Read(r, y) \/ Misread(r, y), y.pc = p, y.dirty = creq[r].dirty, y.next = creq[r].next
  PROVE  ConnInv'
<1>1. ~creq[r].dirty /\ creq[r].next = 0 BY AtRest
<1>2. Visits(y) BY <1>1 DEF Visits
<1>3. y.pc \notin Guarding \cup Storing BY Pcs
<1> QED BY <1>1, <1>2, <1>3, Reads

(* A request that calls without a credential.                              *)
LEMMA Leaves ==
  ASSUME ConnInv, NEW r \in CnReqs, NEW u \in Users, creq[r].pc \notin Guarding,
         \/ Read(r, [CnIdle EXCEPT !.pc = "call", !.eff = u])
         \/ Misread(r, [CnIdle EXCEPT !.pc = "call", !.eff = u])
  PROVE  ConnInv'
<1> DEFINE y == [CnIdle EXCEPT !.pc = "call", !.eff = u]
<1>1. CnIdle \in ReqRecords
  BY DEF CnIdle, NoSecret, ReqRecords, SecretRecords, CnPcs, Conns, Cfgs, Users
<1>2. y \in ReqRecords BY <1>1 DEF ReqRecords, CnPcs
<1>3. y.pc = "call" /\ y.dirty = FALSE /\ y.next = 0 BY SMTT(30) DEF CnIdle
<1>4. Read(r, y) \/ Misread(r, y) OBVIOUS
<1> HIDE DEF y
<1>5. Visits(y) /\ y.pc \notin Guarding \cup Storing BY <1>3, Pcs DEF Visits
<1> QED BY <1>2, <1>3, <1>4, <1>5, Reads

(* What a worker is handed is a secret, with fewer tokens.                 *)
LEMMA ForWorkerIsSecret ==
  ASSUME NEW r, NEW blob \in SecretRecords
  PROVE  for_worker(r, blob) \in SecretRecords
<1>1. blob.rt \in Nat BY DEF SecretRecords
<1> DEFINE n == IF manages(r, blob) THEN 0 ELSE blob.rt
<1>2. n \in Nat BY <1>1
<1>3. for_worker(r, blob) = [blob EXCEPT !.rt = n] BY DEF for_worker
<1> HIDE DEF n
<1> QED BY <1>2, <1>3 DEF SecretRecords

(* Which connection serves a call.                                         *)
LEMMA Chooses ==
  ASSUME ConnInv, NEW r \in CnReqs,
         execute_action(r) \/ resolveBinding(r) \/ resolveFallback(r) \/ resolveDelegation(r)
  PROVE  ConnInv'
<1> DEFINE x == creq[r]   u == me(r)
           on(p) == [x EXCEPT !.pc = p]
           calls == [x EXCEPT !.pc = "call", !.eff = u]
           points(c, d) == [x EXCEPT !.pc = "delegated", !.c = c, !.todo = {d}]
           leaves == [CnIdle EXCEPT !.pc = "call", !.eff = u]
<1>1. creq[r].pc \notin Guarding
  BY Pcs DEF execute_action, resolveBinding, resolveFallback, resolveDelegation, CnAt
<1>2. x \in ReqRecords /\ CnTables /\ u \in Users BY AtRest DEF me
<1>3. ASSUME NEW p \in {"bound", "select"}, Read(r, on(p)) PROVE ConnInv'
  <2> DEFINE y == on(p)
  <2> HIDE DEF x
  <2>1. y \in ReqRecords BY <1>2 DEF ReqRecords, CnPcs
  <2>2. y.pc = p /\ y.dirty = x.dirty /\ y.next = x.next BY <1>2, SMTT(30) DEF ReqRecords
  <2>3. Read(r, y) BY <1>3
  <2> HIDE DEF y
  <2> QED BY <1>1, <2>1, <2>2, <2>3, ReadsOn DEF x
<1>4. ASSUME Read(r, calls) PROVE ConnInv'
  <2> DEFINE y == calls
  <2> HIDE DEF x, u
  <2>1. y \in ReqRecords BY <1>2 DEF ReqRecords, CnPcs
  <2>2. y.pc = "call" /\ y.dirty = x.dirty /\ y.next = x.next BY <1>2, SMTT(30) DEF ReqRecords
  <2>3. Read(r, y) BY <1>4
  <2> HIDE DEF y
  <2> QED BY <1>1, <2>1, <2>2, <2>3, ReadsOn DEF x
<1>5. ASSUME NEW c \in Conns, NEW d \in Conns \cup {"unbound"}, Read(r, points(c, d)) PROVE ConnInv'
  <2> DEFINE y == points(c, d)
  <2> HIDE DEF x
  <2>1. y \in ReqRecords BY <1>2 DEF ReqRecords, CnPcs
  <2>2. y.pc = "delegated" /\ y.dirty = x.dirty /\ y.next = x.next BY <1>2, SMTT(30) DEF ReqRecords
  <2>3. Read(r, y) BY <1>5
  <2> HIDE DEF y
  <2> QED BY <1>1, <2>1, <2>2, <2>3, ReadsOn DEF x
<1>6. ASSUME Read(r, leaves) PROVE ConnInv' BY <1>1, <1>2, <1>6, Leaves
<1>7. ASSUME NEW c \in Conns, Read(r, To(r, c)) PROVE ConnInv' BY <1>1, <1>7, ReadsTo
<1>8. ASSUME Read(r, CnOver) PROVE ConnInv' BY <1>1, <1>8, OverIsRest, Reads
<1>9. CASE execute_action(r)
  <2>1. Read(r, CnOver) \/ Read(r, on("bound")) \/ Read(r, on("select")) BY <1>9 DEF execute_action
  <2> HIDE DEF on
  <2> QED BY <1>3, <1>8, <2>1
<1>10. CASE resolveBinding(r)
  <2> DEFINE bound == {s \in {u, "app"} : binding[s] # "unbound"}
  <2>1. \A s \in bound : binding[s] \in Conns BY <1>2 DEF CnTables, Scopes
  <2>2. Read(r, CASE u \in bound -> To(r, binding[u])
                  [] "app" \in bound /\ u \notin bound -> To(r, binding["app"])
                  [] bound = {} -> on("select"))
    BY <1>10 DEF resolveBinding
  <2>3. u \in bound \/ ("app" \in bound /\ u \notin bound) \/ bound = {} OBVIOUS
  <2> HIDE DEF bound, u, on
  <2>4. CASE u \in bound
    <3>1. Read(r, To(r, binding[u])) BY <2>2, <2>4
    <3> QED BY <1>7, <2>1, <2>4, <3>1
  <2>5. CASE "app" \in bound /\ u \notin bound
    <3>1. bound # {} BY <2>5
    <3>2. Read(r, To(r, binding["app"])) BY <2>2, <2>5, <3>1
    <3> QED BY <1>7, <2>1, <2>5, <3>2
  <2>6. CASE bound = {}
    <3>1. Read(r, on("select")) BY <2>2, <2>6
    <3> QED BY <1>3, <3>1
  <2> QED BY <2>3, <2>4, <2>5, <2>6
<1>11. CASE resolveFallback(r)
  <2>1. /\ oldest(Usable(u, "delegation")) \subseteq Conns \cup {"unbound"}
        /\ Eligible(r) \subseteq Conns \cup {"unbound"}
    BY OldestIsOne DEF Eligible, first_direct_connection, Usable, Owned
  <2>2. PICK c \in oldest(Usable(u, "delegation")), d \in Eligible(r) :
          Read(r, IF c # "unbound" THEN points(c, d) ELSE IF d # "unbound" THEN To(r, d) ELSE calls)
    BY <1>11 DEF resolveFallback
  <2>3. c \in Conns \cup {"unbound"} /\ d \in Conns \cup {"unbound"} BY <2>1
  <2> HIDE DEF points, calls
  <2>4. (c \in Conns /\ Read(r, points(c, d))) \/ (d \in Conns /\ Read(r, To(r, d))) \/ Read(r, calls)
    BY <2>2, <2>3
  <2> QED BY <1>4, <1>5, <1>7, <2>3, <2>4
<1>12. CASE resolveDelegation(r)
  <2>1. PICK d \in x.todo :
          Read(r, IF secret[x.c].st = "delegate" THEN To(r, secret[x.c].src)
                  ELSE IF d # "unbound" THEN To(r, d) ELSE leaves)
    BY <1>12 DEF resolveDelegation
  <2>2. x.c \in Conns /\ d \in Conns \cup {"unbound"} BY <1>2 DEF ReqRecords
  <2>3. secret[x.c].src \in Conns BY <1>2, <2>2 DEF CnTables, SecretRecords
  <2> HIDE DEF leaves
  <2>4. Read(r, To(r, secret[x.c].src)) \/ (d \in Conns /\ Read(r, To(r, d))) \/ Read(r, leaves)
    BY <2>1, <2>2
  <2> QED BY <1>6, <1>7, <2>3, <2>4
<1> QED BY <1>9, <1>10, <1>11, <1>12

(* resolve_by_connection_id.                                               *)
LEMMA Fetches ==
  ASSUME ConnInv, NEW r \in CnReqs, resolveRow(r) \/ resolveSecret(r)
  PROVE  ConnInv'
<1> DEFINE x == creq[r]
<1>1. creq[r].pc \notin Guarding BY Pcs DEF resolveRow, resolveSecret
<1>2. x \in ReqRecords /\ x.c \in Conns /\ CnTables /\ me(r) \in Users BY AtRest DEF me
<1>3. CASE resolveRow(r)
  <2>1. PICK found \in BOOLEAN, ok \in BOOLEAN : Read(r, loaded(r, found, ok)) \/ Misread(r, loaded(r, found, ok))
    BY <1>3 DEF resolveRow, Exists
  <2> DEFINE cfg == IF found THEN conn[x.c].cfg ELSE "default"
             cl == ok /\ resolve_config_scoped(cfg)
             e == IF found THEN conn[x.c].user ELSE me(r)
             y == [x EXCEPT !.pc = "fetch", !.cfg = cfg, !.client = cl, !.eff = e]
  <2>2. cfg \in Cfgs /\ e \in Users
    BY <1>2 DEF CnTables, ConnRecords, Cfgs
  <2>3. cl \in BOOLEAN OBVIOUS
  <2>4. loaded(r, found, ok) = y BY DEF loaded
  <2> HIDE DEF x, cfg, cl, e
  <2>5. y \in ReqRecords BY <1>2, <2>2, <2>3 DEF ReqRecords, CnPcs
  <2>6. y.pc = "fetch" /\ y.dirty = x.dirty /\ y.next = x.next BY <1>2, SMTT(30) DEF ReqRecords
  <2> HIDE DEF y
  <2> QED BY <1>1, <2>1, <2>4, <2>5, <2>6, ReadsOn DEF x
<1>4. CASE resolveSecret(r)
  <2> DEFINE blob == secret[x.c]   w == for_worker(r, blob)
             leaves == [CnIdle EXCEPT !.pc = "call", !.eff = me(r)]
  <2>1. blob \in SecretRecords BY <1>2 DEF CnTables
  <2>2. w \in SecretRecords BY <2>1, ForWorkerIsSecret
  <2>3. \/ Read(r, leaves) \/ Misread(r, leaves) \/ Read(r, [x EXCEPT !.pc = "call", !.cred = w])
        \/ Read(r, [x EXCEPT !.pc = "guard", !.cred = blob])
    BY <1>4 DEF resolveSecret
  <2> HIDE DEF w, blob
  <2>4. ASSUME NEW p \in {"call", "guard"}, NEW k \in SecretRecords, Read(r, [x EXCEPT !.pc = p, !.cred = k])
        PROVE  ConnInv'
    <3> DEFINE y == [x EXCEPT !.pc = p, !.cred = k]
    <3> HIDE DEF x
    <3>1. y \in ReqRecords BY <1>2 DEF ReqRecords, CnPcs
    <3>2. y.pc = p /\ y.dirty = x.dirty /\ y.next = x.next BY <1>2, SMTT(30) DEF ReqRecords
    <3>3. Read(r, y) BY <2>4
    <3> HIDE DEF y
    <3> QED BY <1>1, <3>1, <3>2, <3>3, ReadsOn DEF x
  <2>5. Read(r, leaves) \/ Misread(r, leaves) => ConnInv' BY <1>1, <1>2, Leaves
  <2> QED BY <2>1, <2>2, <2>3, <2>4, <2>5
<1> QED BY <1>3, <1>4

(* The worker's answer.                                                    *)
LEMMA Flags ==
  ASSUME CnTables, NEW c \in Conns, flagDead(c)
  PROVE  conn' \in [Conns -> ConnRecords]
<1> DEFINE z == conn[c]   s == IF z.st = "active" THEN "dead" ELSE z.st
<1>1. z \in ConnRecords BY DEF CnTables
<1>2. s \in {"none", "active", "dead"} BY <1>1 DEF ConnRecords
<1>3. conn' = [conn EXCEPT ![c] = [z EXCEPT !.st = s]] BY DEF flagDead
<1> HIDE DEF z, s
<1>4. [z EXCEPT !.st = s] \in ConnRecords BY <1>1, <1>2 DEF ConnRecords
<1> QED BY <1>3, <1>4 DEF CnTables

(* The call itself, and the flag after an auth failure.                    *)
LEMMA Calls ==
  ASSUME ConnInv, NEW r \in CnReqs, call(r) \/ flag_if_auth_failed(r)
  PROVE  ConnInv'
<1>1. creq[r].pc \notin Guarding BY Pcs DEF call, flag_if_auth_failed
<1>2. CASE call(r)
  <2>1. Quietly BY <1>2, Calm DEF call, rows
  <2>2. CnEnd(r) \/ CnGo(r, "failed") BY <1>2 DEF call
  <2>3. "failed" \in CnPcs /\ "failed" \notin Guarding \cup {"wipe", "point"} /\ "failed" \notin Storing BY Pcs
  <2> QED BY <1>1, <2>1, <2>2, <2>3, AsideEnds, AsideGoes
<1>3. CASE flag_if_auth_failed(r)
  <2>1. CnTables /\ creq[r].c \in Conns BY AtRest
  <2>2. conn' \in [Conns -> ConnRecords] BY <1>3, <2>1, Flags DEF flag_if_auth_failed
  <2>3. Quietly BY <1>3, <2>1, <2>2 DEF Quietly, Besides, CnTables, flag_if_auth_failed, provider
  <2> QED BY <1>1, <1>3, <2>3, AsideEnds DEF flag_if_auth_failed
<1> QED BY <1>2, <1>3

(* oauth::credentials_for_worker.                                          *)
LEMMA BesidesHolds ==
  ASSUME CnTables, UNCHANGED <<cnDuty, conn, binding>>, faults' = faults \/ DbFails
  PROVE  Besides /\ (DbFails => faults' # 0)
<1>1. faults \in Nat BY DEF CnTables
<1>2. faults' \in Nat /\ (faults' = 0 => faults = 0) /\ (DbFails => faults' # 0)
  BY <1>1, SMTT(30) DEF DbFails
<1> QED BY <1>2 DEF CnTables, Besides

(* A renewal fails: by a fault, or where nothing of its is spent.          *)
LEMMA Fails ==
  ASSUME ConnInv, NEW r \in CnReqs, creq[r].pc \in Guarding, RenewFails(r), Besides, UNCHANGED <<secret, issued>>,
         spent' = spent \/ (faults' # 0 /\ creq[r].pc = "exchange" /\ spent' = spent \cup {creq[r].cred.rt}),
         faults' = 0 => creq[r].pc \notin Writing \/ secret[creq[r].c].rt # creq[r].cred.rt
  PROVE  ConnInv'
<1>1. Moves(r, CnOver) BY CnEnds, AtRest DEF RenewFails
<1> QED BY <1>1, OverIsRest, LetsGuardGo DEF RenewFails, Unguard

(* Entering a renewal takes the connection's guard.                        *)
LEMMA TakeGuard ==
  ASSUME ConnInv, NEW r \in CnReqs, takeGuard(r)
  PROVE  ConnInv'
<1>1. creq[r].pc \notin Guarding \cup Storing BY Pcs DEF takeGuard
<1>2. CnTables /\ ~creq[r].dirty /\ creq[r].next = 0 BY <1>1, AtRest
<1>3. "fence" \in CnPcs BY DEF CnPcs
<1>4. PICK y \in ReqRecords :
        /\ Moves(r, y) /\ y.pc = "fence" /\ y.c = creq[r].c /\ y.cred = creq[r].cred
        /\ y.next = creq[r].next /\ y.todo = creq[r].todo /\ y.dirty = creq[r].dirty
  BY <1>2, <1>3, CnGoes DEF takeGuard
<1>5. Visits(y) BY <1>2, <1>4 DEF Visits
<1>6. Besides BY <1>2, BesidesHolds DEF takeGuard, rows
<1>7. guard[creq[r].c] = "free" /\ guard' = [guard EXCEPT ![creq[r].c] = r] /\ UNCHANGED <<secret, spent, issued>>
  BY DEF takeGuard, guard_for, provider
<1> QED BY <1>1, <1>2, <1>4, <1>5, <1>6, <1>7, TakesTheGuard

(* Under the guard the secret is read again.                               *)
LEMMA ReadBack ==
  ASSUME ConnInv, NEW r \in CnReqs, readBack(r)
  PROVE  ConnInv'
<1> DEFINE x == creq[r]   blob == secret[x.c]   w == for_worker(r, blob)
<1>1. x.pc = "fence" /\ x.pc \in Guarding /\ x.pc \notin Writing
  BY DEF readBack, Guarding, Renewing, Writing
<1>2. CnTables /\ x \in ReqRecords /\ x.c \in Conns BY AtRest
<1>3. ~x.dirty /\ x.next = 0
  <2>1. Overtaken(x) /\ Visits(x) BY AtRest DEF ConnInv
  <2> QED BY <1>1, <2>1 DEF Overtaken, Visits
<1>4. blob \in SecretRecords BY <1>2 DEF CnTables
<1>5. w \in SecretRecords BY <1>4, ForWorkerIsSecret
<1>6. Besides BY <1>2, BesidesHolds DEF readBack, rows
<1>7. UNCHANGED <<secret, spent, issued>> BY DEF readBack, provider
<1>8. \/ RenewFails(r)
      \/ Unguard(r) /\ CnSet(r, [x EXCEPT !.pc = "call", !.cred = w])
      \/ blob.rt # 0 /\ CnSet(r, [x EXCEPT !.pc = "exchange", !.cred = blob]) /\ UNCHANGED guard
  BY DEF readBack, reread
<1>9. CASE RenewFails(r) BY <1>1, <1>6, <1>7, <1>9, Fails
<1>10. ASSUME NEW p \in {"call", "exchange"}, NEW k \in SecretRecords, CnSet(r, [x EXCEPT !.pc = p, !.cred = k])
       PROVE  \E y \in ReqRecords : /\ Moves(r, y) /\ Visits(y) /\ y.pc = p /\ y.cred = k /\ y.c = x.c
                                    /\ ~y.dirty
  <2> DEFINE y == [x EXCEPT !.pc = p, !.cred = k]
  <2>1. CnSet(r, y) BY <1>10
  <2> HIDE DEF x
  <2>2. y \in ReqRecords BY <1>2 DEF ReqRecords, CnPcs
  <2>3. y.pc = p /\ y.cred = k /\ y.c = x.c /\ y.dirty = x.dirty /\ y.next = x.next
    BY <1>2, SMTT(30) DEF ReqRecords
  <2> HIDE DEF y
  <2>4. Visits(y) BY <1>3, <2>3 DEF Visits
  <2>5. Moves(r, y) BY <1>2, <2>1, <2>2, SetsOne
  <2> QED BY <1>3, <2>2, <2>3, <2>4, <2>5
<1>11. CASE Unguard(r) /\ CnSet(r, [x EXCEPT !.pc = "call", !.cred = w])
  <2> HIDE DEF w
  <2>1. PICK y \in ReqRecords : Moves(r, y) /\ Visits(y) /\ y.pc = "call" /\ ~y.dirty BY <1>5, <1>10, <1>11
  <2>2. y.pc \notin Guarding \cup Storing BY <2>1, Pcs
  <2> QED BY <1>1, <1>6, <1>7, <1>11, <2>1, <2>2, LetsGuardGo DEF Unguard
<1>12. CASE blob.rt # 0 /\ CnSet(r, [x EXCEPT !.pc = "exchange", !.cred = blob]) /\ UNCHANGED guard
  <2>1. PICK y \in ReqRecords : /\ Moves(r, y) /\ Visits(y) /\ y.pc = "exchange" /\ y.cred = blob /\ y.c = x.c
                                /\ ~y.dirty
    BY <1>4, <1>10, <1>12
  <2> QED BY <1>1, <1>6, <1>7, <1>12, <2>1, Presents
<1> QED BY <1>8, <1>9, <1>11, <1>12

(* A renewal's step that changes its place alone.                          *)
LEMMA GoesTo ==
  ASSUME ConnInv, NEW r \in CnReqs, NEW pc \in {"reject", "recheck", "persist"}, CnGo(r, pc), Besides,
         UNCHANGED <<secret, guard, spent, issued>>,
         creq[r].pc = IF pc = "persist" THEN "recheck" ELSE "exchange",
         pc = "persist" => ~creq[r].dirty
  PROVE  ConnInv'
<1>1. /\ CnTables /\ creq[r] \in ReqRecords /\ Visits(creq[r]) /\ Overtaken(creq[r])
      /\ creq[r].pc \in Guarding /\ pc \in Guarding /\ pc \in CnPcs
  BY AtRest DEF ConnInv, Guarding, Renewing, Writing, CnPcs
<1>2. PICK y \in ReqRecords :
        /\ Moves(r, y) /\ y.pc = pc /\ y.c = creq[r].c /\ y.cred = creq[r].cred
        /\ y.next = creq[r].next /\ y.todo = creq[r].todo /\ y.dirty = creq[r].dirty
  BY <1>1, CnGoes
<1>3. pc # "persist" => creq[r].next = 0 BY <1>1 DEF Visits, Writing
<1>4. Visits(y) BY <1>2, <1>3 DEF Visits, Writing
<1>5. unstored(y) \subseteq unstored(creq[r]) BY <1>2, <1>3 DEF unstored, Writing, Storing
<1>6. shown(y) \subseteq shown(creq[r]) BY <1>2 DEF shown, Renewing, Writing
<1>7. Intact(y) => Intact(creq[r]) BY <1>2 DEF Intact, Writing
<1>8. creq[r].pc \in Writing => y.pc \in Writing BY <1>2 DEF Writing
<1>9. Overtaken(y) BY <1>1, <1>2 DEF Overtaken
<1> QED BY <1>1, <1>2, <1>4, <1>5, <1>6, <1>7, <1>8, <1>9, GoesOn

(* The provider's answer.                                                  *)
LEMMA Exchanges ==
  ASSUME ConnInv, NEW r \in CnReqs, exchange(r)
  PROVE  ConnInv'
<1> DEFINE x == creq[r]
<1>1. x.pc = "exchange" /\ x.pc \in Guarding /\ x.pc \notin Writing
  BY DEF exchange, Guarding, Renewing, Writing
<1>2. CnTables /\ x \in ReqRecords /\ issued \in Nat BY AtRest DEF CnTables
<1>3. UNCHANGED <<cnDuty, conn, binding, secret>> BY DEF exchange, rows
<1>4. faults' = faults \/ DbFails => Besides /\ (DbFails => faults' # 0) BY <1>2, <1>3, BesidesHolds
<1>5. CASE CnGo(r, "reject") /\ UNCHANGED <<guard, provider, faults>>
  BY <1>1, <1>3, <1>4, <1>5, GoesTo DEF provider
<1>6. CASE RenewFails(r) /\ UNCHANGED <<provider, faults>>
  BY <1>1, <1>3, <1>4, <1>6, Fails DEF provider
<1>7. CASE DbFails /\ RenewFails(r) /\ spent' = spent \cup {creq[r].cred.rt} /\ UNCHANGED issued
  BY <1>1, <1>3, <1>4, <1>7, Fails
<1>8. CASE CnGo(r, "recheck") /\ UNCHANGED <<guard, provider, faults>>
  BY <1>1, <1>3, <1>4, <1>8, GoesTo DEF provider
<1>9. CASE /\ issued' = issued + 1 /\ spent' = spent \cup {creq[r].cred.rt}
           /\ CnSet(r, [creq[r] EXCEPT !.pc = "recheck", !.next = issued + 1])
           /\ UNCHANGED <<guard, faults>>
  <2> DEFINE n == issued + 1   y == [x EXCEPT !.pc = "recheck", !.next = n]
  <2>1. CnSet(r, y) BY <1>9
  <2>2. n \in Nat BY <1>2, SMTT(30)
  <2>3. issued' = n /\ Besides BY <1>4, <1>9
  <2> HIDE DEF n, x
  <2>4. y \in ReqRecords BY <1>2, <2>2 DEF ReqRecords, CnPcs
  <2>5. y.pc = "recheck" /\ y.next = n /\ y.c = x.c /\ y.cred = x.cred /\ y.dirty = x.dirty
    BY <1>2, SMTT(30) DEF ReqRecords
  <2> HIDE DEF y
  <2>6. Visits(y) BY <2>5 DEF Visits, Writing
  <2>7. Moves(r, y) BY <1>2, <2>1, <2>4, SetsOne
  <2> QED BY <1>1, <1>3, <1>9, <2>3, <2>4, <2>5, <2>6, <2>7, Rotates DEF x, n
<1> QED BY <1>5, <1>6, <1>7, <1>8, <1>9 DEF exchange

(* A rejected renewal flags the connection and ends.                       *)
LEMMA Rejects ==
  ASSUME ConnInv, NEW r \in CnReqs, rejected(r)
  PROVE  ConnInv'
<1>1. creq[r].pc \in Guarding /\ creq[r].pc \notin Writing /\ creq[r].pc # "exchange"
  BY DEF rejected, Guarding, Writing
<1>2. CnTables /\ creq[r].c \in Conns BY AtRest
<1>3. conn' \in [Conns -> ConnRecords] BY <1>2, Flags DEF rejected
<1>4. Besides BY <1>2, <1>3 DEF Besides, CnTables, rejected
<1> QED BY <1>1, <1>4, Fails DEF rejected, provider

(* A renewal that was overtaken ends without a write.                      *)
LEMMA Rechecks ==
  ASSUME ConnInv, NEW r \in CnReqs, recheck(r)
  PROVE  ConnInv'
<1>1. creq[r].pc = "recheck" /\ creq[r].pc \in Guarding BY DEF recheck, Guarding, Renewing, Writing
<1>2. CnTables /\ Overtaken(creq[r]) BY AtRest DEF ConnInv
<1>3. UNCHANGED <<cnDuty, conn, binding, secret, spent, issued>> BY DEF recheck, rows, provider
<1>4. Besides /\ (DbFails => faults' # 0) BY <1>2, <1>3, BesidesHolds DEF recheck
<1>5. CASE DbFails /\ RenewFails(r) BY <1>1, <1>3, <1>4, <1>5, Fails
<1>6. CASE ~unchanged(r) /\ RenewFails(r) BY <1>1, <1>3, <1>4, <1>6, Fails DEF unchanged
<1>7. CASE unchanged(r) /\ CnGo(r, "persist") /\ UNCHANGED guard
  <2>1. ~creq[r].dirty BY <1>1, <1>2, <1>7 DEF Overtaken, unchanged
  <2> QED BY <1>1, <1>3, <1>4, <1>7, <2>1, GoesTo
<1> QED BY <1>5, <1>6, <1>7 DEF recheck

(* The new token replaces the one that was spent.                          *)
LEMMA Writes ==
  ASSUME ConnInv, NEW r \in CnReqs, persist(r)
  PROVE  ConnInv'
<1> DEFINE x == creq[r]   n == IF x.next = 0 THEN x.cred.rt ELSE x.next
           blob == merge(x.cred, x.next)   w == for_worker(r, blob)
           y == [CnIdle EXCEPT !.pc = "call", !.c = x.c, !.eff = x.eff, !.cred = w]
<1>1. x.pc = "persist" /\ x.pc \in Guarding BY DEF persist, Guarding, Renewing, Writing
<1>2. CnTables /\ x \in ReqRecords BY AtRest
<1>3. x.c \in Conns /\ x.eff \in Users /\ x.cred \in SecretRecords /\ x.next \in Nat BY <1>2 DEF ReqRecords
<1>4. UNCHANGED <<cnDuty, conn, binding, spent, issued>> BY DEF persist, rows, provider
<1>5. Besides /\ (DbFails => faults' # 0) BY <1>2, <1>4, BesidesHolds DEF persist
<1>6. CASE DbFails /\ RenewFails(r) /\ UNCHANGED secret BY <1>1, <1>4, <1>5, <1>6, Fails
<1>7. CASE secretSet(x.c, blob) /\ Unguard(r) /\ CnSet(r, y)
  <2>1. n \in Nat BY <1>3 DEF SecretRecords
  <2>2. blob = [x.cred EXCEPT !.live = TRUE, !.rt = n] BY DEF merge
  <2>3. blob \in SecretRecords
    <3> HIDE DEF n, blob
    <3> QED BY <1>3, <2>1, <2>2 DEF SecretRecords
  <2>4. blob.rt = n
    <3> HIDE DEF n, blob, x
    <3> QED BY <1>3, <2>2, SMTT(30) DEF SecretRecords
  <2> HIDE DEF blob
  <2>5. w \in SecretRecords BY <2>3, ForWorkerIsSecret
  <2>6. CnSet(r, y) BY <1>7
  <2> DEFINE c == x.c   e == x.eff
  <2> HIDE DEF w
  <2>7. CnIdle \in ReqRecords
    BY DEF CnIdle, NoSecret, ReqRecords, SecretRecords, CnPcs, Conns, Cfgs, Users
  <2>8. y \in ReqRecords BY <1>3, <2>5, <2>7 DEF ReqRecords, CnPcs
  <2>9. y.pc = "call" /\ y.dirty = FALSE /\ y.next = 0 BY SMTT(30) DEF CnIdle
  <2> HIDE DEF y
  <2>10. Visits(y) /\ y.pc \notin Guarding \cup Storing /\ ~y.dirty BY <2>9, Pcs DEF Visits
  <2>11. Moves(r, y) BY <1>2, <2>6, <2>8, SetsOne
  <2>12. /\ secret' = [secret EXCEPT ![x.c] = blob] /\ guard' = [guard EXCEPT ![x.c] = "free"]
    BY <1>7 DEF secretSet, Unguard
  <2> QED BY <1>1, <1>4, <1>5, <2>3, <2>4, <2>8, <2>10, <2>11, <2>12, Persists
<1> QED BY <1>6, <1>7 DEF persist

-----------------------------------------------------------------------------
(* Every step keeps the invariant.                                         *)
LEMMA ConnSteps == ConnInv /\ [ConnNext]_connVars => ConnInv'
<1> SUFFICES ASSUME ConnInv, [ConnNext]_connVars PROVE ConnInv' OBVIOUS
<1>1. CASE expire BY <1>1, Expires
<1>2. ASSUME NEW r \in CnReqs, ConnStep(r) PROVE ConnInv'
  <2>1. CASE upsertSelect(r) BY <2>1, FlowSelects
  <2>2. CASE upsertRevive(r) \/ upsertInsert(r) BY <2>2, FlowUpserts
  <2>3. CASE storeCredential(r) BY <2>3, FlowStores
  <2>4. CASE \/ createConfigRow(r) \/ save_config_secrets_at(r) \/ deleteConfigCheck(r)
             \/ deleteConfigSecrets(r) \/ deleteConfigRow(r)
    BY <2>4, ConfigSteps
  <2>5. CASE auth_start(r) BY <2>5, FlowBegins
  <2>6. CASE auth_callback(r) \/ submit_credentials(r) BY <2>6, FlowTrades
  <2>7. CASE delegateRow(r) BY <2>7, DelegationRow
  <2>8. CASE delegatePoint(r) BY <2>8, DelegationPoints
  <2>9. CASE disconnectSelect(r) \/ disconnectSecret(r) \/ disconnectRows(r) BY <2>9, Disconnects
  <2>10. CASE delete_connection(r) \/ deleteSecret(r) \/ deleteRow(r) BY <2>10, Deletes
  <2>11. CASE bind_app(r) \/ unbind_app(r) BY <2>11, Binds
  <2>12. CASE execute_action(r) \/ resolveBinding(r) \/ resolveFallback(r) \/ resolveDelegation(r)
    BY <2>12, Chooses
  <2>13. CASE resolveRow(r) \/ resolveSecret(r) BY <2>13, Fetches
  <2>14. CASE takeGuard(r) BY <2>14, TakeGuard
  <2>15. CASE readBack(r) BY <2>15, ReadBack
  <2>16. CASE exchange(r) BY <2>16, Exchanges
  <2>17. CASE rejected(r) BY <2>17, Rejects
  <2>18. CASE recheck(r) BY <2>18, Rechecks
  <2>19. CASE persist(r) BY <2>19, Writes
  <2>20. CASE call(r) \/ flag_if_auth_failed(r) BY <2>20, Calls
  <2> QED BY <1>2, <2>1, <2>2, <2>3, <2>4, <2>5, <2>6, <2>7, <2>8, <2>9, <2>10, <2>11, <2>12, <2>13,
             <2>14, <2>15, <2>16, <2>17, <2>18, <2>19, <2>20 DEF ConnStep
<1>3. CASE UNCHANGED connVars
  <2>1. UNCHANGED <<cnDuty, conn, secret, binding, guard, spent, issued, faults, creq>> BY <1>3 DEF connVars
  <2>2. CnTables' BY <2>1 DEF ConnInv, CnTables
  <2>3. GuardIsHeld' BY <2>1 DEF ConnInv, GuardIsHeld
  <2>4. TokensAreIssued' BY <2>1 DEF ConnInv, TokensAreIssued
  <2>5. TokensHaveOnePlace' BY <2>1 DEF ConnInv, TokensHaveOnePlace
  <2>6. SpentAreReplaced' BY <2>1 DEF ConnInv, SpentAreReplaced
  <2>7. (\A q \in CnReqs : Overtaken(creq[q]))' BY <2>1 DEF ConnInv, Overtaken
  <2> QED BY <2>2, <2>3, <2>4, <2>5, <2>6, <2>7 DEF ConnInv
<1> QED BY <1>1, <1>2, <1>3 DEF ConnNext

(* Whatever requests connect, disconnect, delegate, bind and call, in any  *)
(* number and order: a guard has one holder, a refresh token one place,    *)
(* and a consumed one is on its way to being replaced.                     *)
THEOREM ConnInvariant == ConnSpec => []ConnInv
<1>1. ConnInit => ConnInv BY ConnInitially
<1>2. ConnInv /\ [ConnNext]_connVars => ConnInv' BY ConnSteps
<1> QED BY <1>1, <1>2, PTL DEF ConnSpec

(* The invariant implies the property that the run checks.                 *)
LEMMA InvKeepsTokens == ConnInv => TokensAreUnspent
<1> SUFFICES ASSUME ConnInv PROVE TokensAreUnspent OBVIOUS
<1>1. /\ CnTables /\ GuardIsHeld /\ TokensAreIssued /\ TokensHaveOnePlace /\ SpentAreReplaced
      /\ \A q \in CnReqs : Overtaken(creq[q])
  BY DEF ConnInv
<1>2. ConnTypeOK
  <2>1. \A c \in Conns : conn[c].st \in {"none", "active", "dead"} BY <1>1 DEF CnTables, ConnRecords
  <2>2. \A c \in Conns : secret[c].rt \in Nat /\ secret[c].rt <= issued /\ issued \in Nat
    BY <1>1 DEF CnTables, SecretRecords, TokensAreIssued
  <2>3. \A c \in Conns : secret[c].rt \in 0..issued BY <2>2, SMTT(30)
  <2>4. \A c \in Conns : guard[c] # "free" =>
          creq[guard[c]].c = c
          /\ creq[guard[c]].pc \in {"fence", "exchange", "recheck", "persist", "reject"}
    BY <1>1 DEF GuardIsHeld, Guarding, Renewing, Writing
  <2> QED BY <2>1, <2>3, <2>4 DEF ConnTypeOK
<1>3. NoSpentTokenIsPresented BY <1>1 DEF NoSpentTokenIsPresented, SpentAreReplaced, Intact
<1>4. StoredTokenIsUnspent
  <2> SUFFICES ASSUME faults = 0, NEW c \in Conns, secret[c].rt \in spent
               PROVE  \E r \in CnReqs : guard[c] = r /\ creq[r].pc \in {"recheck", "persist"}
    BY DEF StoredTokenIsUnspent
  <2>1. guard[c] # "free" /\ creq[guard[c]].pc \in {"recheck", "persist"}
    BY <1>1 DEF SpentAreReplaced, Writing
  <2>2. guard[c] \in CnReqs BY <1>1, <2>1 DEF CnTables
  <2> QED BY <2>1, <2>2
<1>5. LandedAtProviderWins BY <1>1 DEF LandedAtProviderWins, Overtaken
<1> QED BY <1>2, <1>3, <1>4, <1>5 DEF TokensAreUnspent

(* Rotating refresh tokens survive any number of concurrent renewals,      *)
(* reconnects and disconnects (oauth::credentials_for_worker).             *)
THEOREM TokensStayUnspent == ConnSpec => []TokensAreUnspent
BY ConnInvariant, InvKeepsTokens, PTL
==============================================================================

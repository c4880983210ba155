-------------------------- MODULE GovernedTxProofs --------------------------
(***************************************************************************)
(* Proofs about GovernedTx, for any number of calls, transactions and      *)
(* one-shot operations, and any length of the channels.                    *)
(***************************************************************************)
EXTENDS GovernedTx, TLAPS

(* Zenon proves every leaf that does not cite SMTT or PTL.                 *)
USE ZenonT(60)

(***************************************************************************)
(* The inductive invariant.  A transaction in which something went wrong   *)
(* remembers it (failed), is about to learn it (a poison ahead of any      *)
(* commit in its queue) or may no longer commit at all; the last command   *)
(* is the last in the queue, because the session left open_txs when it was *)
(* sent.  Under an approved worker every transaction that may still commit *)
(* is tracked or awaited by the close in progress, so that a close that is *)
(* over leaves none of its invocation behind.                              *)
(***************************************************************************)
SomeCall == TxCalls \cup {NoTxCall}
Lasts == {"commit", "rollback"}
TxRecords ==
  [st : {"none", "loop", "got", "committing", "ended", "notified"},
   phase : {"active", "finalizing", "cancelRequested", "finished"},
   q : Seq(Cmds), cur : Cmds \cup {"none"}, failed : BOOLEAN,
   kept : {"open", "task", "gone"}, ending : Lasts \cup {"none"}, owner : SomeCall,
   tracked : BOOLEAN, inv : SomeCall, result : {"open", "committed", "rolledback"},
   spoilt : BOOLEAN]
CallRecords ==
  [told : {"none", "waiting", "ok", "error", "timeout"}, active : BOOLEAN, mapped : BOOLEAN]
OpRecords ==
  [st : {"none", "running", "sending", "sent"}, inv : SomeCall,
   result : {"open", "committed", "failed"}]
LoopRecords ==
  [pc : {"select", "closing", "blocked", "writing"},
   then : {"none", "ok", "error", "expire", "stop", "kill", "crash"},
   call : SomeCall, wait : SUBSET Txs]

Has(q, cmd) == \E i \in 1..Len(q) : q[i] = cmd
MayCommit(x) == x.kept = "open" \/ x.ending = "commit" \/ x.cur = "commit" \/ Has(x.q, "commit")

(* The last command comes last.                                            *)
InOrder(x) ==
  /\ \A i \in 1..Len(x.q) : x.q[i] \in Lasts => i = Len(x.q)
  /\ x.cur \in Lasts => Len(x.q) = 0
  /\ x.kept = "open" \/ x.ending # "none" =>
       x.cur \notin Lasts /\ \A i \in 1..Len(x.q) : x.q[i] \notin Lasts
  /\ x.ending # "none" => x.kept = "task"

(* What an actor has done so far.                                          *)
Progress(x) ==
  /\ x.st \in {"none", "loop", "ended", "notified"} => x.cur = "none"
  /\ x.st = "none" => x.kept = "gone" /\ x.ending = "none" /\ x.q = <<>> /\ ~x.tracked
  /\ x.st \in {"none", "loop", "got", "committing"} => x.result = "open"
  /\ x.phase = "finished" => x.st \in {"ended", "notified"}
  /\ x.st = "committing" => x.kept # "open" /\ ~x.spoilt
  /\ x.result = "committed" => x.kept # "open" /\ ~x.spoilt

(* What went wrong is known before a commit is taken.                      *)
Warned(x) ==
  x.spoilt /\ x.st \in {"loop", "got"} /\ x.phase = "active" /\ MayCommit(x) =>
    x.failed \/ x.cur = "poison" \/ Has(x.q, "poison")

TxFits(x) == x \in TxRecords /\ InOrder(x) /\ Progress(x) /\ Warned(x)

(* Nothing of the transaction will commit any more.                        *)
Settled(x) == x.st \in {"ended", "notified"} \/ (~MayCommit(x) /\ x.st # "committing")

TxTables ==
  /\ conf \in Workers /\ txs \in [Txs -> TxRecords] /\ calls \in [TxCalls -> CallRecords]
  /\ ops \in [Ops -> OpRecords] /\ loop \in LoopRecords /\ chan.done \in SUBSET Txs
  /\ DOMAIN chan = {"out", "done"} /\ DOMAIN proc = {"st", "v4", "reads", "kills"}
DoneAreNotified == \A t \in chan.done : txs[t].st = "notified"
Watched == conf.approved =>
  \A t \in Txs : Settled(txs[t]) \/ txs[t].tracked \/ (loop.pc = "closing" /\ t \in loop.wait)
ClosingHasAll == loop.pc = "closing" =>
  /\ \A t \in Txs : txs[t].tracked => loop.call # NoTxCall /\ txs[t].inv # loop.call
  /\ loop.then \in {"ok", "error", "expire"} => loop.call \in TxCalls
  /\ loop.then \in {"ok", "error"} => ~calls[loop.call].active
  /\ loop.then \in {"stop", "kill", "crash"} => loop.call = NoTxCall
AnsweredIsOver == conf.approved =>
  \A c \in TxCalls : calls[c].told = "ok" =>
    /\ ~calls[c].active
    /\ \A t \in Txs : txs[t].inv = c => Settled(txs[t])
    /\ \A o \in Ops : ops[o].inv = c => ops[o].st # "running"
StoppedIsOver == proc.st = "exited" =>
  /\ \A t \in Txs : Settled(txs[t])
  /\ \A o \in Ops : ops[o].st # "running"

TxInv ==
  /\ TxTables /\ DoneAreNotified /\ (\A t \in Txs : TxFits(txs[t]))
  /\ Watched /\ ClosingHasAll /\ AnsweredIsOver /\ StoppedIsOver

(* A step of one transaction: it stays in order, and what was settled      *)
(* stays so.                                                               *)
Evolves(x, y) ==
  /\ TxFits(y) /\ y.inv = x.inv /\ (y.tracked => x.tracked)
  /\ Settled(x) => Settled(y)
  /\ y.result = "committed" => x.result = "committed" \/ x.st = "committing"
  /\ x.st = "notified" => y.st = "notified"

(* The fields the actor works with.                                        *)
SameWork(x, y) ==
  /\ y.st = x.st /\ y.q = x.q /\ y.cur = x.cur /\ y.failed = x.failed /\ y.result = x.result
  /\ y.inv = x.inv

(* Cancelling, and giving up the session or the tracking, change nothing   *)
(* the actor has done: what is settled stays so.                           *)
LEMMA LetsGo ==
  ASSUME NEW x, TxFits(x), NEW y \in TxRecords, SameWork(x, y), y.ending = x.ending,
         y.tracked => x.tracked, y.kept = x.kept \/ (x.kept = "open" /\ y.kept = "gone"),
         y.spoilt = x.spoilt \/ (x.kept = "open" /\ y.kept = "gone" /\ y.phase # "active"),
         y.phase = x.phase \/ y.phase \in {"finalizing", "cancelRequested"}
  PROVE  Evolves(x, y)
<1> USE DEF SameWork
<1>1. x \in TxRecords /\ InOrder(x) /\ Progress(x) /\ Warned(x) BY DEF TxFits
<1>2. x.kept = "open" => x.ending = "none" BY <1>1 DEF InOrder
<1>3. MayCommit(y) => MayCommit(x) BY DEF MayCommit
<1>4. InOrder(y) BY <1>1, <1>2 DEF InOrder
<1>5. Progress(y) BY <1>1 DEF Progress
<1>6. Warned(y) BY <1>1, <1>3 DEF Warned
<1>7. Settled(x) => Settled(y) BY <1>3 DEF Settled
<1> QED BY <1>4, <1>5, <1>6, <1>7 DEF Evolves, TxFits

(* TxLifecycle::cancel.                                                    *)
LEMMA Cancels ==
  ASSUME NEW x, TxFits(x)
  PROVE  /\ Evolves(x, cancelled(x)) /\ cancelled(x) \in TxRecords /\ SameWork(x, cancelled(x))
         /\ cancelled(x).kept = x.kept /\ cancelled(x).ending = x.ending
         /\ cancelled(x).owner = x.owner /\ cancelled(x).tracked = x.tracked
         /\ cancelled(x).spoilt = x.spoilt /\ cancelled(x).phase # "active"
         /\ cancelled(x).phase = x.phase \/ cancelled(x).phase = "cancelRequested"
<1> DEFINE y == cancelled(x)
<1>1. x \in TxRecords BY DEF TxFits
<1>2. /\ y \in TxRecords /\ y.phase # "active"
      /\ y.phase = x.phase \/ y.phase = "cancelRequested"
  BY SMTT(30), <1>1 DEF TxRecords, cancelled
<1>3. /\ SameWork(x, y) /\ y.kept = x.kept /\ y.ending = x.ending
      /\ y.owner = x.owner /\ y.tracked = x.tracked /\ y.spoilt = x.spoilt
  BY SMTT(30), <1>1 DEF TxRecords, cancelled, SameWork
<1> HIDE DEF y
<1>4. Evolves(x, y) BY <1>2, <1>3, LetsGo
<1> QED BY <1>2, <1>3, <1>4 DEF y

(* Dropping a session.                                                     *)
LEMMA Drops ==
  ASSUME NEW x, TxFits(x), x.kept = "open"
  PROVE  /\ Evolves(x, dropped(x)) /\ dropped(x).tracked = x.tracked
         /\ dropped(x).phase # "active" /\ dropped(x).kept = "gone" /\ dropped(x) \in TxRecords
         /\ SameWork(x, dropped(x)) /\ dropped(x).ending = x.ending
         /\ dropped(x).phase = x.phase \/ dropped(x).phase = "cancelRequested"
<1> DEFINE u == cancelled(x)  y == dropped(x)
<1>1. /\ u \in TxRecords /\ SameWork(x, u) /\ u.ending = x.ending /\ u.tracked = x.tracked
      /\ u.spoilt = x.spoilt /\ u.phase # "active"
      /\ u.phase = x.phase \/ u.phase = "cancelRequested"
  BY Cancels
<1>2. y = [u EXCEPT !.kept = "gone", !.owner = NoTxCall] BY DEF dropped
<1> HIDE DEF u, y
<1>3. y \in TxRecords BY <1>1, <1>2 DEF TxRecords, SomeCall
<1>4. /\ SameWork(x, y) /\ y.ending = x.ending /\ y.tracked = x.tracked /\ y.spoilt = x.spoilt
      /\ y.phase = u.phase /\ y.kept = "gone"
  BY SMTT(30), <1>1, <1>2 DEF TxRecords, SameWork
<1>5. Evolves(x, y) BY <1>1, <1>3, <1>4, LetsGo
<1> QED BY <1>1, <1>3, <1>4, <1>5 DEF y

(* A rollback ends the actor.                                              *)
LEMMA RollsBack ==
  ASSUME NEW x, x \in TxRecords, x.ending # "none" => x.kept = "task"
  PROVE  /\ TxFits(rolledback(x)) /\ rolledback(x).st = "ended"
         /\ rolledback(x).result = "rolledback"
         /\ rolledback(x).inv = x.inv /\ rolledback(x).tracked = x.tracked
<1> DEFINE y == rolledback(x)
<1>1. y \in TxRecords
  <2>1. <<>> \in Seq(Cmds) BY SMTT(30)
  <2> QED BY <2>1 DEF TxRecords, rolledback
<1>2. /\ y.st = "ended" /\ y.cur = "none" /\ y.q = <<>> /\ ~y.failed /\ ~y.spoilt
      /\ y.result = "rolledback" /\ y.kept = x.kept /\ y.ending = x.ending
      /\ y.inv = x.inv /\ y.tracked = x.tracked
  BY SMTT(30) DEF TxRecords, rolledback
<1> HIDE DEF y
<1>3. 1..Len(y.q) = {} BY SMTT(30), <1>2
<1>4. InOrder(y) BY <1>2, <1>3 DEF InOrder, Lasts
<1>5. Progress(y) BY <1>2 DEF Progress
<1>6. Warned(y) BY <1>2 DEF Warned
<1> QED BY <1>1, <1>2, <1>4, <1>5, <1>6 DEF TxFits, y

(* A rollback of a running actor.                                          *)
LEMMA GivesUp ==
  ASSUME NEW x, TxFits(x), x.st \in {"loop", "got", "committing"},
         NEW u \in TxRecords, u.ending = x.ending, u.kept = x.kept, u.inv = x.inv,
         u.tracked = x.tracked
  PROVE  Evolves(x, rolledback(u)) /\ rolledback(u).tracked = x.tracked
<1>1. x.ending # "none" => x.kept = "task" BY DEF TxFits, InOrder
<1> QED BY <1>1, RollsBack DEF Evolves, Settled

(* The next command.                                                       *)
LEMMA Takes ==
  ASSUME NEW x, TxFits(x), x.st = "loop", x.q # <<>>
  PROVE  LET y == [x EXCEPT !.st = "got", !.cur = Head(x.q), !.q = Tail(x.q)]
         IN Evolves(x, y) /\ y.tracked = x.tracked
<1> DEFINE y == [x EXCEPT !.st = "got", !.cur = Head(x.q), !.q = Tail(x.q)]
<1>1. x \in TxRecords /\ InOrder(x) /\ Progress(x) /\ Warned(x) BY DEF TxFits
<1>2. x.q \in Seq(Cmds) BY <1>1 DEF TxRecords
<1>3. /\ Head(x.q) \in Cmds /\ Tail(x.q) \in Seq(Cmds) /\ Len(x.q) \in Nat /\ Len(x.q) > 0
      /\ Len(Tail(x.q)) = Len(x.q) - 1 /\ Head(x.q) = x.q[1]
      /\ \A i \in 1..Len(Tail(x.q)) : Tail(x.q)[i] = x.q[i + 1] /\ i + 1 \in 1..Len(x.q)
      /\ 1 \in 1..Len(x.q)
      /\ \A i \in 1..Len(x.q) : i # 1 => i - 1 \in 1..Len(Tail(x.q)) /\ (i - 1) + 1 = i
  BY SMTT(30), <1>2
<1>4. y \in TxRecords BY <1>1, <1>3 DEF TxRecords
<1>5. /\ y.st = "got" /\ y.cur = Head(x.q) /\ y.q = Tail(x.q) /\ y.failed = x.failed
      /\ y.kept = x.kept /\ y.ending = x.ending /\ y.result = x.result /\ y.spoilt = x.spoilt
      /\ y.phase = x.phase /\ y.inv = x.inv /\ y.tracked = x.tracked
  BY SMTT(30), <1>1 DEF TxRecords
<1> HIDE DEF y
<1>6. ASSUME NEW cmd PROVE (y.cur = cmd \/ Has(y.q, cmd)) <=> Has(x.q, cmd)
  <2>1. CASE y.cur = cmd BY <1>3, <1>5, <2>1 DEF Has
  <2>3. ASSUME NEW i \in 1..Len(Tail(x.q)), Tail(x.q)[i] = cmd PROVE Has(x.q, cmd)
    <3>1. x.q[i + 1] = cmd /\ i + 1 \in 1..Len(x.q) BY <1>3, <2>3
    <3> QED BY <3>1 DEF Has
  <2>2. ASSUME NEW i \in 1..Len(x.q), x.q[i] = cmd PROVE y.cur = cmd \/ Has(y.q, cmd)
    <3>1. CASE i = 1 BY <1>3, <1>5, <2>2, <3>1
    <3>2. CASE i # 1
      <4>1. i - 1 \in 1..Len(Tail(x.q)) /\ Tail(x.q)[i - 1] = x.q[i]
        BY <1>3, <3>2
      <4> QED BY <1>5, <2>2, <4>1 DEF Has
    <3> QED BY <3>1, <3>2
  <2> QED BY <1>5, <2>1, <2>2, <2>3 DEF Has
<1>7. x.cur = "none" BY <1>1 DEF Progress
<1>8. MayCommit(y) <=> MayCommit(x) BY <1>5, <1>6, <1>7 DEF MayCommit
<1>9. InOrder(y)
  <2>1. ASSUME NEW i \in 1..Len(y.q), y.q[i] \in Lasts PROVE i = Len(y.q)
    <3>1. i + 1 = Len(x.q) BY <1>1, <1>3, <1>5, <2>1 DEF InOrder
    <3> QED BY SMTT(30), <1>3, <1>5, <3>1
  <2>2. y.cur \in Lasts => Len(y.q) = 0
    <3>1. y.cur \in Lasts => 1 = Len(x.q) BY <1>1, <1>3, <1>5 DEF InOrder
    <3>2. 1 = Len(x.q) => Len(Tail(x.q)) = 0 BY SMTT(30), <1>3
    <3> QED BY <1>5, <3>1, <3>2
  <2>3. y.kept = "open" \/ y.ending # "none" =>
          y.cur \notin Lasts /\ \A i \in 1..Len(y.q) : y.q[i] \notin Lasts
    <3> SUFFICES ASSUME x.kept = "open" \/ x.ending # "none"
                 PROVE  y.cur \notin Lasts /\ \A i \in 1..Len(y.q) : y.q[i] \notin Lasts
      BY <1>5
    <3>1. \A i \in 1..Len(x.q) : x.q[i] \notin Lasts BY <1>1 DEF InOrder
    <3>2. ASSUME NEW i \in 1..Len(Tail(x.q)) PROVE Tail(x.q)[i] \notin Lasts
      <4>1. Tail(x.q)[i] = x.q[i + 1] /\ i + 1 \in 1..Len(x.q) BY <1>3
      <4> QED BY <3>1, <4>1
    <3> QED BY <1>3, <1>5, <3>1, <3>2
  <2>4. y.ending # "none" => y.kept = "task" BY <1>1, <1>5 DEF InOrder
  <2> QED BY <2>1, <2>2, <2>3, <2>4 DEF InOrder
<1>10. Progress(y) BY <1>1, <1>5 DEF Progress
<1>11. Warned(y)
  <2>1. Has(x.q, "poison") <=> (y.cur = "poison" \/ Has(y.q, "poison")) BY <1>6
  <2> QED BY <1>1, <1>5, <1>7, <1>8, <2>1 DEF Warned
<1> QED BY <1>4, <1>5, <1>8, <1>9, <1>10, <1>11 DEF Evolves, TxFits, Settled, y

(* A statement or a poison is done with.                                   *)
LEMMA Executes ==
  ASSUME NEW x, TxFits(x), x.st = "got", x.cur \in {"exec", "poison"},
         NEW y \in TxRecords, y.st = "loop", y.cur = "none", y.q = x.q, y.kept = x.kept,
         y.ending = x.ending, y.result = x.result, y.phase = x.phase, y.inv = x.inv,
         y.tracked = x.tracked, x.failed \/ x.cur = "poison" => y.failed,
         y.spoilt => x.spoilt \/ y.failed
  PROVE  Evolves(x, y)
<1>1. InOrder(x) /\ Progress(x) /\ Warned(x) BY DEF TxFits
<1>2. MayCommit(y) <=> MayCommit(x) BY DEF MayCommit
<1>3. InOrder(y) BY <1>1 DEF InOrder, Lasts
<1>4. Progress(y) BY <1>1 DEF Progress
<1>5. Warned(y) BY <1>1, <1>2 DEF Warned
<1> QED BY <1>2, <1>3, <1>4, <1>5 DEF Evolves, TxFits, Settled

(* begin_finalization lets the COMMIT through.                             *)
LEMMA Finalizes ==
  ASSUME NEW x, TxFits(x), x.st = "got", x.cur = "commit", x.phase = "active", ~x.failed
  PROVE  LET y == [x EXCEPT !.phase = "finalizing", !.st = "committing"]
         IN Evolves(x, y) /\ y.tracked = x.tracked
<1> DEFINE y == [x EXCEPT !.phase = "finalizing", !.st = "committing"]
<1>1. x \in TxRecords /\ InOrder(x) /\ Progress(x) /\ Warned(x) BY DEF TxFits
<1>2. y \in TxRecords BY <1>1 DEF TxRecords
<1>3. /\ y.st = "committing" /\ y.phase = "finalizing" /\ y.cur = x.cur /\ y.spoilt = x.spoilt
      /\ y.q = x.q /\ y.kept = x.kept /\ y.ending = x.ending /\ y.result = x.result
      /\ y.inv = x.inv /\ y.tracked = x.tracked
  BY SMTT(30), <1>1 DEF TxRecords
<1> HIDE DEF y
<1>4. x.cur \in Lasts /\ x.kept # "open" BY <1>1 DEF InOrder, Lasts
<1>5. ~Has(x.q, "poison")
  <2>1. Len(x.q) = 0 BY <1>1, <1>4 DEF InOrder
  <2>2. 1..Len(x.q) = {} BY SMTT(30), <2>1
  <2> QED BY <2>2 DEF Has
<1>6. ~x.spoilt BY <1>1, <1>5 DEF Warned, MayCommit, TxRecords
<1>7. MayCommit(x) BY DEF MayCommit
<1>8. InOrder(y) BY <1>1, <1>3 DEF InOrder
<1>9. Progress(y) BY <1>1, <1>3, <1>4, <1>6 DEF Progress
<1>10. Warned(y) BY <1>3 DEF Warned
<1> QED BY <1>1, <1>2, <1>3, <1>7, <1>8, <1>9, <1>10 DEF Evolves, TxFits, Settled, Progress, y

(* PostgreSQL committed.                                                   *)
LEMMA Commits ==
  ASSUME NEW x, TxFits(x), x.st = "committing"
  PROVE  LET y == [x EXCEPT !.st = "ended", !.cur = "none", !.q = <<>>, !.result = "committed"]
         IN Evolves(x, y) /\ y.tracked = x.tracked
<1> DEFINE y == [x EXCEPT !.st = "ended", !.cur = "none", !.q = <<>>, !.result = "committed"]
<1>1. x \in TxRecords /\ InOrder(x) /\ Progress(x) BY DEF TxFits
<1>2. y \in TxRecords
  <2>1. <<>> \in Seq(Cmds) BY SMTT(30)
  <2> QED BY <1>1, <2>1 DEF TxRecords
<1>3. /\ y.st = "ended" /\ y.cur = "none" /\ y.q = <<>> /\ y.result = "committed"
      /\ y.kept = x.kept /\ y.ending = x.ending /\ y.spoilt = x.spoilt
      /\ y.inv = x.inv /\ y.tracked = x.tracked
  BY SMTT(30), <1>1 DEF TxRecords
<1> HIDE DEF y
<1>4. 1..Len(y.q) = {} BY SMTT(30), <1>3
<1>5. InOrder(y) BY <1>1, <1>3, <1>4 DEF InOrder, Lasts
<1>6. Progress(y) BY <1>1, <1>3 DEF Progress
<1>7. Warned(y) BY <1>3 DEF Warned
<1> QED BY <1>2, <1>3, <1>5, <1>6, <1>7 DEF Evolves, TxFits, Settled, y

(* The latch, and the notice to the supervisor.                            *)
LEMMA Finishes ==
  ASSUME NEW x, TxFits(x), x.st = "ended",
         NEW y, \/ y = [x EXCEPT !.phase = "finished"]
                \/ y = [x EXCEPT !.st = "notified"]
  PROVE  Evolves(x, y) /\ y.tracked = x.tracked
<1>1. x \in TxRecords /\ InOrder(x) /\ Progress(x) BY DEF TxFits
<1>2. y \in TxRecords BY <1>1 DEF TxRecords
<1>3. /\ y.st \in {"ended", "notified"} /\ y.cur = x.cur /\ y.q = x.q /\ y.result = x.result
      /\ y.kept = x.kept /\ y.ending = x.ending /\ y.spoilt = x.spoilt
      /\ y.inv = x.inv /\ y.tracked = x.tracked
  BY SMTT(30), <1>1 DEF TxRecords
<1>4. InOrder(y) BY <1>1, <1>3 DEF InOrder
<1>5. Progress(y) BY <1>1, <1>3 DEF Progress
<1>6. Warned(y) BY <1>3 DEF Warned
<1> QED BY <1>2, <1>3, <1>4, <1>5, <1>6 DEF Evolves, TxFits, Settled

(* A command more.                                                         *)
LEMMA Appended ==
  ASSUME NEW q \in Seq(Cmds), NEW cmd \in Cmds
  PROVE  /\ Append(q, cmd) \in Seq(Cmds)
         /\ \A i \in 1..Len(q) : i \in 1..Len(Append(q, cmd)) /\ Append(q, cmd)[i] = q[i]
         /\ Append(q, cmd)[Len(Append(q, cmd))] = cmd
         /\ Len(Append(q, cmd)) \in 1..Len(Append(q, cmd))
         /\ \A i \in 1..Len(Append(q, cmd)) : i \in 1..Len(q) \/ i = Len(Append(q, cmd))
BY SMTT(30)

LEMMA HasAppended ==
  ASSUME NEW q \in Seq(Cmds), NEW cmd \in Cmds, NEW other
  PROVE  Has(Append(q, cmd), other) <=> Has(q, other) \/ other = cmd
<1> DEFINE p == Append(q, cmd)
<1>1. /\ \A i \in 1..Len(q) : i \in 1..Len(p) /\ p[i] = q[i]
      /\ p[Len(p)] = cmd /\ Len(p) \in 1..Len(p)
      /\ \A i \in 1..Len(p) : i \in 1..Len(q) \/ i = Len(p)
  BY Appended
<1> HIDE DEF p
<1>2. Has(p, other) <=> Has(q, other) \/ other = cmd BY <1>1 DEF Has
<1> QED BY <1>2 DEF p

(* finish_tx and abort_tx: the session leaves open_txs with its last       *)
(* command to send.                                                        *)
LEMMA Ends ==
  ASSUME NEW x, TxFits(x), x.kept = "open",
         NEW y \in TxRecords, SameWork(x, y), y.phase = x.phase, y.kept = "task",
         y.ending \in Lasts, y.tracked = x.tracked, y.spoilt = x.spoilt \/ y.ending # "commit"
  PROVE  Evolves(x, y)
<1> USE DEF SameWork
<1>1. x \in TxRecords /\ InOrder(x) /\ Progress(x) /\ Warned(x) BY DEF TxFits
<1>2. x.cur \notin Lasts /\ \A i \in 1..Len(x.q) : x.q[i] \notin Lasts BY <1>1 DEF InOrder
<1>3. InOrder(y) BY <1>2 DEF InOrder
<1>4. Progress(y) BY <1>1 DEF Progress
<1>5. MayCommit(x) BY DEF MayCommit
<1>6. y.ending # "commit" => ~MayCommit(y) BY <1>2 DEF MayCommit, Has, Lasts
<1>7. Warned(y) BY <1>1, <1>5, <1>6 DEF Warned
<1>8. x.st # "committing" BY <1>1 DEF Progress
<1> QED BY <1>3, <1>4, <1>5, <1>7, <1>8 DEF Evolves, TxFits, Settled

(* abort_tx.                                                               *)
LEMMA Aborts ==
  ASSUME NEW x, TxFits(x), x.kept = "open"
  PROVE  Evolves(x, Aborted(x)) /\ Aborted(x).tracked = x.tracked
<1> DEFINE y == Aborted(x)
<1>1. x \in TxRecords BY DEF TxFits
<1>2. y \in TxRecords BY <1>1 DEF TxRecords, Aborted, SomeCall, Lasts
<1>3. /\ SameWork(x, y) /\ y.phase = x.phase /\ y.kept = "task" /\ y.ending = "rollback"
      /\ y.tracked = x.tracked
  BY SMTT(30), <1>1 DEF TxRecords, Aborted, SameWork
<1> HIDE DEF y
<1>4. Evolves(x, y) BY <1>2, <1>3, Ends DEF Lasts
<1> QED BY <1>3, <1>4 DEF y

(* A statement, or the poison of one, enters the queue.                    *)
LEMMA Enqueues ==
  ASSUME NEW x, TxFits(x), x.kept = "open", x.st \in {"loop", "got", "committing"},
         NEW cmd \in {"exec", "poison"}
  PROVE  LET y == [x EXCEPT !.q = Append(x.q, cmd), !.spoilt = x.spoilt \/ cmd = "poison"]
         IN Evolves(x, y) /\ y.tracked = x.tracked
<1> DEFINE z == x.spoilt \/ cmd = "poison"
           p == Append(x.q, cmd)
           y == [x EXCEPT !.q = p, !.spoilt = z]
<1>1. x \in TxRecords /\ InOrder(x) /\ Progress(x) /\ Warned(x) BY DEF TxFits
<1>2. z \in BOOLEAN /\ (z <=> x.spoilt \/ cmd = "poison") OBVIOUS
<1>3. cmd \in Cmds /\ cmd \notin Lasts BY DEF Cmds, Lasts
<1>4. x.q \in Seq(Cmds) BY <1>1 DEF TxRecords
<1>5. /\ p \in Seq(Cmds) /\ p[Len(p)] = cmd
      /\ \A i \in 1..Len(x.q) : p[i] = x.q[i]
      /\ \A i \in 1..Len(p) : i \in 1..Len(x.q) \/ i = Len(p)
  BY <1>3, <1>4, Appended
<1>6. ASSUME NEW other PROVE Has(p, other) <=> Has(x.q, other) \/ other = cmd
  BY <1>3, <1>4, HasAppended
<1> HIDE DEF z, p
<1>7. y \in TxRecords BY <1>1, <1>2, <1>5 DEF TxRecords
<1>8. /\ y.st = x.st /\ y.cur = x.cur /\ y.q = p /\ y.result = x.result /\ y.failed = x.failed
      /\ y.kept = x.kept /\ y.ending = x.ending /\ y.spoilt = z /\ y.phase = x.phase
      /\ y.inv = x.inv /\ y.tracked = x.tracked
  BY SMTT(30), <1>1 DEF TxRecords
<1> HIDE DEF y
<1>9. x.cur \notin Lasts /\ \A i \in 1..Len(x.q) : x.q[i] \notin Lasts BY <1>1 DEF InOrder
<1>10. \A i \in 1..Len(p) : p[i] \notin Lasts BY <1>3, <1>5, <1>9
<1>11. InOrder(y) BY <1>1, <1>8, <1>9, <1>10 DEF InOrder
<1>12. x.st # "committing" /\ x.st # "none" BY <1>1 DEF Progress
<1>13. Progress(y) BY <1>1, <1>8, <1>12 DEF Progress
<1>14. MayCommit(x) BY DEF MayCommit
<1>15. Has(p, "poison") <=> Has(x.q, "poison") \/ "poison" = cmd BY <1>6
<1>16. Warned(y) BY <1>1, <1>2, <1>8, <1>14, <1>15 DEF Warned
<1> QED BY <1>7, <1>8, <1>11, <1>13, <1>14, <1>16 DEF Evolves, TxFits, Settled, y, z, p

(* The task sends the last command.                                        *)
LEMMA Sends ==
  ASSUME NEW x, TxFits(x), x.kept = "task", x.st \in {"loop", "got"}, x.ending # "none"
  PROVE  LET y == [x EXCEPT !.q = Append(x.q, x.ending), !.ending = "none"]
         IN Evolves(x, y) /\ y.tracked = x.tracked
<1> DEFINE cmd == x.ending
           p == Append(x.q, cmd)
           y == [x EXCEPT !.q = p, !.ending = "none"]
<1>1. x \in TxRecords /\ InOrder(x) /\ Progress(x) /\ Warned(x) BY DEF TxFits
<1>2. x.q \in Seq(Cmds) /\ cmd \in Lasts BY <1>1 DEF TxRecords
<1>3. cmd \in Cmds BY <1>2 DEF Lasts, Cmds
<1>cmd. cmd = x.ending OBVIOUS
<1>queue. x.q \in Seq(Cmds) BY <1>2
<1> HIDE DEF cmd
<1>4. /\ p \in Seq(Cmds) /\ p[Len(p)] = cmd
      /\ \A i \in 1..Len(x.q) : p[i] = x.q[i]
      /\ \A i \in 1..Len(p) : i \in 1..Len(x.q) \/ i = Len(p)
  BY <1>3, <1>queue, Appended
<1>5. ASSUME NEW other PROVE Has(p, other) <=> Has(x.q, other) \/ other = cmd
  BY <1>2, <1>3, HasAppended
<1> HIDE DEF p
<1>6. y \in TxRecords BY <1>1, <1>4 DEF TxRecords
<1>7. /\ y.st = x.st /\ y.cur = x.cur /\ y.q = p /\ y.result = x.result /\ y.failed = x.failed
      /\ y.kept = x.kept /\ y.ending = "none" /\ y.spoilt = x.spoilt /\ y.phase = x.phase
      /\ y.inv = x.inv /\ y.tracked = x.tracked
  BY SMTT(30), <1>1 DEF TxRecords
<1> HIDE DEF y
<1>8. x.cur \notin Lasts /\ \A i \in 1..Len(x.q) : x.q[i] \notin Lasts BY <1>1 DEF InOrder
<1>9. \A i \in 1..Len(p) : p[i] \in Lasts => i = Len(p) BY <1>4, <1>8
<1>10. InOrder(y) BY <1>7, <1>8, <1>9 DEF InOrder
<1>11. Progress(y) BY <1>1, <1>7 DEF Progress
<1>12. Has(p, "commit") <=> Has(x.q, "commit") \/ "commit" = cmd BY <1>5
<1>13. Has(p, "poison") <=> Has(x.q, "poison") \/ "poison" = cmd BY <1>5
<1>14. MayCommit(y) <=> MayCommit(x) BY <1>7, <1>12, <1>cmd DEF MayCommit
<1>15. Warned(y) BY <1>1, <1>7, <1>13, <1>14 DEF Warned
<1> QED BY <1>6, <1>7, <1>10, <1>11, <1>14, <1>15 DEF Evolves, TxFits, Settled, y, p, cmd

(* The task is over.                                                       *)
LEMMA TaskLeaves ==
  ASSUME NEW x, TxFits(x), x.phase = "finished"
  PROVE  LET y == [x EXCEPT !.kept = "gone", !.ending = "none"]
         IN Evolves(x, y) /\ y.tracked = x.tracked
<1> DEFINE y == [x EXCEPT !.kept = "gone", !.ending = "none"]
<1>1. x \in TxRecords /\ InOrder(x) /\ Progress(x) BY DEF TxFits
<1>2. x.st \in {"ended", "notified"} BY <1>1 DEF Progress
<1>3. y \in TxRecords BY <1>1 DEF TxRecords
<1>4. /\ y.st = x.st /\ y.cur = x.cur /\ y.q = x.q /\ y.result = x.result
      /\ y.kept = "gone" /\ y.ending = "none" /\ y.spoilt = x.spoilt /\ y.phase = x.phase
      /\ y.inv = x.inv /\ y.tracked = x.tracked
  BY SMTT(30), <1>1 DEF TxRecords
<1> HIDE DEF y
<1>5. InOrder(y) BY <1>1, <1>4 DEF InOrder
<1>6. Progress(y) BY <1>1, <1>2, <1>4 DEF Progress
<1>7. Warned(y) BY <1>2, <1>4 DEF Warned
<1> QED BY <1>2, <1>3, <1>4, <1>5, <1>6, <1>7 DEF Evolves, TxFits, Settled, y

(***************************************************************************)
(* Steps of the whole.                                                     *)
(***************************************************************************)
(* What may newly be committed, by a step of anyone.                       *)
Honest ==
  /\ \A t \in Txs : txs'[t].result = "committed" =>
       txs[t].result = "committed" \/ txs[t].st = "committing"
  /\ \A o \in Ops : ops'[o].result = "committed" =>
       ops[o].result = "committed" \/ ops[o].st = "running"

(* A new transaction is tracked, and belongs to a call still running.      *)
Unanswered(inv) == conf.approved => \A c \in TxCalls : inv = c => calls'[c].told # "ok"
Born(t) ==
  /\ TxFits(txs'[t]) /\ txs'[t].result = "open" /\ Unanswered(txs'[t].inv)
  /\ proc'.st # "exited" /\ loop'.pc # "closing"
  /\ conf.approved => txs'[t].tracked \/ Settled(txs'[t])

KeepsTxs == \A t \in Txs :
  \/ Born(t)
  \/ /\ Evolves(txs[t], txs'[t])
     /\ txs[t].tracked => txs'[t].tracked \/ Settled(txs'[t])
KeepsCalls == \A c \in TxCalls :
  /\ conf.approved /\ calls'[c].told = "ok" => calls[c].told = "ok"
  /\ calls'[c].active => calls[c].active \/ (calls'[c].told # "ok" /\ loop'.pc # "closing")
KeepsOps == \A o \in Ops :
  /\ ops'[o].st = "running" =>
       \/ ops[o].st = "running" /\ ops'[o].inv = ops[o].inv
       \/ proc'.st # "exited" /\ Unanswered(ops'[o].inv)
  /\ ops'[o].result = "committed" => ops[o].result = "committed" \/ ops[o].st = "running"
KeepsLoop == loop' = loop \/ (loop.pc # "closing" /\ loop'.pc # "closing")

(* A step that neither begins nor ends a close.                            *)
Steady ==
  /\ conf' = conf /\ TxTables' /\ DoneAreNotified'
  /\ KeepsTxs /\ KeepsCalls /\ KeepsOps /\ KeepsLoop
  /\ proc'.st = "exited" => proc.st = "exited"

(* It keeps the invariant.                                                 *)
LEMMA SteadyStep ==
  ASSUME TxInv, Steady
  PROVE  TxInv' /\ Honest
<1>1. /\ TxTables /\ \A t \in Txs : TxFits(txs[t])
      /\ Watched /\ ClosingHasAll /\ AnsweredIsOver /\ StoppedIsOver
  BY DEF TxInv
<1>2. /\ conf' = conf /\ TxTables' /\ DoneAreNotified'
      /\ KeepsTxs /\ KeepsCalls /\ KeepsOps /\ KeepsLoop
      /\ proc'.st = "exited" => proc.st = "exited"
  BY DEF Steady
<1>3. \A t \in Txs : TxFits(txs'[t]) BY <1>2 DEF KeepsTxs, Born, Evolves
<1>4. Watched'
  <2> SUFFICES ASSUME conf.approved, NEW t \in Txs
               PROVE  \/ Settled(txs'[t]) \/ txs'[t].tracked
                      \/ (loop'.pc = "closing" /\ t \in loop'.wait)
    BY <1>2 DEF Watched
  <2>1. CASE Born(t) BY <2>1 DEF Born
  <2>2. CASE Evolves(txs[t], txs'[t]) /\ (txs[t].tracked => txs'[t].tracked \/ Settled(txs'[t]))
    <3>1. Settled(txs[t]) => Settled(txs'[t]) BY <2>2 DEF Evolves
    <3>2. Settled(txs[t]) \/ txs[t].tracked \/ (loop.pc = "closing" /\ t \in loop.wait)
      BY <1>1 DEF Watched
    <3>3. loop.pc = "closing" => loop' = loop BY <1>2 DEF KeepsLoop
    <3> QED BY <2>2, <3>1, <3>2, <3>3
  <2> QED BY <1>2, <2>1, <2>2 DEF KeepsTxs
<1>5. ClosingHasAll'
  <2> SUFFICES ASSUME loop'.pc = "closing" PROVE ClosingHasAll'
    BY DEF ClosingHasAll
  <2>1. loop' = loop BY <1>2 DEF KeepsLoop
  <2>2. loop.pc = "closing" BY <2>1
  <2>3. \A t \in Txs : txs'[t].tracked => txs[t].tracked /\ txs'[t].inv = txs[t].inv
    BY <1>2 DEF KeepsTxs, Born, Evolves
  <2>4. \A c \in TxCalls : calls'[c].active => calls[c].active BY <1>2 DEF KeepsCalls
  <2> QED BY <1>1, <2>1, <2>2, <2>3, <2>4 DEF ClosingHasAll
<1>6. AnsweredIsOver'
  <2> SUFFICES ASSUME conf.approved, NEW c \in TxCalls, calls'[c].told = "ok"
               PROVE  /\ ~calls'[c].active
                      /\ \A t \in Txs : txs'[t].inv = c => Settled(txs'[t])
                      /\ \A o \in Ops : ops'[o].inv = c => ops'[o].st # "running"
    BY <1>2 DEF AnsweredIsOver
  <2>1. calls[c].told = "ok" BY <1>2 DEF KeepsCalls
  <2>2. /\ ~calls[c].active
        /\ \A t \in Txs : txs[t].inv = c => Settled(txs[t])
        /\ \A o \in Ops : ops[o].inv = c => ops[o].st # "running"
    BY <1>1, <2>1 DEF AnsweredIsOver
  <2>3. ~calls'[c].active BY <1>2, <2>2 DEF KeepsCalls
  <2>4. \A t \in Txs : txs'[t].inv = c => Settled(txs'[t])
    BY <1>2, <2>2 DEF KeepsTxs, Born, Evolves, Unanswered
  <2>5. \A o \in Ops : ops'[o].inv = c => ops'[o].st # "running"
    BY <1>2, <2>2 DEF KeepsOps, Unanswered
  <2> QED BY <2>3, <2>4, <2>5
<1>7. StoppedIsOver'
  <2> SUFFICES ASSUME proc'.st = "exited"
               PROVE  /\ \A t \in Txs : Settled(txs'[t])
                      /\ \A o \in Ops : ops'[o].st # "running"
    BY DEF StoppedIsOver
  <2>1. /\ \A t \in Txs : Settled(txs[t])
        /\ \A o \in Ops : ops[o].st # "running"
    BY <1>1, <1>2 DEF StoppedIsOver
  <2>2. \A t \in Txs : Settled(txs'[t]) BY <1>2, <2>1 DEF KeepsTxs, Born, Evolves
  <2> QED BY <1>2, <2>1, <2>2 DEF KeepsOps
<1>8. Honest
  <2>1. ASSUME NEW t \in Txs, txs'[t].result = "committed"
        PROVE  txs[t].result = "committed" \/ txs[t].st = "committing"
    BY <1>2, <2>1 DEF KeepsTxs, Born, Evolves
  <2> QED BY <1>2, <2>1 DEF Honest, KeepsOps
<1> QED BY <1>2, <1>3, <1>4, <1>5, <1>6, <1>7, <1>8 DEF TxInv

(* Nothing of a transaction changes.                                       *)
LEMMA Stays ==
  ASSUME NEW x, TxFits(x)
  PROVE  Evolves(x, x)
BY DEF Evolves, TxFits, Progress

(* A step of one transaction.                                              *)
LEMMA OneTx ==
  ASSUME TxInv, NEW t \in Txs, NEW y, txs' = [txs EXCEPT ![t] = y], Evolves(txs[t], y),
         txs[t].tracked => y.tracked \/ Settled(y),
         conf' = conf, proc' = proc, calls' = calls, ops' = ops,
         loop' \in LoopRecords, KeepsLoop,
         chan'.done \in SUBSET Txs, DOMAIN chan' = {"out", "done"},
         \A u \in chan'.done : u \in chan.done \/ (u = t /\ y.st = "notified")
  PROVE  Steady
<1>1. TxTables /\ DoneAreNotified /\ \A u \in Txs : TxFits(txs[u]) BY DEF TxInv
<1>2. y \in TxRecords BY DEF Evolves, TxFits
<1>3. txs \in [Txs -> TxRecords] BY <1>1 DEF TxTables
<1>4. /\ txs' \in [Txs -> TxRecords] /\ txs'[t] = y
      /\ \A u \in Txs : u # t => txs'[u] = txs[u]
  BY <1>2, <1>3
<1>5. TxTables' BY <1>1, <1>4 DEF TxTables
<1>6. DoneAreNotified' BY <1>1, <1>4 DEF DoneAreNotified, Evolves
<1>7. KeepsTxs
  <2>1. ASSUME NEW u \in Txs
        PROVE  Evolves(txs[u], txs'[u]) /\ (txs[u].tracked => txs'[u].tracked \/ Settled(txs'[u]))
    <3>1. Evolves(txs[u], txs[u]) BY <1>1, Stays
    <3> QED BY <1>4, <3>1
  <2> QED BY <2>1 DEF KeepsTxs
<1>8. KeepsCalls /\ KeepsOps BY DEF KeepsCalls, KeepsOps
<1> QED BY <1>5, <1>6, <1>7, <1>8 DEF Steady

(* A step of no transaction.                                               *)
LEMMA NoTxMoves ==
  ASSUME TxInv, txs' = txs, conf' = conf, chan'.done = chan.done, DOMAIN chan' = {"out", "done"},
         calls' \in [TxCalls -> CallRecords], KeepsCalls, ops' \in [Ops -> OpRecords], KeepsOps,
         loop' \in LoopRecords, KeepsLoop,
         DOMAIN proc' = DOMAIN proc, proc'.st = "exited" => proc.st = "exited"
  PROVE  Steady
<1>1. TxTables /\ DoneAreNotified /\ \A u \in Txs : TxFits(txs[u]) BY DEF TxInv
<1>2. TxTables' BY <1>1 DEF TxTables
<1>3. DoneAreNotified' BY <1>1 DEF DoneAreNotified
<1>4. KeepsTxs BY <1>1, Stays DEF KeepsTxs
<1> QED BY <1>2, <1>3, <1>4 DEF Steady

(* Every step of an actor and of the task that ends its transaction.       *)
LEMMA ActorsSteady ==
  ASSUME TxInv, NEW t \in Txs, ActorStep(t)
  PROVE  Steady
<1> DEFINE x == txs[t]
<1>1. /\ TxFits(x) /\ x \in TxRecords /\ loop \in LoopRecords /\ chan.done \in SUBSET Txs
      /\ DOMAIN chan = {"out", "done"}
  BY DEF TxInv, TxTables, TxFits
<1>2. ASSUME NEW y, Step(t, y), UNCHANGED chan, Evolves(x, y), y.tracked = x.tracked
      PROVE  Steady
  BY <1>1, <1>2, OneTx DEF Step, KeepsLoop
<1>3. ASSUME NEW u \in TxRecords, u.ending = x.ending, u.kept = x.kept, u.inv = x.inv,
             u.tracked = x.tracked, x.st \in {"loop", "got", "committing"},
             Step(t, rolledback(u)), UNCHANGED chan
      PROVE  Steady
  <2>1. Evolves(x, rolledback(u)) /\ rolledback(u).tracked = x.tracked BY <1>1, <1>3, GivesUp
  <2> QED BY <1>2, <1>3, <2>1
<1>4. ASSUME x.phase = "active"
      PROVE  LET u == [x EXCEPT !.phase = "finalizing"]
             IN /\ u \in TxRecords /\ u.ending = x.ending /\ u.kept = x.kept /\ u.inv = x.inv
                /\ u.tracked = x.tracked
  BY SMTT(30), <1>1 DEF TxRecords
<1>5. CASE ActorCancelled(t) BY <1>1, <1>3, <1>5 DEF ActorCancelled
<1>6. CASE ActorDeadline(t)
  <2>1. /\ cancelled(x) \in TxRecords /\ cancelled(x).ending = x.ending
        /\ cancelled(x).kept = x.kept /\ cancelled(x).inv = x.inv
        /\ cancelled(x).tracked = x.tracked
    BY <1>1, Cancels DEF SameWork
  <2> QED BY <1>3, <1>6, <2>1 DEF ActorDeadline
<1>7. CASE ActorOrphaned(t) BY <1>1, <1>3, <1>7 DEF ActorOrphaned
<1>8. CASE ActorTakes(t)
  <2> DEFINE y == [x EXCEPT !.st = "got", !.cur = Head(x.q), !.q = Tail(x.q)]
  <2>1. x.st = "loop" /\ x.q # <<>> /\ Step(t, y) /\ UNCHANGED chan BY <1>8 DEF ActorTakes
  <2>2. Evolves(x, y) /\ y.tracked = x.tracked BY <1>1, <2>1, Takes
  <2> HIDE DEF y
  <2> QED BY <1>2, <2>1, <2>2
<1>9. CASE ActorExec(t)
  <2>1. PICK ok \in {~x.failed, FALSE} :
          Step(t, [x EXCEPT !.st = "loop", !.cur = "none", !.failed = ~ok, !.spoilt = @ \/ ~ok])
    BY <1>9 DEF ActorExec
  <2> DEFINE bad == ~ok
             worse == x.spoilt \/ ~ok
             y == [x EXCEPT !.st = "loop", !.cur = "none", !.failed = bad, !.spoilt = worse]
  <2>2. x.st = "got" /\ x.cur = "exec" /\ UNCHANGED chan BY <1>9 DEF ActorExec
  <2>3. Step(t, y) BY <2>1
  <2>4. x.failed \in BOOLEAN BY <1>1 DEF TxRecords
  <2>5. bad \in BOOLEAN /\ worse \in BOOLEAN /\ (x.failed => bad) /\ (worse => x.spoilt \/ bad)
    BY <2>1, <2>4
  <2> HIDE DEF bad, worse
  <2>6. y \in TxRecords BY <1>1, <2>5 DEF TxRecords
  <2>7. /\ y.st = "loop" /\ y.cur = "none" /\ y.q = x.q /\ y.kept = x.kept /\ y.ending = x.ending
        /\ y.result = x.result /\ y.phase = x.phase /\ y.inv = x.inv /\ y.tracked = x.tracked
        /\ y.failed = bad /\ y.spoilt = worse
    BY SMTT(30), <1>1 DEF TxRecords
  <2> HIDE DEF y
  <2>8. Evolves(x, y) BY <1>1, <2>2, <2>5, <2>6, <2>7, Executes
  <2> QED BY <1>2, <2>2, <2>3, <2>7, <2>8
<1>10. CASE ActorPoison(t)
  <2> DEFINE y == [x EXCEPT !.st = "loop", !.cur = "none", !.failed = TRUE]
  <2>1. x.st = "got" /\ x.cur = "poison" /\ UNCHANGED chan /\ Step(t, y)
    BY <1>10 DEF ActorPoison
  <2>2. y \in TxRecords BY <1>1 DEF TxRecords
  <2>3. /\ y.st = "loop" /\ y.cur = "none" /\ y.q = x.q /\ y.kept = x.kept /\ y.ending = x.ending
        /\ y.result = x.result /\ y.phase = x.phase /\ y.inv = x.inv /\ y.tracked = x.tracked
        /\ y.failed /\ y.spoilt = x.spoilt
    BY SMTT(30), <1>1 DEF TxRecords
  <2> HIDE DEF y
  <2>4. Evolves(x, y) BY <1>1, <2>1, <2>2, <2>3, Executes
  <2> QED BY <1>2, <2>1, <2>3, <2>4
<1>11. CASE ActorCommit(t)
  <2> DEFINE y == [x EXCEPT !.phase = "finalizing", !.st = "committing"]
             u == [x EXCEPT !.phase = "finalizing"]
  <2>1. /\ x.st = "got" /\ x.cur = "commit" /\ UNCHANGED chan
        /\ Step(t, IF x.phase # "active" THEN rolledback(x)
                   ELSE IF x.failed THEN rolledback(u) ELSE y)
    BY <1>11 DEF ActorCommit
  <2>2. CASE x.phase # "active" BY <1>1, <1>3, <2>1, <2>2
  <2>3. CASE x.phase = "active" /\ x.failed
    <3>1. Step(t, rolledback(u)) BY <2>1, <2>3
    <3>2. /\ u \in TxRecords /\ u.ending = x.ending /\ u.kept = x.kept /\ u.inv = x.inv
          /\ u.tracked = x.tracked
      BY <1>4, <2>3
    <3> HIDE DEF u
    <3> QED BY <1>3, <2>1, <3>1, <3>2
  <2>4. CASE x.phase = "active" /\ ~x.failed
    <3>1. Step(t, y) BY <2>1, <2>4
    <3>2. Evolves(x, y) /\ y.tracked = x.tracked BY <1>1, <2>1, <2>4, Finalizes
    <3> HIDE DEF y
    <3> QED BY <1>2, <2>1, <3>1, <3>2
  <2> QED BY <2>2, <2>3, <2>4
<1>12. CASE ActorRollback(t)
  <2> DEFINE u == [x EXCEPT !.phase = "finalizing"]
  <2>1. /\ x.st = "got" /\ UNCHANGED chan
        /\ Step(t, rolledback(IF x.phase = "active" THEN u ELSE x))
    BY <1>12 DEF ActorRollback
  <2>2. CASE x.phase # "active" BY <1>1, <1>3, <2>1, <2>2
  <2>3. CASE x.phase = "active"
    <3>1. Step(t, rolledback(u)) BY <2>1, <2>3
    <3>2. /\ u \in TxRecords /\ u.ending = x.ending /\ u.kept = x.kept /\ u.inv = x.inv
          /\ u.tracked = x.tracked
      BY <1>4, <2>3
    <3> HIDE DEF u
    <3> QED BY <1>3, <2>1, <3>1, <3>2
  <2> QED BY <2>2, <2>3
<1>13. CASE Committed(t)
  <2> DEFINE y == [x EXCEPT !.st = "ended", !.cur = "none", !.q = <<>>, !.result = "committed"]
  <2>1. x.st = "committing" /\ UNCHANGED chan /\ (Step(t, rolledback(x)) \/ Step(t, y))
    BY <1>13 DEF Committed
  <2>2. CASE Step(t, rolledback(x)) BY <1>1, <1>3, <2>1, <2>2
  <2>3. CASE Step(t, y)
    <3>1. Evolves(x, y) /\ y.tracked = x.tracked BY <1>1, <2>1, Commits
    <3> HIDE DEF y
    <3> QED BY <1>2, <2>1, <2>3, <3>1
  <2> QED BY <2>1, <2>2, <2>3
<1>14. CASE Finish(t)
  <2> DEFINE y == [x EXCEPT !.phase = "finished"]
  <2>1. x.st = "ended" /\ Step(t, y) /\ UNCHANGED chan BY <1>14 DEF Finish
  <2>2. Evolves(x, y) /\ y.tracked = x.tracked BY <1>1, <2>1, Finishes
  <2> HIDE DEF y
  <2> QED BY <1>2, <2>1, <2>2
<1>15. CASE Notify(t)
  <2> DEFINE y == [x EXCEPT !.st = "notified"]
  <2>1. x.st = "ended" /\ Step(t, y) /\ chan' = [chan EXCEPT !.done = @ \cup {t}]
    BY <1>15 DEF Notify
  <2>2. Evolves(x, y) /\ y.tracked = x.tracked BY <1>1, <2>1, Finishes
  <2>3. y.st = "notified" BY SMTT(30), <1>1 DEF TxRecords
  <2>4. chan'.done = chan.done \cup {t} /\ DOMAIN chan' = {"out", "done"} BY <1>1, <2>1
  <2>5. chan'.done \in SUBSET Txs BY <1>1, <2>4
  <2> HIDE DEF y
  <2> QED BY <1>1, <2>1, <2>2, <2>3, <2>4, <2>5, OneTx DEF Step, KeepsLoop
<1>16. CASE TaskEnds(t)
  <2> DEFINE y == [x EXCEPT !.q = Append(x.q, x.ending), !.ending = "none"]
             z == [x EXCEPT !.kept = "gone", !.ending = "none"]
  <2>1. /\ x.kept = "task" /\ UNCHANGED chan
        /\ \/ x.st \in {"loop", "got"} /\ x.ending # "none" /\ Step(t, y)
           \/ x.phase = "finished" /\ Step(t, z)
    BY <1>16 DEF TaskEnds
  <2>2. CASE x.st \in {"loop", "got"} /\ x.ending # "none" /\ Step(t, y)
    <3>1. Evolves(x, y) /\ y.tracked = x.tracked BY <1>1, <2>1, <2>2, Sends
    <3> HIDE DEF y
    <3> QED BY <1>2, <2>1, <2>2, <3>1
  <2>3. CASE x.phase = "finished" /\ Step(t, z)
    <3>1. Evolves(x, z) /\ z.tracked = x.tracked BY <1>1, <2>1, <2>3, TaskLeaves
    <3> HIDE DEF z
    <3> QED BY <1>2, <2>1, <2>3, <3>1
  <2> QED BY <2>1, <2>2, <2>3
<1> QED BY <1>5, <1>6, <1>7, <1>8, <1>9, <1>10, <1>11, <1>12, <1>13, <1>14, <1>15, <1>16
  DEF ActorStep

(* ApprovedTransactions::close lets go of a transaction and cancels it.    *)
LEMMA Untracks ==
  ASSUME NEW x, TxFits(x)
  PROVE  LET y == [cancelled(x) EXCEPT !.tracked = FALSE] IN Evolves(x, y) /\ ~y.tracked
<1> DEFINE u == cancelled(x)  y == [u EXCEPT !.tracked = FALSE]
<1>1. /\ u \in TxRecords /\ SameWork(x, u) /\ u.ending = x.ending /\ u.kept = x.kept
      /\ u.spoilt = x.spoilt
      /\ u.phase = x.phase \/ u.phase = "cancelRequested"
  BY Cancels
<1> HIDE DEF u
<1>2. y \in TxRecords BY <1>1 DEF TxRecords
<1>3. /\ SameWork(x, y) /\ y.ending = x.ending /\ y.kept = x.kept /\ y.spoilt = x.spoilt
      /\ y.phase = u.phase /\ ~y.tracked
  BY SMTT(30), <1>1 DEF TxRecords, SameWork
<1> HIDE DEF y
<1>4. Evolves(x, y) BY <1>1, <1>2, <1>3, LetsGo
<1> QED BY <1>3, <1>4 DEF y, u

(* A close begins: what it lets go of, it waits for.                       *)
LEMMA CloseBegins ==
  ASSUME TxInv, loop.pc = "select", NEW c \in SomeCall,
         NEW then \in {"ok", "error", "expire", "stop", "kill", "crash"}, Close(c, then, c),
         conf' = conf, ops' = ops, chan'.done = chan.done, DOMAIN chan' = {"out", "done"},
         DOMAIN proc' = DOMAIN proc, proc'.st = "exited" => proc.st = "exited",
         calls' \in [TxCalls -> CallRecords],
         \A d \in TxCalls : calls'[d].told = calls[d].told /\ (calls'[d].active => calls[d].active),
         then \in {"ok", "error", "expire"} => c \in TxCalls,
         then \in {"ok", "error"} => ~calls'[c].active,
         then \in {"stop", "kill", "crash"} => c = NoTxCall
  PROVE  TxInv' /\ Honest
<1>1. /\ TxTables /\ DoneAreNotified /\ Watched /\ AnsweredIsOver /\ StoppedIsOver
      /\ \A t \in Txs : TxFits(txs[t])
  BY DEF TxInv
<1>2. /\ txs' = [t \in Txs |-> IF t \in Tracked(c) THEN [cancelled(txs[t]) EXCEPT !.tracked = FALSE]
                               ELSE txs[t]]
      /\ loop' = [pc |-> "closing", then |-> then, call |-> c, wait |-> Tracked(c)]
  BY DEF Close
<1>3. Tracked(c) \in SUBSET Txs BY DEF Tracked
<1>4. /\ loop'.pc = "closing" /\ loop'.then = then /\ loop'.call = c /\ loop'.wait = Tracked(c)
      /\ loop' \in LoopRecords
  BY <1>2, <1>3 DEF LoopRecords
<1>5. ASSUME NEW t \in Txs
      PROVE  /\ Evolves(txs[t], txs'[t])
             /\ t \in Tracked(c) => ~txs'[t].tracked
             /\ t \notin Tracked(c) => txs'[t] = txs[t]
  <2>1. TxFits(txs[t]) BY <1>1
  <2>2. Evolves(txs[t], txs[t]) BY <2>1, Stays
  <2>3. LET y == [cancelled(txs[t]) EXCEPT !.tracked = FALSE] IN Evolves(txs[t], y) /\ ~y.tracked
    BY <2>1, Untracks
  <2>4. CASE t \in Tracked(c)
    <3>1. txs'[t] = [cancelled(txs[t]) EXCEPT !.tracked = FALSE] BY <1>2, <2>4
    <3> QED BY <2>3, <2>4, <3>1
  <2>5. CASE t \notin Tracked(c)
    <3>1. txs'[t] = txs[t] BY <1>2, <2>5
    <3> QED BY <2>2, <2>5, <3>1
  <2> QED BY <2>4, <2>5
<1>6. \A t \in Txs : TxFits(txs'[t]) /\ txs'[t] \in TxRecords BY <1>5 DEF Evolves, TxFits
<1>7. txs' \in [Txs -> TxRecords]
  <2>1. txs' = [t \in Txs |-> txs'[t]] BY <1>2
  <2> QED BY <1>6, <2>1
<1>8. TxTables' BY <1>1, <1>4, <1>7 DEF TxTables
<1>9. DoneAreNotified' BY <1>1, <1>5 DEF DoneAreNotified, Evolves, TxTables
<1>10. Watched'
  <2> SUFFICES ASSUME conf.approved, NEW t \in Txs
               PROVE  Settled(txs'[t]) \/ txs'[t].tracked \/ t \in Tracked(c)
    BY <1>4 DEF Watched
  <2>1. Settled(txs[t]) \/ txs[t].tracked BY <1>1 DEF Watched
  <2>2. Settled(txs[t]) => Settled(txs'[t]) BY <1>5 DEF Evolves
  <2> QED BY <1>5, <2>1, <2>2
<1>11. ClosingHasAll'
  <2>1. ASSUME NEW t \in Txs, txs'[t].tracked PROVE c # NoTxCall /\ txs'[t].inv # c
    <3>1. t \notin Tracked(c) BY <1>5, <2>1
    <3>2. txs'[t] = txs[t] BY <1>5, <3>1
    <3> QED BY <2>1, <3>1, <3>2 DEF Tracked
  <2> QED BY <1>4, <2>1 DEF ClosingHasAll
<1>12. AnsweredIsOver' BY <1>1, <1>5 DEF AnsweredIsOver, Evolves
<1>13. StoppedIsOver' BY <1>1, <1>5 DEF StoppedIsOver, Evolves
<1>14. Honest BY <1>5 DEF Honest, Evolves
<1> QED BY <1>6, <1>8, <1>9, <1>10, <1>11, <1>12, <1>13, <1>14 DEF TxInv

(* Resetting the owner.                                                    *)
LEMMA Disowns ==
  ASSUME NEW x, TxFits(x)
  PROVE  LET y == [x EXCEPT !.owner = NoTxCall] IN Evolves(x, y) /\ y.tracked = x.tracked
<1> DEFINE y == [x EXCEPT !.owner = NoTxCall]
<1>1. x \in TxRecords BY DEF TxFits
<1>2. y \in TxRecords BY <1>1 DEF TxRecords, SomeCall
<1>3. /\ SameWork(x, y) /\ y.ending = x.ending /\ y.kept = x.kept /\ y.spoilt = x.spoilt
      /\ y.phase = x.phase /\ y.tracked = x.tracked
  BY SMTT(30), <1>1 DEF TxRecords, SameWork
<1> HIDE DEF y
<1>4. Evolves(x, y) BY <1>2, <1>3, LetsGo
<1> QED BY <1>3, <1>4 DEF y

(* The bookkeeping after a close.                                          *)
LEMMA BooksClosed ==
  ASSUME TxInv, NEW t \in Txs,
         txs' = txs \/ txs' = AllDropped \/ \E c \in SomeCall : txs' = closed(c)
  PROVE  Evolves(txs[t], txs'[t]) /\ txs'[t].tracked = txs[t].tracked
<1>1. TxFits(txs[t]) BY DEF TxInv
<1> DEFINE y == [txs[t] EXCEPT !.owner = NoTxCall]
<1>2. Evolves(txs[t], y) /\ y.tracked = txs[t].tracked BY <1>1, Disowns
<1>3. Evolves(txs[t], txs[t]) BY <1>1, Stays
<1>4. txs[t].kept = "open" =>
        Evolves(txs[t], dropped(txs[t])) /\ dropped(txs[t]).tracked = txs[t].tracked
  BY <1>1, Drops
<1> HIDE DEF y
<1>5. CASE txs' = AllDropped
  <2>1. txs'[t] = IF txs[t].kept = "open" THEN dropped(txs[t]) ELSE y
    BY <1>5 DEF AllDropped, y
  <2> QED BY <1>2, <1>4, <2>1
<1>6. ASSUME NEW c \in SomeCall, txs' = closed(c)
      PROVE  Evolves(txs[t], txs'[t]) /\ txs'[t].tracked = txs[t].tracked
  <2>1. txs'[t] = IF txs[t].owner = c /\ c # NoTxCall /\ txs[t].kept = "open"
                  THEN dropped(txs[t]) ELSE IF txs[t].owner = c THEN y ELSE txs[t]
    BY <1>6 DEF closed, y
  <2> QED BY <1>2, <1>3, <1>4, <2>1
<1> QED BY <1>3, <1>5, <1>6

(* What a close tells the callers.                                         *)
LEMMA CallsClosed ==
  ASSUME TxInv, Closed
  PROVE  /\ calls' \in [TxCalls -> CallRecords]
         /\ \A d \in TxCalls :
              /\ calls'[d].active => calls[d].active
              /\ calls'[d].told = "ok" =>
                   calls[d].told = "ok" \/ (d = loop.call /\ ~calls'[d].active)
<1>1. /\ calls \in [TxCalls -> CallRecords] /\ loop \in LoopRecords /\ loop.pc = "closing"
      /\ loop.then \in {"ok", "error", "expire"} => loop.call \in TxCalls
  BY DEF TxInv, TxTables, ClosingHasAll, Closed
<1>2. \/ calls' = calls
      \/ /\ loop.then \in {"ok", "error"}
         /\ calls' = [calls EXCEPT ![loop.call].told = Told(loop.call, loop.then), ![loop.call].active = FALSE]
      \/ /\ loop.then = "expire"
         /\ calls' = [calls EXCEPT ![loop.call].active = FALSE, ![loop.call].mapped = FALSE]
      \/ calls' = Forgotten("waiting") \/ calls' = Forgotten("error")
  BY DEF Closed
<1>3. CASE calls' = calls BY <1>1, <1>3
<1>4. CASE /\ loop.then \in {"ok", "error"}
           /\ calls' = [calls EXCEPT ![loop.call].told = Told(loop.call, loop.then),
                                     ![loop.call].active = FALSE]
  <2> DEFINE c == loop.call
             r == [calls[c] EXCEPT !.told = Told(c, loop.then), !.active = FALSE]
  <2>1. c \in TxCalls BY <1>1, <1>4
  <2>2. calls[c] \in CallRecords BY <1>1, <2>1
  <2>3. Told(c, loop.then) \in {"none", "waiting", "ok", "error", "timeout"}
    BY <1>4, <2>2 DEF Told, CallRecords
  <2>4. r \in CallRecords /\ r.active = FALSE BY <2>2, <2>3 DEF CallRecords
  <2>5. calls' = [calls EXCEPT ![c] = r] BY <1>1, <1>4, <2>1
  <2> HIDE DEF c, r
  <2>6. /\ calls' \in [TxCalls -> CallRecords] /\ calls'[c] = r
        /\ \A d \in TxCalls : d # c => calls'[d] = calls[d]
    BY <1>1, <2>1, <2>4, <2>5
  <2> QED BY <2>4, <2>6 DEF c
<1>5. CASE /\ loop.then = "expire"
           /\ calls' = [calls EXCEPT ![loop.call].active = FALSE, ![loop.call].mapped = FALSE]
  <2> DEFINE c == loop.call
             r == [calls[c] EXCEPT !.active = FALSE, !.mapped = FALSE]
  <2>1. c \in TxCalls BY <1>1, <1>5
  <2>2. calls[c] \in CallRecords BY <1>1, <2>1
  <2>3. r \in CallRecords /\ r.active = FALSE BY <2>2 DEF CallRecords
  <2>4. calls' = [calls EXCEPT ![c] = r] BY <1>1, <1>5, <2>1
  <2> HIDE DEF c, r
  <2>5. /\ calls' \in [TxCalls -> CallRecords] /\ calls'[c] = r
        /\ \A d \in TxCalls : d # c => calls'[d] = calls[d]
    BY <1>1, <2>1, <2>3, <2>4
  <2> QED BY <2>3, <2>5 DEF c
<1>6. ASSUME NEW how \in {"waiting", "error"}, calls' = Forgotten(how)
      PROVE  /\ calls' \in [TxCalls -> CallRecords]
             /\ \A d \in TxCalls : ~calls'[d].active /\ (calls'[d].told = "ok" => calls[d].told = "ok")
  <2> DEFINE v(d) == IF calls[d].mapped THEN Told(d, how) ELSE calls[d].told
             r(d) == [told |-> v(d), active |-> FALSE, mapped |-> FALSE]
  <2>1. calls' = [d \in TxCalls |-> r(d)] BY <1>6 DEF Forgotten
  <2>2. ASSUME NEW d \in TxCalls
        PROVE  /\ v(d) \in {"none", "waiting", "ok", "error", "timeout"}
               /\ v(d) = "ok" => calls[d].told = "ok"
    <3>1. calls[d].told \in {"none", "waiting", "ok", "error", "timeout"} BY <1>1 DEF CallRecords
    <3> QED BY <3>1 DEF Told
  <2> HIDE DEF v
  <2>3. ASSUME NEW d \in TxCalls
        PROVE  r(d) \in CallRecords /\ ~r(d).active /\ r(d).told = v(d)
    BY <2>2 DEF CallRecords
  <2> HIDE DEF r
  <2> QED BY <2>1, <2>2, <2>3
<1> QED BY <1>2, <1>3, <1>4, <1>5, <1>6

(* A close ends: what it waited for is over.                               *)
LEMMA CloseEnds ==
  ASSUME TxInv, Closed
  PROVE  TxInv' /\ Honest
<1>1. /\ TxTables /\ DoneAreNotified /\ Watched /\ ClosingHasAll /\ AnsweredIsOver /\ StoppedIsOver
      /\ \A t \in Txs : TxFits(txs[t])
  BY DEF TxInv
<1>2. /\ loop.pc = "closing" /\ ~Draining /\ \A t \in loop.wait : txs[t].phase = "finished"
      /\ conf' = conf /\ ops' = ops /\ chan' = chan
  BY DEF Closed
<1>3. loop' \in LoopRecords /\ loop'.pc # "closing"
  <2>1. Select \in LoopRecords /\ Select.pc = "select" BY DEF Select, LoopRecords, SomeCall
  <2>2. LET w == [Select EXCEPT !.pc = "writing"] IN w \in LoopRecords /\ w.pc = "writing"
    BY DEF Select, LoopRecords, SomeCall
  <2>3. loop' = Select \/ loop' = [Select EXCEPT !.pc = "writing"] BY DEF Closed
  <2> QED BY <2>1, <2>2, <2>3
<1>4. loop.call \in SomeCall BY <1>1 DEF TxTables, LoopRecords
<1>5. txs' = txs \/ txs' = AllDropped \/ txs' = closed(loop.call) BY DEF Closed
<1>6. \A t \in Txs : Evolves(txs[t], txs'[t]) /\ txs'[t].tracked = txs[t].tracked
  BY <1>4, <1>5, BooksClosed
<1>7. \A t \in Txs : TxFits(txs'[t]) /\ txs'[t] \in TxRecords BY <1>6 DEF Evolves, TxFits
<1>8. txs' \in [Txs -> TxRecords]
  <2>1. txs' = [t \in Txs |-> txs'[t]] BY <1>1, <1>5 DEF AllDropped, closed, TxTables
  <2> QED BY <1>7, <2>1
<1>9. /\ calls' \in [TxCalls -> CallRecords]
      /\ \A d \in TxCalls :
           /\ calls'[d].active => calls[d].active
           /\ calls'[d].told = "ok" =>
                calls[d].told = "ok" \/ (d = loop.call /\ ~calls'[d].active)
  BY CallsClosed
<1>10. /\ DOMAIN proc' = DOMAIN proc
       /\ proc'.st = "exited" => proc.st = "exited" \/ (conf.approved /\ loop.call = NoTxCall)
  <2>1. "st" \in DOMAIN proc BY <1>1 DEF TxTables
  <2>2. loop.then \in {"stop", "kill", "crash"} => loop.call = NoTxCall
    BY <1>1, <1>2 DEF ClosingHasAll
  <2>3. \/ proc' = proc
        \/ /\ loop.then = "stop"
           /\ proc' = [proc EXCEPT !.st = IF conf.approved THEN "exited" ELSE "stopped"]
        \/ proc' = [proc EXCEPT !.st = "crashed"]
        \/ /\ loop.then = "crash"
           /\ \E s \in {"running", "crashed", IF conf.approved THEN "exited" ELSE "stopped"} :
                proc' = [proc EXCEPT !.st = s, !.v4 = FALSE, !.reads = TRUE]
    BY DEF Closed
  <2>4. CASE proc' = proc BY <2>4
  <2>5. ASSUME NEW s, \/ proc' = [proc EXCEPT !.st = s]
                      \/ proc' = [proc EXCEPT !.st = s, !.v4 = FALSE, !.reads = TRUE]
        PROVE  DOMAIN proc' = DOMAIN proc /\ proc'.st = s
    BY <1>1, <2>1, <2>5 DEF TxTables
  <2> QED BY <2>2, <2>3, <2>4, <2>5
<1>11. TxTables' BY <1>1, <1>2, <1>3, <1>8, <1>9, <1>10 DEF TxTables
<1>12. DoneAreNotified' BY <1>1, <1>2, <1>6 DEF DoneAreNotified, Evolves, TxTables
<1>13. ASSUME conf.approved, NEW t \in Txs PROVE Settled(txs[t]) \/ txs[t].tracked
  <2>1. t \in loop.wait => Settled(txs[t]) BY <1>1, <1>2 DEF TxFits, Progress, Settled
  <2> QED BY <1>1, <1>13, <2>1 DEF Watched
<1>14. ASSUME conf.approved PROVE \A o \in Ops : ops[o].st # "running"
  BY <1>2, <1>14 DEF Draining
<1>15. \A t \in Txs : Settled(txs[t]) => Settled(txs'[t]) BY <1>6 DEF Evolves
<1>16. Watched' BY <1>2, <1>6, <1>13, <1>15 DEF Watched
<1>17. ClosingHasAll' BY <1>3 DEF ClosingHasAll
<1>18. AnsweredIsOver'
  <2> SUFFICES ASSUME conf.approved, NEW c \in TxCalls, calls'[c].told = "ok"
               PROVE  /\ ~calls'[c].active
                      /\ \A t \in Txs : txs'[t].inv = c => Settled(txs'[t])
                      /\ \A o \in Ops : ops[o].inv = c => ops[o].st # "running"
    BY <1>2 DEF AnsweredIsOver
  <2>1. \A t \in Txs : txs'[t].inv = txs[t].inv BY <1>6 DEF Evolves
  <2>2. CASE calls[c].told = "ok"
    <3>1. ~calls[c].active /\ \A t \in Txs : txs[t].inv = c => Settled(txs[t])
      BY <1>1, <2>2 DEF AnsweredIsOver
    <3> QED BY <1>9, <1>14, <1>15, <2>1, <3>1
  <2>3. CASE c = loop.call /\ ~calls'[c].active
    <3>1. \A t \in Txs : txs[t].inv = c => ~txs[t].tracked BY <1>1, <1>2, <2>3 DEF ClosingHasAll
    <3> QED BY <1>13, <1>14, <1>15, <2>1, <2>3, <3>1
  <2> QED BY <1>9, <2>2, <2>3
<1>19. StoppedIsOver'
  <2> SUFFICES ASSUME proc'.st = "exited"
               PROVE  /\ \A t \in Txs : Settled(txs'[t])
                      /\ \A o \in Ops : ops[o].st # "running"
    BY <1>2 DEF StoppedIsOver
  <2>1. CASE proc.st = "exited" BY <1>1, <1>15, <2>1 DEF StoppedIsOver
  <2>2. CASE conf.approved /\ loop.call = NoTxCall
    <3>1. \A t \in Txs : ~txs[t].tracked BY <1>1, <1>2, <2>2 DEF ClosingHasAll
    <3> QED BY <1>13, <1>14, <1>15, <2>2, <3>1
  <2> QED BY <1>10, <2>1, <2>2
<1>20. Honest BY <1>2, <1>6 DEF Honest, Evolves
<1> QED BY <1>7, <1>11, <1>12, <1>16, <1>17, <1>18, <1>19, <1>20 DEF TxInv

(***************************************************************************)
(* The messages of the worker.                                             *)
(***************************************************************************)
LEMMA SendsInline ==
  ASSUME TxInv, loop.pc = "select", SendInline
  PROVE  /\ loop' \in LoopRecords /\ loop'.pc # "closing" /\ KeepsLoop
         /\ chan'.done = chan.done /\ DOMAIN chan' = {"out", "done"}
<1>1. loop \in LoopRecords /\ DOMAIN chan = {"out", "done"} BY DEF TxInv, TxTables
<1>2. CASE chan' = [chan EXCEPT !.out = @ + 1] /\ loop' = loop BY <1>1, <1>2 DEF KeepsLoop
<1>3. CASE chan' = chan /\ loop' = [Select EXCEPT !.pc = "blocked"]
  BY <1>1, <1>3 DEF KeepsLoop, Select, LoopRecords, SomeCall
<1> QED BY <1>2, <1>3 DEF SendInline

(* A reply and nothing else.                                               *)
LEMMA OnlyReplies ==
  ASSUME TxInv, Ready, SendInline, UNCHANGED <<conf, proc, calls, txs, ops>>
  PROVE  TxInv' /\ Honest
<1>1. loop.pc = "select" BY DEF Ready
<1>2. /\ loop' \in LoopRecords /\ KeepsLoop
      /\ chan'.done = chan.done /\ DOMAIN chan' = {"out", "done"}
  BY <1>1, SendsInline
<1>3. KeepsCalls /\ KeepsOps BY DEF KeepsCalls, KeepsOps
<1>4. TxTables BY DEF TxInv
<1>5. Steady BY <1>2, <1>3, <1>4, NoTxMoves DEF TxTables
<1> QED BY <1>5, SteadyStep

(* The supervisor kills the worker.                                        *)
LEMMA Kills ==
  ASSUME TxInv, loop.pc = "select", Close(NoTxCall, "kill", NoTxCall),
         UNCHANGED <<conf, proc, calls, ops>>, chan'.done = chan.done,
         DOMAIN chan' = {"out", "done"}
  PROVE  TxInv' /\ Honest
<1>1. TxTables BY DEF TxInv
<1>2. calls' \in [TxCalls -> CallRecords] BY <1>1 DEF TxTables
<1>3. NoTxCall \in SomeCall BY DEF SomeCall
<1> QED BY <1>2, <1>3, CloseBegins

(* begin_with_invocation starts an actor.                                  *)
LEMMA Begins ==
  ASSUME NEW y \in TxRecords, y.st = "loop", y.q = <<>>, y.cur = "none", y.kept \in {"open", "gone"},
         y.ending = "none", y.result = "open", ~y.spoilt, y.phase # "finished"
  PROVE  TxFits(y) /\ (y.kept = "gone" => Settled(y))
<1>1. 1..Len(<<>>) = {} BY SMTT(30)
<1>2. InOrder(y) BY <1>1 DEF InOrder, Lasts
<1>3. Progress(y) BY DEF Progress
<1>4. Warned(y) BY DEF Warned
<1>5. y.kept = "gone" => ~MayCommit(y) BY <1>1 DEF MayCommit, Has
<1> QED BY <1>2, <1>3, <1>4, <1>5 DEF TxFits, Settled

LEMMA NoTxFields ==
  /\ NoTx \in TxRecords /\ NoTx.q = <<>> /\ NoTx.cur = "none" /\ NoTx.kept = "gone"
  /\ NoTx.ending = "none" /\ NoTx.result = "open" /\ ~NoTx.spoilt /\ NoTx.phase = "active"
  /\ NoTx.st = "none" /\ ~NoTx.tracked
<1>1. <<>> \in Seq(Cmds) BY SMTT(30)
<1>2. NoTx \in TxRecords BY <1>1 DEF NoTx, TxRecords, SomeCall, Lasts
<1> QED BY <1>2 DEF NoTx


LEMMA BeginsOne ==
  ASSUME TxInv, NEW t \in Txs, NEW c \in SomeCall, SqlBegin(t, c)
  PROVE  TxInv' /\ Honest
<1>1. /\ TxTables /\ DoneAreNotified /\ AnsweredIsOver /\ \A u \in Txs : TxFits(txs[u])
  BY DEF TxInv
<1>2. /\ Ready /\ loop.pc = "select" /\ proc.st = "running" /\ txs[t].st = "none"
      /\ UNCHANGED <<conf, proc, calls, ops>>
  BY DEF SqlBegin, Ready
<1> DEFINE begun == [NoTx EXCEPT !.st = "loop", !.inv = c]
           opened == [begun EXCEPT !.kept = "open", !.owner = c, !.tracked = conf.approved]
<1>3. CASE SendInline /\ txs' = txs BY <1>2, <1>3, OnlyReplies
<1>4. CASE Close(NoTxCall, "kill", NoTxCall) /\ UNCHANGED chan
  BY <1>1, <1>2, <1>4, Kills DEF TxTables
<1>5. CASE /\ ~approved_capability_denial(c) /\ SendInline
           /\ \/ txs' = [txs EXCEPT ![t] = opened]
              \/ conf.approved /\ txs' = [txs EXCEPT ![t] = begun]
  <2>1. PICK y \in {opened, begun} :
          txs' = [txs EXCEPT ![t] = y] /\ (y = opened \/ conf.approved)
    BY <1>5
  <2>2. conf.approved \in BOOLEAN BY <1>1, TxAssumption DEF TxTables
  <2>3. begun \in TxRecords BY NoTxFields DEF TxRecords
  <2>4. /\ begun.st = "loop" /\ begun.q = <<>> /\ begun.cur = "none" /\ begun.kept = "gone"
        /\ begun.ending = "none" /\ begun.result = "open" /\ ~begun.spoilt
        /\ begun.phase = "active" /\ begun.inv = c
    BY SMTT(30), NoTxFields DEF TxRecords
  <2> HIDE DEF begun
  <2>5. opened \in TxRecords BY <2>2, <2>3 DEF TxRecords
  <2>6. /\ opened.st = "loop" /\ opened.q = <<>> /\ opened.cur = "none" /\ opened.kept = "open"
        /\ opened.ending = "none" /\ opened.result = "open" /\ ~opened.spoilt
        /\ opened.phase = "active" /\ opened.inv = c /\ opened.tracked = conf.approved
    BY SMTT(30), <2>2, <2>3, <2>4 DEF TxRecords
  <2> HIDE DEF opened
  <2>7. /\ TxFits(y) /\ y.result = "open" /\ y.inv = c /\ y \in TxRecords
        /\ conf.approved => y.tracked \/ Settled(y)
    <3>1. CASE y = opened
      <4>1. TxFits(opened) BY <2>5, <2>6, Begins
      <4> QED BY <2>5, <2>6, <3>1, <4>1
    <3>2. CASE y = begun
      <4>1. TxFits(begun) /\ Settled(begun) BY <2>3, <2>4, Begins
      <4> QED BY <2>3, <2>4, <3>2, <4>1
    <3> QED BY <2>1, <3>1, <3>2
  <2>8. /\ loop' \in LoopRecords /\ loop'.pc # "closing" /\ KeepsLoop
        /\ chan'.done = chan.done /\ DOMAIN chan' = {"out", "done"}
    BY <1>2, <1>5, SendsInline
  <2>9. /\ txs' \in [Txs -> TxRecords] /\ txs'[t] = y
        /\ \A u \in Txs : u # t => txs'[u] = txs[u]
    BY <1>1, <2>1, <2>7 DEF TxTables
  <2>10. Unanswered(c)
    <3> SUFFICES ASSUME conf.approved, NEW d \in TxCalls, c = d PROVE calls[d].told # "ok"
      BY <1>2 DEF Unanswered
    <3>1. calls[d].active BY <1>5 DEF approved_capability_denial, Live
    <3> QED BY <1>1, <3>1 DEF AnsweredIsOver
  <2>11. Born(t) BY <1>2, <2>7, <2>8, <2>9, <2>10 DEF Born
  <2>12. KeepsTxs
    <3>1. ASSUME NEW u \in Txs, u # t
          PROVE  Evolves(txs[u], txs'[u]) /\ txs'[u].tracked = txs[u].tracked
      <4>1. TxFits(txs[u]) BY <1>1
      <4> QED BY <2>9, <3>1, <4>1, Stays
    <3> QED BY <2>11, <3>1 DEF KeepsTxs
  <2>13. TxTables' BY <1>1, <1>2, <2>8, <2>9 DEF TxTables
  <2>14. DoneAreNotified' BY <1>1, <1>2, <2>8, <2>9 DEF DoneAreNotified, TxTables
  <2>15. KeepsCalls /\ KeepsOps BY <1>2 DEF KeepsCalls, KeepsOps
  <2>16. Steady BY <1>2, <2>8, <2>12, <2>13, <2>14, <2>15 DEF Steady
  <2> QED BY <2>16, SteadyStep
<1> QED BY <1>3, <1>4, <1>5 DEF SqlBegin

(* A message of a transaction moves that transaction.                      *)
LEMMA MovesOne ==
  ASSUME TxInv, Ready, NEW t \in Txs, NEW y, txs' = [txs EXCEPT ![t] = y],
         Evolves(txs[t], y), y.tracked = txs[t].tracked, UNCHANGED <<conf, proc, calls, ops>>,
         SendInline \/ UNCHANGED <<loop, chan>>
  PROVE  TxInv' /\ Honest
<1>1. TxTables /\ loop.pc = "select" BY DEF TxInv, Ready
<1>2. SendInline => /\ loop' \in LoopRecords /\ KeepsLoop
                    /\ chan'.done = chan.done /\ DOMAIN chan' = {"out", "done"}
  BY <1>1, SendsInline
<1>3. UNCHANGED <<loop, chan>> => /\ loop' \in LoopRecords /\ KeepsLoop
                                  /\ chan'.done = chan.done /\ DOMAIN chan' = {"out", "done"}
  BY <1>1 DEF TxTables, KeepsLoop
<1>4. chan'.done \in SUBSET Txs BY <1>1, <1>2, <1>3 DEF TxTables
<1>5. Steady BY <1>2, <1>3, <1>4, OneTx
<1> QED BY <1>5, SteadyStep

(* A refused message of an approved worker.                                *)
LEMMA Denies ==
  ASSUME TxInv, Ready, NEW t \in Txs, Denied(t)
  PROVE  TxInv' /\ Honest
<1> DEFINE x == txs[t]
           z == [dropped(x) EXCEPT !.spoilt = TRUE]
           y == CASE x.kept = "open" -> z
                  [] x.kept # "open" /\ x.tracked -> cancelled(x)
                  [] OTHER -> x
<1>1. TxFits(x) /\ x \in TxRecords BY DEF TxInv, TxFits
<1>2. txs' = [txs EXCEPT ![t] = y] /\ SendInline /\ UNCHANGED <<conf, proc, calls, ops>>
  BY DEF Denied
<1>3. x.kept = "open" => Evolves(x, z) /\ z.tracked = x.tracked
  <2> SUFFICES ASSUME x.kept = "open" PROVE Evolves(x, z) /\ z.tracked = x.tracked
    OBVIOUS
  <2> DEFINE u == dropped(x)
  <2>1. /\ u \in TxRecords /\ u.tracked = x.tracked /\ u.phase # "active" /\ u.kept = "gone"
        /\ SameWork(x, u) /\ u.ending = x.ending
        /\ u.phase = x.phase \/ u.phase = "cancelRequested"
    BY <1>1, Drops
  <2> HIDE DEF u
  <2>2. z = [u EXCEPT !.spoilt = TRUE] BY DEF u
  <2> HIDE DEF z
  <2>3. z \in TxRecords BY <2>1, <2>2 DEF TxRecords
  <2>4. /\ z.tracked = x.tracked /\ z.phase = u.phase /\ z.kept = "gone"
        /\ SameWork(x, z) /\ z.ending = x.ending
    BY SMTT(30), <2>1, <2>2 DEF TxRecords, SameWork
  <2>5. Evolves(x, z) BY <1>1, <2>1, <2>3, <2>4, LetsGo
  <2> QED BY <2>4, <2>5
<1>4. Evolves(x, cancelled(x)) /\ cancelled(x).tracked = x.tracked BY <1>1, Cancels
<1>5. Evolves(x, x) BY <1>1, Stays
<1> HIDE DEF z
<1>6. Evolves(x, y) /\ y.tracked = x.tracked
  <2>1. CASE x.kept = "open" BY <1>3, <2>1
  <2>2. CASE x.kept # "open" /\ x.tracked BY <1>4, <2>2
  <2>3. CASE x.kept # "open" /\ ~x.tracked BY <1>5, <2>3
  <2> QED BY <2>1, <2>2, <2>3
<1> HIDE DEF y
<1> QED BY <1>2, <1>6, MovesOne

(* A message for a transaction that is not admitted.                       *)
LEMMA Refuses ==
  ASSUME TxInv, Ready, NEW t \in Txs, Refuse(t)
  PROVE  TxInv' /\ Honest
<1>1. TxFits(txs[t]) BY DEF TxInv
<1>2. CASE txs[t].kept = "open" /\ txs' = [txs EXCEPT ![t] = Aborted(@)] /\ UNCHANGED <<loop, chan>>
  <2>1. Evolves(txs[t], Aborted(txs[t])) /\ Aborted(txs[t]).tracked = txs[t].tracked
    BY <1>1, <1>2, Aborts
  <2>2. UNCHANGED <<conf, proc, calls, ops>> BY DEF Refuse
  <2> QED BY <1>2, <2>1, <2>2, MovesOne
<1>3. CASE SendInline /\ UNCHANGED txs
  <2>1. UNCHANGED <<conf, proc, calls, ops>> BY DEF Refuse
  <2> QED BY <1>3, <2>1, OnlyReplies
<1> QED BY <1>2, <1>3 DEF Refuse

(* A statement.                                                            *)
LEMMA EnqueuesOne ==
  ASSUME TxInv, Ready, NEW t \in Txs, txs[t].kept = "open", Enqueue(t)
  PROVE  TxInv' /\ Honest
<1> DEFINE x == txs[t]
<1>1. TxFits(x) BY DEF TxInv
<1>2. PICK cmd \in {"exec", "poison"} :
        txs' = [txs EXCEPT ![t] =
          IF Len(x.q) < QueueCap /\ x.st \in {"loop", "got", "committing"}
          THEN [x EXCEPT !.q = Append(x.q, cmd), !.spoilt = x.spoilt \/ cmd = "poison"]
          ELSE Aborted(x)]
  BY DEF Enqueue
<1> DEFINE y == [x EXCEPT !.q = Append(x.q, cmd), !.spoilt = x.spoilt \/ cmd = "poison"]
<1>3. UNCHANGED <<conf, proc, calls, ops, loop, chan>> BY DEF Enqueue
<1>4. CASE Len(x.q) < QueueCap /\ x.st \in {"loop", "got", "committing"}
  <2>1. Evolves(x, y) /\ y.tracked = x.tracked BY <1>1, <1>4, Enqueues
  <2>2. txs' = [txs EXCEPT ![t] = y] BY <1>2, <1>4
  <2> HIDE DEF y
  <2> QED BY <1>3, <2>1, <2>2, MovesOne
<1>5. CASE ~(Len(x.q) < QueueCap /\ x.st \in {"loop", "got", "committing"})
  <2>1. Evolves(x, Aborted(x)) /\ Aborted(x).tracked = x.tracked BY <1>1, Aborts
  <2>2. txs' = [txs EXCEPT ![t] = Aborted(x)] BY <1>2, <1>5
  <2> QED BY <1>3, <2>1, <2>2, MovesOne
<1> QED BY <1>4, <1>5

LEMMA ExecsOne ==
  ASSUME TxInv, NEW t \in Txs, NEW c \in SomeCall, SqlExec(t, c)
  PROVE  TxInv' /\ Honest
<1>1. Ready /\ loop.pc = "select" /\ (Denied(t) \/ Kill \/ Refuse(t)
                                      \/ (txs[t].kept = "open" /\ Enqueue(t)))
  BY DEF SqlExec, Ready
<1>2. Kill => TxInv' /\ Honest
  <2>1. TxTables BY DEF TxInv
  <2> QED BY <1>1, <2>1, Kills DEF Kill, TxTables
<1> QED BY <1>1, <1>2, Denies, Refuses, EnqueuesOne

(* A commit or a rollback.                                                 *)
LEMMA EndsOne ==
  ASSUME TxInv, NEW t \in Txs, NEW c \in SomeCall, NEW how \in Lasts, SqlEnd(t, c, how)
  PROVE  TxInv' /\ Honest
<1> DEFINE x == txs[t]
           y == [x EXCEPT !.kept = "task", !.owner = NoTxCall, !.ending = how]
<1>1. /\ Ready /\ loop.pc = "select"
      /\ \/ Denied(t) \/ Kill \/ Refuse(t)
         \/ /\ x.kept = "open" /\ txs' = [txs EXCEPT ![t] = y]
            /\ UNCHANGED <<conf, proc, calls, ops, loop, chan>>
  BY DEF SqlEnd, Ready
<1>2. Kill => TxInv' /\ Honest
  <2>1. TxTables BY DEF TxInv
  <2> QED BY <1>1, <2>1, Kills DEF Kill, TxTables
<1>3. CASE /\ x.kept = "open" /\ txs' = [txs EXCEPT ![t] = y]
           /\ UNCHANGED <<conf, proc, calls, ops, loop, chan>>
  <2>1. TxFits(x) /\ x \in TxRecords BY DEF TxInv, TxFits
  <2>2. y \in TxRecords BY <2>1 DEF TxRecords, SomeCall
  <2>3. /\ SameWork(x, y) /\ y.phase = x.phase /\ y.kept = "task" /\ y.ending = how
        /\ y.tracked = x.tracked /\ y.spoilt = x.spoilt
    BY SMTT(30), <2>1 DEF TxRecords, SameWork
  <2> HIDE DEF y
  <2>4. Evolves(x, y) BY <1>3, <2>1, <2>2, <2>3, Ends
  <2> QED BY <1>1, <1>3, <2>3, <2>4, MovesOne
<1> QED BY <1>1, <1>2, <1>3, Denies, Refuses

(* The loop learns that an actor is over.                                  *)
LEMMA DoneOne ==
  ASSUME TxInv, NEW t \in Txs, TxDone(t)
  PROVE  TxInv' /\ Honest
<1> DEFINE x == txs[t]
           k == IF x.kept = "open" THEN "gone" ELSE x.kept
           y == [x EXCEPT !.tracked = FALSE, !.owner = NoTxCall, !.kept = k]
<1>1. /\ TxTables /\ TxFits(x) /\ x \in TxRecords /\ x.st = "notified"
  BY DEF TxInv, TxFits, DoneAreNotified, TxDone
<1>2. txs' = [txs EXCEPT ![t] = y] /\ UNCHANGED <<conf, proc, calls, ops, loop>> BY DEF TxDone
<1>3. chan'.done = chan.done \ {t} /\ DOMAIN chan' = {"out", "done"}
  BY <1>1 DEF TxDone, TxTables
<1>4. /\ k \in {"open", "task", "gone"} /\ (k = x.kept \/ (x.kept = "open" /\ k = "gone"))
  BY <1>1 DEF TxRecords
<1> HIDE DEF k
<1>5. y \in TxRecords BY <1>1, <1>4 DEF TxRecords, SomeCall
<1>6. /\ SameWork(x, y) /\ y.ending = x.ending /\ y.kept = k /\ y.spoilt = x.spoilt
      /\ y.phase = x.phase /\ ~y.tracked
  BY SMTT(30), <1>1, <1>4 DEF TxRecords, SameWork
<1> HIDE DEF y
<1>7. Evolves(x, y) BY <1>1, <1>4, <1>5, <1>6, LetsGo
<1>8. Settled(y) BY <1>1, <1>6 DEF Settled, SameWork
<1>9. chan'.done \in SUBSET Txs /\ \A u \in chan'.done : u \in chan.done BY <1>1, <1>3 DEF TxTables
<1>10. Steady BY <1>1, <1>2, <1>3, <1>7, <1>8, <1>9, OneTx DEF TxTables, KeepsLoop
<1> QED BY <1>10, SteadyStep

(* A one-shot operation is begun for a call still running.                 *)
LEMMA AsksOne ==
  ASSUME TxInv, NEW o \in Ops, NEW c \in SomeCall, OneShot(o, c)
  PROVE  TxInv' /\ Honest
<1>1. TxTables /\ AnsweredIsOver BY DEF TxInv
<1>2. Ready /\ loop.pc = "select" /\ proc.st = "running" BY DEF OneShot, Ready
<1>3. CASE Kill BY <1>1, <1>2, <1>3, Kills DEF Kill, TxTables
<1>4. CASE SendInline /\ UNCHANGED <<conf, proc, calls, txs, ops>> BY <1>2, <1>4, OnlyReplies
<1>5. CASE /\ ~approved_capability_denial(c)
           /\ ops' = [ops EXCEPT ![o] =
                IF capability_context(c) THEN [st |-> "running", inv |-> c, result |-> "open"]
                ELSE [st |-> "sending", inv |-> c, result |-> "failed"]]
           /\ UNCHANGED <<conf, proc, calls, txs, loop, chan>>
  <2> DEFINE y == IF capability_context(c) THEN [st |-> "running", inv |-> c, result |-> "open"]
                  ELSE [st |-> "sending", inv |-> c, result |-> "failed"]
  <2>1. y \in OpRecords /\ y.inv = c /\ y.result # "committed" BY DEF OpRecords
  <2> HIDE DEF y
  <2>2. ops' = [ops EXCEPT ![o] = y] BY <1>5 DEF y
  <2>3. /\ ops' \in [Ops -> OpRecords] /\ ops'[o] = y
        /\ \A p \in Ops : p # o => ops'[p] = ops[p]
    BY <1>1, <2>1, <2>2 DEF TxTables
  <2>4. Unanswered(c)
    <3> SUFFICES ASSUME conf.approved, NEW d \in TxCalls, c = d PROVE calls[d].told # "ok"
      BY <1>5 DEF Unanswered
    <3>1. calls[d].active BY <1>5 DEF approved_capability_denial, Live
    <3> QED BY <1>1, <3>1 DEF AnsweredIsOver
  <2>5. KeepsOps BY <1>2, <1>5, <2>1, <2>3, <2>4 DEF KeepsOps
  <2>6. KeepsCalls BY <1>5 DEF KeepsCalls
  <2>7. Steady BY <1>1, <1>5, <2>3, <2>5, <2>6, NoTxMoves DEF TxTables, KeepsLoop
  <2> QED BY <2>7, SteadyStep
<1> QED BY <1>3, <1>4, <1>5 DEF OneShot

(* An operation nothing awaits is never one of an approved worker.         *)
LEMMA DetachesOne ==
  ASSUME TxInv, NEW o \in Ops, NEW c \in SomeCall, NEW offered, NEW admitted,
         Detached(o, c, offered, admitted)
  PROVE  TxInv' /\ Honest
<1>1. TxTables BY DEF TxInv
<1>2. Ready /\ loop.pc = "select" /\ proc.st = "running" BY DEF Detached, Ready
<1>3. CASE Kill BY <1>1, <1>2, <1>3, Kills DEF Kill, TxTables
<1>4. CASE SendInline /\ UNCHANGED <<conf, proc, calls, txs, ops>> BY <1>2, <1>4, OnlyReplies
<1>5. CASE /\ ~conf.approved
           /\ ops' = [ops EXCEPT ![o] =
                IF admitted THEN [st |-> "running", inv |-> c, result |-> "open"]
                ELSE [st |-> "sending", inv |-> c, result |-> "failed"]]
           /\ UNCHANGED <<conf, proc, calls, txs, loop, chan>>
  <2> DEFINE y == IF admitted THEN [st |-> "running", inv |-> c, result |-> "open"]
                  ELSE [st |-> "sending", inv |-> c, result |-> "failed"]
  <2>1. y \in OpRecords /\ y.result # "committed" BY DEF OpRecords
  <2> HIDE DEF y
  <2>2. ops' = [ops EXCEPT ![o] = y] BY <1>5 DEF y
  <2>3. /\ ops' \in [Ops -> OpRecords] /\ ops'[o] = y
        /\ \A p \in Ops : p # o => ops'[p] = ops[p]
    BY <1>1, <2>1, <2>2 DEF TxTables
  <2>4. KeepsOps BY <1>2, <1>5, <2>1, <2>3 DEF KeepsOps, Unanswered
  <2>5. KeepsCalls BY <1>5 DEF KeepsCalls
  <2>6. Steady BY <1>1, <1>5, <2>3, <2>4, <2>5, NoTxMoves DEF TxTables, KeepsLoop
  <2> QED BY <2>6, SteadyStep
<1> QED BY <1>3, <1>4, <1>5 DEF Detached, Declined

(* One call's record changes.                                              *)
LEMMA OneCall ==
  ASSUME TxInv, NEW c \in TxCalls, NEW r \in CallRecords, calls' = [calls EXCEPT ![c] = r]
  PROVE  /\ calls' \in [TxCalls -> CallRecords] /\ calls'[c] = r
         /\ \A d \in TxCalls : d # c => calls'[d] = calls[d]
BY DEF TxInv, TxTables

(* The answer of the worker to a call.                                     *)
LEMMA Responds ==
  ASSUME TxInv, NEW c \in TxCalls, NEW how \in {"ok", "error"}, RpcResponse(c, how)
  PROVE  TxInv' /\ Honest
<1>1. TxTables /\ loop.pc = "select" /\ calls[c] \in CallRecords
  BY DEF TxInv, TxTables, RpcResponse, Ready
<1>2. CASE Kill BY <1>1, <1>2, Kills DEF Kill, TxTables
<1>3. CASE /\ ~conf.approved /\ calls' = [calls EXCEPT ![c].told = Told(c, how)]
           /\ UNCHANGED <<conf, proc, txs, ops, loop, chan>>
  <2> DEFINE v == Told(c, how)
             r == [calls[c] EXCEPT !.told = v]
  <2>1. v \in {"none", "waiting", "ok", "error", "timeout"} BY <1>1 DEF Told, CallRecords
  <2> HIDE DEF v
  <2>2. r \in CallRecords /\ r.active = calls[c].active BY <1>1, <2>1 DEF CallRecords
  <2>3. calls' = [calls EXCEPT ![c] = r] BY <1>3 DEF v
  <2> HIDE DEF r
  <2>4. /\ calls' \in [TxCalls -> CallRecords] /\ calls'[c] = r
        /\ \A d \in TxCalls : d # c => calls'[d] = calls[d]
    BY <2>2, <2>3, OneCall
  <2>5. KeepsCalls BY <1>3, <2>2, <2>4 DEF KeepsCalls
  <2>6. KeepsOps BY <1>3 DEF KeepsOps
  <2>7. Steady BY <1>1, <1>3, <2>4, <2>5, <2>6, NoTxMoves DEF TxTables, KeepsLoop
  <2> QED BY <2>7, SteadyStep
<1>4. CASE /\ calls' = [calls EXCEPT ![c].mapped = FALSE, ![c].active = FALSE]
           /\ Close(c, how, c) /\ UNCHANGED <<conf, proc, ops, chan>>
  <2> DEFINE r == [calls[c] EXCEPT !.mapped = FALSE, !.active = FALSE]
  <2>1. r \in CallRecords /\ r.active = FALSE /\ r.told = calls[c].told BY <1>1 DEF CallRecords
  <2>2. calls' = [calls EXCEPT ![c] = r] BY <1>1, <1>4 DEF TxTables
  <2> HIDE DEF r
  <2>3. /\ calls' \in [TxCalls -> CallRecords] /\ calls'[c] = r
        /\ \A d \in TxCalls : d # c => calls'[d] = calls[d]
    BY <2>1, <2>2, OneCall
  <2>4. \A d \in TxCalls : calls'[d].told = calls[d].told /\ (calls'[d].active => calls[d].active)
    BY <2>1, <2>3
  <2>5. ~calls'[c].active /\ c \in SomeCall BY <2>1, <2>3 DEF SomeCall
  <2> QED BY <1>1, <1>4, <2>3, <2>4, <2>5, CloseBegins DEF TxTables
<1> QED BY <1>2, <1>3, <1>4 DEF RpcResponse

(* A call arrives, and a caller gives up.                                  *)
LEMMA CallsMove ==
  ASSUME TxInv, NEW c \in TxCalls, Rpc(c) \/ CallTimesOut(c)
  PROVE  TxInv' /\ Honest
<1>1. TxTables /\ calls[c] \in CallRecords BY DEF TxInv, TxTables
<1>2. UNCHANGED <<conf, proc, txs, ops, loop, chan>> BY DEF Rpc, CallTimesOut
<1>3. \E r \in CallRecords :
        /\ calls' = [calls EXCEPT ![c] = r] /\ r.told # "ok"
        /\ r.active => calls[c].active \/ loop.pc # "closing"
  <2>1. CASE Rpc(c)
    <3> DEFINE w == [told |-> "waiting", active |-> TRUE, mapped |-> TRUE]
               e == [told |-> "error", active |-> FALSE, mapped |-> FALSE]
    <3>1. loop.pc = "select" /\ (calls' = [calls EXCEPT ![c] = w] \/ calls' = [calls EXCEPT ![c] = e])
      BY <2>1 DEF Rpc
    <3>2. w \in CallRecords /\ w.told # "ok" /\ e \in CallRecords /\ e.told # "ok" BY DEF CallRecords
    <3> HIDE DEF w, e
    <3> QED BY <3>1, <3>2
  <2>2. CASE CallTimesOut(c)
    <3> DEFINE r == [calls[c] EXCEPT !.told = "timeout"]
    <3>1. r \in CallRecords /\ r.told = "timeout" /\ r.active = calls[c].active
      BY <1>1 DEF CallRecords
    <3>2. calls' = [calls EXCEPT ![c] = r] BY <2>2 DEF CallTimesOut
    <3> HIDE DEF r
    <3> QED BY <3>1, <3>2
  <2> QED BY <2>1, <2>2
<1>4. PICK r \in CallRecords :
        /\ calls' = [calls EXCEPT ![c] = r] /\ r.told # "ok"
        /\ r.active => calls[c].active \/ loop.pc # "closing"
  BY <1>3
<1>5. /\ calls' \in [TxCalls -> CallRecords] /\ calls'[c] = r
      /\ \A d \in TxCalls : d # c => calls'[d] = calls[d]
  BY <1>4, OneCall
<1>6. KeepsCalls BY <1>2, <1>4, <1>5 DEF KeepsCalls
<1>7. KeepsOps BY <1>2 DEF KeepsOps
<1>8. Steady BY <1>1, <1>2, <1>5, <1>6, <1>7, NoTxMoves DEF TxTables, KeepsLoop
<1> QED BY <1>8, SteadyStep

(* A one-shot operation runs and replies.                                  *)
LEMMA OpsMove ==
  ASSUME TxInv, NEW o \in Ops, OpRuns(o) \/ OpReplies(o)
  PROVE  TxInv' /\ Honest
<1>1. TxTables /\ ops[o] \in OpRecords BY DEF TxInv, TxTables
<1>2. UNCHANGED <<conf, proc, calls, txs, loop>> BY DEF OpRuns, OpReplies
<1>3. chan'.done = chan.done /\ DOMAIN chan' = {"out", "done"}
  BY <1>1 DEF OpRuns, OpReplies, TxTables
<1>4. \E y \in OpRecords :
        /\ ops' = [ops EXCEPT ![o] = y] /\ y.st # "running"
        /\ y.result = "committed" => ops[o].result = "committed" \/ ops[o].st = "running"
  <2>1. CASE OpRuns(o)
    <3>1. PICK r \in {"committed", "failed"} :
            ops' = [ops EXCEPT ![o].st = "sending", ![o].result = r]
      BY <2>1 DEF OpRuns
    <3> DEFINE y == [ops[o] EXCEPT !.st = "sending", !.result = r]
    <3>2. y \in OpRecords /\ y.st = "sending" BY <1>1 DEF OpRecords
    <3>3. ops' = [ops EXCEPT ![o] = y] BY <1>1, <3>1 DEF TxTables
    <3>4. ops[o].st = "running" BY <2>1 DEF OpRuns
    <3> HIDE DEF y
    <3> QED BY <3>2, <3>3, <3>4
  <2>2. CASE OpReplies(o)
    <3> DEFINE y == [ops[o] EXCEPT !.st = "sent"]
    <3>1. y \in OpRecords /\ y.st = "sent" /\ y.result = ops[o].result BY <1>1 DEF OpRecords
    <3>2. ops' = [ops EXCEPT ![o] = y] BY <2>2 DEF OpReplies
    <3> HIDE DEF y
    <3> QED BY <3>1, <3>2
  <2> QED BY <2>1, <2>2
<1>5. PICK y \in OpRecords :
        /\ ops' = [ops EXCEPT ![o] = y] /\ y.st # "running"
        /\ y.result = "committed" => ops[o].result = "committed" \/ ops[o].st = "running"
  BY <1>4
<1>6. /\ ops' \in [Ops -> OpRecords] /\ ops'[o] = y
      /\ \A p \in Ops : p # o => ops'[p] = ops[p]
  BY <1>1, <1>5 DEF TxTables
<1>7. KeepsOps BY <1>5, <1>6 DEF KeepsOps
<1>8. KeepsCalls BY <1>2 DEF KeepsCalls
<1>9. Steady BY <1>1, <1>2, <1>3, <1>6, <1>7, <1>8, NoTxMoves DEF TxTables, KeepsLoop
<1> QED BY <1>9, SteadyStep

(* The process, the channels and the other arms of the loop.               *)
LEMMA LoopMoves ==
  ASSUME TxInv,
         \/ \E v \in BOOLEAN : Discover(v)
         \/ \E c \in TxCalls : InvocationExpires(c)
         \/ Drain \/ Outbound \/ WriteEnds \/ Stop \/ ProcessDies \/ StopsReading \/ ReadsAgain
  PROVE  TxInv' /\ Honest
<1>1. TxTables BY DEF TxInv
<1>2. /\ DOMAIN chan = {"out", "done"} /\ DOMAIN proc = {"st", "v4", "reads", "kills"}
      /\ loop \in LoopRecords /\ calls \in [TxCalls -> CallRecords] /\ ops \in [Ops -> OpRecords]
  BY <1>1 DEF TxTables
<1>3. ASSUME UNCHANGED <<conf, calls, txs, ops>>, loop' \in LoopRecords, KeepsLoop,
             chan'.done = chan.done, DOMAIN chan' = {"out", "done"},
             DOMAIN proc' = DOMAIN proc, proc'.st = proc.st
      PROVE  TxInv' /\ Honest
  <2>1. KeepsCalls /\ KeepsOps BY <1>3 DEF KeepsCalls, KeepsOps
  <2>2. Steady BY <1>2, <1>3, <2>1, NoTxMoves
  <2> QED BY <2>2, SteadyStep
<1>4. ASSUME NEW c \in SomeCall, NEW then \in {"expire", "stop", "kill", "crash"}, Close(c, then, c),
             loop.pc = "select", UNCHANGED <<conf, calls, ops>>, chan'.done = chan.done,
             DOMAIN chan' = {"out", "done"}, DOMAIN proc' = DOMAIN proc, proc'.st = proc.st,
             then = "expire" => c \in TxCalls, then # "expire" => c = NoTxCall
      PROVE  TxInv' /\ Honest
  BY <1>2, <1>4, CloseBegins
<1>5. NoTxCall \in SomeCall /\ \A c \in TxCalls : c \in SomeCall BY DEF SomeCall
<1>6. ASSUME NEW v \in BOOLEAN, Discover(v) PROVE TxInv' /\ Honest
  <2>1. CASE Kill BY <1>2, <1>4, <1>5, <1>6, <2>1 DEF Kill, Discover, Ready
  <2>2. CASE proc' = [proc EXCEPT !.v4 = v] /\ UNCHANGED <<conf, calls, txs, ops, loop, chan>>
    <3>1. DOMAIN proc' = DOMAIN proc /\ proc'.st = proc.st BY <1>2, <2>2
    <3> QED BY <1>2, <1>3, <2>2, <3>1 DEF KeepsLoop
  <2> QED BY <1>6, <2>1, <2>2 DEF Discover
<1>7. ASSUME NEW c \in TxCalls, InvocationExpires(c) PROVE TxInv' /\ Honest
  BY <1>2, <1>4, <1>5, <1>7 DEF InvocationExpires
<1>8. CASE Drain BY <1>2, <1>3, <1>8 DEF Drain, KeepsLoop
<1>9. CASE Outbound
  <2>1. /\ loop.pc = "select" /\ chan'.done = chan.done /\ DOMAIN chan' = {"out", "done"}
        /\ UNCHANGED <<conf, proc, calls, ops>>
    BY <1>2, <1>9 DEF Outbound
  <2>2. CASE UNCHANGED <<txs, loop>> BY <1>2, <1>3, <2>1, <2>2 DEF KeepsLoop
  <2>3. CASE Close(NoTxCall, "kill", NoTxCall) BY <1>4, <1>5, <2>1, <2>3
  <2>4. CASE loop' = [Select EXCEPT !.pc = "writing"] /\ UNCHANGED txs
    <3>1. loop' \in LoopRecords /\ loop'.pc = "writing" BY <2>4 DEF Select, LoopRecords, SomeCall
    <3> QED BY <1>3, <2>1, <2>4, <3>1 DEF KeepsLoop
  <2> QED BY <1>9, <2>2, <2>3, <2>4 DEF Outbound
<1>10. CASE WriteEnds
  <2>1. loop' \in LoopRecords /\ loop'.pc = "select"
    BY <1>10 DEF WriteEnds, Select, LoopRecords, SomeCall
  <2> QED BY <1>2, <1>3, <1>10, <2>1 DEF WriteEnds, KeepsLoop
<1>11. CASE Stop BY <1>2, <1>4, <1>5, <1>11 DEF Stop
<1>12. CASE ProcessDies
  <2>1. DOMAIN proc' = DOMAIN proc /\ proc'.st = proc.st BY <1>2, <1>12 DEF ProcessDies
  <2> QED BY <1>2, <1>4, <1>5, <1>12, <2>1 DEF ProcessDies
<1>13. CASE StopsReading \/ ReadsAgain
  <2>1. DOMAIN proc' = DOMAIN proc /\ proc'.st = proc.st
    BY <1>2, <1>13 DEF StopsReading, ReadsAgain
  <2> QED BY <1>2, <1>3, <1>13, <2>1 DEF StopsReading, ReadsAgain, KeepsLoop
<1> QED BY <1>6, <1>7, <1>8, <1>9, <1>10, <1>11, <1>12, <1>13

(* Every step.                                                             *)
LEMMA TxStep ==
  ASSUME TxInv, [TxNext]_txVars
  PROVE  TxInv' /\ Honest
<1>1. CASE UNCHANGED txVars
  <2>1. TxInv' BY <1>1 DEF txVars, TxInv, TxTables, DoneAreNotified, Watched, ClosingHasAll,
                          AnsweredIsOver, StoppedIsOver
  <2>2. Honest BY <1>1 DEF txVars, Honest
  <2> QED BY <2>1, <2>2
<1>2. ASSUME NEW t \in Txs, ActorStep(t) PROVE TxInv' /\ Honest
  BY <1>2, ActorsSteady, SteadyStep
<1>3. CASE FromWorker
  <2>1. ASSUME NEW t \in Txs, NEW c \in TxCalls \cup {NoTxCall},
               \/ SqlBegin(t, c) \/ SqlExec(t, c)
               \/ SqlEnd(t, c, "commit") \/ SqlEnd(t, c, "rollback")
        PROVE  TxInv' /\ Honest
    <3>1. c \in SomeCall BY DEF SomeCall
    <3>2. SqlBegin(t, c) => TxInv' /\ Honest BY <3>1, BeginsOne
    <3>3. SqlExec(t, c) => TxInv' /\ Honest BY <3>1, ExecsOne
    <3>4. \A how \in Lasts : SqlEnd(t, c, how) => TxInv' /\ Honest BY <3>1, EndsOne
    <3> QED BY <2>1, <3>2, <3>3, <3>4 DEF Lasts
  <2>2. ASSUME NEW o \in Ops, NEW c \in TxCalls \cup {NoTxCall},
               \/ OneShot(o, c) \/ CollectionOp(o, c) \/ RemoteCollectionOp(o, c)
               \/ SelfAction(o) \/ JobEnqueue(o)
        PROVE  TxInv' /\ Honest
    <3>1. c \in SomeCall /\ NoTxCall \in SomeCall BY DEF SomeCall
    <3>2. OneShot(o, c) => TxInv' /\ Honest BY <3>1, AsksOne
    <3>3. \A d \in SomeCall : Detached(o, d, TRUE, TRUE) => TxInv' /\ Honest BY DetachesOne
    <3>4. Detached(o, c, proc.v4, capability_context(c)) => TxInv' /\ Honest BY <3>1, DetachesOne
    <3> QED BY <2>2, <3>1, <3>2, <3>3, <3>4
      DEF CollectionOp, RemoteCollectionOp, SelfAction, JobEnqueue
  <2>4. CASE Unanswerable
    <3>1. TxTables BY DEF TxInv
    <3> QED BY <2>4, <3>1, Kills DEF Unanswerable, Ready, Kill, TxTables
  <2>3. ASSUME NEW c \in TxCalls, NEW how \in {"ok", "error"}, RpcResponse(c, how)
        PROVE  TxInv' /\ Honest
    BY <2>3, Responds
  <2> QED BY <1>3, <2>1, <2>2, <2>3, <2>4, LoopMoves DEF FromWorker
<1>4. ASSUME NEW t \in Txs, TxDone(t) PROVE TxInv' /\ Honest BY <1>4, DoneOne
<1>5. ASSUME NEW o \in Ops, OpRuns(o) \/ OpReplies(o) PROVE TxInv' /\ Honest BY <1>5, OpsMove
<1>6. ASSUME NEW c \in TxCalls, Rpc(c) \/ CallTimesOut(c) PROVE TxInv' /\ Honest BY <1>6, CallsMove
<1>7. CASE Closed BY <1>7, CloseEnds
<1> QED BY <1>1, <1>2, <1>3, <1>4, <1>5, <1>6, <1>7, LoopMoves DEF TxNext

(* TxInv is an invariant.                                                  *)
THEOREM TxInvariant == TxSpec => []TxInv
<1>1. ASSUME TxInit PROVE TxInv
  <2> USE <1>1 DEF TxInit
  <2>1. ASSUME NEW t \in Txs PROVE txs[t] = NoTx OBVIOUS
  <2>2. TxFits(NoTx) /\ Settled(NoTx)
    <3>1. 1..Len(<<>>) = {} BY SMTT(30)
    <3>2. InOrder(NoTx) BY <3>1, NoTxFields DEF InOrder, Lasts
    <3>3. Progress(NoTx) BY NoTxFields DEF Progress
    <3>4. ~MayCommit(NoTx) BY <3>1, NoTxFields DEF MayCommit, Has
    <3>5. Warned(NoTx) BY <3>4 DEF Warned
    <3> QED BY <3>2, <3>3, <3>4, <3>5, NoTxFields DEF TxFits, Settled
  <2>3. TxTables
    <3>1. txs \in [Txs -> TxRecords] BY NoTxFields
    <3>2. calls \in [TxCalls -> CallRecords] BY DEF CallRecords
    <3>3. ops \in [Ops -> OpRecords] BY DEF OpRecords, SomeCall
    <3>4. loop \in LoopRecords BY DEF LoopRecords, Select, SomeCall
    <3>5. /\ conf \in Workers /\ chan.done \in SUBSET Txs
          /\ DOMAIN chan = {"out", "done"} /\ DOMAIN proc = {"st", "v4", "reads", "kills"}
      BY SMTT(30)
    <3> QED BY <3>1, <3>2, <3>3, <3>4, <3>5 DEF TxTables
  <2>4. loop.pc = "select" BY DEF Select
  <2>5. DoneAreNotified BY DEF DoneAreNotified
  <2>6. Watched BY <2>1, <2>2 DEF Watched
  <2>7. ClosingHasAll BY <2>4 DEF ClosingHasAll
  <2>8. AnsweredIsOver BY DEF AnsweredIsOver
  <2>9. StoppedIsOver BY DEF StoppedIsOver
  <2> QED BY <2>1, <2>2, <2>3, <2>5, <2>6, <2>7, <2>8, <2>9 DEF TxInv
<1>2. TxInv /\ [TxNext]_txVars => TxInv' BY TxStep
<1> QED BY <1>1, <1>2, PTL DEF TxSpec

(* All or nothing, for every worker and every interleaving: a transaction  *)
(* in which a statement failed, was rate limited or was refused before the *)
(* commit was sent never commits.                                          *)
THEOREM CommitsAreWhole == TxSpec => []NoPartialCommit
<1>1. TxInv => NoPartialCommit BY DEF TxInv, TxFits, Progress, NoPartialCommit
<1> QED BY <1>1, TxInvariant, PTL

(* What the caller of an approved action and whoever stopped its worker    *)
(* were told is final: no later step of an actor, an operation or the loop *)
(* commits anything of it.                                                 *)
THEOREM AnswersAreFinal == TxSpec => OutcomesAreFinal
<1>1. TxInv /\ [TxNext]_txVars => [nothingAfterSuccess /\ nothingAfterStop]_txVars
  <2> SUFFICES ASSUME TxInv, [TxNext]_txVars PROVE nothingAfterSuccess /\ nothingAfterStop
    OBVIOUS
  <2>1. Honest BY TxStep
  <2>2. AnsweredIsOver /\ StoppedIsOver BY DEF TxInv
  <2>3. \A t \in Txs : Settled(txs[t]) => txs[t].st # "committing" BY DEF Settled
  <2>4. nothingAfterSuccess BY <2>1, <2>2, <2>3 DEF nothingAfterSuccess, Honest, AnsweredIsOver
  <2>5. nothingAfterStop BY <2>1, <2>2, <2>3 DEF nothingAfterStop, Honest, StoppedIsOver
  <2> QED BY <2>4, <2>5
<1> QED BY <1>1, TxInvariant, PTL DEF TxSpec, OutcomesAreFinal
=============================================================================

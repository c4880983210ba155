----------------------------- MODULE WorkerPool -----------------------------
(***************************************************************************)
(* The worker pool of core/src/worker_manager.rs: the map from identities  *)
(* to workers, the semaphore that bounds worker processes, get_or_spawn    *)
(* with its admission by eviction, one-shot approved executions, the       *)
(* reaper, and the operations that stop workers (stop_app, stop_all,       *)
(* invalidate_for_principal).                                              *)
(*                                                                         *)
(* The map is behind a RwLock that is never held across an await, so every *)
(* critical section is one step and everything between two of them         *)
(* interleaves.  A command to a supervisor takes effect in one step: its   *)
(* channel is first in, first out.  A caller's permit is named after the   *)
(* worker it will start.  Time is abstracted: which entries are older than *)
(* WORKER_IDLE_TTL, or least recently used, is left open.                  *)
(***************************************************************************)
EXTENDS Naturals, FiniteSets, FiniteSetsExt

CONSTANTS Callers,     \* concurrent requests
          Keys,        \* (app, principal, invocation) identities
          Workers,     \* bound: names of supervisors, numbers
          Shapes,      \* the deployments a behaviour may be of
          NoKey, NoWorker

(* A deployment: the permits of `slots`, MAX_EVICTION_PROBES (4 in the     *)
(* code), and the bounds: who calls, supervisors named, units of work in   *)
(* flight in one worker, workers that end Crashed, calls of stop_app,      *)
(* stop_all and invalidate, whether the reaper runs and whether approved   *)
(* executions happen.                                                      *)
Shape == [cap : Nat \ {0}, probes : Nat, who : SUBSET Callers, named : Nat, work : Nat,
          crashes : Nat, stops : Nat, reaps : BOOLEAN, approves : BOOLEAN]

ASSUME PoolAssumption == Workers \subseteq Nat /\ \A x \in Shapes : x \in Shape

VARIABLES shape,    \* the deployment
          map,      \* workers: key -> the worker of its entry
          sup,      \* worker -> status, units of work in flight, its key
          callers,  \* the locals of get_or_spawn and rpc_resolved
          stops,    \* (key, handle) pairs some stop operation still holds
          reaper,   \* the reaper's sweep
          counts    \* bounded events so far

poolVars == <<shape, map, sup, callers, stops, reaper, counts>>

Pair == [k : Keys, w : Workers]
Ended(st) == [st |-> st, work |-> 0, key |-> NoKey]
Idle == [pc |-> "idle", k |-> NoKey, own |-> NoWorker, clone |-> NoWorker,
         h |-> NoWorker, cands |-> {}, victim |-> NoKey, probes |-> 0, approved |-> FALSE]
Asleep == [pc |-> "sleep", list |-> {}, still |-> {}, k |-> NoKey, w |-> NoWorker]

CallerPcs == {"idle", "read", "status", "touch", "stopDead", "removeDead", "admit",
              "probe", "evict", "evictStop", "claim", "spawn", "insert", "lost",
              "use", "approved"}

(* Type correctness of the map, the supervisors and the tasks.             *)
PoolTypeOK ==
  /\ map \in [Keys -> {NoWorker} \cup Workers]
  /\ sup \in [Workers -> [st : {"running", "stopped", "crashed"},
                          work : 0..shape.work, key : {NoKey} \cup Keys]]
  /\ callers \in [Callers ->
       [pc : CallerPcs, k : {NoKey} \cup Keys, own : {NoWorker} \cup Workers,
        clone : {NoWorker} \cup Workers, h : {NoWorker} \cup Workers,
        cands : SUBSET Pair, victim : {NoKey} \cup Keys, probes : 0..shape.probes,
        approved : BOOLEAN]]
  /\ stops \subseteq [k : Keys, w : Workers, pc : {"stop", "remove"}]
  /\ reaper.pc \in {"sleep", "probe", "recheck", "stop"}
  /\ reaper.list \subseteq Pair /\ reaper.still \subseteq Keys
  /\ counts \in [crashes : 0..shape.crashes, stops : 0..shape.stops]

PoolInit ==
  /\ shape \in Shapes
  /\ map = [k \in Keys |-> NoWorker]
  /\ sup = [w \in Workers |-> Ended("stopped")]
  /\ callers = [c \in Callers |-> Idle]
  /\ stops = {}
  /\ reaper = Asleep
  /\ counts = [crashes |-> 0, stops |-> 0]

Mapped == {k \in Keys : map[k] # NoWorker}
Entries(S) == {[k |-> k, w |-> map[k]] : k \in S}

(* A permit is held by the map's entry, by clones of that entry, and by a  *)
(* caller from take_slot until its insert.                                 *)
Held ==
  ({map[k] : k \in Keys} \cup UNION {{callers[c].own, callers[c].clone} : c \in Callers})
    \ {NoWorker}
Available == shape.cap - Cardinality(Held)

(* Names are used again once nobody holds a handle of the old worker.      *)
Unused ==
  {w \in Workers : /\ w <= shape.named /\ sup[w].st # "running" /\ w \notin Held
                   /\ \A c \in Callers : /\ callers[c].h # w
                                          /\ \A p \in callers[c].cands : p.w # w
                   /\ \A x \in stops : x.w # w
                   /\ \A p \in reaper.list : p.w # w
                   /\ reaper.w # w}

At(c, pc) == callers[c].pc = pc
Goto(c, pc) == callers' = [callers EXCEPT ![c].pc = pc]
Return(c) == callers' = [callers EXCEPT ![c] = Idle]

(* Stop kills the process and with it whatever it was doing.               *)
Stop(w) ==
  sup' = [sup EXCEPT ![w] = Ended("stopped")]

is_idle(w) == sup[w].work = 0

(* An entry that is touched or inserted is no longer stale for the sweep.  *)
Touched(k) == reaper' = [reaper EXCEPT !.still = @ \ {k}]

(***************************************************************************)
(* get_or_spawn.                                                           *)
(***************************************************************************)
Call(c, k) ==
  /\ At(c, "idle") /\ c \in shape.who
  /\ \/ callers' = [callers EXCEPT ![c] = [Idle EXCEPT !.pc = "read", !.k = k]]
     \/ /\ shape.approves
        /\ callers' = [callers EXCEPT ![c] =
             [Idle EXCEPT !.pc = "admit", !.k = k, !.approved = TRUE]]
  /\ UNCHANGED <<map, sup, stops, reaper, counts>>

(* The entry is cloned, permit included, before the guard drops.           *)
Read(c) ==
  /\ At(c, "read")
  /\ LET w == map[callers[c].k]
     IN  callers' = [callers EXCEPT ![c].clone = w,
                                    ![c].pc = IF w = NoWorker THEN "admit" ELSE "status"]
  /\ UNCHANGED <<map, sup, stops, reaper, counts>>

Status(c) ==
  /\ At(c, "status")
  /\ Goto(c, IF sup[callers[c].clone].st = "running" THEN "touch" ELSE "stopDead")
  /\ UNCHANGED <<map, sup, stops, reaper, counts>>

(* last_used of whatever entry the key has now.                            *)
Touch(c) ==
  /\ At(c, "touch")
  /\ Touched(callers[c].k)
  /\ callers' = [callers EXCEPT ![c].pc = "use", ![c].h = callers[c].clone,
                                ![c].clone = NoWorker]
  /\ UNCHANGED <<map, sup, stops, counts>>

StopDead(c) ==
  /\ At(c, "stopDead")
  /\ Stop(callers[c].clone)
  /\ Goto(c, "removeDead")
  /\ UNCHANGED <<map, stops, reaper, counts>>

(* By key: the entry removed need not be the one that was dead.            *)
RemoveDead(c) ==
  /\ At(c, "removeDead")
  /\ map' = [map EXCEPT ![callers[c].k] = NoWorker]
  /\ callers' = [callers EXCEPT ![c].pc = "admit", ![c].clone = NoWorker]
  /\ UNCHANGED <<sup, stops, reaper, counts>>

(***************************************************************************)
(* take_slot.                                                              *)
(***************************************************************************)
TakePermit(c) ==
  /\ Available > 0 /\ Unused # {}
  /\ LET w == Min(Unused)
     IN callers' = [callers EXCEPT ![c].own = w, ![c].pc = "spawn", ![c].cands = {}, ![c].probes = 0]

Admit(c) ==
  /\ At(c, "admit")
  /\ \/ TakePermit(c)
     \/ /\ Available = 0
        /\ callers' = [callers EXCEPT ![c].pc = "probe", ![c].cands = Entries(Mapped),
                                      ![c].probes = 0]
  /\ UNCHANGED <<map, sup, stops, reaper, counts>>

(* The supervisor is asked before anything is removed.                     *)
Probe(c, p) ==
  /\ At(c, "probe")
  /\ p \in callers[c].cands /\ callers[c].probes < shape.probes
  /\ callers' = [callers EXCEPT
       ![c] = [@ EXCEPT !.cands = @ \ {p}, !.probes = @ + 1,
                        !.victim = IF is_idle(p.w) THEN p.k ELSE NoKey,
                        !.h = IF is_idle(p.w) THEN p.w ELSE NoWorker,
                        !.pc = IF is_idle(p.w) THEN "evict" ELSE "probe"]]
  /\ UNCHANGED <<map, sup, stops, reaper, counts>>

(* By key again, and the permit returns before the process is stopped.     *)
Evict(c) ==
  /\ At(c, "evict")
  /\ LET v == callers[c].victim
     IN /\ map' = [map EXCEPT ![v] = NoWorker]
        /\ callers' = [callers EXCEPT ![c].victim = NoKey,
                                      ![c].h = IF map[v] = NoWorker THEN NoWorker ELSE @,
                                      ![c].pc = IF map[v] = NoWorker THEN "probe" ELSE "evictStop"]
  /\ UNCHANGED <<sup, stops, reaper, counts>>

EvictStop(c) ==
  /\ At(c, "evictStop")
  /\ Stop(callers[c].h)
  /\ callers' = [callers EXCEPT ![c].pc = "claim", ![c].h = NoWorker]
  /\ UNCHANGED <<map, stops, reaper, counts>>

Claim(c) ==
  /\ At(c, "claim")
  /\ TakePermit(c) \/ (Available = 0 /\ Goto(c, "probe"))
  /\ UNCHANGED <<map, sup, stops, reaper, counts>>

(* RuntimeError::Capacity.                                                 *)
Refuse(c) ==
  /\ At(c, "probe")
  /\ callers[c].cands = {} \/ callers[c].probes = shape.probes
  /\ Return(c)
  /\ UNCHANGED <<map, sup, stops, reaper, counts>>

(***************************************************************************)
(* The rest of get_or_spawn, and the one-shot approved execution.          *)
(***************************************************************************)
(* config_for may refuse, returning the permit; a process that does not    *)
(* start leaves a Crashed supervisor.                                      *)
Spawn(c) ==
  /\ At(c, "spawn")
  /\ \/ /\ \E st \in {"running", "crashed"} :
             /\ st = "crashed" => counts.crashes < shape.crashes
             /\ counts' = [counts EXCEPT !.crashes = IF st = "crashed" THEN @ + 1 ELSE @]
             /\ sup' = [sup EXCEPT ![callers[c].own] =
                  IF st = "running" THEN [Ended(st) EXCEPT !.key = callers[c].k] ELSE Ended(st)]
        /\ Goto(c, IF callers[c].approved THEN "approved" ELSE "insert")
     \/ Return(c) /\ UNCHANGED <<sup, counts>>
  /\ UNCHANGED <<map, stops, reaper>>

(* A mutant: the second of two spawns overwrites the first.                *)
InsertAlways(c) ==
  /\ At(c, "insert")
  /\ map' = [map EXCEPT ![callers[c].k] = callers[c].own]
  /\ Touched(callers[c].k)
  /\ callers' = [callers EXCEPT ![c].pc = "use", ![c].h = callers[c].own,
                                ![c].own = NoWorker]
  /\ UNCHANGED <<sup, stops, counts>>

(* The lost-race guard looks and inserts under one write lock.             *)
Insert(c) ==
  /\ At(c, "insert")
  /\ LET w == map[callers[c].k]
     IN  \/ /\ w = NoWorker
            /\ map' = [map EXCEPT ![callers[c].k] = callers[c].own]
            /\ Touched(callers[c].k)
            /\ callers' = [callers EXCEPT ![c].pc = "use", ![c].h = callers[c].own,
                                          ![c].own = NoWorker]
         \/ /\ w # NoWorker
            /\ callers' = [callers EXCEPT ![c].pc = "lost", ![c].clone = w]
            /\ UNCHANGED <<map, reaper>>
  /\ UNCHANGED <<sup, stops, counts>>

Lost(c) ==
  /\ At(c, "lost")
  /\ Stop(callers[c].own)
  /\ callers' = [callers EXCEPT ![c].pc = "use", ![c].h = callers[c].clone,
                                ![c].own = NoWorker, ![c].clone = NoWorker]
  /\ UNCHANGED <<map, stops, reaper, counts>>

(* The unit of work is sent to the handle; one that no longer runs refuses *)
(* it.                                                                     *)
Use(c) ==
  /\ At(c, "use")
  /\ LET w == callers[c].h
     IN  sup' = IF sup[w].st = "running" /\ sup[w].work < shape.work
                THEN [sup EXCEPT ![w].work = @ + 1] ELSE sup
  /\ Return(c)
  /\ UNCHANGED <<map, stops, reaper, counts>>

(* rpc_resolved's task: the call, its timeout, the stop, the permit.       *)
Approved(c) ==
  /\ At(c, "approved")
  /\ Stop(callers[c].own)
  /\ Return(c)
  /\ UNCHANGED <<map, stops, reaper, counts>>

(***************************************************************************)
(* Stopping workers.                                                       *)
(***************************************************************************)
(* stop_app and invalidate_for_principal take the entries of an app or of  *)
(* a principal, stop_all takes them all; the handles are collected first.  *)
(* A drain ends when the worker is idle or the grace is over, so it delays *)
(* the stop and no more.                                                   *)
RequestStop(S) ==
  /\ counts.stops < shape.stops
  /\ S \subseteq Mapped /\ S # {}
  /\ counts' = [counts EXCEPT !.stops = @ + 1]
  /\ stops' = stops \cup {[k |-> e.k, w |-> e.w, pc |-> "stop"] : e \in Entries(S)}
  /\ UNCHANGED <<map, sup, callers, reaper>>

StopOne(x) ==
  /\ x \in stops
  /\ \/ /\ x.pc = "stop"
        /\ Stop(x.w)
        /\ stops' = (stops \ {x}) \cup {[x EXCEPT !.pc = "remove"]}
        /\ UNCHANGED map
     \/ /\ x.pc = "remove"
        /\ map' = [map EXCEPT ![x.k] = NoWorker]
        /\ stops' = stops \ {x}
        /\ UNCHANGED sup
  /\ UNCHANGED <<callers, reaper, counts>>

(***************************************************************************)
(* The reaper.                                                             *)
(***************************************************************************)
Sweep(S) ==
  /\ shape.reaps /\ reaper.pc = "sleep"
  /\ S \subseteq Mapped /\ S # {}
  /\ reaper' = [Asleep EXCEPT !.pc = "probe", !.list = Entries(S), !.still = S]
  /\ UNCHANGED <<map, sup, callers, stops, counts>>

(* On to the next entry; what is known of the last one is forgotten.       *)
Onward(list) ==
  [Asleep EXCEPT !.pc = "probe", !.list = list, !.still = @ \cup {k \in reaper.still : \E p \in list : p.k = k}]

ReapProbe(p) ==
  /\ reaper.pc = "probe" /\ p \in reaper.list
  /\ reaper' = IF is_idle(p.w)
               THEN [reaper EXCEPT !.list = @ \ {p}, !.k = p.k, !.w = p.w, !.pc = "recheck"]
               ELSE Onward(reaper.list \ {p})
  /\ UNCHANGED <<map, sup, callers, stops, counts>>

(* Under the write lock: removed only if it is still stale.                *)
Recheck ==
  /\ reaper.pc = "recheck"
  /\ LET reap == reaper.k \in reaper.still /\ reaper.k \in Mapped
     IN  /\ map' = IF reap THEN [map EXCEPT ![reaper.k] = NoWorker] ELSE map
         /\ reaper' = IF reap THEN [reaper EXCEPT !.pc = "stop"] ELSE Onward(reaper.list)
  /\ UNCHANGED <<sup, callers, stops, counts>>

ReapStop ==
  /\ reaper.pc = "stop"
  /\ Stop(reaper.w)
  /\ reaper' = Onward(reaper.list)
  /\ UNCHANGED <<map, callers, stops, counts>>

SweepEnds ==
  /\ reaper.pc = "probe" /\ reaper.list = {}
  /\ reaper' = Asleep
  /\ UNCHANGED <<map, sup, callers, stops, counts>>

(***************************************************************************)
(* The workers.                                                            *)
(***************************************************************************)
WorkEnds(w) ==
  /\ sup[w].work > 0
  /\ sup' = [sup EXCEPT ![w].work = @ - 1]
  /\ UNCHANGED <<map, callers, stops, reaper, counts>>

(* A crash loop, or a restart that fails.                                  *)
GivesUp(w) ==
  /\ sup[w].st = "running" /\ counts.crashes < shape.crashes
  /\ counts' = [counts EXCEPT !.crashes = @ + 1]
  /\ sup' = [sup EXCEPT ![w] = Ended("crashed")]
  /\ UNCHANGED <<map, callers, stops, reaper>>

CallerStep(c) ==
  \/ Read(c) \/ Status(c) \/ Touch(c) \/ StopDead(c) \/ RemoveDead(c)
  \/ Admit(c) \/ Evict(c) \/ EvictStop(c) \/ Claim(c) \/ Refuse(c)
  \/ Spawn(c) \/ Insert(c) \/ Lost(c) \/ Use(c) \/ Approved(c)
  \/ \E p \in callers[c].cands : Probe(c, p)

ReaperStep == Recheck \/ ReapStop \/ SweepEnds \/ \E p \in reaper.list : ReapProbe(p)

Moves ==
  \/ \E c \in Callers : CallerStep(c) \/ \E k \in Keys : Call(c, k)
  \/ \E S \in SUBSET Keys : RequestStop(S) \/ Sweep(S)
  \/ \E x \in stops : StopOne(x)
  \/ ReaperStep
  \/ \E w \in Workers : WorkEnds(w) \/ GivesUp(w)

PoolNext == Moves /\ UNCHANGED shape

PoolSpec == PoolInit /\ [][PoolNext]_poolVars

(***************************************************************************)
(* Properties.                                                             *)
(***************************************************************************)
Running == {w \in Workers : sup[w].st = "running"}

(* get_or_spawn, "a worker can only ever act as the one principal it was   *)
(* spawned for": whatever is evicted, replaced or raced, the process a     *)
(* caller uses, or finds in the map, was spawned for the caller's own      *)
(* identity.                                                               *)
WorkerKeepsItsIdentity ==
  /\ \A c \in Callers : At(c, "use") => sup[callers[c].h].key \in {callers[c].k, NoKey}
  /\ \A k \in Mapped : sup[map[k]].key \in {k, NoKey}

(* A process in nobody's hands: not in the map, not held by a caller that  *)
(* will insert, use or stop it, not about to be stopped.                   *)
Stranded ==
  {w \in Running : /\ \A k \in Keys : map[k] # w
                   /\ \A c \in Callers : w \notin {callers[c].own, callers[c].h}
                   /\ \A x \in stops : x.w # w
                   /\ reaper.w # w}

(* The lost-race guard of get_or_spawn leaves no process behind: however   *)
(* many callers start a worker of one identity at once, every running one  *)
(* is in the map or in the hands of somebody who will stop it.  Stated of  *)
(* deployments where no entry is removed by its key (permits for every     *)
(* identity and every caller, so no eviction; no reaper, no stop and no    *)
(* worker found dead): such a removal may hit the replacement of the entry *)
(* it was decided for, and strand its process.                             *)
NoWorkerIsStranded ==
  /\ shape.cap >= Cardinality(Keys) + Cardinality(Callers)
  /\ ~shape.reaps /\ shape.crashes + shape.stops = 0
  => Stranded = {}

(* take_slot evicts "only workers the supervisor confirms are idle":       *)
(* stopping the victim of an eviction kills no work.                       *)
EvictionSparesLiveWork ==
  \A c \in Callers : At(c, "evictStop") => is_idle(callers[c].h)

(* Callers that race over the pool get the worker they asked for and leave *)
(* none behind (get_or_spawn).                                             *)
WorkersAreAccountedFor == PoolTypeOK /\ WorkerKeepsItsIdentity /\ NoWorkerIsStranded
=============================================================================

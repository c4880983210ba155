------------------------------ MODULE BucketTree ------------------------------
(***************************************************************************)
(* Platform storage (extensions/platform_storage): buckets, folders and    *)
(* objects, each endpoint a sequence of single statements on the pool with *)
(* no transaction around them.  Objects are named by the request that      *)
(* creates them, besides the folders the tenant starts with.               *)
(***************************************************************************)
EXTENDS Integers, FiniteSets

CONSTANTS Folders,    \* the folders there at the start
          StartTree,  \* their parents: folder -> folder or TopLevel
          BtReqs,     \* requests
          Buckets,    \* bucket names, "default" among them
          TopLevel,   \* parent_id IS NULL
          NewNames,   \* names a request may choose
          WalkLimit,  \* how far rename_object walks up (100 in the code)
          BtDuties    \* mixes: request -> its operations

VARIABLES btDuty, \* the mix in force
          bucket, \* storage_buckets
          node,   \* storage_objects
          blob,   \* large objects
          moved,  \* TRUE once two moves have overlapped
          tall,   \* TRUE once a chain of folders was longer than the walk
          breq    \* the requests

treeVars == <<btDuty, bucket, node, blob, moved, tall, breq>>

Nodes == Folders \cup BtReqs
Absent == [here |-> FALSE, in |-> "default", up |-> TopLevel, name |-> "x", folder |-> FALSE]
Quiet == [op |-> "idle", pc |-> "idle", at |-> TopLevel, to |-> TopLevel, cur |-> TopLevel,
          in |-> "default", name |-> "x", n |-> 0]

Here(o) == node[o].here
(* UNIQUE(bucket, parent_id, name) and the partial index for the top level.  *)
Taken(o, b, up, name) == \E x \in Nodes \ {o} : /\ Here(x) /\ node[x].in = b
                                                /\ node[x].up = up /\ node[x].name = name
(* The foreign keys on parent_id and on bucket.                              *)
ParentExists(up) == up = TopLevel \/ Here(up)
(* The chain of parents above an object, the top level included.             *)
Above(o) == LET up[n \in 1..Cardinality(Nodes)] ==
                    IF n = 1 THEN {node[o].up}
                    ELSE LET S == up[n - 1] IN S \cup {node[x].up : x \in S \ {TopLevel}}
            IN  up[Cardinality(Nodes)]
(* What ON DELETE CASCADE along parent_id takes with an object.              *)
Under(o) == {x \in Nodes : Here(x) /\ o \in Above(x)}

Depth(o) == Cardinality(({o} \cup Above(o)) \ {TopLevel})

BGo(r, pc) == breq' = [breq EXCEPT ![r].pc = pc]
BOver(r, pc) == breq' = [breq EXCEPT ![r] = [Quiet EXCEPT !.pc = pc]]
SameTree == UNCHANGED <<bucket, node, blob>>

(* check_storage_perm and the checks of the input refuse a request before it *)
(* touches a row: such requests are not started.                             *)
BBegin(r, op, at, to, b, name) ==
    /\ breq[r].pc = "idle" /\ op \in btDuty[r]
    /\ breq' = [breq EXCEPT ![r] = [Quiet EXCEPT !.op = op, !.pc = "start", !.at = at,
                                               !.to = to, !.in = b, !.name = name]]
    /\ SameTree

BStart(r) ==
    \/ \E b \in Buckets, op \in {"makeBucket", "dropBucket"} : BBegin(r, op, TopLevel, TopLevel, b, "x")
    \/ \E b \in Buckets, up \in Nodes \cup {TopLevel}, op \in {"mkdir", "put"} :
           (up # TopLevel => Here(up)) /\ (\E name \in NewNames : BBegin(r, op, TopLevel, up, b, name))
    \/ \E o \in {x \in Nodes : Here(x)}, up \in Nodes \cup {TopLevel}, name \in NewNames :
           (up # TopLevel => Here(up)) /\ BBegin(r, "rename", o, up, node[o].in, name)
    \/ \E o \in {x \in Nodes : Here(x)}, op \in {"drop", "fetch"} :
           BBegin(r, op, o, TopLevel, node[o].in, "x")

-----------------------------------------------------------------------------
create_bucket(r) ==
    /\ breq[r].op = "makeBucket" /\ breq[r].pc = "start"
    /\ IF breq[r].in \in bucket THEN BOver(r, "failed") /\ UNCHANGED bucket
       ELSE BOver(r, "done") /\ bucket' = bucket \cup {breq[r].in}
    /\ UNCHANGED <<node, blob>>

(* How many objects the bucket has.                                             *)
countObjects(r) ==
    /\ breq[r].op = "dropBucket" /\ breq[r].pc = "start"
    /\ IF breq[r].in = "default" \/ \E o \in Nodes : Here(o) /\ node[o].in = breq[r].in
         THEN BOver(r, "failed") ELSE BGo(r, "counted")
    /\ SameTree

(* DELETE FROM storage_buckets: an object put there since the count stops it *)
(* by the foreign key.                                                       *)
delete_bucket(r) ==
    /\ breq[r].op = "dropBucket" /\ breq[r].pc = "counted"
    /\ IF breq[r].in \notin bucket \/ \E o \in Nodes : Here(o) /\ node[o].in = breq[r].in
         THEN BOver(r, "failed") /\ UNCHANGED bucket
         ELSE BOver(r, "done") /\ bucket' = bucket \ {breq[r].in}
    /\ UNCHANGED <<node, blob>>

Insertable(r) == /\ breq[r].in \in bucket /\ ParentExists(breq[r].to)
                 /\ ~Taken(r, breq[r].in, breq[r].to, breq[r].name)
InsertNode(r, folder) ==
    node' = [node EXCEPT ![r] = [here |-> TRUE, in |-> breq[r].in, up |-> breq[r].to,
                                 name |-> breq[r].name, folder |-> folder]]

create_folder(r) ==
    /\ breq[r].op = "mkdir" /\ breq[r].pc = "start"
    /\ IF Insertable(r) THEN InsertNode(r, TRUE) /\ BOver(r, "done")
       ELSE BOver(r, "failed") /\ UNCHANGED node
    /\ UNCHANGED <<bucket, blob>>

(* upload_object: the bucket's limits are read first; a file over them, of a *)
(* type content_type_allowed refuses, or empty, fails before the insert.     *)
bucketLimits(r) ==
    /\ breq[r].op = "put" /\ breq[r].pc = "start"
    /\ IF breq[r].in \in bucket THEN BGo(r, "insert") \/ BOver(r, "failed") ELSE BOver(r, "failed")
    /\ SameTree

putCommittingFirst(r) ==
    /\ breq[r].op = "put" /\ breq[r].pc = "insert"
    /\ blob' = blob \cup {r}
    /\ IF Insertable(r) THEN InsertNode(r, FALSE) /\ BOver(r, "done")
       ELSE BOver(r, "failed") /\ UNCHANGED node
    /\ UNCHANGED bucket

(* The row is inserted in the large object's own transaction.                *)
upload_object(r) ==
    /\ breq[r].op = "put" /\ breq[r].pc = "insert"
    /\ IF Insertable(r) THEN InsertNode(r, FALSE) /\ blob' = blob \cup {r} /\ BOver(r, "done")
       ELSE BOver(r, "failed") /\ UNCHANGED <<node, blob>>
    /\ UNCHANGED bucket

(* DELETE: the cascade takes what is below, the trigger every large object.  *)
delete_object(r) ==
    /\ breq[r].op = "drop" /\ breq[r].pc = "start"
    /\ LET o == breq[r].at
           gone == {o} \cup Under(o)
       IN  IF Here(o) /\ node[o].in = breq[r].in
             THEN /\ node' = [x \in Nodes |-> IF x \in gone THEN Absent ELSE node[x]]
                  /\ blob' = blob \ gone /\ BOver(r, "done")
             ELSE BOver(r, "failed") /\ UNCHANGED <<node, blob>>
    /\ UNCHANGED bucket

(* download_object: the row, then the large object.                          *)
download_object(r) ==
    /\ breq[r].op = "fetch"
    /\ \/ /\ breq[r].pc = "start"
          /\ IF Here(breq[r].at) /\ ~node[breq[r].at].folder THEN BGo(r, "open") ELSE BOver(r, "failed")
       \/ /\ breq[r].pc = "open"
          /\ BOver(r, IF breq[r].at \in blob THEN "done" ELSE "failed")
    /\ SameTree

-----------------------------------------------------------------------------
(* rename_object: EXISTS, then the name, then the walk, then the parent.     *)
exists(r) ==
    /\ breq[r].op = "rename" /\ breq[r].pc = "start"
    /\ IF Here(breq[r].at) /\ node[breq[r].at].in = breq[r].in THEN BGo(r, "name") ELSE BOver(r, "failed")
    /\ SameTree

(* UPDATE of the name, or no name in the request; then the move, or none.    *)
rename(r) ==
    LET o == breq[r].at IN
    /\ breq[r].pc = "name"
    /\ \/ /\ Here(o) /\ Taken(o, node[o].in, node[o].up, breq[r].name)
          /\ BOver(r, "failed") /\ UNCHANGED node
       \/ /\ ~(Here(o) /\ Taken(o, node[o].in, node[o].up, breq[r].name))
          /\ node' = IF Here(o) THEN [node EXCEPT ![o].name = breq[r].name] ELSE node
          /\ IF breq[r].to = o THEN BOver(r, "failed")
             ELSE \/ breq' = [breq EXCEPT ![r].pc = "walk", ![r].cur = breq[r].to]
                  \/ BOver(r, "done")
    /\ UNCHANGED <<bucket, blob>>

(* One turn of the loop that prevents circular moves: one SELECT parent_id.  *)
walkUp(r) ==
    /\ breq[r].pc = "walk"
    /\ LET c == breq[r].cur IN
         \/ /\ c = TopLevel \/ breq[r].n = WalkLimit
            /\ BGo(r, "move")
         \/ /\ c # TopLevel /\ breq[r].n < WalkLimit
            /\ IF c = breq[r].at THEN BOver(r, "failed")
               ELSE breq' = [breq EXCEPT ![r].n = @ + 1,
                                         ![r].cur = IF Here(c) THEN node[c].up ELSE TopLevel]
    /\ SameTree

(* UPDATE of parent_id, which finds no row if the object is gone.            *)
moveTo(r) ==
    LET o == breq[r].at IN
    /\ breq[r].pc = "move"
    /\ IF Here(o) /\ (~ParentExists(breq[r].to) \/ Taken(o, node[o].in, breq[r].to, node[o].name))
         THEN BOver(r, "failed") /\ UNCHANGED node
         ELSE /\ node' = IF Here(o) THEN [node EXCEPT ![o].up = breq[r].to] ELSE node
              /\ BOver(r, "done")
    /\ UNCHANGED <<bucket, blob>>

Walking(r) == breq[r].pc \in {"walk", "move"}

BtHandle(r) == \/ create_bucket(r) \/ countObjects(r) \/ delete_bucket(r) \/ create_folder(r)
               \/ bucketLimits(r) \/ upload_object(r) \/ delete_object(r) \/ download_object(r)
               \/ exists(r) \/ rename(r) \/ walkUp(r) \/ moveTo(r)

TreeInit ==
    /\ btDuty \in BtDuties
    /\ bucket = Buckets
    /\ node = [o \in Nodes |-> IF o \in Folders
                 THEN [Absent EXCEPT !.here = TRUE, !.up = StartTree[o], !.folder = TRUE,
                                     !.name = IF StartTree[o] = TopLevel THEN o ELSE "y"]
                 ELSE Absent]
    /\ blob = {} /\ moved = FALSE /\ tall = FALSE
    /\ breq = [r \in BtReqs |-> Quiet]

TreeNext ==
    /\ UNCHANGED btDuty
    /\ tall' = (tall \/ \E o \in Nodes : Here(o) /\ Depth(o) > WalkLimit)
    /\ moved' = (moved \/ \E r, s \in BtReqs : r # s /\ Walking(r) /\ Walking(s))
    /\ \E r \in BtReqs : BStart(r) \/ BtHandle(r)

TreeSpec == TreeInit /\ [][TreeNext]_treeVars

-----------------------------------------------------------------------------
(* Properties.                                                              *)

TreeTypeOK ==
    /\ bucket \subseteq Buckets
    /\ blob \subseteq BtReqs
    /\ \A o \in Nodes : node[o].up \in Nodes \cup {TopLevel}
    /\ \A r \in BtReqs : breq[r].n \in 0..WalkLimit

(* rename_object's own words, "Prevent circular moves": every object hangs   *)
(* from the top level, whatever moves overlap.                               *)
NoCircularMoves == \A o \in Nodes : Here(o) => TopLevel \in Above(o)

(* The same for moves that do not overlap: the walk gives up after WalkLimit *)
(* folders and the UPDATE goes through, so a move below a deeper descendant  *)
(* closes a circle on its own.                                               *)
NoLoneCircle == ~moved => NoCircularMoves

(* What does hold: while no two moves overlap and no chain of folders is     *)
(* longer than the walk of rename_object, creations, deletions and renames   *)
(* that interleave with the walk cannot close a circle or leave an object    *)
(* below a folder that is gone.                                              *)
LoneMovesKeepTheTree == ~moved /\ ~tall => NoCircularMoves

(* Every object that is a file has its large object and no large object is   *)
(* without one, so a cascading delete racing an upload into the folder       *)
(* neither leaks content nor strands a row; and every object's bucket exists *)
(* although delete_bucket counts and deletes in two statements.              *)
ContentFollowsTheTree ==
    /\ blob = {o \in Nodes : Here(o) /\ ~node[o].folder}
    /\ \A o \in Nodes : Here(o) => node[o].in \in bucket

(* The tree of a bucket stays a tree while moves do not overlap and chains *)
(* are short, and its content follows it whatever overlaps.                *)
TreeIsSound == TreeTypeOK /\ LoneMovesKeepTheTree /\ ContentFollowsTheTree
=============================================================================

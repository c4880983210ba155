---------------------------- MODULE ObjectStorage ----------------------------
(***************************************************************************)
(* App files kept in PostgreSQL large objects (extensions/storage):        *)
(* resumable uploads, one-shot uploads, single-use nonces, downloads and   *)
(* the removals that cascade.  One upload id is modelled; a large object,  *)
(* a file and a nonce are named by the request that made them.             *)
(*                                                                         *)
(* Bytes are counted in units; the unit at position i of the client's file *)
(* is the number i, so a stored sequence shows what was put where.  now()  *)
(* is the start of the statement's transaction.                            *)
(***************************************************************************)
EXTENDS Integers, Sequences, FiniteSets

CONSTANTS StReqs,      \* requests
          FileUnits,   \* the size a client declares for the resumable upload
          ChunkUnits,  \* MAX_CHUNK_BYTES
          StoreUnits,  \* max_file_bytes()
          Slots,       \* MAX_CONCURRENT_TRANSFERS
          MaxTick,     \* bound on the clock, in lifetimes of a session
          StDuties     \* mixes: request -> its operations

VARIABLES stDuty,  \* the mix in force
          lobj,    \* pg_largeobject: the objects that exist
          bytes,   \* their committed contents
          upload,  \* the row of storage_upload_sessions
          file,    \* files
          ticket,  \* NonceStore: upload and download nonces
          tick,    \* the clock
          rowLock, \* the request holding the session row FOR UPDATE
          sreq     \* the requests

storeVars == <<stDuty, lobj, bytes, upload, file, ticket, tick, rowLock, sreq>>
tables == <<lobj, bytes, upload, file>>

NoReq == "no request"
NoUpload == [st |-> "none", size |-> 0, oid |-> NoReq, file |-> NoReq, until |-> 0]
NoFile == [st |-> "none", oid |-> NoReq, size |-> 0]
NoTicket == [kind |-> "none", file |-> NoReq, until |-> 0]
Waiting == [op |-> "idle", pc |-> "idle", at |-> 0, off |-> 0, got |-> 0, key |-> NoReq, out |-> <<>>]

Units(from, n) == [i \in 1..n |-> from + i]
SGo(r, pc) == sreq' = [sreq EXCEPT ![r].pc = pc]
SOver(r, pc) == sreq' = [sreq EXCEPT ![r] = [Waiting EXCEPT !.pc = pc, !.op = sreq[r].op,
                                                            !.out = sreq[r].out, !.key = sreq[r].key]]

(* The BEFORE DELETE triggers: a row takes its large object with it.         *)
Unlink(oids) == /\ lobj' = lobj \ oids
                /\ bytes' = [r \in StReqs |-> IF r \in oids THEN <<>> ELSE bytes[r]]

(* DELETE of the session row, whoever asks for it.                           *)
DropUpload == /\ upload' = NoUpload
              /\ Unlink({upload.oid} \ {NoReq})
              /\ UNCHANGED file

expired(at) == upload.st # "none" /\ upload.until <= at
(* A statement that touches the row waits for its lock.                      *)
Unlocked == rowLock = NoReq

SBegin(r, op, off, key) ==
    /\ sreq[r].pc = "idle" /\ op \in stDuty[r]
    /\ sreq' = [sreq EXCEPT ![r] = [Waiting EXCEPT !.op = op, !.pc = "start", !.off = off, !.key = key]]
    /\ UNCHANGED <<tables, ticket, rowLock>>

(* require_write, validate_name, validate_file_size and the header checks    *)
(* refuse a request before it touches a row: such requests are not started.  *)
SStart(r) ==
    \/ \E op \in {"create", "complete", "cancel", "put", "ipcPut"} : SBegin(r, op, 0, NoReq)
    \/ \E off \in 0..FileUnits : SBegin(r, "append", off, NoReq)
    \/ \E op \in {"get", "delete", "ipcGet"}, f \in StReqs : file[f].st # "none" /\ SBegin(r, op, 0, f)
    \/ \E n \in StReqs : /\ ticket[n].kind = "put" /\ SBegin(r, "noncePut", 0, n)
    \/ \E n \in StReqs : /\ ticket[n].kind = "get" /\ SBegin(r, "nonceGet", 0, n)

-----------------------------------------------------------------------------
(* Resumable uploads.                                                       *)

(* The transaction of create_upload opens and takes the advisory lock on the *)
(* upload id; a second creator waits here.                                   *)
createLock(r) ==
    /\ sreq[r].op = "create" /\ sreq[r].pc = "start"
    /\ ~\E o \in StReqs : sreq[o].op = "create" /\ sreq[o].pc = "locked"
    /\ sreq' = [sreq EXCEPT ![r].pc = "locked", ![r].at = tick]
    /\ UNCHANGED <<tables, ticket, rowLock>>

(* DELETE expired sessions, look the id up, lo_create and INSERT: a retry of *)
(* the same creation gets the session that exists.                           *)
create_upload(r) ==
    /\ sreq[r].op = "create" /\ sreq[r].pc = "locked"
    /\ expired(sreq[r].at) => Unlocked
    /\ LET kept == upload.st # "none" /\ ~expired(sreq[r].at)
       IN  \/ kept /\ UNCHANGED tables
           \/ /\ ~kept
              /\ lobj' = (lobj \ {upload.oid}) \cup {r}
              /\ bytes' = [o \in StReqs |-> IF o \in {upload.oid, r} THEN <<>> ELSE bytes[o]]
              /\ upload' = [st |-> "active", size |-> 0, oid |-> r, file |-> NoReq,
                            until |-> sreq[r].at + 1]
              /\ UNCHANGED file
    /\ SOver(r, "done")
    /\ UNCHANGED <<ticket, rowLock>>

Transferring == {o \in StReqs : sreq[o].op \in {"append", "complete"}
                                /\ sreq[o].pc \in {"slot", "stream"}}

(* acquire_transfer_slot, then the transaction begins.                       *)
acquire_transfer_slot(r) ==
    /\ sreq[r].op \in {"append", "complete"} /\ sreq[r].pc = "start"
    /\ Cardinality(Transferring) < Slots
    /\ sreq' = [sreq EXCEPT ![r].pc = "slot", ![r].at = tick]
    /\ UNCHANGED <<tables, ticket, rowLock>>

(* select_locked_upload: the predicate is evaluated again on the row as it   *)
(* is once the lock is granted.                                              *)
visible(r) == upload.st # "none" /\ ~expired(sreq[r].at)

offsetMatchesAny(r) == TRUE
offsetMatches(r) == sreq[r].off = upload.size

(* lock_upload and the offset check.                                         *)
lock_upload(r) ==
    /\ sreq[r].op = "append" /\ sreq[r].pc = "slot"
    /\ Unlocked
    /\ IF visible(r) /\ upload.st = "active" /\ offsetMatches(r)
         THEN SGo(r, "stream") /\ rowLock' = r
         ELSE SOver(r, "failed") /\ UNCHANGED rowLock
    /\ UNCHANGED <<tables, ticket>>

(* One piece of the body; too much of it is an error.                        *)
streamPiece(r) ==
    /\ sreq[r].op = "append" /\ sreq[r].pc = "stream"
    /\ IF sreq[r].got + 1 > ChunkUnits \/ sreq[r].off + sreq[r].got + 1 > FileUnits
         THEN SOver(r, "failed") /\ rowLock' = NoReq
         ELSE sreq' = [sreq EXCEPT ![r].got = @ + 1] /\ UNCHANGED rowLock
    /\ UNCHANGED <<tables, ticket>>

(* LargeObjectAppender: seek to the size read under the lock, write from     *)
(* there; buffered or flushed, the bytes are the transaction's.              *)
appenderCommit(r) ==
    bytes' = [bytes EXCEPT ![upload.oid] = SubSeq(@, 1, upload.size)
                                           \o Units(sreq[r].off, sreq[r].got)]

(* The end of the body: the new size, the new expiry and the bytes commit    *)
(* together.                                                                 *)
append_chunk(r) ==
    /\ sreq[r].op = "append" /\ sreq[r].pc = "stream" /\ sreq[r].got > 0
    /\ appenderCommit(r)
    /\ upload' = [upload EXCEPT !.size = @ + sreq[r].got, !.until = sreq[r].at + 1]
    /\ rowLock' = NoReq
    /\ SOver(r, "done")
    /\ UNCHANGED <<lobj, file, ticket>>

(* INSERT into files and UPDATE of the session: the file takes the object.   *)
handOver(r) ==
    /\ upload' = [upload EXCEPT !.st = "complete", !.oid = NoReq, !.file = r, !.until = sreq[r].at + 1]
    /\ file' = [file EXCEPT ![r] = [st |-> "stored", oid |-> upload.oid, size |-> upload.size]]
    /\ UNCHANGED <<lobj, bytes>>

(* It reads `size` bytes and fails on a shorter object.                      *)
checksum_in_transaction(oid, size) == Len(bytes[oid]) >= size

(* complete_upload, one transaction under the row lock.                      *)
complete_upload(r) ==
    /\ sreq[r].op = "complete" /\ sreq[r].pc = "slot"
    /\ Unlocked
    /\ \/ /\ visible(r) /\ upload.st = "complete"
          /\ SOver(r, "done") /\ UNCHANGED tables
       \/ /\ visible(r) /\ upload.st = "active"
          /\ upload.size = FileUnits /\ checksum_in_transaction(upload.oid, upload.size)
          /\ handOver(r) /\ SOver(r, "done")
       \/ /\ visible(r) /\ upload.st = "active" => upload.size # FileUnits
          /\ visible(r) => upload.st = "active"
          /\ SOver(r, "failed") /\ UNCHANGED tables
    /\ UNCHANGED <<ticket, rowLock>>

cancel_upload(r) ==
    /\ sreq[r].op = "cancel" /\ sreq[r].pc = "start"
    /\ Unlocked
    /\ IF upload.st = "active" /\ ~expired(tick)
         THEN DropUpload /\ SOver(r, "done")
         ELSE SOver(r, "failed") /\ UNCHANGED tables
    /\ UNCHANGED <<ticket, rowLock>>

(* The hourly cleanup_expired.                                               *)
cleanup_expired ==
    /\ expired(tick) /\ Unlocked
    /\ DropUpload
    /\ UNCHANGED <<ticket, rowLock, sreq>>

(* ON DELETE CASCADE from the app or from the uploader.                      *)
cascade ==
    /\ upload.st # "none" /\ Unlocked
    /\ DropUpload
    /\ UNCHANGED <<ticket, rowLock, sreq>>

-----------------------------------------------------------------------------
(* One-shot uploads, nonces, downloads, deletion.                           *)

(* NonceStore::create, create_download: sweep the expired, insert one.       *)
created(r, kind) ==
    [n \in StReqs |-> IF n = r THEN [kind |-> kind, file |-> sreq[r].key, until |-> tick + 1]
                      ELSE IF ticket[n].until > tick THEN ticket[n] ELSE NoTicket]

(* InboundMessage::StorageUpload and StorageDownload.                        *)
mint(r) ==
    /\ sreq[r].op \in {"ipcPut", "ipcGet"} /\ sreq[r].pc = "start"
    /\ IF sreq[r].op = "ipcGet" /\ file[sreq[r].key].st = "none"
         THEN SOver(r, "failed") /\ UNCHANGED ticket
         ELSE /\ ticket' = created(r, IF sreq[r].op = "ipcPut" THEN "put" ELSE "get")
              /\ SOver(r, "done")
    /\ UNCHANGED <<tables, rowLock>>

(* NonceStore::consume and consume_download: removed, and refused if late.   *)
consume(r) ==
    /\ sreq[r].op \in {"noncePut", "nonceGet"} /\ sreq[r].pc = "start"
    /\ ticket' = [ticket EXCEPT ![sreq[r].key] = NoTicket]
    /\ IF ticket[sreq[r].key].kind = "none" \/ tick > ticket[sreq[r].key].until
         THEN SOver(r, "failed")
         ELSE sreq' = [sreq EXCEPT ![r].pc = IF sreq[r].op = "noncePut" THEN "write" ELSE "row"]
    /\ UNCHANGED <<tables, rowLock>>

(* upload_file and upload_via_nonce: LargeObjectWriter::create, one write per*)
(* piece of the body, all in one transaction.                                *)
writePiece(r) ==
    /\ sreq[r].op \in {"put", "noncePut"}
    /\ sreq[r].pc = (IF sreq[r].op = "put" /\ sreq[r].got = 0 THEN "start" ELSE "write")
    /\ IF sreq[r].got + 1 > StoreUnits
         THEN SOver(r, "failed")
         ELSE sreq' = [sreq EXCEPT ![r].pc = "write", ![r].got = @ + 1]
    /\ UNCHANGED <<tables, ticket, rowLock>>

(* LargeObjectWriter: lo_create, buffered writes and commit.                 *)
writerCommit(r) == /\ lobj' = lobj \cup {r}
                   /\ bytes' = [bytes EXCEPT ![r] = Units(0, sreq[r].got)]

(* PostgresBackend::finish: the row and the object commit together.          *)
finish(r) ==
    /\ sreq[r].op \in {"put", "noncePut"} /\ sreq[r].pc = "write" /\ sreq[r].got > 0
    /\ writerCommit(r)
    /\ file' = [file EXCEPT ![r] = [st |-> "stored", oid |-> r, size |-> sreq[r].got]]
    /\ SOver(r, "done")
    /\ UNCHANGED <<upload, ticket, rowLock>>

(* get_file and download_via_nonce: the file's row is its own statement.     *)
readRow(r) ==
    /\ \/ sreq[r].op = "get" /\ sreq[r].pc = "start"
       \/ sreq[r].op = "nonceGet" /\ sreq[r].pc = "row"
    /\ LET f == file[sreq[r].key] IN
         IF f.st = "none"
           THEN SOver(r, "failed")
           ELSE sreq' = [sreq EXCEPT ![r].pc = "open", ![r].off = f.size, ![r].key = f.oid]
    /\ UNCHANGED <<tables, ticket, rowLock>>

(* LargeObjectReader: lo_open fails if the object went meanwhile, otherwise  *)
(* its snapshot holds to the end of the stream; a short object is an error.  *)
readable(oid, size) == oid \in lobj /\ Len(bytes[oid]) >= size

(* PostgresBackend::open, after the row.                                     *)
readObject(r) ==
    /\ sreq[r].pc = "open"
    /\ IF readable(sreq[r].key, sreq[r].off)
         THEN sreq' = [sreq EXCEPT ![r] = [Waiting EXCEPT !.op = "get", !.pc = "read",
                            !.off = sreq[r].off, !.out = SubSeq(bytes[sreq[r].key], 1, sreq[r].off)]]
         ELSE SOver(r, "failed")
    /\ UNCHANGED <<tables, ticket, rowLock>>

(* DELETE FROM files: its trigger unlinks, completed sessions go with it.    *)
delete_file(r) ==
    /\ sreq[r].op = "delete" /\ sreq[r].pc = "start"
    /\ LET f == sreq[r].key IN
         IF file[f].st = "none"
           THEN SOver(r, "failed") /\ UNCHANGED tables
           ELSE /\ upload.file = f => Unlocked
                /\ Unlink({file[f].oid})
                /\ file' = [file EXCEPT ![f] = NoFile]
                /\ upload' = IF upload.file = f THEN NoUpload ELSE upload
                /\ SOver(r, "done")
    /\ UNCHANGED <<ticket, rowLock>>

(* The client goes away or a statement fails: the handler's future is        *)
(* dropped, its transaction rolls back, its permit returns.                  *)
interrupted(r) ==
    /\ sreq[r].pc \in {"locked", "slot", "stream", "write", "open"}
    /\ rowLock' = IF rowLock = r THEN NoReq ELSE rowLock
    /\ SOver(r, "failed")
    /\ UNCHANGED <<tables, ticket>>

-----------------------------------------------------------------------------
Handle(r) == \/ createLock(r) \/ create_upload(r) \/ acquire_transfer_slot(r) \/ lock_upload(r)
             \/ streamPiece(r) \/ append_chunk(r) \/ complete_upload(r) \/ cancel_upload(r)
             \/ mint(r) \/ consume(r) \/ writePiece(r) \/ finish(r)
             \/ readRow(r) \/ readObject(r) \/ delete_file(r)

StoreInit ==
    /\ stDuty \in StDuties
    /\ lobj = {} /\ bytes = [r \in StReqs |-> <<>>]
    /\ upload = NoUpload
    /\ file = [r \in StReqs |-> NoFile]
    /\ ticket = [r \in StReqs |-> NoTicket]
    /\ tick = 0 /\ rowLock = NoReq
    /\ sreq = [r \in StReqs |-> Waiting]

StoreNext ==
    \/ /\ UNCHANGED <<stDuty, tick>>
       /\ \/ \E r \in StReqs : SStart(r) \/ Handle(r) \/ interrupted(r)
          \/ cleanup_expired \/ cascade
    \/ /\ tick < MaxTick /\ tick' = tick + 1
       /\ UNCHANGED <<stDuty, tables, ticket, rowLock, sreq>>

StoreSpec == StoreInit /\ [][StoreNext]_storeVars

-----------------------------------------------------------------------------
(* Properties.                                                              *)

(* Types, and the bounds of the CHECK on uploaded_size.                      *)
StoreTypeOK ==
    /\ lobj \subseteq StReqs
    /\ upload.st \in {"none", "active", "complete"}
    /\ upload.size \in 0..FileUnits
    /\ rowLock \in StReqs \cup {NoReq}
    /\ \A r \in StReqs : sreq[r].got \in 0..StoreUnits

(* Every large object has exactly one owner, a session or a file, and every  *)
(* owner's object exists: whatever order appends, completions, cancellations,*)
(* expiries, cascades and deletions take, no content is unlinked under a     *)
(* stored file and none is left behind for nobody.                           *)
Holders(o) == {f \in StReqs : file[f].oid = o} \cup (IF upload.oid = o THEN {"session"} ELSE {})
EveryObjectHasOneOwner ==
    /\ \A o \in lobj : Cardinality(Holders(o)) = 1
    /\ \A o \in StReqs \ lobj : Holders(o) = {}

(* What is stored is the client's file: units in their places, none twice,   *)
(* none missing, and as many as the row says, although chunks are retried,   *)
(* raced and cut off in the middle.                                          *)
StoredInOrder ==
    /\ upload.st = "active" => bytes[upload.oid] = Units(0, upload.size)
    /\ \A f \in StReqs : file[f].st = "stored" => bytes[file[f].oid] = Units(0, file[f].size)

(* A download that ends delivered the whole file, even when the file was     *)
(* deleted between the row's statement and the object's, or during it.       *)
DownloadsAreWhole ==
    \A r \in StReqs : sreq[r].pc = "read" => sreq[r].out = Units(0, sreq[r].off)

(* A nonce admits one transfer: two requests never both get past it.         *)
NonceAdmitsOne ==
    \A r, o \in StReqs :
        /\ r # o /\ sreq[r].op = "noncePut" /\ sreq[o].op = "noncePut"
        /\ sreq[r].pc \in {"write", "done"} /\ sreq[o].pc \in {"write", "done"}
        => sreq[r].key # sreq[o].key

(* A file's content is one large object, stored by one transfer, in order, *)
(* and delivered whole.                                                    *)
ObjectsAreWhole ==
    /\ StoreTypeOK
    /\ EveryObjectHasOneOwner
    /\ StoredInOrder
    /\ DownloadsAreWhole
    /\ NonceAdmitsOne
=============================================================================

----------------------------- MODULE FileStorage -----------------------------
(***************************************************************************)
(* One file of a workspace on one device: the operations on its descriptor *)
(* (file_transactions.py), its manifest and chunks in the local databases  *)
(* (client/fs/storage) and the upload of its blocks and versions           *)
(* (workspacefs.py, sync_transactions.py, remote_loader.py).               *)
(*                                                                         *)
(* A transaction on the file runs under the lock of the entry and is one   *)
(* step.  Chunks are written to the data database without a commit; the    *)
(* commit of any manifest commits them as well.  Clean blocks are in a     *)
(* database of their own, which forgets some when it is full.  The upload  *)
(* of the blocks of a version does not hold the lock.                      *)
(***************************************************************************)
EXTENDS FileOperations

CONSTANTS MaxSize,     \* bound on the size of the file
          MaxWrites,   \* bound on the writes and resizes
          MaxUploads,  \* bound on the versions uploaded
          MaxCrashes,  \* bound on the crashes of the client
          CacheLimit   \* block_limit: the number of clean blocks that are kept

VARIABLES file,     \* the manifest in the cache of ManifestStorage
          ahead,    \* _cache_ahead_of_localdb: whether it is to be written, chunks to remove
          disk,     \* the manifest in the data database
          chunks,   \* the chunks of the data database, those not committed included
          onDisk,   \* the chunks committed
          clean,    \* the ids of the blocks in the cache database
          blockStore,    \* the blocks on the server
          versions, \* the manifests on the server
          sync,     \* the task of _sync_by_id
          written,  \* _write_count of the descriptor
          content,  \* what a user expects to read (history)
          saved,    \* what was expected when the manifest was last persisted (history)
          count     \* the bounded numbers of operations

fileVars == <<file, ahead, disk, chunks, onDisk, clean, blockStore, versions, sync, written,
              content, saved, count>>

Empty == [size |-> 0, blocks |-> <<>>, needSync |-> TRUE, base |-> 0]

Idle == [stage |-> "idle", upload |-> Empty, todo |-> <<>>, content |-> <<>>]

FileInit ==
  /\ file = Empty /\ disk = Empty /\ ahead = [on |-> FALSE, removed |-> {}]
  /\ chunks = <<>> /\ onDisk = <<>> /\ clean = {} /\ blockStore = <<>> /\ versions = <<>>
  /\ sync = Idle /\ written = 0 /\ content = <<>> /\ saved = <<>>
  /\ count = [writes |-> 0, crashes |-> 0]

-----------------------------------------------------------------------------
(* The databases *)

WithBlock(f, id, data) == [x \in DOMAIN f \cup {id} |-> IF x = id THEN data ELSE f[x]]
WithoutChunks(f, ids) == [x \in DOMAIN f \ ids |-> f[x]]

\* get_chunk of the workspace storage: the data database, then the blocks.
Local(chs, cl, id) == id \in DOMAIN chs \cup cl
GetChunk(chs, id) == IF id \in DOMAIN chs THEN chs[id] ELSE blockStore[id]

\* _read_chunk and _build_data
ReadChunk(chs, c) ==
  SubSeq(GetChunk(chs, c.id), c.start - c.rawOffset + 1, c.stop - c.rawOffset)
BuildData(chs, source) == FlattenSeq([i \in DOMAIN source |-> ReadChunk(chs, source[i])])

\* Ids are random: a new one is in no database, manifest or version.
FreshId ==
  1 + Max({0} \cup DOMAIN chunks \cup DOMAIN onDisk \cup DOMAIN blockStore \cup ahead.removed
            \cup ManifestIds(file) \cup ManifestIds(disk) \cup ManifestIds(sync.upload)
            \cup UNION {ChunkIds(versions[n].blocks) : n \in DOMAIN versions})

\* The chunks of a prepared operation are written.
WriteChunks(chs, writes, data) ==
  LET of(id) == CHOOSE w \in Range(writes) : w.chunk.id = id
      bytes(w) == PaddedData(data, w.offset, w.offset + w.chunk.stop - w.chunk.start)
      ids == {w.chunk.id : w \in Range(writes)}
  IN  [id \in DOMAIN chs \cup ids |-> IF id \in ids THEN bytes(of(id)) ELSE chs[id]]

\* set_manifest with cache_only: nothing is written yet.
SetCached(m, removed) ==
  /\ file' = m
  /\ ahead' = [on |-> TRUE, removed |-> ahead.removed \cup removed]
  /\ UNCHANGED <<disk, onDisk, saved>>

\* _ensure_manifest_persistent: the manifest is written, the chunks that it no
\* more uses are removed, and the transaction is committed.
Persist(m, chs, removed) ==
  /\ file' = m /\ disk' = m /\ saved' = content
  /\ chunks' = WithoutChunks(chs, removed)
  /\ onDisk' = chunks'
  /\ ahead' = [on |-> FALSE, removed |-> {}]

\* set_chunk of BlockStorage: when there are too many blocks the oldest are
\* removed, with a tenth of the limit more.  The times of access are abstracted:
\* any block but the new one may be the oldest.
SetCleanBlock(id) ==
  LET now   == clean \cup {id}
      extra == Cardinality(now) - CacheLimit
      out   == IF extra > 0 THEN Min({extra + CacheLimit \div 10, Cardinality(now)}) ELSE 0
  IN  clean' \in {kept \in SUBSET now : /\ Cardinality(kept) = Cardinality(now) - out
                                        /\ kept # {} => id \in kept}

\* What _manifest_reshape does: the blocks whose data is there become one chunk.
Reshape(m, chs, id) ==
  LET here(b) == \A c \in Range(m.blocks[b]) : Local(chs, clean, c.id)
      done    == {b \in ToReshape(m) : here(b)}
      op(b)   == PrepareReshape(m, b, id + b - 1)
      copied  == {b \in done : op(b).copied}
      target(new) == CHOOSE b \in copied : op(b).chunk.id = new
  IN  [manifest |-> [m EXCEPT !.blocks = [b \in DOMAIN m.blocks |->
                       IF b \in done THEN <<op(b).chunk>> ELSE m.blocks[b]]],
       chunks   |-> [x \in DOMAIN chs \cup {op(b).chunk.id : b \in copied} |->
                       IF x \in DOMAIN chs THEN chs[x] ELSE BuildData(chs, m.blocks[target(x)])],
       removed  |-> UNION {op(b).removed : b \in done},
       missing  |-> UNION {{c.id : c \in {c \in Range(m.blocks[b]) : ~Local(chs, clean, c.id)}}
                            : b \in ToReshape(m) \ done}]

-----------------------------------------------------------------------------
(* Operations on the descriptor *)

\* The content after n bytes are written at offset, or after a resize.
Overwritten(data, offset) ==
  [i \in 1..Max({Len(content), offset + Len(data)}) |->
     IF i \in offset + 1..offset + Len(data) THEN data[i - offset]
     ELSE IF i \in DOMAIN content THEN content[i] ELSE 0]

Resized(length) ==
  [i \in 1..length |-> IF i \in DOMAIN content THEN content[i] ELSE 0]

\* fd_write: the file is reshaped once a block of data has been written.
Write(offset, n) ==
  LET data == [i \in 1..n |-> 10 * (count.writes + 1) + i]
      op   == PrepareWrite(file, n, offset, FreshId)
      chs  == WriteChunks(chunks, op.writes, data)
      more == written + n + Max({0, offset - file.size})
      full == more >= BlockSize
      r    == Reshape(op.manifest, chs, FreshId + Len(op.writes))
  IN  /\ count.writes < MaxWrites
      /\ chunks' = IF full THEN r.chunks ELSE chs
      /\ SetCached(IF full THEN r.manifest ELSE op.manifest,
                   op.removed \cup (IF full THEN r.removed ELSE {}))
      /\ written' = IF full THEN 0 ELSE more
      /\ content' = Overwritten(data, offset)
      /\ count' = [count EXCEPT !.writes = @ + 1]
      /\ UNCHANGED <<clean, blockStore, versions, sync>>

\* _manifest_resize
ManifestResize(length) ==
  LET op == PrepareResize(file, length, FreshId) IN
  /\ length # file.size
  /\ chunks' = WriteChunks(chunks, op.writes, <<>>)
  /\ SetCached(op.manifest, op.removed)

\* fd_resize
Resize(length) ==
  /\ count.writes < MaxWrites
  /\ ManifestResize(length)
  /\ content' = Resized(length)
  /\ count' = [count EXCEPT !.writes = @ + 1]
  /\ UNCHANGED <<clean, blockStore, versions, sync, written>>

\* fd_flush
Flush ==
  LET r == Reshape(file, chunks, FreshId) IN
  /\ ahead.on \/ r.manifest # file
  /\ Persist(r.manifest, r.chunks, ahead.removed \cup r.removed)
  /\ UNCHANGED <<clean, blockStore, versions, sync, written, content, count>>

\* fd_close
CloseFile ==
  /\ ahead.on
  /\ Persist(file, chunks, ahead.removed)
  /\ written' = 0
  /\ UNCHANGED <<clean, blockStore, versions, sync, content, count>>

\* load_block, for a read or a reshape that misses it.
LoadBlock(id) ==
  /\ id \in DOMAIN blockStore
  /\ SetCleanBlock(id)
  /\ UNCHANGED <<file, ahead, disk, chunks, onDisk, blockStore, versions, written, content, saved, count>>

\* fd_read downloads the blocks that it misses.
ReadMissing(id) ==
  /\ id \in ManifestIds(file) /\ ~Local(chunks, clean, id)
  /\ LoadBlock(id)
  /\ UNCHANGED sync

\* Another transaction of the data database is committed (of another file, or
\* before a vacuum), and with it the chunks written so far.
CommitChunks ==
  /\ onDisk # chunks
  /\ onDisk' = chunks
  /\ UNCHANGED <<file, ahead, disk, chunks, clean, blockStore, versions, sync, written, content, saved, count>>

\* The client dies, or closes its database after an operational error: what is
\* not committed is gone.
CrashStorage ==
  /\ count.crashes < MaxCrashes
  /\ file' = disk /\ chunks' = onDisk /\ content' = saved
  /\ ahead' = [on |-> FALSE, removed |-> {}]
  /\ sync' = Idle /\ written' = 0
  /\ count' = [count EXCEPT !.crashes = @ + 1]
  /\ UNCHANGED <<disk, onDisk, clean, blockStore, versions, saved>>

-----------------------------------------------------------------------------
(* Synchronization *)

\* from_remote: the blocks of the version n.
FileFromRemote(n) ==
  [size |-> versions[n].size, blocks |-> [b \in DOMAIN versions[n].blocks |-> <<versions[n].blocks[b]>>],
   needSync |-> FALSE, base |-> n]

\* merge_manifests with the version n of this device (0: none was loaded).
MergeFile(m, n) ==
  IF n <= m.base THEN m
  ELSE IF ~m.needSync \/ (IsReshaped(m) /\ [m EXCEPT !.needSync = FALSE, !.base = n] = FileFromRemote(n))
       THEN FileFromRemote(n)
       ELSE [m EXCEPT !.base = n]

\* synchronization_step
SyncStep(n, final) ==
  LET quick == ~final /\ ~IsReshaped(file)
      r     == Reshape(file, chunks, FreshId)
      m     == IF quick THEN r.manifest ELSE file
      new   == MergeFile(m, n)
  IN  IF quick /\ r.missing # {}
      THEN /\ Persist(m, r.chunks, ahead.removed \cup r.removed)
           /\ sync' = [Idle EXCEPT !.stage = "reshape", !.todo = SetToSeq(r.missing)]
      ELSE /\ IF quick \/ new # m
              THEN Persist(new, IF quick THEN r.chunks ELSE chunks,
                           ahead.removed \cup (IF quick THEN r.removed ELSE {}))
              ELSE UNCHANGED <<file, ahead, disk, chunks, onDisk, saved>>
           /\ sync' = IF final \/ ~new.needSync THEN Idle
                      ELSE [stage |-> "blocks", upload |-> new, content |-> content,
                            todo |-> [b \in DOMAIN new.blocks |-> new.blocks[b][1].id]]

\* The version on the server is loaded if it may have changed.
SyncStart(changed) ==
  /\ sync.stage = "idle" /\ file.needSync
  /\ Len(versions) < MaxUploads
  /\ SyncStep(IF changed THEN Len(versions) ELSE 0, FALSE)
  /\ UNCHANGED <<clean, blockStore, versions, written, content, count>>

\* file_reshape loads the missing blocks, then all starts again.
SyncReshape ==
  /\ sync.stage = "reshape"
  /\ IF sync.todo = <<>>
     THEN SyncStep(Len(versions), FALSE) /\ UNCHANGED <<clean, blockStore, versions, written, content, count>>
     ELSE LoadBlock(Head(sync.todo)) /\ sync' = [sync EXCEPT !.todo = Tail(@)]

\* upload_block: what is uploaded moves from the data database to the cache.
UploadBlock(id) ==
  /\ blockStore' = WithBlock(blockStore, id, chunks[id])
  /\ SetCleanBlock(id)
  /\ chunks' = WithoutChunks(chunks, {id})

\* _upload_blocks: a block that is not in the data database is taken for one
\* that has been uploaded.
UploadBlocks ==
  /\ sync.stage = "blocks" /\ sync.todo # <<>>
  /\ LET id == Head(sync.todo) IN
     IF id \in DOMAIN chunks THEN UploadBlock(id) ELSE UNCHANGED <<blockStore, clean, chunks>>
  /\ sync' = [sync EXCEPT !.todo = Tail(@)]
  /\ UNCHANGED <<file, ahead, disk, onDisk, versions, written, content, saved, count>>

Uploadable == sync.stage = "blocks" /\ sync.todo = <<>>

NewVersion ==
  [size |-> sync.upload.size, content |-> sync.content,
   blocks |-> [b \in DOMAIN sync.upload.blocks |-> sync.upload.blocks[b][1]]]

UploadManifest ==
  /\ Uploadable /\ sync.upload.base = Len(versions)
  /\ versions' = Append(versions, NewVersion)
  /\ sync' \in {[Idle EXCEPT !.stage = "ack"], Idle}  \* acknowledged, or the answer is lost
  /\ UNCHANGED <<file, ahead, disk, chunks, onDisk, clean, blockStore, written, content, saved, count>>

\* The server has a later version already: it is loaded and merged.
UploadRefused ==
  /\ Uploadable /\ sync.upload.base # Len(versions)
  /\ SyncStep(Len(versions), FALSE)
  /\ UNCHANGED <<clean, blockStore, versions, written, content, count>>

Acknowledge ==
  /\ sync.stage = "ack"
  /\ SyncStep(Len(versions), TRUE)
  /\ UNCHANGED <<clean, blockStore, versions, written, content, count>>

\* A request fails.
SyncFails ==
  /\ sync.stage \in {"reshape", "blocks"}
  /\ sync' = Idle
  /\ UNCHANGED <<file, ahead, disk, chunks, onDisk, clean, blockStore, versions, written, content, saved, count>>

FileNext ==
  \/ \E offset \in 0..MaxSize, n \in 1..MaxSize : offset + n <= MaxSize /\ Write(offset, n)
  \/ \E length \in 0..MaxSize : Resize(length)
  \/ Flush \/ CloseFile \/ CommitChunks \/ CrashStorage
  \/ \E id \in ManifestIds(file) : ReadMissing(id)
  \/ \E changed \in BOOLEAN : SyncStart(changed)
  \/ SyncReshape \/ UploadBlocks \/ UploadManifest \/ UploadRefused \/ Acknowledge \/ SyncFails

FileSpec == FileInit /\ [][FileNext]_fileVars

-----------------------------------------------------------------------------
(* Properties *)

\* The manifests in the cache and on disk pass assert_integrity, the one that
\* is uploaded is reshaped as to_remote asserts, and the numbers are in range.
FileTypeOK ==
  /\ AssertIntegrity(file) /\ AssertIntegrity(disk)
  /\ sync.stage = "blocks" => AssertIntegrity(sync.upload) /\ IsReshaped(sync.upload)
  /\ file.base \in 0..Len(versions) /\ Cardinality(clean) <= CacheLimit
  /\ clean \subseteq DOMAIN blockStore /\ written \in 0..BlockSize - 1

ChunksAreKept ==
  \A c \in Range(FlattenSeq(file.blocks)) :
    Local(chunks, clean, c.id) \/ (c.access /\ c.id \in DOMAIN blockStore)

\* A chunk that is not on this device has a block access, as _build_data
\* asserts, and the block is on the server: while the client does not crash no part
\* of the file is ever lost, whatever is overwritten, reshaped, uploaded or removed
\* from the databases.  (A crash in the middle of an upload may lose one: the chunk
\* of a block that was uploaded is removed before the manifest knows its access.)
NoChunkLost == count.crashes = 0 => ChunksAreKept

\* Whatever part of the file is read is what was written there last, null bytes
\* where nothing was written: prepare_read over all that prepare_write,
\* prepare_resize and prepare_reshape did.
ReadsBack ==
  ChunksAreKept =>
    \A offset \in 0..file.size : \A size \in 1..file.size - offset + 1 :
      BuildData(chunks, PrepareRead(file, size, offset))
        = SubSeq(content, Min({offset, file.size}) + 1, Min({offset + size, file.size}))

\* The committed manifest never refers to a chunk that is not committed, which
\* _manage_operational_error warns of: after a crash the file is as it was when
\* its manifest was last persisted.
DiskIsConsistent ==
  /\ \A c \in Range(FlattenSeq(disk.blocks)) : c.id \in DOMAIN onDisk \cup DOMAIN blockStore
  /\ BuildData(onDisk, FlattenSeq(disk.blocks)) = saved

\* Once a device has nothing more to synchronize, the last version has all of
\* its blocks on the server and they hold what the user wrote.
SyncedIsOnServer ==
  ~file.needSync /\ file.base = Len(versions) =>
    LET v == Last(versions) IN
    /\ \A b \in DOMAIN v.blocks : v.blocks[b].id \in DOMAIN blockStore
    /\ FlattenSeq([b \in DOMAIN v.blocks |-> blockStore[v.blocks[b].id]]) = content

\* Every version that is uploaded can be read: _sync_by_id promises that any
\* change prior to the call is saved remotely when it returns.
VersionsAreComplete ==
  \A n \in DOMAIN versions : \A b \in DOMAIN versions[n].blocks :
    versions[n].blocks[b].id \in DOMAIN blockStore

\* The content of a file through writes, reshaping, upload, eviction and a crash: what was
\* written is read back, no chunk that is needed is lost, the disk is consistent, and a file
\* that needs no synchronization is on the server.
FileIsSound ==
  FileTypeOK /\ NoChunkLost /\ ReadsBack /\ DiskIsConsistent /\ SyncedIsOnServer
=============================================================================

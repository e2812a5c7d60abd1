----------------------------- MODULE EntrySync -----------------------------
(***************************************************************************)
(* The synchronization of one entry (file, folder or workspace manifest)   *)
(* between the devices of a workspace and the server: the loop of          *)
(* WorkspaceFS._sync_by_id, minimal_sync, the merge of merge_manifests and *)
(* the resolution of file conflicts, against a server that keeps versions  *)
(* (module Vlob).                                                          *)
(*                                                                         *)
(* The content of a manifest is abstracted to the set of edits it          *)
(* reflects.  A folder merge reflects the edits of both sides.  A request  *)
(* whose answer never comes is given up by the client and may still reach  *)
(* the server: it moves to late.  A crash brings a device back to what its *)
(* local database holds.                                                   *)
(***************************************************************************)
EXTENDS Naturals, Sequences, FiniteSets

CONSTANTS
  Devices,      \* the devices that access the workspace
  Creator,      \* the device that created the entry
  Kind,         \* "folder" or "file"
  Edits,        \* the edits users make
  MaxVersion,   \* bound: versions of the entry on the server
  MaxGiveUps,   \* bound: requests whose answer does not come
  MaxCrashes    \* bound: crashes of a device

ASSUME DeviceAssumption == Creator \in Devices
ASSUME KindAssumption == Kind \in {"folder", "file"}
ASSUME BoundAssumption ==
  MaxVersion \in Nat /\ MaxGiveUps \in Nat /\ MaxCrashes \in Nat

VARIABLES
  vlob,        \* the versions of the entry on the server
  local,       \* local[d]: the manifest of the entry in the cache of device d
  disk,        \* disk[d]: the manifest in the local database of d
  has,         \* the devices that hold the entry locally
  published,   \* the parent (or the sharing) that makes the entry visible is out
  task,        \* task[d]: the sync task of d, under the sync lock of the entry
  mini,        \* mini[d]: a minimal_sync of d, which takes no sync lock
  late,        \* requests given up that may still reach the server
  backup,      \* edits saved in the files file_conflict creates
  made,        \* the edits made so far
  giveUps, crashes

vars == <<vlob, local, disk, has, published, task, mini, late, backup, made,
          giveUps, crashes>>

-----------------------------------------------------------------------------
(* Manifests *)

\* A remote manifest, as downloaded or about to be uploaded.  Version 0 stands
\* for "no remote manifest".
Remote(version, author, content) ==
  [version |-> version, author |-> author, content |-> content]

NoRemote == Remote(0, Creator, {})

\* What the server returns for the last version of the entry.
Latest == IF vlob = <<>> THEN NoRemote
          ELSE Remote(Len(vlob), vlob[Len(vlob)].author, vlob[Len(vlob)].content)

\* The local manifest: base.version, need_sync, the edits it reflects, and for a
\* file whether it is reshaped (each block made of one chunk).
Manifest == [base : Nat, need : BOOLEAN, content : SUBSET Edits, reshaped : BOOLEAN]

\* from_remote.
FromRemote(remote) ==
  [base |-> remote.version, need |-> FALSE, content |-> remote.content, reshaped |-> TRUE]

\* to_remote: the manifest to upload is the next version.
ToRemote(d, l) == Remote(l.base + 1, d, l.content)

MatchRemote(l, remote) == l.reshaped /\ l.content = remote.content

\* A merge of two versions of a file is refused.
FileConflict(d, l, remote) ==
  /\ Kind = "file"
  /\ remote.version > l.base
  /\ l.need
  /\ ~MatchRemote(l, remote)
  /\ remote.author # d

\* Mutant: the version is not recorded as the new base.
AcknowledgeKeepsBase(l, remote) == l

\* "The remote changes are ours, simply acknowledge them and keep our local changes"
Acknowledge(l, remote) == [l EXCEPT !.base = remote.version]

\* Mutant: the other side wins a folder conflict.
MergeFolderTheirs(l, remote) == FromRemote(remote)

\* merge_folder_children, then evolve_and_mark_updated.
MergeFolder(l, remote) ==
  [base |-> remote.version, need |-> TRUE, content |-> l.content \cup remote.content,
   reshaped |-> TRUE]

\* merge_manifests (where it does not raise FSFileConflictError).
MergeManifests(d, l, remote) ==
  CASE remote.version <= l.base -> l
    [] remote.version > l.base /\ (~l.need \/ MatchRemote(l, remote)) -> FromRemote(remote)
    [] remote.version > l.base /\ l.need /\ ~MatchRemote(l, remote) /\ remote.author = d ->
         Acknowledge(l, remote)
    [] OTHER -> MergeFolder(l, remote)

-----------------------------------------------------------------------------
(* The user *)

\* evolve_and_mark_updated.
Updated(l, e, reshaped) ==
  [l EXCEPT !.need = TRUE, !.content = l.content \cup {e}, !.reshaped = reshaped]

\* A transaction changes the entry under its lock.  Folder transactions write
\* the local database at once, file writes stay in the cache (cache_only) and may
\* leave the file to be reshaped.
Edit(d, e, reshaped) ==
  /\ d \in has
  /\ e \in Edits \ made
  /\ task[d].pc # "reset"
  /\ reshaped \/ Kind = "file"
  /\ local' = [local EXCEPT ![d] = Updated(local[d], e, reshaped)]
  /\ disk' = IF Kind = "folder" THEN [disk EXCEPT ![d] = local'[d]] ELSE disk
  /\ made' = made \cup {e}
  /\ UNCHANGED <<vlob, has, published, task, mini, late, backup, giveUps, crashes>>

\* fd_flush and fd_close write the cached manifest to the local database.
Flush(d) ==
  /\ d \in has
  /\ disk[d] # local[d]
  /\ task[d].pc # "reset"
  /\ disk' = [disk EXCEPT ![d] = local[d]]
  /\ UNCHANGED <<vlob, local, has, published, task, mini, late, backup, made, giveUps, crashes>>

\* The parent manifest that names the entry is uploaded, or the workspace is
\* shared: both come after a minimal_sync of the entry.
Publish ==
  /\ ~published
  /\ local[Creator].base > 0
  /\ published' = TRUE
  /\ UNCHANGED <<vlob, local, disk, has, task, mini, late, backup, made, giveUps, crashes>>

\* Another device opens the entry: it downloads the manifest and stores it.
Fetch(d) ==
  /\ published
  /\ d \notin has
  /\ has' = has \cup {d}
  /\ local' = [local EXCEPT ![d] = FromRemote(Latest)]
  /\ disk' = [disk EXCEPT ![d] = FromRemote(Latest)]
  /\ UNCHANGED <<vlob, published, task, mini, late, backup, made, giveUps, crashes>>

-----------------------------------------------------------------------------
(* The server *)

\* Mutant: an update is accepted whatever version it was built on.
AcceptsAnyVersion(req) == TRUE

\* vlob_create wants no version yet, vlob_update the version after the last one.
Accepts(req) == req.version = Len(vlob) + 1

Stored(req) == Append(vlob, [author |-> req.author, content |-> req.content])

\* A request its client has given up reaches the server.
LateDelivery(req) ==
  /\ req \in late
  /\ Len(vlob) < MaxVersion
  /\ late' = late \ {req}
  /\ vlob' = IF Accepts(req) THEN Stored(req) ELSE vlob
  /\ UNCHANGED <<local, disk, has, published, task, mini, backup, made, giveUps, crashes>>

-----------------------------------------------------------------------------
(* sync_by_id *)

Idle == [pc |-> "idle", remote |-> NoRemote, final |-> FALSE]

\* The sync lock is taken; the remote manifest is downloaded if it has changed.
SyncStart(d, remoteChanged) ==
  /\ d \in has
  /\ task[d].pc = "idle"
  /\ task' = [task EXCEPT ![d] =
       [pc |-> "step", remote |-> IF remoteChanged THEN Latest ELSE NoRemote, final |-> FALSE]]
  /\ UNCHANGED <<vlob, local, disk, has, published, mini, late, backup, made, giveUps, crashes>>

\* synchronization_step first reshapes a file, which also flushes it.
Reshaped(l, final) == IF final THEN l ELSE [l EXCEPT !.reshaped = TRUE]

\* The local manifest and the database after synchronization_step: the merged
\* manifest is stored only when it differs.
StepStores(d, remote, final) ==
  LET l == Reshaped(local[d], final)
      new == MergeManifests(d, l, remote)
  IN  /\ local' = [local EXCEPT ![d] = new]
      /\ disk' = IF new # local[d] THEN [disk EXCEPT ![d] = new] ELSE disk

SyncStep(d) ==
  LET t == task[d]
      l == Reshaped(local[d], t.final)
  IN  /\ t.pc = "step"
      /\ ~FileConflict(d, l, t.remote)
      /\ StepStores(d, t.remote, t.final)
      /\ task' = [task EXCEPT ![d] =
           IF t.final \/ ~local'[d].need THEN Idle
           ELSE [pc |-> "upload", remote |-> ToRemote(d, local'[d]), final |-> FALSE]]
      /\ UNCHANGED <<vlob, has, published, mini, late, backup, made, giveUps, crashes>>

\* upload_manifest succeeds: one last step acknowledges the new version.
SyncUpload(d) ==
  /\ task[d].pc = "upload"
  /\ Len(vlob) < MaxVersion
  /\ Accepts(task[d].remote)
  /\ vlob' = Stored(task[d].remote)
  /\ task' = [task EXCEPT ![d].pc = "step", ![d].final = TRUE]
  /\ UNCHANGED <<local, disk, has, published, mini, late, backup, made, giveUps, crashes>>

\* already_exists, bad_version: FSRemoteSyncError, download the latest version.
SyncRefused(d) ==
  /\ task[d].pc = "upload"
  /\ ~Accepts(task[d].remote)
  /\ task' = [task EXCEPT ![d].pc = "reload"]
  /\ UNCHANGED <<vlob, local, disk, has, published, mini, late, backup, made, giveUps, crashes>>

SyncReload(d) ==
  /\ task[d].pc = "reload"
  /\ task' = [task EXCEPT ![d].pc = "step", ![d].remote = Latest]
  /\ UNCHANGED <<vlob, local, disk, has, published, mini, late, backup, made, giveUps, crashes>>

\* The connection breaks (FSBackendOfflineError): the task ends and the request,
\* if there was one, may be lost or arrive later.
SyncGiveUp(d) ==
  /\ task[d].pc \in {"upload", "reload"}
  /\ giveUps < MaxGiveUps
  /\ giveUps' = giveUps + 1
  /\ late' = IF task[d].pc = "upload" THEN late \cup {task[d].remote} ELSE late
  /\ task' = [task EXCEPT ![d] = Idle]
  /\ UNCHANGED <<vlob, local, disk, has, published, mini, backup, made, crashes>>

-----------------------------------------------------------------------------
(* file_conflict: the local version is saved under another name *)

\* FSFileConflictError leaves _sync_by_id, and with it the sync lock.
SyncConflict(d) ==
  /\ task[d].pc = "step"
  /\ FileConflict(d, Reshaped(local[d], task[d].final), task[d].remote)
  /\ local' = [local EXCEPT ![d] = Reshaped(@, task[d].final)]
  /\ disk' = IF local'[d] # local[d] THEN [disk EXCEPT ![d] = local'[d]] ELSE disk
  /\ task' = [task EXCEPT ![d].pc = "conflict"]
  /\ UNCHANGED <<vlob, has, published, mini, late, backup, made, giveUps, crashes>>

\* The new file holds the content the entry has now, not the one at the time of
\* the conflict.
Saved(d) == backup \cup local[d].content

\* file_conflict stores the new file and its parent, holding the entry's lock.
ConflictBackup(d) ==
  /\ task[d].pc = "conflict"
  /\ backup' = Saved(d)
  /\ task' = [task EXCEPT ![d].pc = "reset"]
  /\ UNCHANGED <<vlob, local, disk, has, published, mini, late, made, giveUps, crashes>>

\* Then it sets the entry to the remote version, and the locks are released.
ConflictReset(d) ==
  /\ task[d].pc = "reset"
  /\ local' = [local EXCEPT ![d] = FromRemote(task[d].remote)]
  /\ disk' = [disk EXCEPT ![d] = FromRemote(task[d].remote)]
  /\ task' = [task EXCEPT ![d] = Idle]
  /\ UNCHANGED <<vlob, has, published, mini, late, backup, made, giveUps, crashes>>

-----------------------------------------------------------------------------
(* minimal_sync: upload the empty base of a placeholder as version 1 *)

MiniIdle == [pc |-> "idle", remote |-> NoRemote]

\* get_minimal_remote_manifest.
MiniStart(d) ==
  /\ d \in has
  /\ mini[d].pc = "idle"
  /\ local[d].base = 0
  /\ mini' = [mini EXCEPT ![d] = [pc |-> "upload", remote |-> Remote(1, d, {})]]
  /\ UNCHANGED <<vlob, local, disk, has, published, task, late, backup, made, giveUps, crashes>>

\* The request is answered; when it is refused the remote manifest is downloaded.
MiniUpload(d) ==
  /\ mini[d].pc = "upload"
  /\ IF Accepts(mini[d].remote)
       THEN vlob' = Stored(mini[d].remote) /\ mini' = [mini EXCEPT ![d].pc = "step"]
       ELSE mini' = [mini EXCEPT ![d].pc = "reload"] /\ UNCHANGED vlob
  /\ UNCHANGED <<local, disk, has, published, task, late, backup, made, giveUps, crashes>>

MiniReload(d) ==
  /\ mini[d].pc = "reload"
  /\ mini' = [mini EXCEPT ![d] = [pc |-> "step", remote |-> Latest]]
  /\ UNCHANGED <<vlob, local, disk, has, published, task, late, backup, made, giveUps, crashes>>

\* synchronization_step(final = True).
MiniStep(d) ==
  /\ mini[d].pc = "step"
  /\ task[d].pc # "reset"
  /\ ~FileConflict(d, local[d], mini[d].remote)
  /\ StepStores(d, mini[d].remote, TRUE)
  /\ mini' = [mini EXCEPT ![d] = MiniIdle]
  /\ UNCHANGED <<vlob, has, published, task, late, backup, made, giveUps, crashes>>

MiniGiveUp(d) ==
  /\ mini[d].pc \in {"upload", "reload"}
  /\ giveUps < MaxGiveUps
  /\ giveUps' = giveUps + 1
  /\ late' = IF mini[d].pc = "upload" THEN late \cup {mini[d].remote} ELSE late
  /\ mini' = [mini EXCEPT ![d] = MiniIdle]
  /\ UNCHANGED <<vlob, local, disk, has, published, task, backup, made, crashes>>

-----------------------------------------------------------------------------

\* The process of a device dies; requests on their way may still arrive.
Crash(d) ==
  /\ crashes < MaxCrashes
  /\ crashes' = crashes + 1
  /\ local' = [local EXCEPT ![d] = disk[d]]
  /\ late' = late \cup {t.remote : t \in {x \in {task[d], mini[d]} : x.pc = "upload"}}
  /\ task' = [task EXCEPT ![d] = Idle]
  /\ mini' = [mini EXCEPT ![d] = MiniIdle]
  /\ UNCHANGED <<vlob, disk, has, published, backup, made, giveUps>>

\* The creator holds a placeholder (base version 0), stored in its database.
Placeholder == [base |-> 0, need |-> TRUE, content |-> {}, reshaped |-> TRUE]

Init ==
  /\ vlob = <<>>
  /\ local = [d \in Devices |-> Placeholder]
  /\ disk = local
  /\ has = {Creator}
  /\ published = FALSE
  /\ task = [d \in Devices |-> Idle]
  /\ mini = [d \in Devices |-> MiniIdle]
  /\ late = {}
  /\ backup = {}
  /\ made = {}
  /\ giveUps = 0
  /\ crashes = 0

\* The steps that bring a synchronization forward.
Sync(d) ==
  \/ SyncStep(d) \/ SyncUpload(d) \/ SyncRefused(d) \/ SyncReload(d)
  \/ SyncConflict(d) \/ ConflictBackup(d) \/ ConflictReset(d)

Minimal(d) == MiniStart(d) \/ MiniUpload(d) \/ MiniReload(d) \/ MiniStep(d)

Next ==
  \/ Publish
  \/ \E req \in late : LateDelivery(req)
  \/ \E d \in Devices :
       \/ \E e \in Edits, reshaped \in BOOLEAN : Edit(d, e, reshaped)
       \/ Flush(d) \/ Fetch(d) \/ Crash(d)
       \/ \E remoteChanged \in BOOLEAN : SyncStart(d, remoteChanged)
       \/ Sync(d) \/ SyncGiveUp(d) \/ Minimal(d) \/ MiniGiveUp(d)

Spec == Init /\ [][Next]_vars

\* Tasks run on; the sync monitor keeps syncing entries that need it or whose
\* remote version changed.
Fairness ==
  /\ WF_vars(Publish)
  /\ \A d \in Devices :
       /\ WF_vars(Sync(d))
       /\ WF_vars(Minimal(d))
       /\ SF_vars((local[d].need \/ local[d].base < Len(vlob)) /\ SyncStart(d, TRUE))

FairSpec == Spec /\ Fairness

-----------------------------------------------------------------------------
(* Properties *)

RemoteManifest == [version : Nat, author : Devices, content : SUBSET Edits]

\* Every variable holds a value of its kind.
TypeOK ==
  /\ vlob \in Seq([author : Devices, content : SUBSET Edits])
  /\ local \in [Devices -> Manifest]
  /\ disk \in [Devices -> Manifest]
  /\ has \subseteq Devices
  /\ published \in BOOLEAN
  /\ task \in [Devices ->
       [pc : {"idle", "step", "upload", "reload", "conflict", "reset"},
        remote : RemoteManifest, final : BOOLEAN]]
  /\ mini \in [Devices -> [pc : {"idle", "upload", "reload", "step"}, remote : RemoteManifest]]
  /\ late \subseteq RemoteManifest
  /\ backup \subseteq Edits
  /\ made \subseteq Edits
  /\ giveUps \in Nat /\ crashes \in Nat

\* No version on the server takes back an edit of an earlier one: concurrent edits
\* are merged or set aside, whatever requests are lost, late or repeated and
\* whichever device crashes.
NothingReverted ==
  \A i, j \in DOMAIN vlob : i <= j => vlob[i].content \subseteq vlob[j].content

\* An edit is never lost: it is in the last version on the server, in a local
\* manifest still to be synced, or in the file saved at a conflict.
NoEditLost ==
  \A e \in made :
    \/ e \in Latest.content
    \/ \E d \in has : local[d].need /\ e \in local[d].content
    \/ e \in backup

\* A local manifest with nothing to sync is exactly the version it is based on.
CleanIsRemote ==
  \A d \in has : ~local[d].need =>
    /\ local[d].base \in DOMAIN vlob
    /\ local[d].content = vlob[local[d].base].content

\* The assumption merge_manifests makes when it acknowledges a version of its own:
\* it is the one right after the base, and the local manifest reflects it.
OwnVersionsAreNext ==
  \A d \in has : \A v \in DOMAIN vlob :
    v > local[d].base /\ vlob[v].author = d =>
      v = local[d].base + 1 /\ vlob[v].content \subseteq local[d].content

\* Once the users stop editing and the network works, all devices end up with the
\* last version, nothing left to sync.
Converges == <>[](\A d \in has : ~local[d].need /\ local[d].base = Len(vlob))

=============================================================================

----------------------------- MODULE SyncMonitor -----------------------------
(***************************************************************************)
(* How a device learns that the entries of a workspace have to be          *)
(* synchronized: the sync monitor (sync_monitor.py), the checkpoint and    *)
(* the versions kept in its local storage (manifest_storage.py), its       *)
(* connection (authenticated.py) and the queue of events that the server   *)
(* keeps for it (events.py).                                               *)
(*                                                                         *)
(* A time is "now" (it has come), "later" or "never".  The content of the  *)
(* entries is left to EntrySync: here an entry is a version and whether it *)
(* was modified locally.                                                   *)
(***************************************************************************)
EXTENDS Integers, Sequences, SequencesExt, FiniteSets

CONSTANTS Entries,        \* the entries of the workspace
          QueueLimit,     \* the events that the server keeps for a client
          MaxUploads,     \* bound on the versions uploaded by other devices
          MaxEdits,       \* bound on the local modifications
          MaxDisturbances \* bound on lost connections, maintenances and changes of role

ASSUME SyncMonitorAssumption ==
  QueueLimit \in Nat \ {0} /\ MaxUploads \in Nat /\ MaxEdits \in Nat /\ MaxDisturbances \in Nat

VARIABLES
  realm,    \* on the server: versions, index of the last change of each, role, maintenance
  queue,    \* on the server: whether the client has subscribed, and the events kept for it
  storage,  \* on the device: what was modified, base and remote versions, checkpoint
  status,   \* the status of the connection
  ctx,      \* the sync context of the workspace, if any
  monitorTask,     \* what the monitor is doing
  wakeup,   \* whether early_wakeup is set
  sharing,  \* whether a message about a role or a key waits for the device
  role,     \* the role in the entry of the workspace in the user manifest
  spent     \* uploads, edits and disturbances so far

syncMonVars ==
  <<realm, queue, storage, status, ctx, monitorTask, wakeup, sharing, role, spent>>

Dues == {"now", "later", "never"}
DueRank(due) == CASE due = "now" -> 0 [] due = "later" -> 1 [] due = "never" -> 2
Soonest(dues) == CHOOSE d \in dues : \A o \in dues : DueRank(d) <= DueRank(o)

WorkspaceRoles == {"READER", "CONTRIBUTOR", "none"}
NotPending == "not pending"  \* an entry without a local change

NoContext == [on |-> FALSE, loaded |-> FALSE, readOnly |-> FALSE,
              local |-> [e \in Entries |-> NotPending], remote |-> {}, due |-> "never"]
NewContext(r) == [NoContext EXCEPT !.on = TRUE, !.readOnly = (r = "READER")]

LocalChanges(c) == {e \in Entries : c.local[e] # NotPending}

\* The steps of the monitor; "dead": the context it works on was discarded.
Task(step, boot) == [step |-> step, boot |-> boot, entry |-> "none", dead |-> FALSE,
                     dirtied |-> FALSE, until |-> "never", checkpoint |-> 0,
                     changes |-> [e \in Entries |-> 0],
                     local |-> {}, remote |-> {}]

MonitorOff == Task("off", FALSE)

SyncMonInit ==
  /\ realm = [version |-> [e \in Entries |-> 1], changed |-> [e \in Entries |-> 1],
              index |-> 1, role |-> "CONTRIBUTOR", maintenance |-> FALSE]
  /\ queue = [on |-> FALSE, events |-> <<>>]
  /\ storage = [need |-> {}, base |-> [e \in Entries |-> 1],
                remote |-> [e \in Entries |-> 1], checkpoint |-> 0]
  /\ status = "LOST" /\ ctx = NoContext /\ monitorTask = MonitorOff
  /\ wakeup = FALSE /\ sharing = FALSE /\ role = "CONTRIBUTOR"
  /\ spent = [uploads |-> 0, edits |-> 0, disturbances |-> 0]

-----------------------------------------------------------------------------
(* The server *)

\* _on_realm_events: an event that does not fit in the queue is dropped.
OnRealmEvent(event) ==
  queue' = IF queue.on /\ realm.role # "none" /\ Len(queue.events) < QueueLimit
           THEN [queue EXCEPT !.events = Append(@, event)] ELSE queue

\* A new version of e; the list of changes of the realm keeps one index per entry.
NewVersion(e) == [realm EXCEPT !.version[e] = @ + 1, !.index = @ + 1,
                               !.changed[e] = realm.index + 1]

\* Another device uploads a version of e.
OtherUploads(e) ==
  /\ spent.uploads < MaxUploads /\ ~realm.maintenance
  /\ realm' = NewVersion(e)
  /\ OnRealmEvent(e)
  /\ spent' = [spent EXCEPT !.uploads = @ + 1]
  /\ UNCHANGED <<storage, status, ctx, monitorTask, wakeup, sharing, role>>

\* The role of the user changes, and a message tells the user so.
RoleChanges(r) ==
  /\ spent.disturbances < MaxDisturbances /\ r # realm.role
  /\ realm' = [realm EXCEPT !.role = r]
  /\ sharing' = TRUE
  /\ spent' = [spent EXCEPT !.disturbances = @ + 1]
  /\ UNCHANGED <<queue, storage, status, ctx, monitorTask, wakeup, role>>

\* A maintenance starts; the new key is sent to the user.
MaintenanceStarts ==
  /\ spent.disturbances < MaxDisturbances /\ ~realm.maintenance
  /\ realm' = [realm EXCEPT !.maintenance = TRUE]
  /\ sharing' = TRUE
  /\ spent' = [spent EXCEPT !.disturbances = @ + 1]
  /\ UNCHANGED <<queue, storage, status, ctx, monitorTask, wakeup, role>>

MaintenanceEnds ==
  /\ realm.maintenance
  /\ realm' = [realm EXCEPT !.maintenance = FALSE]
  /\ UNCHANGED <<queue, storage, status, ctx, monitorTask, wakeup, sharing, role, spent>>

-----------------------------------------------------------------------------
(* The connection *)

\* _manager_connect: the events are subscribed to, the monitors bootstrap.
ManagerConnect ==
  /\ status = "LOST"
  /\ queue' = [on |-> TRUE, events |-> <<>>]
  /\ IF role = "none"
     THEN status' = "READY" /\ monitorTask' = Task("wait", FALSE) /\ ctx' = NoContext
     ELSE status' = "INITIALIZING" /\ monitorTask' = Task("poll", TRUE) /\ ctx' = NewContext(role)
  /\ wakeup' = FALSE
  /\ UNCHANGED <<realm, storage, sharing, role, spent>>

\* The connection is lost: the monitor and its contexts are gone.
Disconnected ==
  /\ status' = "LOST" /\ queue' = [on |-> FALSE, events |-> <<>>]
  /\ monitorTask' = MonitorOff /\ ctx' = NoContext /\ wakeup' = FALSE

ConnectionLost ==
  /\ status # "LOST" /\ spent.disturbances < MaxDisturbances
  /\ Disconnected
  /\ spent' = [spent EXCEPT !.disturbances = @ + 1]
  /\ UNCHANGED <<realm, storage, sharing, role>>

-----------------------------------------------------------------------------
(* What the monitor is told *)

ContextOf(c) == IF c.on THEN c ELSE NewContext(role)  \* SyncContextStore.get

\* _trigger_early_wakeup
TriggerWakeup(wake) == wakeup' = (wakeup \/ wake)

\* A change that is due already may be put off, up to MAX_WAIT.
ChangedDue(old) == IF old = "now" THEN {"now", "later"} ELSE {"later"}

SetLocalChange(c, e) ==
  IF c.readOnly THEN ctx' = c /\ TriggerWakeup(FALSE)
  ELSE \E due \in ChangedDue(c.local[e]) :
         LET wake == DueRank(due) <= DueRank(c.due)
         IN  /\ ctx' = [c EXCEPT !.local[e] = due, !.due = IF wake THEN due ELSE @]
             /\ TriggerWakeup(wake)

\* Mutant: the loop is not awakened.
SetRemoteChangeQuiet(c, e) ==
  /\ ctx' = [c EXCEPT !.remote = @ \cup {e}, !.due = "now"]
  /\ TriggerWakeup(FALSE)

SetRemoteChange(c, e) ==
  /\ ctx' = [c EXCEPT !.remote = @ \cup {e}, !.due = "now"]
  /\ TriggerWakeup(TRUE)

MonitorOn == monitorTask.step # "off"

\* The entry e is modified locally; an event tells the monitor, when there is one.
EditEntry(e) ==
  /\ spent.edits < MaxEdits
  /\ storage' = [storage EXCEPT !.need = @ \cup {e}]
  /\ IF MonitorOn THEN SetLocalChange(ContextOf(ctx), e) ELSE UNCHANGED <<ctx, wakeup>>
  /\ monitorTask' = [monitorTask EXCEPT !.dirtied = @ \/ monitorTask.entry = e]
  /\ spent' = [spent EXCEPT !.edits = @ + 1]
  /\ UNCHANGED <<realm, queue, status, sharing, role>>

\* The next event of the server is listened to, which begins after the bootstrap.
ListenEvent ==
  /\ status = "READY" /\ queue.events # <<>>
  /\ SetRemoteChange(ContextOf(ctx), Head(queue.events))
  /\ queue' = [queue EXCEPT !.events = Tail(@)]
  /\ UNCHANGED <<realm, storage, status, monitorTask, sharing, role, spent>>

\* The messages monitor has changed the user manifest (_on_sharing_updated).
SharingUpdated ==
  /\ sharing /\ status # "LOST"
  /\ sharing' = FALSE /\ role' = realm.role
  /\ monitorTask' = [monitorTask EXCEPT !.dead = TRUE]
  /\ IF realm.role = "none" THEN ctx' = NoContext /\ TriggerWakeup(FALSE)
     ELSE ctx' = [NewContext(realm.role) EXCEPT !.due = "now"] /\ TriggerWakeup(TRUE)
  /\ UNCHANGED <<realm, queue, storage, status, spent>>

\* MIN_WAIT, MAINTENANCE_MIN_WAIT... elapse.
Elapse(due) == IF due = "later" THEN "now" ELSE due

TimePasses ==
  /\ "later" \in {ctx.due, monitorTask.until} \cup {ctx.local[e] : e \in Entries}
  /\ ctx' = [ctx EXCEPT !.due = Elapse(@), !.local = [e \in Entries |-> Elapse(@[e])]]
  /\ monitorTask' = [monitorTask EXCEPT !.until = Elapse(@)]
  /\ UNCHANGED <<realm, queue, storage, status, wakeup, sharing, role, spent>>

-----------------------------------------------------------------------------
(* The monitor *)

\* The loop waits until the given time, or an early wake-up; after the bootstrap
\* of the monitors the connection is ready.
WaitUntil(due) ==
  /\ monitorTask' = [Task("wait", FALSE) EXCEPT !.until = due]
  /\ status' = "READY"

\* Mutant: only the remote changes count.
ComputeDueTimeRemote(c, least) == IF c.remote # {} THEN least ELSE "never"

ComputeDueTime(c, least) ==
  LET due == IF c.remote # {} THEN "now"
             ELSE Soonest({"never"} \cup {c.local[e] : e \in LocalChanges(c)})
  IN  IF DueRank(due) < DueRank(least) THEN least ELSE due

\* What the running operation returns: a context that was discarded has no say.
Returned(c) == IF monitorTask.dead THEN "never" ELSE c.due

\* _load_changes, 1): the server answers a poll of the changes.
PollChanges ==
  /\ monitorTask.step = "poll"
  /\ IF realm.role = "none" \/ realm.maintenance THEN WaitUntil(Returned(ctx))
     ELSE /\ monitorTask' = [monitorTask EXCEPT !.step = "store", !.checkpoint = realm.index,
               !.changes = [e \in Entries |->
                 IF realm.changed[e] > storage.checkpoint THEN realm.version[e] ELSE 0]]
          /\ UNCHANGED status
  /\ UNCHANGED <<realm, queue, storage, ctx, wakeup, sharing, role, spent>>

UpdateRealmCheckpoint(changes, checkpoint) ==
  [storage EXCEPT !.checkpoint = checkpoint,
     !.remote = [e \in Entries |-> IF changes[e] # 0 THEN changes[e] ELSE @[e]]]

\* 2): the checkpoint and the versions are stored in one transaction.
StoreChanges ==
  /\ monitorTask.step = "store"
  /\ storage' = UpdateRealmCheckpoint(monitorTask.changes, monitorTask.checkpoint)
  /\ monitorTask' = [monitorTask EXCEPT !.step = "read"]
  /\ UNCHANGED <<realm, queue, status, ctx, wakeup, sharing, role, spent>>

NeedSyncEntries == [local |-> storage.need,
                    remote |-> {e \in Entries : storage.base[e] # storage.remote[e]}]

\* 3): the entries to synchronize are read from the storage...
ReadChanges ==
  /\ monitorTask.step = "read"
  /\ monitorTask' = [monitorTask EXCEPT !.step = "assign", !.local = NeedSyncEntries.local,
                          !.remote = NeedSyncEntries.remote]
  /\ UNCHANGED <<realm, queue, storage, status, ctx, wakeup, sharing, role, spent>>

\* ... and replace the changes of the context, 4) which is due accordingly.
LoadedContext(c) ==
  LET d == [c EXCEPT !.loaded = TRUE, !.remote = monitorTask.remote,
              !.local = IF c.readOnly THEN c.local
                        ELSE [e \in Entries |-> IF e \in monitorTask.local THEN "later" ELSE NotPending]]
  IN  [d EXCEPT !.due = ComputeDueTime(d, "now")]

\* The rest of a tick of the context c.  The remote changes come first, and a
\* change is removed before it is handled; boot tells whether it is a local one.
Pick(c) ==
  \/ \E e \in c.remote :
       /\ ctx' = [c EXCEPT !.remote = @ \ {e}]
       /\ monitorTask' = [Task("sync", FALSE) EXCEPT !.entry = e]
       /\ UNCHANGED status
  \/ /\ c.remote = {}
     /\ \E e \in Entries :
          /\ c.local[e] = "now"
          /\ ctx' = [c EXCEPT !.local[e] = NotPending]
          /\ monitorTask' = [Task("sync", TRUE) EXCEPT !.entry = e]
          /\ UNCHANGED status
  \/ /\ c.remote = {} /\ \A e \in Entries : c.local[e] # "now"
     /\ ctx' = [c EXCEPT !.due = ComputeDueTime(c, "now")]
     /\ WaitUntil(ctx'.due)

AssignChanges ==
  /\ monitorTask.step = "assign"
  /\ IF monitorTask.dead THEN WaitUntil("never") /\ UNCHANGED ctx
     ELSE IF monitorTask.boot THEN ctx' = LoadedContext(ctx) /\ WaitUntil(ctx'.due)
     ELSE Pick(LoadedContext(ctx))
  /\ UNCHANGED <<realm, queue, storage, wakeup, sharing, role, spent>>

\* A tick first loads the changes of a context that has not yet.
Tick ==
  IF ctx.due # "now" THEN WaitUntil(ctx.due) /\ UNCHANGED ctx
  ELSE IF ctx.loaded THEN Pick(ctx)
  ELSE ctx' = [ctx EXCEPT !.due = "never"] /\ monitorTask' = Task("poll", FALSE) /\ UNCHANGED status

\* An early wake-up, or the time has come.
WakeUp ==
  /\ monitorTask.step = "wait"
  /\ (wakeup /\ wakeup' = FALSE) \/ (monitorTask.until = "now" /\ UNCHANGED wakeup)
  /\ Tick
  /\ UNCHANGED <<realm, queue, storage, sharing, role, spent>>

\* The synchronization of the entry ends, as EntrySync describes.
Synced(e) ==
  IF e \in storage.need
  THEN /\ realm' = NewVersion(e)
       /\ storage' = [storage EXCEPT !.base[e] = realm'.version[e], !.remote[e] = realm'.version[e],
                        !.need = IF monitorTask.dirtied THEN @ ELSE @ \ {e}]
  ELSE /\ storage' = [storage EXCEPT !.base[e] = realm.version[e], !.remote[e] = realm.version[e]]
       /\ UNCHANGED realm

\* The change is noted again, as if it had just happened.
PutBack(c) ==
  IF monitorTask.boot THEN [c EXCEPT !.local[monitorTask.entry] = "later"]
  ELSE [c EXCEPT !.remote = @ \cup {monitorTask.entry}]

EntryRefused ==
  \/ realm.role = "none" \/ realm.maintenance
  \/ realm.role = "READER" /\ monitorTask.entry \in storage.need

\* NoWriteAccess forgets a remote change: the local one is noted elsewhere.
AfterRefusal(c) ==
  IF ~realm.maintenance /\ realm.role = "READER" /\ ~monitorTask.boot THEN c ELSE PutBack(c)

TickSync ==
  /\ monitorTask.step = "sync"
  /\ LET c     == IF EntryRefused THEN AfterRefusal(ctx) ELSE ctx
         least == IF EntryRefused THEN "later" ELSE "now"
     IN  /\ IF EntryRefused THEN UNCHANGED <<realm, storage>> ELSE Synced(monitorTask.entry)
         /\ ctx' = IF monitorTask.dead THEN ctx ELSE [c EXCEPT !.due = ComputeDueTime(c, least)]
         /\ WaitUntil(Returned(ctx'))
  /\ UNCHANGED <<queue, wakeup, sharing, role, spent>>

\* Any other error: the context is created again and waits a little.
TickCrash ==
  /\ monitorTask.step = "sync" /\ spent.disturbances < MaxDisturbances
  /\ ctx' = [NewContext(role) EXCEPT !.due = "later"]
  /\ WaitUntil("later")
  /\ spent' = [spent EXCEPT !.disturbances = @ + 1]
  /\ UNCHANGED <<realm, queue, storage, wakeup, sharing, role>>

MonitorStep ==
  PollChanges \/ StoreChanges \/ ReadChanges \/ AssignChanges
    \/ WakeUp \/ TickSync

SyncMonNext ==
  \/ MonitorStep \/ TickCrash \/ ManagerConnect \/ ConnectionLost \/ ListenEvent
  \/ SharingUpdated \/ TimePasses \/ MaintenanceStarts \/ MaintenanceEnds
  \/ \E e \in Entries : OtherUploads(e) \/ EditEntry(e)
  \/ \E r \in WorkspaceRoles : RoleChanges(r)

SyncMonSpec == SyncMonInit /\ [][SyncMonNext]_syncMonVars

\* The tasks of the client are scheduled, time passes, the server can be reached
\* again and a maintenance ends.
SyncMonFairness ==
  /\ WF_syncMonVars(MonitorStep) /\ WF_syncMonVars(ListenEvent) /\ WF_syncMonVars(SharingUpdated)
  /\ WF_syncMonVars(TimePasses) /\ WF_syncMonVars(ManagerConnect) /\ WF_syncMonVars(MaintenanceEnds)

SyncMonFairSpec == SyncMonSpec /\ SyncMonFairness

-----------------------------------------------------------------------------
(* Properties *)

SyncMonTypeOK ==
  /\ storage.need \subseteq Entries /\ storage.checkpoint \in 0..realm.index
  /\ \A e \in Entries : storage.base[e] <= realm.version[e] /\ storage.remote[e] <= realm.version[e]
  /\ Len(queue.events) <= QueueLimit /\ status \in {"LOST", "INITIALIZING", "READY"}
  /\ ctx.due \in Dues /\ ctx.remote \subseteq Entries /\ monitorTask.until \in Dues
  /\ wakeup \in BOOLEAN /\ role \in WorkspaceRoles

\* The checkpoint of the storage never passes a change that the storage does not
\* know: a version that the device has neither downloaded nor noted as the remote
\* one is among the changes of the next poll, whenever the connection was lost.
NothingSkipped ==
  \A e \in Entries :
    realm.version[e] \notin {storage.base[e], storage.remote[e]} =>
      realm.changed[e] > storage.checkpoint

\* No wake-up is lost: the monitor never waits longer than its context is due.
NoLostWakeup == monitorTask.step = "wait" /\ ~wakeup => DueRank(monitorTask.until) <= DueRank(ctx.due)

\* A change that the context has noted is due: it is never left without a time.
NotedIsDue ==
  monitorTask.step = "wait" /\ ctx.loaded /\ (ctx.remote # {} \/ LocalChanges(ctx) # {}) =>
    ctx.due # "never"

\* What a loaded context has noted is handled in the end (the change is synchronized,
\* or the context is dropped), whatever is refused meanwhile.  A context that could
\* not load its changes because of a maintenance is left until another event.
NotedIsHandled ==
  \A e \in Entries :
    ctx.loaded /\ e \in ctx.remote \cup LocalChanges(ctx) ~> e \notin ctx.remote \cup LocalChanges(ctx)

\* The context keeps track of the local and remote changes of the workspace: when
\* it has nothing noted, every local change is uploaded and every remote change
\* that the device was told of is downloaded.
NoChangeForgotten ==
  monitorTask.step = "wait" /\ status = "READY" /\ ctx.loaded /\ ctx.due = "never" /\ ~wakeup
    /\ queue.events = <<>> /\ ~sharing =>
      /\ role = "CONTRIBUTOR" => storage.need = {}
      /\ \A e \in Entries : storage.base[e] = realm.version[e]

\* The sync monitor: its checkpoint skips no change, a wake-up is not lost, and a change that
\* was noted has a due time.
MonitorIsSound == SyncMonTypeOK /\ NothingSkipped /\ NoLostWakeup /\ NotedIsDue
=============================================================================

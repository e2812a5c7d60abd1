----------------------------- MODULE Mountpoint -----------------------------
(***************************************************************************)
(* The mountpoint manager of one workspace: calls and events mount,        *)
(* remount and unmount it, each mount is a runner task that starts the     *)
(* thread of the driver (FUSE, or WinFSP on Windows), waits for it, and    *)
(* stops it in the end.  A key is 0 for the workspace itself and a number  *)
(* for a view of it at a timestamp.                                        *)
(***************************************************************************)
EXTENDS Naturals, FiniteSets, Sequences

CONSTANTS
  MountApps,    \* tasks of the application that call the manager
  MountEvents,  \* tasks that on_event starts
  MountKeys,    \* 0 and timestamps
  Drivers,      \* the drivers to look at: "fuse", "winfsp"
  Positions,    \* positions <<index, number of workspaces>> in the user manifest
  MaxRunners,   \* bound: mounts in the life of the manager
  MaxSharings   \* bound: changes of the role of the user

ASSUME MountAssumption ==
  /\ 0 \in MountKeys /\ MountKeys \subseteq Nat /\ MaxRunners \in Nat /\ MaxSharings \in Nat
  /\ Positions \subseteq Nat \X Nat /\ \A p \in Positions : p[1] < p[2]

VARIABLES
  driver,           \* the driver (rigid)
  position,         \* the position of the workspace (rigid)
  manager,          \* "up", "closing" (unmounts what it knows), "closed"
  mountpointTasks,  \* _mountpoint_tasks: key -> runner
  timestamped,      \* _timestamped_workspacefs
  runners,          \* the runner tasks
  mountCalls,       \* what each caller is doing
  access,           \* the role of the user in the workspace
  sharings          \* the changes of it so far

mountVars == <<driver, position, manager, mountpointTasks, timestamped, runners, mountCalls, access, sharings>>

MountCallers == MountApps \cup MountEvents
NoCall == [op |-> "none", runner |-> 0, old |-> 0, key |-> 0]
Ready(c) == manager = "up" /\ mountCalls[c] = NoCall

NewRunner(key) ==
  [key |-> key, phase |-> "bootstrap", thread |-> "none", path |-> 0, started |-> FALSE,
   cancelled |-> FALSE, exit |-> FALSE, readOnly |-> FALSE, loop |-> "check", noted |-> FALSE]
Alive(r) == runners[r].phase # "ended"
Served == {runners[r].path : r \in {r \in DOMAIN runners : runners[r].thread = "serving"}}
ReadOnly == access = "READER"

-----------------------------------------------------------------------------
(* The manager *)

\* _mount_workspace_helper: the runner is started, and recorded when it has started.
StartMount(c, key, old) ==
  /\ Len(runners) < MaxRunners
  /\ runners' = Append(runners, NewRunner(key))
  /\ mountCalls' = [mountCalls EXCEPT ![c] =
       [op |-> "starting", runner |-> Len(runners) + 1, old |-> old, key |-> key]]

MountWorkspace(c) ==
  /\ Ready(c) /\ access # "NONE" /\ 0 \notin DOMAIN mountpointTasks
  /\ StartMount(c, 0, 0)
  /\ UNCHANGED <<driver, position, manager, mountpointTasks, timestamped, access, sharings>>

\* remount_workspace_new_timestamp, which is also how a timestamp is mounted (old = 0):
\* nothing to do when it is the same one and is mounted.
RemountWorkspace(c, old, key) ==
  /\ Ready(c) /\ access # "NONE" /\ key # 0
  /\ IF old = 0 THEN key \notin DOMAIN mountpointTasks ELSE ~ (old = key /\ key \in DOMAIN mountpointTasks)
  /\ mountCalls' = [mountCalls EXCEPT ![c] = [op |-> "loading", runner |-> 0, old |-> old, key |-> key]]
  /\ UNCHANGED <<driver, position, manager, mountpointTasks, timestamped, runners, access, sharings>>

\* _load_workspace_timestamped: the root at that time is read, which may fail.
LoadTimestamped(c) ==
  /\ mountCalls[c].op = "loading"
  /\ LET key == mountCalls[c].key
     IN \/ timestamped' = timestamped \cup {key} /\ StartMount(c, key, mountCalls[c].old)
        \/ /\ key \notin timestamped
           /\ mountCalls' = [mountCalls EXCEPT ![c] = NoCall] /\ UNCHANGED <<timestamped, runners>>
  /\ UNCHANGED <<driver, position, manager, mountpointTasks, access, sharings>>

\* cancel_and_join.
CancelAndJoin(c, r) ==
  /\ runners' = [runners EXCEPT ![r].cancelled = TRUE]
  /\ mountCalls' = [mountCalls EXCEPT ![c] = [NoCall EXCEPT !.op = "joining", !.runner = r]]

\* The runner has started: it is recorded, and the mount that it replaces is ended.
RecordMount(c) ==
  /\ mountCalls[c].op = "starting" /\ runners[mountCalls[c].runner].started
  /\ LET call == mountCalls[c]
     IN /\ mountpointTasks' = [key \in DOMAIN mountpointTasks \cup {call.key} |->
             IF key = call.key THEN call.runner ELSE mountpointTasks[key]]
        /\ IF call.old \in DOMAIN mountpointTasks' /\ call.old # 0
             THEN CancelAndJoin(c, mountpointTasks'[call.old])
             ELSE mountCalls' = [mountCalls EXCEPT ![c] = NoCall] /\ UNCHANGED runners
  /\ UNCHANGED <<driver, position, manager, timestamped, access, sharings>>

\* The runner ended before it had started: the call gets its exception.
MountFailed(c) ==
  /\ mountCalls[c].op = "starting"
  /\ ~ Alive(mountCalls[c].runner) /\ ~ runners[mountCalls[c].runner].started
  /\ mountCalls' = [mountCalls EXCEPT ![c] = NoCall]
  /\ UNCHANGED <<driver, position, manager, mountpointTasks, timestamped, runners, access, sharings>>

UnmountWorkspace(c, key) ==
  /\ Ready(c) /\ key \in DOMAIN mountpointTasks
  /\ CancelAndJoin(c, mountpointTasks[key])
  /\ UNCHANGED <<driver, position, manager, mountpointTasks, timestamped, access, sharings>>

JoinRunner(c) ==
  /\ mountCalls[c].op = "joining" /\ ~ Alive(mountCalls[c].runner)
  /\ mountCalls' = [mountCalls EXCEPT ![c] = NoCall]
  /\ UNCHANGED <<driver, position, manager, mountpointTasks, timestamped, runners, access, sharings>>

\* SHARING_UPDATED: the runners of WinFSP note it; on_event unmounts a revoked workspace,
\* if it is mounted, and mounts it when it is shared again.
OnSharingUpdated(c, role) ==
  /\ Ready(c) /\ role # access /\ sharings < MaxSharings
  /\ access' = role /\ sharings' = sharings + 1
  /\ LET noted == [r \in DOMAIN runners |->
                     IF driver = "winfsp" /\ runners[r].phase = "running" THEN [runners[r] EXCEPT !.noted = TRUE] ELSE runners[r]]
     IN CASE role = "NONE" /\ 0 \in DOMAIN mountpointTasks ->
               /\ runners' = [noted EXCEPT ![mountpointTasks[0]].cancelled = TRUE]
               /\ mountCalls' = [mountCalls EXCEPT ![c] =
                    [NoCall EXCEPT !.op = "joining", !.runner = mountpointTasks[0]]]
          [] access = "NONE" /\ 0 \notin DOMAIN mountpointTasks /\ Len(runners) < MaxRunners ->
               /\ runners' = Append(noted, NewRunner(0))
               /\ mountCalls' = [mountCalls EXCEPT ![c] =
                    [NoCall EXCEPT !.op = "starting", !.runner = Len(runners) + 1]]
          [] OTHER -> runners' = noted /\ UNCHANGED mountCalls
  /\ UNCHANGED <<driver, position, manager, mountpointTasks, timestamped>>

\* The end of the manager: the mounts in progress are cancelled, what is recorded is
\* unmounted, and then the nursery of the runners is cancelled.
CloseManager ==
  /\ manager = "up" /\ manager' = "closing"
  /\ runners' = [r \in DOMAIN runners |->
       [runners[r] EXCEPT !.cancelled = @ \/ \E c \in MountCallers :
          mountCalls[c].op = "starting" /\ mountCalls[c].runner = r /\ ~ runners[r].started]]
  /\ mountCalls' = [c \in MountCallers |-> NoCall]
  /\ UNCHANGED <<driver, position, mountpointTasks, timestamped, access, sharings>>

SafeUnmountAll(key) ==
  /\ manager = "closing" /\ key \in DOMAIN mountpointTasks
  /\ ~ runners[mountpointTasks[key]].cancelled
  /\ runners' = [runners EXCEPT ![mountpointTasks[key]].cancelled = TRUE]
  /\ UNCHANGED <<driver, position, manager, mountpointTasks, timestamped, mountCalls, access, sharings>>

CancelRunners ==
  /\ manager = "closing"
  /\ \A key \in DOMAIN mountpointTasks : ~ Alive(mountpointTasks[key])
  /\ manager' = "closed"
  /\ runners' = [r \in DOMAIN runners |-> [runners[r] EXCEPT !.cancelled = TRUE]]
  /\ UNCHANGED <<driver, position, mountpointTasks, timestamped, mountCalls, access, sharings>>

-----------------------------------------------------------------------------
(* The runners *)

UnchangedManager == UNCHANGED <<driver, position, manager, timestamped, mountCalls, access, sharings>>

\* The end of curried_runner: its key is forgotten, whatever runner it is of.
EndRunner(r, thread) ==
  /\ runners' = [runners EXCEPT ![r] =
       [NewRunner(@.key) EXCEPT !.phase = "ended", !.thread = thread, !.started = runners[r].started, !.cancelled = TRUE]]
  /\ mountpointTasks' = [key \in DOMAIN mountpointTasks \ {runners[r].key} |-> mountpointTasks[key]]

Change(r, new) == runners' = [runners EXCEPT ![r] = new] /\ UNCHANGED mountpointTasks

DriveLetters == 19
Rounded(length, grouping) == ((length + grouping - 1) \div grouping) * grouping

\* sorted_drive_letters: circling around the letters (numbered from 1) by the length.
SortedDriveLetters(index, length) ==
  [k \in 1 .. DriveLetters |-> ((index + (k - 1) * Rounded(length, 5)) % DriveLetters) + 1]

\* The number of letters is prime, and the rounded length is asserted to be coprime to it.
LengthsAreCoprime == Rounded(position[2], 5) % DriveLetters # 0

MountLetters == SortedDriveLetters(position[1], position[2])
PlaceIsFound ==
  driver = "fuse" \/ (LengthsAreCoprime /\ \E k \in 1 .. DriveLetters : MountLetters[k] \notin Served)

\* _bootstrap_mountpoint and _get_available_drive: the first place that nothing serves.
FirstFree ==
  IF driver = "fuse" THEN CHOOSE p \in 1 .. MaxRunners + 1 : p \notin Served /\ \A q \in 1 .. p - 1 : q \in Served
  ELSE MountLetters[CHOOSE k \in 1 .. DriveLetters :
         MountLetters[k] \notin Served /\ \A j \in 1 .. k - 1 : MountLetters[j] \in Served]

\* Without a place the runner fails.
Bootstrap(r) ==
  /\ runners[r].phase = "bootstrap"
  /\ IF runners[r].cancelled \/ ~ PlaceIsFound THEN EndRunner(r, "none")
     ELSE Change(r, [runners[r] EXCEPT !.phase = "waiting", !.thread = "spawned",
                       !.path = FirstFree, !.readOnly = (driver = "winfsp" /\ ReadOnly)])
  /\ UnchangedManager

\* _run_fuse_thread: it says that it has begun, and then gives up if the teardown began.
TornDown(r) == runners[r].phase \in {"torn", "stopping", "ended"}
FuseBegins(r) ==
  /\ driver = "fuse" /\ runners[r].thread = "spawned"
  /\ Change(r, [runners[r] EXCEPT !.thread = "begun"])
  /\ UnchangedManager
FuseChecks(r) ==
  /\ driver = "fuse" /\ runners[r].thread = "begun"
  /\ Change(r, [runners[r] EXCEPT !.thread = IF TornDown(r) THEN "stopped" ELSE "mounting"])
  /\ UnchangedManager
FuseServes(r) ==
  /\ driver = "fuse" /\ runners[r].thread = "mounting"
  /\ \/ Change(r, [runners[r] EXCEPT !.thread = "serving"])
     \/ Change(r, [runners[r] EXCEPT !.thread = "stopped", !.cancelled = TRUE])
  /\ UnchangedManager

\* The driver stops: because it was told to (getattr sees the request), or because the
\* user has unmounted it.
FuseStops(r) ==
  /\ driver = "fuse" /\ runners[r].thread = "serving"
  /\ runners[r].exit \/ runners[r].phase = "running"
  /\ Change(r, [runners[r] EXCEPT !.thread = "stopped"])
  /\ UnchangedManager

\* WinFSP: fs.start, which fails when the drive was taken meanwhile.
WinStarts(r) ==
  /\ driver = "winfsp" /\ runners[r].phase = "waiting" /\ runners[r].thread = "spawned"
  /\ Change(r, IF runners[r].path \in Served THEN [runners[r] EXCEPT !.thread = "stopped", !.cancelled = TRUE]
               ELSE [runners[r] EXCEPT !.thread = "serving"])
  /\ UnchangedManager

\* _wait_for_fuse_ready, _wait_for_winfsp_ready: something is mounted at the place.
DriverReady(r) ==
  /\ runners[r].phase = "waiting" /\ ~ runners[r].cancelled /\ runners[r].path \in Served
  /\ driver = "winfsp" => runners[r].thread = "serving"
  /\ Change(r, [runners[r] EXCEPT !.phase = "running", !.started = TRUE])
  /\ UnchangedManager

\* The loop of WinFSP: the volume is restarted when the role no longer agrees with it,
\* and then the next event is waited for.
WinCheckRole(r) ==
  /\ driver = "winfsp" /\ runners[r].phase = "running" /\ runners[r].loop = "check"
  /\ Change(r, [runners[r] EXCEPT !.loop =
       IF ReadOnly # runners[r].readOnly /\ access # "NONE"
         THEN IF ReadOnly THEN "to read only" ELSE "to writable" ELSE "wait"])
  /\ UnchangedManager
WinRestarted(r) ==
  /\ runners[r].phase = "running" /\ runners[r].loop \in {"to read only", "to writable"}
  /\ Change(r, [runners[r] EXCEPT !.readOnly = (runners[r].loop = "to read only"), !.loop = "wait"])
  /\ UnchangedManager
WinEvent(r) ==
  /\ driver = "winfsp" /\ runners[r].phase = "running" /\ runners[r].loop = "wait" /\ runners[r].noted
  /\ Change(r, [runners[r] EXCEPT !.noted = FALSE, !.loop = "check"])
  /\ UnchangedManager

\* The finally clause is reached: cancelled, or the driver is no longer running.
TearDown(r) ==
  /\ runners[r].phase \in {"waiting", "running"}
  /\ \/ runners[r].cancelled
     \/ runners[r].phase = "running" /\ runners[r].thread = "stopped"
  /\ Change(r, [runners[r] EXCEPT !.phase = "torn"])
  /\ UnchangedManager

\* _stop_fuse_thread: a thread that has not begun is left alone, the others are told to
\* exit and waited for; fs.stop of WinFSP.
StopDriverAtOnce(r) ==
  /\ runners[r].phase = "torn"
  /\ IF driver = "winfsp" \/ runners[r].thread # "serving"
       THEN EndRunner(r, IF driver = "winfsp" THEN "stopped" ELSE runners[r].thread)
       ELSE Change(r, [runners[r] EXCEPT !.phase = "stopping", !.exit = TRUE])
  /\ UnchangedManager
StopDriver(r) ==
  /\ runners[r].phase = "torn"
  /\ IF driver = "winfsp" \/ runners[r].thread \in {"spawned", "stopped"}
       THEN EndRunner(r, IF driver = "winfsp" THEN "stopped" ELSE runners[r].thread)
       ELSE Change(r, [runners[r] EXCEPT !.phase = "stopping", !.exit = TRUE])
  /\ UnchangedManager
DriverStopped(r) ==
  /\ runners[r].phase = "stopping" /\ runners[r].thread = "stopped"
  /\ EndRunner(r, "stopped")
  /\ UnchangedManager

-----------------------------------------------------------------------------
(* The specification *)

MountInit ==
  /\ driver \in Drivers /\ position \in Positions
  /\ driver = "fuse" => position = CHOOSE p \in Positions : TRUE
  /\ manager = "up" /\ mountpointTasks = <<>> /\ timestamped = {} /\ runners = <<>>
  /\ mountCalls = [c \in MountCallers |-> NoCall]
  /\ access = "OWNER" /\ sharings = 0

RunnerStep(r) ==
  \/ Bootstrap(r) \/ FuseBegins(r) \/ FuseChecks(r) \/ FuseServes(r) \/ FuseStops(r) \/ WinStarts(r)
  \/ DriverReady(r) \/ WinCheckRole(r) \/ WinRestarted(r) \/ WinEvent(r)
  \/ TearDown(r) \/ StopDriver(r) \/ DriverStopped(r)

MountNext ==
  \/ \E c \in MountApps :
       \/ MountWorkspace(c) \/ LoadTimestamped(c)
       \/ \E key \in MountKeys : UnmountWorkspace(c, key)
       \/ \E old, key \in MountKeys : RemountWorkspace(c, old, key)
  \/ \E c \in MountEvents, role \in {"OWNER", "READER", "NONE"} : OnSharingUpdated(c, role)
  \/ \E c \in MountCallers : RecordMount(c) \/ MountFailed(c) \/ JoinRunner(c)
  \/ CloseManager \/ CancelRunners \/ \E key \in MountKeys : SafeUnmountAll(key)
  \/ \E r \in DOMAIN runners : RunnerStep(r)

MountSpec == MountInit /\ [][MountNext]_mountVars

\* The steps of the runners and of the end of the manager are taken; calls are optional.
MountFairSpec ==
  /\ MountSpec
  /\ WF_mountVars(CancelRunners) /\ \A key \in MountKeys : WF_mountVars(SafeUnmountAll(key))
  /\ \A r \in 1 .. MaxRunners : WF_mountVars(r \in DOMAIN runners /\ RunnerStep(r))

-----------------------------------------------------------------------------
(* Properties *)

\* What is recorded was started, and a driver that serves has a place.
MountTypeOK ==
  /\ \A key \in DOMAIN mountpointTasks : runners[mountpointTasks[key]].started
  /\ \A r \in DOMAIN runners : /\ runners[r].started => runners[r].phase # "bootstrap"
                               /\ runners[r].thread = "serving" => runners[r].path # 0

\* When a runner has ended, its driver does not serve the workspace and never will:
\* either the thread sees that the teardown began, or the teardown sees that it has begun.
NoOrphanDriver ==
  \A r \in DOMAIN runners : runners[r].phase = "ended" => runners[r].thread \notin {"mounting", "serving"}

\* The volume is read only exactly when the user is a reader, once its runner waits for the
\* next event: no change of the role is missed while the volume restarts.
ReadOnlyFollowsRole ==
  \A r \in DOMAIN runners :
    driver = "winfsp" /\ runners[r].phase = "running" /\ runners[r].loop = "wait" /\ ~ runners[r].noted
      => access = "NONE" \/ runners[r].readOnly = ReadOnly

\* Every letter is tried before the manager says that no drive is available.
EveryDriveIsTried ==
  LengthsAreCoprime => {MountLetters[k] : k \in 1 .. DriveLetters} = 1 .. DriveLetters

\* The end of the manager ends every runner, so that the application can exit.
ExitUnmountsAll == (manager = "closing") ~> (manager = "closed" /\ \A r \in DOMAIN runners : ~ Alive(r))

\* A workspace that was revoked does not stay mounted when every call has returned.
RevokedIsUnmounted ==
  access = "NONE" /\ manager = "up" /\ (\A c \in MountCallers : mountCalls[c] = NoCall)
    => \A r \in DOMAIN runners : runners[r].key = 0 => runners[r].phase # "running"

\* What is recorded as mounted is mounted.
RecordedIsAlive == \A key \in DOMAIN mountpointTasks : Alive(mountpointTasks[key])

\* The mountpoints: no driver runs that nobody can stop, a volume is read-only when the role
\* says so, and every drive letter is tried.
DriversAreSound == MountTypeOK /\ NoOrphanDriver /\ ReadOnlyFollowsRole /\ EveryDriveIsTried
=============================================================================

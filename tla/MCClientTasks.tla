--------------------------- MODULE MCClientTasks ---------------------------
(***************************************************************************)
(* Model-checking instances of components that share no state, side by     *)
(* side: every behaviour is one of a single component, which part names.   *)
(* invite: the enrollment of a user over a conduit; monitor: the sync      *)
(* monitor of a workspace with two entries; mount: two keys to mount, an   *)
(* application and an event handler, with each driver.                     *)
(***************************************************************************)
EXTENDS InviteConduit, SyncMonitor, Mountpoint

CONSTANTS app, handler1

VARIABLE part

\* The place where the search for a free drive begins, and the number of workspaces: with 76
\* the letters are tried in steps of 80, and 95 is a multiple of their number.
MCPositions == {<<7, 76>>, <<7, 95>>}

PartsInit ==
  /\ part \in {"invite", "monitor", "mount"}
  /\ Init /\ SyncMonInit
  /\ MountInit /\ (part # "mount" => driver = "fuse")

InInvite(action) == part = "invite" /\ action /\ UNCHANGED <<syncMonVars, mountVars, part>>
InMonitor(action) == part = "monitor" /\ action /\ UNCHANGED <<vars, mountVars, part>>
InMount(action) == part = "mount" /\ action /\ UNCHANGED <<vars, syncMonVars, part>>

\* Only WinFSP is restarted for a new role: under FUSE one change of it is enough.
FewSharings == driver = "fuse" => sharings' <= 1

\* The entries are interchangeable: the one that is modified on this device is e1.
FirstIsEdited == storage'.need \subseteq {"e1"}

PartsNext ==
  \/ InInvite(Next) \/ InMonitor(SyncMonNext /\ FirstIsEdited)
  \/ InMount(MountNext /\ FewSharings)

partsVars == <<vars, syncMonVars, mountVars, part>>

\* The fairness of each component, where it runs.
PartsFairness ==
  /\ \A s \in Sides : WF_partsVars(InInvite(Handles(s))) /\ WF_partsVars(InInvite(Act(s)))
  /\ WF_partsVars(InInvite(CloseClaimers))
  /\ WF_partsVars(InInvite(Create)) /\ WF_partsVars(InInvite(Delete))
  /\ WF_partsVars(InMonitor(MonitorStep)) /\ WF_partsVars(InMonitor(ListenEvent))
  /\ WF_partsVars(InMonitor(SharingUpdated)) /\ WF_partsVars(InMonitor(TimePasses))
  /\ WF_partsVars(InMonitor(ManagerConnect)) /\ WF_partsVars(InMonitor(MaintenanceEnds))
  /\ WF_partsVars(InMount(CancelRunners))
  /\ \A key \in MountKeys : WF_partsVars(InMount(SafeUnmountAll(key)))
  /\ \A r \in 1 .. MaxRunners : WF_partsVars(InMount(r \in DOMAIN runners /\ RunnerStep(r)))

PartsSpec == PartsInit /\ [][PartsNext]_partsVars /\ PartsFairness

\* Where the enrollment runs, the user is registered in the end (Enrolls).
InviteEnrolls == part # "invite" \/ Enrolls

\* What was begun ends: an enrollment with a registered user, a change noted by the monitor
\* with its synchronization, and the exit of the program with every driver stopped.
ClientTasksEnd == InviteEnrolls /\ NotedIsHandled /\ ExitUnmountsAll
=============================================================================

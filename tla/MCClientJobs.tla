---------------------------- MODULE MCClientJobs ----------------------------
(***************************************************************************)
(* Model-checking instances of components that share no state, side by     *)
(* side: every behaviour is one of a single component, which part names.   *)
(* job: two owners that re-encrypt a workspace; gui: the tabs of the       *)
(* window and two devices to log in.                                       *)
(***************************************************************************)
EXTENDS Reencryption, GuiSession

CONSTANTS owner1, owner2, member, i1, i2, d1, d2, none

VARIABLE part

PartsInit == part \in {"job", "gui"} /\ ReencryptionInit /\ GuiInit

InJob(action) == part = "job" /\ action /\ UNCHANGED <<guiVars, part>>
InGui(action) == part = "gui" /\ action /\ UNCHANGED <<jobVars, part>>

\* The items are interchangeable: the first one of a maintenance is i1.  So are the owners while
\* the client of neither has anything: the first one to do something is owner1.
\* Bound: the last timestamp is not the one of a maintenance of owner2.
HasNothing(o) ==
  entry[o].rev = 1 /\ remote[o] = <<1>> /\ needs[o] = NoNeeds /\ job[o] = NoJob /\ ~ reencrypting[o]
FirstOnesFirst ==
  /\ realm.todo = JobItems /\ (\A o \in JobOwners : job[o].batch = {}) =>
       \A o \in JobOwners : job'[o].batch \subseteq {i1}
  /\ (\A o \in JobOwners : HasNothing(o)) => HasNothing(owner2)'
  /\ jobStamp < MaxJobStamps /\ jobStamp' = MaxJobStamps => job'[owner2] = job[owner2]

PartsNext == InJob(ReencryptionNext /\ FirstOnesFirst) \/ InGui(GuiNext)

partsVars == <<jobVars, guiVars, part>>

\* The fairness of each component, where it runs.
PartsFairness ==
  /\ \A o \in JobOwners : WF_partsVars(InJob(JobStep(o)))
  /\ WF_partsVars(InGui(Deliver))

PartsSpec == PartsInit /\ [][PartsNext]_partsVars /\ PartsFairness

\* What was begun ends: a re-encryption for each owner that takes part, and a session with the
\* release of what it held.
ClientJobsEnd == JobEnds /\ EndedIsReleased
=============================================================================

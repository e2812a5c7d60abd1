---------------------------- MODULE Reencryption ----------------------------
(***************************************************************************)
(* The re-encryption of a workspace, from the window of an owner to the    *)
(* server: the owners see that it is needed, start it or continue the one  *)
(* of another owner, and re-encrypt batch after batch until nothing is     *)
(* left.  Every request is a step; other owners act between two of them.   *)
(***************************************************************************)
EXTENDS Naturals, FiniteSets, Sequences, SequencesExt

CONSTANTS
  JobOwners,    \* owners of the workspace
  JobMembers,   \* other users, who come and go
  JobItems,     \* the versions of the vlobs of the realm
  BatchSize,    \* size of a batch
  MaxJobRevision,  \* bound: encryption revisions
  MaxJobStamps     \* bound: timestamps

ASSUME ReencryptionAssumption ==
  /\ JobOwners \cap JobMembers = {} /\ IsFiniteSet(JobMembers)
  /\ {BatchSize, MaxJobStamps} \subseteq Nat /\ MaxJobRevision \in Nat \ {0}

VARIABLES
  realm,      \* server: revision, in maintenance, what is to do and done, the keys of the items
  roles,      \* server: the role certificates of the members
  revokedOn,  \* server: when a user was revoked, or 0
  sentKeys,   \* server: the re-encryption messages of each revision
  holders,    \* ghost: who was sent the key of a revision
  jobStamp,      \* last timestamp
  entry,      \* client: the workspace entry of the user manifest
  remote,     \* server: revision of the entry in each version of the user manifest
  needs,      \* window: reencryption_needs of the button of the workspace
  reencrypting, \* window: the workspace is being re-encrypted
  job         \* client: the job

jobVars == <<realm, roles, revokedOn, sentKeys, holders, jobStamp, entry, remote, needs, reencrypting, job>>

serverVars == <<realm, roles, revokedOn, sentKeys, holders>>
JobRevisions == 1 .. MaxJobRevision

-----------------------------------------------------------------------------
(* The realm *)

LastCertificate(u) == LET ks == {k \in DOMAIN roles : roles[k].user = u}
                      IN roles[CHOOSE k \in ks : \A l \in ks : l <= k]
HasRole(u) == u \in JobOwners \/ LastCertificate(u).role
RealmParticipants == {u \in JobOwners \cup JobMembers : HasRole(u) /\ revokedOn[u] = 0}

\* A member gets a role, with the key the owner knows, or loses it.
ChangeRole(o, u) ==
  /\ ~ realm.maintenance /\ jobStamp < MaxJobStamps /\ revokedOn[u] = 0
  /\ jobStamp' = jobStamp + 1
  /\ roles' = Append(roles, [user |-> u, role |-> ~ HasRole(u), ts |-> jobStamp + 1])
  /\ holders' = IF HasRole(u) THEN holders ELSE [holders EXCEPT ![entry[o].rev] = @ \cup {u}]
  /\ UNCHANGED <<realm, revokedOn, sentKeys, entry, remote, needs, reencrypting, job>>

RevokeMember(u) ==
  /\ revokedOn[u] = 0 /\ jobStamp < MaxJobStamps
  /\ jobStamp' = jobStamp + 1 /\ revokedOn' = [revokedOn EXCEPT ![u] = jobStamp + 1]
  /\ UNCHANGED <<realm, roles, sentKeys, holders, entry, remote, needs, reencrypting, job>>

\* The check of the maintenance requests.
InMaintenanceAt(rev) == realm.maintenance /\ realm.rev = rev

-----------------------------------------------------------------------------
(* The user manifest *)

\* The entry of a re-encryption message: it is encrypted since the start.
EntryOf(k) == [rev |-> k, on |-> sentKeys[k].on]

TakeKeys(o) ==
  /\ entry[o].rev < realm.rev
  /\ entry' = [entry EXCEPT ![o] = EntryOf(realm.rev)]
  /\ UNCHANGED <<serverVars, jobStamp, remote, needs, reencrypting, job>>

\* A new version of the user manifest; revisions may be skipped.
SyncManifest(o) ==
  /\ Last(remote[o]) # entry[o].rev
  /\ remote' = [remote EXCEPT ![o] = Append(@, entry[o].rev)]
  /\ UNCHANGED <<serverVars, jobStamp, entry, needs, reencrypting, job>>

-----------------------------------------------------------------------------
(* The need of a re-encryption *)

\* Who lost the role after the key was made, or has a role and was revoked after it.
NeedOf(o) ==
  {u \in JobMembers : IF HasRole(u) THEN revokedOn[u] > entry[o].on ELSE LastCertificate(u).ts > entry[o].on}

\* get_reencryption_need asks for the status of the realm, then for the certificates.  What
\* it finds while the workspace is re-encrypted has no effect.
NoNeeds == [users |-> {}, inProgress |-> FALSE, asking |-> FALSE]
AskStatus(o) ==
  /\ ~ needs[o].asking /\ ~ reencrypting[o]
  /\ needs' = [needs EXCEPT ![o] = [users |-> {}, inProgress |-> realm.maintenance, asking |-> TRUE]]
  /\ UNCHANGED <<serverVars, jobStamp, entry, remote, reencrypting, job>>
GetNeeds(o) ==
  /\ needs[o].asking
  /\ needs' = [needs EXCEPT ![o].users = NeedOf(o), ![o].asking = FALSE]
  /\ UNCHANGED <<serverVars, jobStamp, entry, remote, reencrypting, job>>

-----------------------------------------------------------------------------
(* The job *)

Job(phase, new, old, on) == [phase |-> phase, new |-> new, old |-> old, on |-> on, to |-> {}, batch |-> {}]
NoJob == Job("none", 0, 0, 0)
Phase(o, p) == job' = [job EXCEPT ![o].phase = p]

\* The errors of a job are shown; the workspace stays among those that are re-encrypted.
JobFails(o) == job' = [job EXCEPT ![o] = NoJob] /\ UNCHANGED <<realm, sentKeys, holders, jobStamp, reencrypting>>
Client == UNCHANGED <<roles, revokedOn, entry, remote, needs>>

\* reencrypt_workspace, confirmed; the needs may be old.
Reencrypt(o) ==
  /\ ~ reencrypting[o] /\ ~ needs[o].asking /\ (needs[o].users # {} \/ needs[o].inProgress)
  /\ reencrypting' = [reencrypting EXCEPT ![o] = TRUE]
  /\ \/ needs[o].inProgress /\ Phase(o, "status") /\ UNCHANGED jobStamp
     \/ /\ ~ needs[o].inProgress /\ jobStamp < MaxJobStamps
        /\ jobStamp' = jobStamp + 1
        /\ job' = [job EXCEPT ![o] = Job("participants", entry[o].rev + 1, entry[o].rev, jobStamp + 1)]
  /\ UNCHANGED <<serverVars, entry, remote, needs>>

\* workspace_start_reencryption
RetrieveParticipants(o) ==
  /\ job[o].phase = "participants"
  /\ job' = [job EXCEPT ![o].phase = "start", ![o].to = RealmParticipants]
  /\ Client /\ UNCHANGED <<realm, sentKeys, holders, jobStamp, reencrypting>>

StartMaintenance(o) ==
  /\ job[o].phase = "start"
  /\ LET allowed == ~ realm.maintenance /\ job[o].new = realm.rev + 1 /\ job[o].new \in JobRevisions
     IN \/ ~ allowed /\ JobFails(o)
        \/ /\ allowed /\ job[o].to # RealmParticipants
           /\ Phase(o, "participants") /\ UNCHANGED <<realm, sentKeys, holders, jobStamp, reencrypting>>
        \/ /\ allowed /\ job[o].to = RealmParticipants
           /\ realm' = [realm EXCEPT !.rev = job[o].new, !.maintenance = TRUE, !.todo = JobItems, !.done = <<>>]
           /\ sentKeys' = [sentKeys EXCEPT ![job[o].new] = [to |-> job[o].to, on |-> job[o].on]]
           /\ holders' = [holders EXCEPT ![job[o].new] = job[o].to]
           /\ job' = [job EXCEPT ![o].phase = "get", ![o].to = {}] /\ UNCHANGED <<jobStamp, reencrypting>>
  /\ Client

\* workspace_continue_reencryption: the previous key is in an older user manifest.
PreviousRevisionLast(o) == IF Len(remote[o]) > 1 THEN remote[o][Len(remote[o]) - 1] ELSE 0
PreviousRevision(o) == IF entry[o].rev - 1 \in Range(remote[o]) THEN entry[o].rev - 1 ELSE 0

ContinueMaintenance(o) ==
  /\ job[o].phase = "status"
  /\ LET known == InMaintenanceAt(entry[o].rev) /\ PreviousRevision(o) # 0
     IN \/ ~ known /\ JobFails(o)
        \/ /\ known
           /\ job' = [job EXCEPT ![o] = Job("get", entry[o].rev, PreviousRevision(o), 0)]
           /\ UNCHANGED <<realm, sentKeys, holders, jobStamp, reencrypting>>
  /\ Client

\* The batches the server may give: as many items that are not done as fit.
Batches == {b \in SUBSET realm.todo : Cardinality(b) <= BatchSize /\ (Cardinality(b) < BatchSize => b = realm.todo)}

\* do_one_batch
GetBatch(o) ==
  /\ job[o].phase = "get"
  /\ \/ ~ InMaintenanceAt(job[o].new) /\ JobFails(o)
     \/ /\ InMaintenanceAt(job[o].new)
        /\ \E b \in Batches : job' = [job EXCEPT ![o].phase = "save", ![o].batch = b]
        /\ UNCHANGED <<realm, sentKeys, holders, jobStamp, reencrypting>>
  /\ Client

\* What of the batch is not saved yet is saved, in the key of the job.
SavedBatch(o) ==
  LET new == job[o].batch \cap realm.todo
      keys == [i \in DOMAIN realm.done \cup new |-> IF i \in new THEN job[o].new ELSE realm.done[i]]
  IN [realm EXCEPT !.todo = @ \ new, !.done = keys]

AllDoneNever(done, total) == done > total
AllDone(done, total) == done = total

SaveBatch(o) ==
  /\ job[o].phase = "save"
  /\ \/ ~ InMaintenanceAt(job[o].new) /\ JobFails(o)
     \/ /\ InMaintenanceAt(job[o].new) /\ realm' = SavedBatch(o)
        /\ job' = [job EXCEPT ![o].batch = {}, ![o].phase =
             IF AllDone(Cardinality(DOMAIN realm'.done), Cardinality(JobItems)) THEN "finish" ELSE "get"]
        /\ UNCHANGED <<sentKeys, holders, jobStamp, reencrypting>>
  /\ Client

FinishMaintenance(o) ==
  /\ job[o].phase = "finish"
  /\ \/ ~ (InMaintenanceAt(job[o].new) /\ realm.todo = {}) /\ JobFails(o)
     \/ /\ InMaintenanceAt(job[o].new) /\ realm.todo = {}
        /\ realm' = [realm EXCEPT !.maintenance = FALSE, !.todo = {}, !.done = <<>>,
              !.keys = [i \in JobItems |-> IF i \in DOMAIN realm.done THEN realm.done[i] ELSE @[i]]]
        /\ job' = [job EXCEPT ![o] = NoJob] /\ reencrypting' = [reencrypting EXCEPT ![o] = FALSE]
        /\ UNCHANGED <<sentKeys, holders, jobStamp>>
  /\ Client

\* A request finds no server.
Offline(o) ==
  /\ job[o].phase # "none"
  /\ JobFails(o) /\ UNCHANGED <<roles, revokedOn, entry, remote, needs>>

\* The owner closes the client and starts it again.
Restart(o) ==
  /\ reencrypting[o]
  /\ job' = [job EXCEPT ![o] = NoJob] /\ reencrypting' = [reencrypting EXCEPT ![o] = FALSE]
  /\ needs' = [needs EXCEPT ![o] = NoNeeds]
  /\ UNCHANGED <<serverVars, jobStamp, entry, remote>>

ReencryptionInit ==
  /\ realm = [rev |-> 1, maintenance |-> FALSE, todo |-> {}, done |-> <<>>, keys |-> [i \in JobItems |-> 1]]
  /\ roles = SetToSeq({[user |-> u, role |-> TRUE, ts |-> 1] : u \in JobMembers})
  /\ revokedOn = [u \in JobOwners \cup JobMembers |-> 0]
  /\ sentKeys = [k \in JobRevisions |-> [to |-> {}, on |-> 1]]
  /\ holders = [k \in JobRevisions |-> IF k = 1 THEN JobOwners \cup JobMembers ELSE {}]
  /\ jobStamp = 1
  /\ entry = [o \in JobOwners |-> [rev |-> 1, on |-> 1]] /\ remote = [o \in JobOwners |-> <<1>>]
  /\ needs = [o \in JobOwners |-> NoNeeds] /\ reencrypting = [o \in JobOwners |-> FALSE]
  /\ job = [o \in JobOwners |-> NoJob]

JobStep(o) ==
  RetrieveParticipants(o) \/ StartMaintenance(o) \/ ContinueMaintenance(o) \/ GetBatch(o) \/ SaveBatch(o)
    \/ FinishMaintenance(o)

ReencryptionNext ==
  \/ \E o \in JobOwners : JobStep(o) \/ Reencrypt(o) \/ AskStatus(o) \/ GetNeeds(o) \/ TakeKeys(o)
                          \/ SyncManifest(o) \/ Offline(o) \/ Restart(o)
  \/ \E o \in JobOwners, u \in JobMembers : ChangeRole(o, u)
  \/ \E u \in JobMembers : RevokeMember(u)

ReencryptionSpec == ReencryptionInit /\ [][ReencryptionNext]_jobVars

\* A job goes on: each of its requests is answered, or fails.
ReencryptionFairSpec == ReencryptionSpec /\ \A o \in JobOwners : WF_jobVars(JobStep(o))

-----------------------------------------------------------------------------
(* Properties *)

\* What is to do and what is done are the items of a maintenance, and an owner's entry is
\* never ahead of the realm.
ReencryptionTypeOK ==
  /\ realm.maintenance => realm.todo \cup DOMAIN realm.done = JobItems /\ realm.todo \cap DOMAIN realm.done = {}
  /\ ~ realm.maintenance => realm.todo = {} /\ realm.done = <<>>
  /\ \A o \in JobOwners : entry[o].rev <= realm.rev /\ Last(remote[o]) <= entry[o].rev

\* A job decrypts with the right key: what it is about to save was encrypted with the old
\* key it has.
OldKeyFits ==
  \A o \in JobOwners : job[o].phase = "save" /\ InMaintenanceAt(job[o].new) =>
    \A i \in job[o].batch : realm.keys[i] = job[o].old

\* A maintenance ends complete, whichever owners worked on it: every item has the key of
\* the revision of the realm.
FinishedIsComplete == ~ realm.maintenance => \A i \in JobItems : realm.keys[i] = realm.rev

\* An owner whose entry is up to date is told of every user who was sent the current key
\* and has no access any more.
NeedIsSound ==
  \A o \in JobOwners, u \in JobMembers :
    entry[o].rev = realm.rev /\ u \in holders[realm.rev] /\ (~ HasRole(u) \/ revokedOn[u] # 0) => u \in NeedOf(o)

\* A job ends, although owners work on the same maintenance and members come and go.
JobEnds == \A o \in JobOwners : job[o].phase # "none" ~> job[o].phase = "none"

\* The re-encryption job: the old key it finds is the one the data has, a maintenance that is
\* finished left nothing behind, and the need that is shown is real.
JobIsSound == ReencryptionTypeOK /\ OldKeyFits /\ FinishedIsComplete /\ NeedIsSound
=============================================================================

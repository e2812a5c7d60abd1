-------------------------------- MODULE Vlob --------------------------------
(***************************************************************************)
(* The vlob component of the guardata server on top of the realms: a vlob  *)
(* is a versioned, client-encrypted manifest that belongs to a realm.  The *)
(* server keeps every version, numbers the changes of each realm           *)
(* (checkpoint) so that clients can poll what they missed, and swaps all   *)
(* versions for re-encrypted ones when a maintenance finishes.             *)
(***************************************************************************)
EXTENDS Realm

CONSTANTS
  VlobIds,     \* vlob identifiers, shared by all the realms
  Pollers,     \* the users whose polling is followed
  MaxStamp,    \* bound: timestamps of versions are 1..MaxStamp
  MaxVersion   \* bound: versions per vlob

ASSUME VlobAssumption == MaxVersion \in Nat /\ MaxStamp \in Nat /\ Pollers \subseteq Users

VARIABLES
  vlobs,          \* vlobs[v]: the realm of the vlob and its versions
  changes,        \* changes[r]: checkpoint of the realm and last change of each vlob
  reencryption,   \* reencryption[r]: progress of the running maintenance
  polled          \* polled[u][r]: checkpoint and versions the client u knows

vlobVars == <<vlobs, changes, reencryption, polled>>
vars == <<realmVars, vlobVars>>

NoRealm == "norealm"

ASSUME NoRealmAssumption == NoRealm \notin Realms

Versions == 1..MaxVersion
Stamps == 1..MaxStamp

\* One stored version: the revision of the key its author encrypted it with (the
\* server sees only bytes) and its timestamp.
Atom == [rev : Revisions, ts : Stamps]

Keys == VlobIds \X Versions
KeysOf(r) == {k \in Keys : vlobs[k[1]].realm = r /\ k[2] <= Len(vlobs[k[1]].data)}

NoReencryption == [active |-> FALSE, todo |-> {}, done |-> {}]

-----------------------------------------------------------------------------
(* Access checks *)

ReadRoles == {"OWNER", "MANAGER", "CONTRIBUTOR", "READER"}
WriteRoles == {"OWNER", "MANAGER", "CONTRIBUTOR"}

\* Mutant: _check_realm_access forgets the maintenance.
AccessInMaintenance(r, u, roles) == RoleOf(r, u) \in roles

\* _check_realm_access with expected_maintenance = False.
Access(r, u, roles) == RoleOf(r, u) \in roles /\ ~status[r].maintenance

\* Mutant: the encryption revision of a request is not compared.
RevisionMatchesAny(r, rev) == TRUE

\* The encryption_revision of a request must be the one of the realm.
RevisionMatches(r, rev) == rev = status[r].rev

\* _check_realm_in_maintenance_access.
MaintenanceAccess(r, u, rev) ==
  RoleOf(r, u) = "OWNER" /\ status[r].maintenance /\ RevisionMatches(r, rev)

-----------------------------------------------------------------------------
(* Writing and polling *)

\* _update_changes: the realm moves to its next checkpoint, the vlob's last change.
Changed(c, v, version) ==
  [checkpoint |-> c.checkpoint + 1,
   of |-> [c.of EXCEPT ![v] = [checkpoint |-> c.checkpoint + 1, version |-> version]]]

VlobCreate(r, by, rev, v, ts) ==
  /\ by \in connected
  /\ Access(r, by, WriteRoles) /\ RevisionMatches(r, rev)
  /\ vlobs[v].realm = NoRealm
  /\ MaxVersion > 0
  /\ vlobs' = [vlobs EXCEPT ![v] = [realm |-> r, data |-> <<[rev |-> rev, ts |-> ts]>>]]
  /\ changes' = [changes EXCEPT ![r] = Changed(@, v, 1)]
  /\ UNCHANGED <<realmVars, reencryption, polled>>

\* Mutant: a version older than the last one is accepted.
TimestampAcceptedAny(data, ts) == TRUE

\* update refuses a timestamp before the one of the last version.
TimestampAccepted(data, ts) == ts >= data[Len(data)].ts

VlobUpdate(by, rev, v, version, ts) ==
  /\ by \in connected
  /\ vlobs[v].realm # NoRealm
  /\ Access(vlobs[v].realm, by, WriteRoles) /\ RevisionMatches(vlobs[v].realm, rev)
  /\ version - 1 = Len(vlobs[v].data)
  /\ TimestampAccepted(vlobs[v].data, ts)
  /\ vlobs' = [vlobs EXCEPT ![v].data = Append(@, [rev |-> rev, ts |-> ts])]
  /\ changes' = [changes EXCEPT ![vlobs[v].realm] = Changed(@, v, version)]
  /\ UNCHANGED <<realmVars, reencryption, polled>>

\* Mutant: an off-by-one in the comparison skips the change right after the
\* checkpoint of the client.
NewSinceOffByOne(change, checkpoint) == change.checkpoint > checkpoint + 1

\* poll_changes reports the changes after the checkpoint of the client.
NewSince(change, checkpoint) == change.checkpoint > checkpoint

\* The client asks for what changed since its checkpoint and moves to the new one.
PollChanges(u, r) ==
  /\ u \in connected
  /\ Access(r, u, ReadRoles)
  /\ polled' = [polled EXCEPT ![u][r] =
       [checkpoint |-> changes[r].checkpoint,
        version |-> [v \in VlobIds |->
          IF NewSince(changes[r].of[v], @.checkpoint)
            THEN changes[r].of[v].version ELSE @.version[v]]]]
  /\ UNCHANGED <<realmVars, vlobs, changes, reencryption>>

\* read(version = None, timestamp): the last version not after the timestamp,
\* searched from the end; 0 stands for VlobVersionError.
VersionAt(data, ts) ==
  IF \E i \in DOMAIN data : data[i].ts <= ts
    THEN CHOOSE i \in DOMAIN data :
           data[i].ts <= ts /\ \A j \in DOMAIN data : j > i => data[j].ts > ts
    ELSE 0

-----------------------------------------------------------------------------
(* Re-encryption *)

\* Reencryption.__init__: every version of every vlob of the realm.
Todo(r) == KeysOf(r)

StartMaintenance(r, by, rev, participants) ==
  /\ StartReencryption(r, by, rev, participants)
  /\ ~reencryption[r].active
  /\ reencryption' = [reencryption EXCEPT ![r] =
       [active |-> TRUE, todo |-> Todo(r), done |-> {}]]
  /\ UNCHANGED <<vlobs, changes, polled>>

\* The items of a batch before the first one that is neither to do nor done:
\* save_batch raises there and keeps what it has saved so far.
Saved(re, batch) ==
  LET known == re.todo \cup {d.key : d \in re.done}
  IN  {batch[i] : i \in {i \in DOMAIN batch : \A j \in 1..i : batch[j] \in known}}

\* The items of the batch are encrypted by the client for the revision rev.
SaveBatch(r, by, rev, batch) ==
  /\ by \in connected
  /\ MaintenanceAccess(r, by, rev)
  /\ LET new == Saved(reencryption[r], batch) \cap reencryption[r].todo IN
       reencryption' = [reencryption EXCEPT ![r] =
         [active |-> TRUE, todo |-> @.todo \ new,
          done |-> @.done \cup {[key |-> k, rev |-> rev] : k \in new}]]
  /\ UNCHANGED <<realmVars, vlobs, changes, polled>>

\* is_finished: nothing left to do.
IsFinished(re) == re.active /\ re.todo = {}

\* Mutant: the re-encrypted version gets the timestamp of the first one.
ReencryptedResetTime(v, n, done) ==
  [rev |-> (CHOOSE d \in done : d.key = <<v, n>>).rev, ts |-> vlobs[v].data[1].ts]

\* get_reencrypted_vlobs keeps the author and the timestamp of the original.
Reencrypted(v, n, done) ==
  IF \E d \in done : d.key = <<v, n>>
    THEN [rev |-> (CHOOSE d \in done : d.key = <<v, n>>).rev, ts |-> vlobs[v].data[n].ts]
    ELSE vlobs[v].data[n]

FinishMaintenance(r, by, rev) ==
  /\ FinishReencryption(r, by, rev)
  /\ IsFinished(reencryption[r])
  /\ vlobs' = [v \in VlobIds |->
       IF vlobs[v].realm # r THEN vlobs[v] ELSE
         [realm |-> r, data |-> [n \in DOMAIN vlobs[v].data |->
            Reencrypted(v, n, reencryption[r].done)]]]
  /\ reencryption' = [reencryption EXCEPT ![r] = NoReencryption]
  /\ UNCHANGED <<changes, polled>>

-----------------------------------------------------------------------------

Init ==
  /\ RealmInit
  /\ vlobs = [v \in VlobIds |-> [realm |-> NoRealm, data |-> <<>>]]
  /\ changes = [r \in Realms |->
       [checkpoint |-> 0, of |-> [v \in VlobIds |-> [checkpoint |-> 0, version |-> 0]]]]
  /\ reencryption = [r \in Realms |-> NoReencryption]
  /\ polled = [u \in Pollers |-> [r \in Realms |->
       [checkpoint |-> 0, version |-> [v \in VlobIds |-> 0]]]]

\* The operations of the realm component that leave the vlobs alone.
RealmStep ==
  /\ \/ \E r \in Realms, by \in Users, on \in Times : RealmCreate(r, by, on)
     \/ \E r \in Realms : Sharing(r)
     \/ \E s \in sending : PostMessage(s)
     \/ \E by \in Users, u \in Users : RevokeUser(by, u)
     \/ \E u \in Users : Kick(u)
  /\ UNCHANGED vlobVars

\* Bound: batches of two items, where an item given twice is saved once and
\* stands for the batch of that item alone.
Batches == [1..2 -> Keys]

Next ==
  \/ RealmStep
  \/ \E r \in Realms, by \in Users, rev \in Revisions, v \in VlobIds, ts \in Stamps :
       VlobCreate(r, by, rev, v, ts)
  \/ \E by \in Users, rev \in Revisions, v \in VlobIds, n \in Versions, ts \in Stamps :
       VlobUpdate(by, rev, v, n, ts)
  \/ \E u \in Pollers, r \in Realms : PollChanges(u, r)
  \/ \E r \in Realms, by \in Users, rev \in Revisions, participants \in SUBSET Users :
       StartMaintenance(r, by, rev, participants)
  \/ \E r \in Realms, by \in Users, rev \in Revisions : MaintenanceAccess(r, by, rev) /\
       \E batch \in Batches : SaveBatch(r, by, rev, batch)
  \/ \E r \in Realms, by \in Users, rev \in Revisions : FinishMaintenance(r, by, rev)

Spec == Init /\ [][Next]_vars

-----------------------------------------------------------------------------
(* Properties *)

Change == [checkpoint : Nat, version : 0..MaxVersion]

\* Every variable holds a value of its kind.
TypeOK ==
  /\ RealmTypeOK
  /\ vlobs \in [VlobIds -> [realm : Realms \cup {NoRealm}, data : Seq(Atom)]]
  /\ changes \in [Realms -> [checkpoint : Nat, of : [VlobIds -> Change]]]
  /\ reencryption \in [Realms ->
       [active : BOOLEAN, todo : SUBSET Keys, done : SUBSET [key : Keys, rev : Revisions]]]
  /\ polled \in [Pollers -> [Realms -> [checkpoint : Nat, version : [VlobIds -> 0..MaxVersion]]]]

\* Outside a maintenance, every version of every vlob of a realm is encrypted with
\* the key of the realm's current revision: a client that holds this key can read
\* the whole history.  It takes the revision check on writes, the refusal of
\* writes during a maintenance and a re-encryption that covers every version.
OneKeyReadsAll ==
  \A r \in Realms : ~status[r].maintenance =>
    \A k \in KeysOf(r) : vlobs[k[1]].data[k[2]].rev = status[r].rev

\* During a maintenance, what is to do and what is done partition the versions of
\* the realm, whoever of the owners saves which batch how often: the work can
\* neither be lost nor miss a version.
ReencryptionCoversRealm ==
  \A r \in Realms : status[r].maintenance =>
    LET doneKeys == {d.key : d \in reencryption[r].done} IN
      /\ reencryption[r].todo \cup doneKeys = KeysOf(r)
      /\ reencryption[r].todo \cap doneKeys = {}

\* A client never misses a change: what it knows of a vlob is the current version,
\* or the next poll will report the vlob.
PollMissesNothing ==
  \A u \in Pollers, r \in Realms, v \in VlobIds : vlobs[v].realm = r =>
    \/ polled[u][r].version[v] = Len(vlobs[v].data)
    \/ changes[r].of[v].checkpoint > polled[u][r].checkpoint

\* Reading at a timestamp gives a cut of the history: every version up to the one
\* returned is from that time or before, every later one is after it.
HistoryIsOrdered ==
  \A v \in VlobIds, t \in Stamps : \A i \in DOMAIN vlobs[v].data :
    vlobs[v].data[i].ts <= t <=> i <= VersionAt(vlobs[v].data, t)

\* History is only ever appended to: no step removes a version, moves a vlob to
\* another realm or changes the time of a version.  A re-encryption swaps bytes,
\* not history.
HistoryKept ==
  [][\A v \in VlobIds :
       /\ vlobs[v].realm # NoRealm => vlobs'[v].realm = vlobs[v].realm
       /\ Len(vlobs'[v].data) >= Len(vlobs[v].data)
       /\ \A i \in DOMAIN vlobs[v].data : vlobs'[v].data[i].ts = vlobs[v].data[i].ts]_vars

=============================================================================

---------------------------- MODULE UserManifest ----------------------------
(***************************************************************************)
(* How the devices of one user learn of the workspaces shared with them:   *)
(* each one processes the messages of the user (module Realm posts them)   *)
(* and synchronizes the user manifest, which holds an entry per workspace  *)
(* (key, name, cached role) and the number of messages already processed.  *)
(*                                                                         *)
(* Between the request for the roles of a workspace and the write of the   *)
(* entry there is an await, so that the roles, the messages and the        *)
(* manifest may change in between.  The user manifest is written to the    *)
(* local database by each change: a crash only loses the running tasks.    *)
(***************************************************************************)
EXTENDS Realm

CONSTANTS
  Self,             \* the user
  Devices,          \* the devices of the user
  MaxStamps,        \* bound: roles written to an entry
  MaxUserVersion,   \* bound: versions of the user manifest on the server
  MaxRenames,       \* bound: workspaces renamed
  MaxGiveUps        \* bound: tasks interrupted

ASSUME SelfAssumption == Self \in Users
ASSUME ClientBoundAssumption ==
  /\ MaxStamps \in Nat /\ MaxUserVersion \in Nat
  /\ MaxRenames \in Nat /\ MaxGiveUps \in Nat

VARIABLES
  um,         \* um[d]: the local user manifest of device d
  umVlob,     \* the versions of the user manifest on the server
  messages,   \* messages[d]: the run of process_last_messages of d
  syncing,    \* syncing[d]: the run of sync of d
  passed,     \* the messages some device skipped: no access, or sender not entitled
  stamp, renames, giveUps

clientVars == <<um, umVlob, messages, syncing, passed, stamp, renames, giveUps>>
vars == <<realmVars, clientVars>>

-----------------------------------------------------------------------------
(* Workspace entries *)

\* rev is the encryption revision of the key, 0 without an entry; name counts the
\* renamings; on is role_cached_on.  The history field cert says how many role
\* certificates the user had when the role was read.
WorkspaceEntry(rev, name, role, on, cert) ==
  [rev |-> rev, name |-> name, role |-> role, on |-> on, cert |-> cert]

NoEntry == WorkspaceEntry(0, 0, NoRole, 0, 0)
NoEntries == [w \in Realms |-> NoEntry]

Known(entry) == entry.rev # 0
MaxOf(a, b) == IF a < b THEN b ELSE a

\* "Keep most recent cache info on role"
MergedRole(d, t) ==
  IF t.role = d.role
    THEN [role |-> t.role, on |-> MaxOf(t.on, d.on), cert |-> MaxOf(t.cert, d.cert)]
  ELSE IF t.on > d.on
    THEN [role |-> t.role, on |-> t.on, cert |-> t.cert]
  ELSE [role |-> d.role, on |-> d.on, cert |-> d.cert]

\* The target wins when both sides renamed the workspace.
MergedName(b, d, t) ==
  IF Known(b) /\ b.name = t.name /\ b.name # d.name THEN d.name ELSE t.name

\* "Keep last encryption"
MergedKey(d, t) == IF d.rev < t.rev THEN t.rev ELSE d.rev

\* merge_workspace_entry; b is NoEntry without a base.
MergeEntry(b, d, t) ==
  LET info == MergedRole(d, t) IN
    WorkspaceEntry(MergedKey(d, t), MergedName(b, d, t), info.role, info.on, info.cert)

-----------------------------------------------------------------------------
(* User manifests *)

NewPlaceholder == [base |-> 0, entries |-> NoEntries, last |-> 0, need |-> TRUE]

BaseEntries(m) == IF m.base = 0 THEN NoEntries ELSE umVlob[m.base].entries

\* Mutant: the entries only this device has are forgotten.
MergedEntriesTarget(m, target) ==
  [w \in Realms |-> IF Known(target.entries[w]) THEN
     MergeEntry(BaseEntries(m)[w], m.entries[w], target.entries[w]) ELSE NoEntry]

\* Mutant: the entry of the target is taken as it is.
MergedEntriesTheirs(m, target) ==
  [w \in Realms |-> IF Known(target.entries[w]) THEN target.entries[w] ELSE m.entries[w]]

\* merge_workspace_entries.
MergedEntries(m, target) ==
  [w \in Realms |->
     IF ~Known(target.entries[w]) THEN m.entries[w]
     ELSE IF ~Known(m.entries[w]) THEN target.entries[w]
     ELSE MergeEntry(BaseEntries(m)[w], m.entries[w], target.entries[w])]

\* The target lacks an entry, or some processed message, of this device.  A name, a
\* key or a role that only this device has does not count.
StillNeedsSync(m, target) ==
  \/ \E w \in Realms : Known(m.entries[w]) /\ ~Known(target.entries[w])
  \/ m.last > target.last

\* merge_local_user_manifests with version v of the server.
Merge(m, v, target) ==
  [base |-> v, entries |-> MergedEntries(m, target),
   last |-> MaxOf(m.last, target.last), need |-> StillNeedsSync(m, target)]

-----------------------------------------------------------------------------
(* Local operations *)

Online == Self \in connected

\* A new workspace has an identifier nobody else knows.
Fresh(w) ==
  /\ ~Exists(w)
  /\ \A d \in Devices : ~Known(um[d].entries[w])
  /\ \A v \in DOMAIN umVlob : ~Known(umVlob[v].entries[w])

WorkspaceCreate(d, w) ==
  /\ Fresh(w)
  /\ stamp < MaxStamps
  /\ stamp' = stamp + 1
  /\ um' = [um EXCEPT ![d] =
       [@ EXCEPT !.entries[w] = WorkspaceEntry(1, 0, "OWNER", stamp + 1, 0), !.need = TRUE]]
  /\ UNCHANGED <<realmVars, umVlob, messages, syncing, passed, renames, giveUps>>

WorkspaceRename(d, w) ==
  /\ Known(um[d].entries[w])
  /\ renames < MaxRenames
  /\ renames' = renames + 1
  /\ um' = [um EXCEPT ![d] = [@ EXCEPT !.entries[w].name = renames + 1, !.need = TRUE]]
  /\ UNCHANGED <<realmVars, umVlob, messages, syncing, passed, stamp, giveUps>>

-----------------------------------------------------------------------------
(* process_last_messages *)

NoRun == [pc |-> "idle", i |-> 0, upto |-> 0, done |-> 0, role |-> NoRole, cert |-> 0]

\* message_get: all the messages after the last one processed.
MessageGet(d) ==
  /\ Online
  /\ messages[d].pc = "idle"
  /\ um[d].last < Len(inbox[Self])
  /\ messages' = [messages EXCEPT ![d] = [NoRun EXCEPT !.pc = "next",
       !.i = um[d].last + 1, !.upto = Len(inbox[Self]), !.done = um[d].last]]
  /\ UNCHANGED <<realmVars, um, umVlob, syncing, passed, stamp, renames, giveUps>>

\* The message under way of device d.
Current(d) == inbox[Self][messages[d].i]

\* A sharing without access and an exclusion with access are passed over.
Void(m) == (m.rev > 0) <=> (RoleOf(m.realm, Self) = NoRole)

\* The sender of a key must be owner or manager, now.
Entitled(m) == m.rev > 0 => RoleOf(m.realm, m.by) \in {"OWNER", "MANAGER"}

\* The roles of the workspace are loaded for the next message.
LoadRoles(d) ==
  LET run == messages[d]
      m == Current(d)
  IN  /\ Online
      /\ run.pc = "next" /\ run.i <= run.upto
      /\ \/ /\ Void(m)
            /\ messages' = [messages EXCEPT ![d] =
                 [run EXCEPT !.i = run.i + 1, !.done = run.i]]
            /\ passed' = passed \cup {run.i}
         \/ /\ ~Void(m) /\ ~Entitled(m)
            /\ messages' = [messages EXCEPT ![d] = [run EXCEPT !.i = run.i + 1]]
            /\ passed' = passed \cup {run.i}
         \/ /\ ~Void(m) /\ Entitled(m)
            /\ messages' = [messages EXCEPT ![d] = [run EXCEPT !.pc = "apply",
                 !.role = RoleOf(m.realm, Self), !.cert = Len(grants[m.realm][Self])]]
            /\ UNCHANGED passed
      /\ UNCHANGED <<realmVars, um, umVlob, syncing, stamp, renames, giveUps>>

\* The entry after the message: a key is merged into the entry there is, an
\* exclusion only sets the role.
Applied(entry, run, m) ==
  LET new == WorkspaceEntry(m.rev, 0, run.role, stamp + 1, run.cert) IN
    IF m.rev > 0
      THEN IF Known(entry) THEN MergeEntry(NoEntry, new, entry) ELSE new
      ELSE [entry EXCEPT !.role = NoRole, !.on = stamp + 1, !.cert = run.cert]

\* The stamp is taken when the answer arrives and the entry written under the lock
\* right after; what is written in between only moves the order of the stamps.
ApplyMessage(d) ==
  LET run == messages[d]
      m == Current(d)
  IN  /\ run.pc = "apply"
      /\ stamp < MaxStamps
      /\ stamp' = stamp + 1
      /\ um' = IF m.rev = 0 /\ ~Known(um[d].entries[m.realm]) THEN um
               ELSE [um EXCEPT ![d] = [@ EXCEPT !.need = TRUE,
                       !.entries[m.realm] = Applied(um[d].entries[m.realm], run, m)]]
      /\ messages' = [messages EXCEPT ![d] =
           [run EXCEPT !.pc = "next", !.i = run.i + 1, !.done = run.i]]
      /\ UNCHANGED <<realmVars, umVlob, syncing, passed, renames, giveUps>>

\* The offset moves to the last message that was processed, past those refused.
EndMessages(d) ==
  LET run == messages[d] IN
    /\ run.pc = "next" /\ run.i > run.upto
    /\ messages' = [messages EXCEPT ![d] = NoRun]
    /\ um' = IF um[d].last < run.done
               THEN [um EXCEPT ![d] = [@ EXCEPT !.last = run.done, !.need = TRUE]] ELSE um
    /\ UNCHANGED <<realmVars, umVlob, syncing, passed, stamp, renames, giveUps>>

-----------------------------------------------------------------------------
(* sync *)

Target(m) == [entries |-> m.entries, last |-> m.last]
NoSync == [pc |-> "idle", version |-> 0, doc |-> [entries |-> NoEntries, last |-> 0]]

SyncStart(d) ==
  /\ Online
  /\ syncing[d].pc = "idle"
  /\ um[d].need \/ um[d].base < Len(umVlob)
  /\ syncing' = [syncing EXCEPT ![d] =
       IF um[d].need
         THEN [pc |-> "upload", version |-> um[d].base + 1, doc |-> Target(um[d])]
         ELSE [NoSync EXCEPT !.pc = "fetch"]]
  /\ UNCHANGED <<realmVars, um, umVlob, messages, passed, stamp, renames, giveUps>>

\* Mutant: the server takes any version.
IsNextVersionAny(version) == TRUE

\* vlob_create wants no version, vlob_update the next one.
IsNextVersion(version) == version = Len(umVlob) + 1

Upload(d) ==
  /\ Online
  /\ syncing[d].pc = "upload"
  /\ IF IsNextVersion(syncing[d].version)
       THEN /\ Len(umVlob) < MaxUserVersion
            /\ umVlob' = Append(umVlob, syncing[d].doc)
            /\ syncing' = [syncing EXCEPT ![d].pc = "merge", ![d].version = Len(umVlob) + 1]
       ELSE /\ syncing' = [syncing EXCEPT ![d] = [NoSync EXCEPT !.pc = "fetch"]]
            /\ UNCHANGED umVlob
  /\ UNCHANGED <<realmVars, um, messages, passed, stamp, renames, giveUps>>

\* _fetch_remote_user_manifest; nothing more to do when there is nothing new.
Fetch(d) ==
  LET last == Len(umVlob) IN
    /\ Online
    /\ syncing[d].pc = "fetch"
    /\ syncing' = [syncing EXCEPT ![d] =
         IF last = um[d].base THEN NoSync
         ELSE [pc |-> "merge", version |-> last, doc |-> umVlob[last]]]
    /\ UNCHANGED <<realmVars, um, umVlob, messages, passed, stamp, renames, giveUps>>

\* Under the lock: merge what was downloaded or uploaded, unless a concurrent
\* operation already did.
MergeBack(d) ==
  LET s == syncing[d] IN
    /\ s.pc = "merge"
    /\ um' = IF s.version > um[d].base THEN [um EXCEPT ![d] = Merge(@, s.version, s.doc)] ELSE um
    /\ syncing' = [syncing EXCEPT ![d] = NoSync]
    /\ UNCHANGED <<realmVars, umVlob, messages, passed, stamp, renames, giveUps>>

\* The server cannot be reached any more, or the client dies.
GiveUp(d) ==
  /\ messages[d] # NoRun \/ syncing[d] # NoSync
  /\ giveUps < MaxGiveUps
  /\ giveUps' = giveUps + 1
  /\ messages' = [messages EXCEPT ![d] = NoRun]
  /\ syncing' = [syncing EXCEPT ![d] = NoSync]
  /\ UNCHANGED <<realmVars, um, umVlob, passed, stamp, renames>>

-----------------------------------------------------------------------------

Init ==
  /\ RealmInit
  /\ um = [d \in Devices |-> NewPlaceholder]
  /\ umVlob = <<>>
  /\ messages = [d \in Devices |-> NoRun]
  /\ syncing = [d \in Devices |-> NoSync]
  /\ passed = {}
  /\ stamp = 0 /\ renames = 0 /\ giveUps = 0

\* Somebody of the user holds the key of revision rev.
Holds(w, rev) == \E d \in Devices : um[d].entries[w].rev = rev

\* The server and the other users.  The user creates the realm of a workspace made
\* before, and re-encrypts with a key to replace.
ServerStep ==
  /\ \/ \E r \in Realms, by \in Users, on \in Times :
          /\ IF by = Self THEN Holds(r, 1) ELSE Fresh(r)
          /\ RealmCreate(r, by, on)
     \/ \E r \in Realms : Sharing(r)
     \/ \E r \in Realms, by \in Users, rev \in Revisions, participants \in SUBSET Users :
          /\ by = Self => Holds(r, rev - 1)
          /\ StartReencryption(r, by, rev, participants)
     \/ \E r \in Realms, by \in Users, rev \in Revisions : FinishReencryption(r, by, rev)
     \/ \E s \in sending : PostMessage(s)
     \/ \E by \in Users, u \in Users : RevokeUser(by, u)
     \/ \E u \in Users : Kick(u)
  /\ UNCHANGED clientVars

ProcessMessages(d) == MessageGet(d) \/ LoadRoles(d) \/ ApplyMessage(d) \/ EndMessages(d)
Sync(d) == SyncStart(d) \/ Upload(d) \/ Fetch(d) \/ MergeBack(d)

Next ==
  \/ ServerStep
  \/ \E d \in Devices, w \in Realms : WorkspaceCreate(d, w) \/ WorkspaceRename(d, w)
  \/ \E d \in Devices : ProcessMessages(d)
  \/ \E d \in Devices : Sync(d)
  \/ \E d \in Devices : GiveUp(d)

Spec == Init /\ [][Next]_vars

\* The messages monitor and the sync monitor of each device run while it is online.
FairSpec ==
  Spec /\ \A d \in Devices : WF_vars(ProcessMessages(d)) /\ WF_vars(Sync(d))

-----------------------------------------------------------------------------
(* Properties *)

Entry == [rev : 0..MaxRevision, name : 0..MaxRenames, role : Role \cup {NoRole},
          on : 0..MaxStamps, cert : Nat]
Entries == [Realms -> Entry]

\* Every variable of the clients holds a value of its kind.
TypeOK ==
  /\ um \in [Devices -> [base : 0..MaxUserVersion, entries : Entries, last : Nat,
                         need : BOOLEAN]]
  /\ umVlob \in Seq([entries : Entries, last : Nat])
  /\ messages \in [Devices -> [pc : {"idle", "next", "apply"}, i : Nat, upto : Nat,
                               done : Nat, role : Role \cup {NoRole}, cert : Nat]]
  /\ syncing \in [Devices -> [pc : {"idle", "upload", "fetch", "merge"}, version : Nat,
                              doc : [entries : Entries, last : Nat]]]
  /\ passed \subseteq Nat
  /\ stamp \in 0..MaxStamps /\ renames \in 0..MaxRenames /\ giveUps \in 0..MaxGiveUps

\* The manifests hold what the messages up to their offset brought: when a device
\* skips a message because another device has processed it, it has the key from
\* that device.
Reflects(m) ==
  \A n \in 1..m.last : LET msg == inbox[Self][n] IN
    n \notin passed /\ msg.rev > 0 => m.entries[msg.realm].rev >= msg.rev

NoKeyMissed ==
  /\ \A d \in Devices : Reflects(um[d])
  /\ \A v \in DOMAIN umVlob : Reflects(umVlob[v])

\* What merge_workspace_entries asserts: a merge finds the entries of its base on
\* both sides.
MergeAssertionsHold ==
  \A d \in Devices : syncing[d].pc = "merge" /\ syncing[d].version > um[d].base =>
    \A w \in Realms : Known(BaseEntries(um[d])[w]) =>
      Known(um[d].entries[w]) /\ Known(syncing[d].doc.entries[w])

\* A device never goes back to the key of an earlier revision.
KeysNeverGoBack ==
  [][\A d \in Devices, w \in Realms : um'[d].entries[w].rev >= um[d].entries[w].rev]_vars

\* "Keep most recent cache info on role": a device never gives up the role of an
\* entry for one that was read from the server before.
RoleInfoNeverGoesBack ==
  [][\A d \in Devices, w \in Realms : um'[d].entries[w].cert >= um[d].entries[w].cert]_vars

\* Unless some message was skipped or the user is revoked, the devices end up with
\* the same keys.
DevicesAgreeOnKeys ==
  <>[](passed = {} /\ Online => \A d, e \in Devices, w \in Realms :
         um[d].entries[w].rev = um[e].entries[w].rev)

=============================================================================

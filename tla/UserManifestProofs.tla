------------------------- MODULE UserManifestProofs -------------------------
(***************************************************************************)
(* Proofs about module UserManifest: what the devices of a user do is done *)
(* on top of module Realm, no key of a device is ever replaced by an older *)
(* one, the assertions of the merges hold, and no key of a processed       *)
(* message is missed.                                                      *)
(***************************************************************************)
EXTENDS UserManifest, RealmProofs

-----------------------------------------------------------------------------
(* The inductive invariants *)

\* The runs of sync stay within the versions of the server, and what is merged is one of them.
SyncInv ==
  /\ Len(umVlob) <= MaxUserVersion
  /\ \A d \in Devices :
       /\ um[d].base <= Len(umVlob)
       /\ syncing[d].pc = "upload" => syncing[d].version \in 1..(Len(umVlob) + 1)
       /\ syncing[d].pc = "merge" => /\ syncing[d].version \in 1..Len(umVlob)
                                     /\ syncing[d].doc = umVlob[syncing[d].version]

\* The runs of process_last_messages stay within the messages there are.
RunInv ==
  \A d \in Devices : messages[d].pc # "idle" =>
    /\ messages[d].upto <= Len(inbox[Self])
    /\ messages[d].i \in 1..(messages[d].upto + 1)
    /\ messages[d].done < messages[d].i
    /\ messages[d].pc = "apply" => messages[d].i <= messages[d].upto

\* An entry is never dropped: not by a device since its base version, not by a version of the
\* server since those before it, and not by a document on its way there.
KnownInv ==
  /\ \A d \in Devices, w \in Realms :
       Known(BaseEntries(um[d])[w]) => Known(um[d].entries[w])
  /\ \A i, j \in DOMAIN umVlob, w \in Realms :
       i <= j /\ Known(umVlob[i].entries[w]) => Known(umVlob[j].entries[w])
  /\ \A d \in Devices, w \in Realms :
       /\ syncing[d].pc = "upload" /\ syncing[d].version > 1
       /\ Known(umVlob[syncing[d].version - 1].entries[w])
       => Known(syncing[d].doc.entries[w])

\* The entries hold the keys of the first n messages of a queue, but for those passed over.
ReflectsIn(queue, skipped, entries, n) ==
  \A k \in 1..n : k \notin skipped /\ queue[k].rev > 0 =>
    entries[queue[k].realm].rev >= queue[k].rev

ReflectsFirst(entries, n) == ReflectsIn(inbox[Self], passed, entries, n)

\* The inductive form of NoKeyMissed: it also holds of documents on their way, and of the
\* messages a device has gone through without having moved its offset yet.
ReflectInv ==
  /\ \A d \in Devices :
       /\ um[d].last <= Len(inbox[Self])
       /\ ReflectsFirst(um[d].entries, um[d].last)
       /\ syncing[d].doc.last <= Len(inbox[Self])
       /\ ReflectsFirst(syncing[d].doc.entries, syncing[d].doc.last)
       /\ messages[d].pc # "idle" => ReflectsFirst(um[d].entries, messages[d].i - 1)
  /\ \A v \in DOMAIN umVlob :
       /\ umVlob[v].last <= Len(inbox[Self])
       /\ ReflectsFirst(umVlob[v].entries, umVlob[v].last)

-----------------------------------------------------------------------------
(* The realm component underneath *)

\* Every step of the devices leaves the server's realms alone, and every other step is one
\* that the realm component takes.
LEMMA ManifestSimulation ==
  ASSUME [Next]_vars
  PROVE  [RealmNext]_realmVars
<1>1. CASE ServerStep
  BY <1>1 DEF ServerStep, RealmNext
<1>2. CASE \E d \in Devices, w \in Realms : WorkspaceCreate(d, w) \/ WorkspaceRename(d, w)
  BY <1>2 DEF WorkspaceCreate, WorkspaceRename
<1>3. CASE \E d \in Devices : ProcessMessages(d)
  BY <1>3 DEF ProcessMessages, MessageGet, LoadRoles, ApplyMessage, EndMessages
<1>4. CASE \E d \in Devices : Sync(d)
  BY <1>4 DEF Sync, SyncStart, Upload, Fetch, MergeBack
<1>5. CASE \E d \in Devices : GiveUp(d)
  BY <1>5 DEF GiveUp
<1>6. CASE UNCHANGED vars
  BY <1>6 DEF vars
<1>7. QED
  BY <1>1, <1>2, <1>3, <1>4, <1>5, <1>6 DEF Next

\* The devices of a user, with the server, do nothing to roles, revisions and messages that
\* the realm component could not do.
THEOREM UserManifestImplementsRealm == Spec => RealmSpec
<1>1. Init => RealmInit
  BY DEF Init
<1>2. QED
  BY <1>1, ManifestSimulation, PTL DEF Spec, RealmSpec

\* Messages are only added to the queue of a user, at its end.
LEMMA InboxGrows ==
  ASSUME RealmTypeOK, [RealmNext]_realmVars
  PROVE  /\ Len(inbox[Self]) \in Nat
         /\ Len(inbox'[Self]) \in Nat
         /\ Len(inbox[Self]) <= Len(inbox'[Self])
         /\ \A k \in 1..Len(inbox[Self]) : inbox'[Self][k] = inbox[Self][k]
<1> USE SelfAssumption
<1>0. inbox[Self] \in Seq(Message)
  BY DEF RealmTypeOK
<1>1. CASE inbox' = inbox
  BY <1>0, <1>1
<1>2. ASSUME NEW s \in sending, PostMessage(s)
      PROVE  /\ Len(inbox'[Self]) \in Nat /\ Len(inbox[Self]) <= Len(inbox'[Self])
             /\ \A k \in 1..Len(inbox[Self]) : inbox'[Self][k] = inbox[Self][k]
  <2>1. s.msg \in Message
    BY DEF RealmTypeOK
  <2>2. inbox'[Self] = inbox[Self] \/ inbox'[Self] = Append(inbox[Self], s.msg)
    BY <1>2 DEF PostMessage, RealmTypeOK
  <2>3. QED
    BY <1>0, <2>1, <2>2
<1>3. CASE UNCHANGED realmVars
  BY <1>1, <1>0, <1>3 DEF realmVars
<1>4. CASE \E r \in Realms, by \in Users, on \in Times : RealmCreate(r, by, on)
  BY <1>1, <1>0, <1>4 DEF RealmCreate
<1>5. CASE \E r \in Realms : Sharing(r)
  BY <1>1, <1>0, <1>5 DEF Sharing, Share, UpdateRoles
<1>6. CASE \E r \in Realms, by \in Users, rev \in Revisions, participants \in SUBSET Users :
             StartReencryption(r, by, rev, participants)
  BY <1>1, <1>0, <1>6 DEF StartReencryption
<1>7. CASE \E r \in Realms, by \in Users, rev \in Revisions : FinishReencryption(r, by, rev)
  BY <1>1, <1>0, <1>7 DEF FinishReencryption
<1>8. CASE \E by \in Users, u \in Users : RevokeUser(by, u)
  BY <1>1, <1>0, <1>8 DEF RevokeUser
<1>9. CASE \E u \in Users : Kick(u)
  BY <1>1, <1>0, <1>9 DEF Kick
<1>10. QED
  BY <1>0, <1>2, <1>3, <1>4, <1>5, <1>6, <1>7, <1>8, <1>9 DEF RealmNext

\* The role of a user is one of the roles, or none.
LEMMA RoleOfIsRole ==
  ASSUME RealmTypeOK, NEW r \in Realms, NEW u \in Users
  PROVE  RoleOf(r, u) \in Role \cup {NoRole}
<1>1. grants[r][u] \in Seq(Grant)
  BY DEF RealmTypeOK
<1>2. CASE grants[r][u] = <<>>
  BY <1>2 DEF RoleOf, RoleIn
<1>3. CASE grants[r][u] # <<>>
  <2>1. LastIndex(grants[r][u]) \in DOMAIN grants[r][u]
    BY <1>1, <1>3, LastIndexIn
  <2>2. grants[r][u][LastIndex(grants[r][u])] \in Grant
    BY <1>1, <2>1
  <2>3. QED
    BY <1>3, <2>2 DEF RoleOf, RoleIn, Grant
<1>4. QED
  BY <1>2, <1>3

-----------------------------------------------------------------------------
(* Merges *)

\* The merge of two entries holds the later key of the two.
LEMMA MergeEntryKeepsKeys ==
  ASSUME NEW b \in Entry, NEW d \in Entry, NEW t \in Entry
  PROVE  /\ MergeEntry(b, d, t) \in Entry
         /\ MergeEntry(b, d, t).rev >= d.rev
         /\ MergeEntry(b, d, t).rev >= t.rev
<1> USE BoundAssumption, ClientBoundAssumption
<1>1. MergedKey(d, t) \in 0..MaxRevision /\ MergedKey(d, t) >= d.rev /\ MergedKey(d, t) >= t.rev
  BY DEF MergedKey, Entry
<1>2. MergedName(b, d, t) \in 0..MaxRenames
  BY DEF MergedName, Entry
<1>3. /\ MergedRole(d, t).role \in Role \cup {NoRole}
      /\ MergedRole(d, t).on \in 0..MaxStamps
      /\ MergedRole(d, t).cert \in Nat
  BY DEF MergedRole, Entry, MaxOf
<1>4. QED
  BY <1>1, <1>2, <1>3 DEF MergeEntry, WorkspaceEntry, Entry

\* A document of the server, and the manifest of a device.
Document == [entries : Entries, last : Nat]
Manifest == [base : 0..MaxUserVersion, entries : Entries, last : Nat, need : BOOLEAN]

\* There is an entry for every workspace, if only the empty one.
LEMMA NoEntriesType == NoEntry \in Entry /\ NoEntries \in Entries
  BY BoundAssumption, ClientBoundAssumption
  DEF NoEntry, NoEntries, WorkspaceEntry, Entry, Entries

\* The merge of two manifests holds the later key of the two, for every workspace.
LEMMA MergedEntriesKeepKeys ==
  ASSUME NEW m \in Manifest, NEW target \in Document, BaseEntries(m) \in Entries
  PROVE  /\ MergedEntries(m, target) \in Entries
         /\ \A w \in Realms : /\ MergedEntries(m, target)[w].rev >= m.entries[w].rev
                              /\ MergedEntries(m, target)[w].rev >= target.entries[w].rev
<1> DEFINE e == MergedEntries(m, target)
<1> SUFFICES ASSUME NEW w \in Realms
             PROVE  e[w] \in Entry /\ e[w].rev >= m.entries[w].rev /\ e[w].rev >= target.entries[w].rev
  BY DEF MergedEntries, Entries
<1>1. m.entries[w] \in Entry /\ target.entries[w] \in Entry /\ BaseEntries(m)[w] \in Entry
  BY DEF Manifest, Document, Entries
<1>2. m.entries[w].rev \in Nat /\ target.entries[w].rev \in Nat
  BY <1>1, BoundAssumption DEF Entry
<1>3. e[w] = IF ~Known(target.entries[w]) THEN m.entries[w]
             ELSE IF ~Known(m.entries[w]) THEN target.entries[w]
             ELSE MergeEntry(BaseEntries(m)[w], m.entries[w], target.entries[w])
  BY DEF MergedEntries
<1> HIDE DEF e
<1>4. QED
  BY <1>1, <1>2, <1>3, MergeEntryKeepsKeys DEF Known

-----------------------------------------------------------------------------
(* Types *)

\* Manifests and documents have the types that the lemmas on merges want.
LEMMA ManifestTypes ==
  ASSUME TypeOK, SyncInv, NEW d \in Devices
  PROVE  /\ um[d] \in Manifest
         /\ syncing[d].doc \in Document
         /\ umVlob \in Seq(Document)
         /\ BaseEntries(um[d]) \in Entries
         /\ um[d].base \in 0..Len(umVlob)
<1>1. um[d] \in Manifest /\ syncing[d].doc \in Document /\ umVlob \in Seq(Document)
  BY DEF TypeOK, Manifest, Document
<1>2. um[d].base \in 0..Len(umVlob) /\ Len(umVlob) \in Nat
  BY <1>1, ClientBoundAssumption DEF SyncInv, Manifest
<1>3. BaseEntries(um[d]) \in Entries
  <2>1. CASE um[d].base = 0
    BY <2>1, NoEntriesType DEF BaseEntries
  <2>2. CASE um[d].base # 0
    <3>1. umVlob[um[d].base] \in Document
      BY <1>1, <1>2, <2>2
    <3>2. QED
      BY <2>2, <3>1 DEF BaseEntries, Document
  <2>3. QED
    BY <2>1, <2>2
<1>4. QED
  BY <1>1, <1>2, <1>3

\* The message under way is one of the messages there are.
LEMMA CurrentMessage ==
  ASSUME RealmTypeOK, TypeOK, RunInv, NEW d \in Devices, messages[d].pc # "idle",
         messages[d].i <= messages[d].upto
  PROVE  /\ messages[d].i \in 1..Len(inbox[Self])
         /\ Current(d) \in Message
<1>1. inbox[Self] \in Seq(Message) /\ messages[d].i \in Nat /\ messages[d].upto \in Nat
  BY SelfAssumption DEF RealmTypeOK, TypeOK
<1>2. messages[d].i \in 1..Len(inbox[Self])
  BY <1>1 DEF RunInv
<1>3. QED
  BY <1>1, <1>2 DEF Current

\* What one step may do to the manifest of a device: leave it, set an entry with a key that
\* is not older, move the offset of the messages, or merge a version of the server.
UmStep(d) ==
  \/ um'[d] = um[d]
  \/ \E w \in Realms, e \in Entry :
       /\ e.rev >= um[d].entries[w].rev
       /\ um'[d] = [um[d] EXCEPT !.need = TRUE, !.entries[w] = e]
  \/ /\ messages[d].pc = "next"
     /\ um[d].last < messages[d].done
     /\ um'[d] = [um[d] EXCEPT !.last = messages[d].done, !.need = TRUE]
  \/ /\ syncing[d].pc = "merge"
     /\ syncing[d].version > um[d].base
     /\ um'[d] = Merge(um[d], syncing[d].version, syncing[d].doc)

\* The entry that a message makes of an entry has no older key, and the one of the message.
LEMMA AppliedKeepsKeys ==
  ASSUME TypeOK, NEW d \in Devices, NEW m \in Message, NEW entry \in Entry, stamp < MaxStamps,
         m.rev = 0 => Known(entry)
  PROVE  /\ Applied(entry, messages[d], m) \in Entry
         /\ Applied(entry, messages[d], m).rev >= entry.rev
         /\ Applied(entry, messages[d], m).rev >= m.rev
<1> USE BoundAssumption, ClientBoundAssumption
<1> DEFINE run == messages[d]
           new == WorkspaceEntry(m.rev, 0, run.role, stamp + 1, run.cert)
<1>1. run.role \in Role \cup {NoRole} /\ run.cert \in Nat /\ stamp + 1 \in 0..MaxStamps
  BY DEF TypeOK
<1>2. m.rev \in 0..MaxRevision /\ entry.rev \in Nat
  BY DEF Message, Entry
<1>3. new \in Entry /\ new.rev = m.rev
  BY <1>1, <1>2 DEF WorkspaceEntry, Entry
<1>4. CASE m.rev > 0 /\ Known(entry)
  <2>1. Applied(entry, run, m) = MergeEntry(NoEntry, new, entry)
    BY <1>4 DEF Applied
  <2> HIDE DEF new, run
  <2>2. QED
    BY <1>3, <2>1, MergeEntryKeepsKeys, NoEntriesType DEF run
<1>5. CASE m.rev > 0 /\ ~ Known(entry)
  <2>1. Applied(entry, run, m) = new
    BY <1>5 DEF Applied
  <2> HIDE DEF new, run
  <2>2. QED
    BY <1>2, <1>3, <1>5, <2>1 DEF run, Known
<1>6. CASE ~ (m.rev > 0)
  <2>1. Applied(entry, run, m) = [entry EXCEPT !.role = NoRole, !.on = stamp + 1, !.cert = run.cert]
    BY <1>6 DEF Applied
  <2> HIDE DEF new, run
  <2>2. [entry EXCEPT !.role = NoRole, !.on = stamp + 1, !.cert = run.cert] \in Entry
    BY <1>1 DEF Entry, run
  <2>3. QED
    BY <1>2, <1>6, <2>1, <2>2 DEF run, Entry
<1>7. QED
  BY <1>4, <1>5, <1>6

\* Every step does one of these to every device.
LEMMA EveryUmStep ==
  ASSUME RealmTypeOK, TypeOK, SyncInv, RunInv, [Next]_vars, NEW d \in Devices
  PROVE  UmStep(d)
<1> USE BoundAssumption, ClientBoundAssumption
<1>0. um[d] \in Manifest /\ \A w \in Realms : um[d].entries[w] \in Entry
  BY ManifestTypes DEF Manifest, Entries
<1>1. CASE um' = um
  BY <1>1 DEF UmStep
<1>2. ASSUME NEW e \in Devices, NEW w \in Realms, WorkspaceCreate(e, w)
      PROVE  UmStep(d)
  <2>1. CASE e # d
    BY <1>2, <2>1 DEF WorkspaceCreate, UmStep, TypeOK
  <2>2. CASE e = d
    <3> DEFINE new == WorkspaceEntry(1, 0, "OWNER", stamp + 1, 0)
    <3>0. stamp + 1 \in 0..MaxStamps
      <4>1. stamp \in 0..MaxStamps
        BY DEF TypeOK
      <4>2. stamp < MaxStamps
        BY <1>2 DEF WorkspaceCreate
      <4>3. QED
        BY <4>1, <4>2
    <3>1. new \in Entry /\ new.rev = 1
      BY <3>0 DEF WorkspaceEntry, Entry, Role
    <3>2. new.rev >= um[d].entries[w].rev
      BY <1>2, <3>1 DEF WorkspaceCreate, Fresh, Known
    <3>3. um'[d] = [um[d] EXCEPT !.need = TRUE, !.entries[w] = new]
      BY <1>2, <2>2 DEF WorkspaceCreate, TypeOK
    <3> HIDE DEF new
    <3>4. QED
      BY <3>1, <3>2, <3>3 DEF UmStep
  <2>3. QED
    BY <2>1, <2>2
<1>3. ASSUME NEW e \in Devices, NEW w \in Realms, WorkspaceRename(e, w)
      PROVE  UmStep(d)
  <2>1. CASE e # d
    BY <1>3, <2>1 DEF WorkspaceRename, UmStep, TypeOK
  <2>2. CASE e = d
    <3> DEFINE new == [um[d].entries[w] EXCEPT !.name = renames + 1]
    <3>0. renames + 1 \in 0..MaxRenames
      <4>1. renames \in 0..MaxRenames
        BY DEF TypeOK
      <4>2. renames < MaxRenames
        BY <1>3 DEF WorkspaceRename
      <4>3. QED
        BY <4>1, <4>2
    <3>1. new \in Entry /\ new.rev >= um[d].entries[w].rev
      BY <1>0, <3>0 DEF Entry
    <3>2. um'[d] = [um[d] EXCEPT !.need = TRUE, !.entries[w] = new]
      BY <1>0, <1>3, <2>2 DEF WorkspaceRename, TypeOK, Manifest, Entries
    <3> HIDE DEF new
    <3>3. QED
      BY <3>1, <3>2 DEF UmStep
  <2>3. QED
    BY <2>1, <2>2
<1>4. ASSUME NEW e \in Devices, ApplyMessage(e)
      PROVE  UmStep(d)
  <2>1. CASE e # d
    BY <1>4, <2>1 DEF ApplyMessage, UmStep, TypeOK
  <2>2. CASE e = d
    <3> DEFINE m == Current(d)
               new == Applied(um[d].entries[m.realm], messages[d], m)
    <3>1. messages[d].pc = "apply" /\ stamp < MaxStamps
      BY <1>4, <2>2 DEF ApplyMessage
    <3>2. m \in Message /\ m.realm \in Realms /\ m.rev \in Nat
      BY <3>1, CurrentMessage DEF RunInv, Message
    <3>3. CASE m.rev = 0 /\ ~Known(um[d].entries[m.realm])
      BY <1>4, <2>2, <3>3 DEF ApplyMessage, UmStep
    <3>4. CASE ~ (m.rev = 0 /\ ~Known(um[d].entries[m.realm]))
      <4>1. um'[d] = [um[d] EXCEPT !.need = TRUE, !.entries[m.realm] = new]
        BY <1>4, <2>2, <3>4 DEF ApplyMessage, TypeOK
      <4> HIDE DEF m
      <4>2. new \in Entry /\ new.rev >= um[d].entries[m.realm].rev
        BY <1>0, <3>1, <3>2, <3>4, AppliedKeepsKeys
      <4> HIDE DEF new
      <4>3. QED
        BY <3>2, <4>1, <4>2 DEF UmStep
    <3>5. QED
      BY <3>3, <3>4
  <2>3. QED
    BY <2>1, <2>2
<1>5. ASSUME NEW e \in Devices, EndMessages(e)
      PROVE  UmStep(d)
  BY <1>5 DEF EndMessages, UmStep, TypeOK
<1>6. ASSUME NEW e \in Devices, MergeBack(e)
      PROVE  UmStep(d)
  BY <1>6 DEF MergeBack, UmStep, TypeOK
<1>7. QED
  BY <1>1, <1>2, <1>3, <1>4, <1>5, <1>6
  DEF Next, vars, clientVars, ServerStep, ProcessMessages, Sync, MessageGet, LoadRoles, SyncStart,
      Upload, Fetch, GiveUp

\* A device never goes back to the key of an earlier revision.
LEMMA KeysGrow ==
  ASSUME RealmTypeOK, TypeOK, SyncInv, RunInv, [Next]_vars, NEW d \in Devices, NEW w \in Realms
  PROVE  um'[d].entries[w].rev >= um[d].entries[w].rev
<1>0. um[d] \in Manifest /\ um[d].entries \in Entries /\ um[d].entries[w].rev \in Nat
  BY ManifestTypes, BoundAssumption DEF Manifest, Entries, Entry
<1>1. CASE um'[d] = um[d]
  BY <1>0, <1>1
<1>2. ASSUME NEW x \in Realms, NEW e \in Entry, e.rev >= um[d].entries[x].rev,
             um'[d] = [um[d] EXCEPT !.need = TRUE, !.entries[x] = e]
      PROVE  um'[d].entries[w].rev >= um[d].entries[w].rev
  <2>1. um'[d].entries = [um[d].entries EXCEPT ![x] = e]
    BY <1>0, <1>2 DEF Manifest
  <2>2. QED
    BY <1>0, <1>2, <2>1 DEF Entries
<1>3. CASE um'[d] = [um[d] EXCEPT !.last = messages[d].done, !.need = TRUE]
  <2>1. um'[d].entries = um[d].entries
    BY <1>0, <1>3 DEF Manifest
  <2>2. QED
    BY <1>0, <2>1
<1>4. CASE um'[d] = Merge(um[d], syncing[d].version, syncing[d].doc)
  <2>1. um'[d].entries = MergedEntries(um[d], syncing[d].doc)
    BY <1>4 DEF Merge
  <2>2. QED
    BY <2>1, ManifestTypes, MergedEntriesKeepKeys
<1>5. QED
  BY <1>1, <1>2, <1>3, <1>4, EveryUmStep DEF UmStep

\* What one step may do to the run of sync of a device.
SyncingStep(d) ==
  \/ syncing'[d] = syncing[d]
  \/ syncing'[d] = NoSync
  \/ syncing'[d] = [NoSync EXCEPT !.pc = "fetch"]
  \/ /\ syncing'[d] = [pc |-> "upload", version |-> um[d].base + 1, doc |-> Target(um[d])]
  \/ /\ syncing[d].pc = "upload"
     /\ umVlob' = Append(umVlob, syncing[d].doc)
     /\ syncing'[d] = [syncing[d] EXCEPT !.pc = "merge", !.version = Len(umVlob) + 1]
  \/ /\ Len(umVlob) # um[d].base
     /\ syncing'[d] = [pc |-> "merge", version |-> Len(umVlob), doc |-> umVlob[Len(umVlob)]]

\* Every step does one of these to every device, and keeps the shape of the variable.
LEMMA EverySyncingStep ==
  ASSUME TypeOK, [Next]_vars
  PROVE  /\ \A d \in Devices : SyncingStep(d)
         /\ syncing' = [d \in Devices |-> syncing'[d]]
<1>1. CASE syncing' = syncing
  BY <1>1 DEF SyncingStep, TypeOK
<1>2. ASSUME NEW e \in Devices, SyncStart(e)
      PROVE  /\ \A d \in Devices : SyncingStep(d)
             /\ syncing' = [d \in Devices |-> syncing'[d]]
  BY <1>2 DEF SyncStart, SyncingStep, TypeOK
<1>3. ASSUME NEW e \in Devices, Upload(e)
      PROVE  /\ \A d \in Devices : SyncingStep(d)
             /\ syncing' = [d \in Devices |-> syncing'[d]]
  <2>1. syncing = [d \in Devices |-> syncing[d]]
    BY DEF TypeOK
  <2>2. CASE /\ syncing[e].pc = "upload" /\ umVlob' = Append(umVlob, syncing[e].doc)
             /\ syncing' = [syncing EXCEPT ![e].pc = "merge", ![e].version = Len(umVlob) + 1]
    BY <2>1, <2>2, Zenon DEF SyncingStep
  <2>3. CASE syncing' = [syncing EXCEPT ![e] = [NoSync EXCEPT !.pc = "fetch"]]
    BY <2>1, <2>3 DEF SyncingStep
  <2>4. QED
    BY <1>3, <2>2, <2>3 DEF Upload
<1>4. ASSUME NEW e \in Devices, Fetch(e)
      PROVE  /\ \A d \in Devices : SyncingStep(d)
             /\ syncing' = [d \in Devices |-> syncing'[d]]
  BY <1>4 DEF Fetch, SyncingStep, TypeOK
<1>5. ASSUME NEW e \in Devices, MergeBack(e) \/ GiveUp(e)
      PROVE  /\ \A d \in Devices : SyncingStep(d)
             /\ syncing' = [d \in Devices |-> syncing'[d]]
  BY <1>5 DEF MergeBack, GiveUp, SyncingStep, TypeOK
<1>6. QED
  BY <1>1, <1>2, <1>3, <1>4, <1>5
  DEF Next, vars, clientVars, ServerStep, WorkspaceCreate, WorkspaceRename, ProcessMessages,
      MessageGet, LoadRoles, ApplyMessage, EndMessages, Sync

\* The server only adds versions of the user manifest, each the next one and uploaded by a
\* device.
VersionStep ==
  \/ umVlob' = umVlob
  \/ \E d \in Devices : /\ syncing[d].pc = "upload"
                        /\ syncing[d].version = Len(umVlob) + 1
                        /\ Len(umVlob) < MaxUserVersion
                        /\ umVlob' = Append(umVlob, syncing[d].doc)

LEMMA EveryVersionStep ==
  ASSUME [Next]_vars
  PROVE  VersionStep
<1>1. ASSUME NEW e \in Devices, Upload(e)
      PROVE  VersionStep
  BY <1>1 DEF Upload, VersionStep, IsNextVersion
<1>2. CASE umVlob' = umVlob
  BY <1>2 DEF VersionStep
<1>3. QED
  BY <1>1, <1>2
  DEF Next, vars, clientVars, ServerStep, WorkspaceCreate, WorkspaceRename, ProcessMessages,
      MessageGet, LoadRoles, ApplyMessage, EndMessages, Sync, SyncStart, Fetch, MergeBack, GiveUp

\* What follows for the versions there were.
LEMMA VersionsGrow ==
  ASSUME TypeOK, SyncInv, [Next]_vars
  PROVE  /\ Len(umVlob) \in Nat /\ Len(umVlob') \in Nat
         /\ Len(umVlob) <= Len(umVlob') /\ Len(umVlob') <= MaxUserVersion
         /\ umVlob' \in Seq(Document)
         /\ \A v \in 1..Len(umVlob) : umVlob'[v] = umVlob[v]
<1> USE ClientBoundAssumption
<1>0. umVlob \in Seq(Document) /\ Len(umVlob) <= MaxUserVersion
  BY DEF TypeOK, Document, SyncInv
<1>1. CASE umVlob' = umVlob
  BY <1>0, <1>1
<1>2. ASSUME NEW d \in Devices, Len(umVlob) < MaxUserVersion,
             umVlob' = Append(umVlob, syncing[d].doc)
      PROVE  /\ Len(umVlob') = Len(umVlob) + 1 /\ umVlob' \in Seq(Document)
             /\ \A v \in 1..Len(umVlob) : umVlob'[v] = umVlob[v]
  <2>1. syncing[d].doc \in Document
    BY DEF TypeOK, Document
  <2>2. QED
    BY <1>0, <1>2, <2>1
<1>3. QED
  BY <1>0, <1>1, <1>2, EveryVersionStep DEF VersionStep

\* What one step may do to the run of process_last_messages of a device.
MessagesStep(d) ==
  \/ messages'[d] = messages[d]
  \/ messages'[d] = NoRun
  \/ /\ um[d].last < Len(inbox[Self])
     /\ messages'[d] = [NoRun EXCEPT !.pc = "next", !.i = um[d].last + 1,
                          !.upto = Len(inbox[Self]), !.done = um[d].last]
  \/ /\ messages[d].pc = "next" /\ messages[d].i <= messages[d].upto
     /\ messages[d].i \in passed'
     /\ \E done \in {messages[d].done, messages[d].i} :
          messages'[d] = [messages[d] EXCEPT !.i = messages[d].i + 1, !.done = done]
  \/ /\ messages[d].pc = "next" /\ messages[d].i <= messages[d].upto
     /\ \E role \in Role \cup {NoRole}, cert \in Nat :
          messages'[d] = [messages[d] EXCEPT !.pc = "apply", !.role = role, !.cert = cert]
  \/ /\ messages[d].pc = "apply"
     /\ ApplyMessage(d)
     /\ messages'[d] = [messages[d] EXCEPT !.pc = "next", !.i = messages[d].i + 1,
                          !.done = messages[d].i]

\* Every step does one of these to every device, and keeps the shape of the variable.
LEMMA EveryMessagesStep ==
  ASSUME RealmTypeOK, TypeOK, RunInv, [Next]_vars
  PROVE  /\ \A d \in Devices : MessagesStep(d)
         /\ messages' = [d \in Devices |-> messages'[d]]
<1> DEFINE G == /\ \A d \in Devices : MessagesStep(d)
                /\ messages' = [d \in Devices |-> messages'[d]]
<1>0. DOMAIN messages = Devices
  BY DEF TypeOK
<1>1. CASE messages' = messages
  BY <1>1 DEF MessagesStep, TypeOK
<1>2. ASSUME NEW e \in Devices, MessageGet(e)
      PROVE  G
  BY <1>0, <1>2 DEF MessageGet, MessagesStep, TypeOK
<1>3. ASSUME NEW e \in Devices, LoadRoles(e)
      PROVE  G
  <2> DEFINE run == messages[e]
             m == Current(e)
  <2>1. run.pc = "next" /\ run.i <= run.upto
    BY <1>3 DEF LoadRoles
  <2>2. CASE /\ messages' = [messages EXCEPT ![e] = [run EXCEPT !.i = run.i + 1, !.done = run.i]]
             /\ passed' = passed \cup {run.i}
    BY <1>0, <2>1, <2>2 DEF MessagesStep, TypeOK
  <2>3. CASE /\ messages' = [messages EXCEPT ![e] = [run EXCEPT !.i = run.i + 1]]
             /\ passed' = passed \cup {run.i}
    <3>1. run = [run EXCEPT !.done = run.done]
      BY DEF TypeOK
    <3>2. [run EXCEPT !.i = run.i + 1] = [run EXCEPT !.i = run.i + 1, !.done = run.done]
      BY <3>1 DEF TypeOK
    <3>3. QED
      BY <1>0, <2>1, <2>3, <3>2 DEF MessagesStep, TypeOK
  <2>4. CASE messages' = [messages EXCEPT ![e] = [run EXCEPT !.pc = "apply",
                !.role = RoleOf(m.realm, Self), !.cert = Len(grants[m.realm][Self])]]
    <3>1. m.realm \in Realms
      BY <2>1, CurrentMessage DEF Message
    <3>2. RoleOf(m.realm, Self) \in Role \cup {NoRole} /\ Len(grants[m.realm][Self]) \in Nat
      BY <3>1, RoleOfIsRole, SelfAssumption DEF RealmTypeOK
    <3>3. QED
      BY <1>0, <2>1, <2>4, <3>2 DEF MessagesStep, TypeOK
  <2>5. QED
    BY <1>3, <2>2, <2>3, <2>4 DEF LoadRoles
<1>4. ASSUME NEW e \in Devices, ApplyMessage(e)
      PROVE  G
  <2>1. /\ messages[e].pc = "apply"
        /\ messages' = [messages EXCEPT ![e] = [messages[e] EXCEPT !.pc = "next",
             !.i = messages[e].i + 1, !.done = messages[e].i]]
    BY <1>4 DEF ApplyMessage
  <2>2. ASSUME NEW d \in Devices
        PROVE  MessagesStep(d)
    BY <1>0, <1>4, <2>1 DEF MessagesStep
  <2>3. QED
    BY <1>0, <2>1, <2>2
<1>5. ASSUME NEW e \in Devices, EndMessages(e) \/ GiveUp(e)
      PROVE  G
  BY <1>0, <1>5 DEF EndMessages, GiveUp, MessagesStep, TypeOK
<1>6. QED
  BY <1>1, <1>2, <1>3, <1>4, <1>5
  DEF Next, vars, clientVars, ServerStep, WorkspaceCreate, WorkspaceRename, ProcessMessages,
      Sync, SyncStart, Upload, Fetch, MergeBack

\* The variables of the clients keep their types, and the runs stay within the versions and
\* the messages there are.
LEMMA ClientTypeStep ==
  ASSUME RealmTypeOK, TypeOK, SyncInv, RunInv, [Next]_vars
  PROVE  TypeOK' /\ SyncInv' /\ RunInv'
<1> USE ClientBoundAssumption
<1>0. \A d \in Devices : UmStep(d) /\ SyncingStep(d) /\ MessagesStep(d)
  BY EveryUmStep, EverySyncingStep, EveryMessagesStep
<1>1. /\ Len(umVlob) \in Nat /\ Len(umVlob') \in Nat
      /\ Len(umVlob) <= Len(umVlob') /\ Len(umVlob') <= MaxUserVersion
      /\ umVlob' \in Seq(Document)
      /\ \A v \in 1..Len(umVlob) : umVlob'[v] = umVlob[v]
  BY VersionsGrow
<1>2. ASSUME NEW d \in Devices
      PROVE  um'[d] \in Manifest /\ um'[d].base <= Len(umVlob')
  <2>0. /\ um[d] \in Manifest /\ um[d].entries \in Entries /\ um[d].base \in Nat
        /\ um[d].base <= Len(umVlob) /\ um[d].last \in Nat /\ syncing[d].doc \in Document
    BY ManifestTypes DEF Manifest
  <2>1. CASE um'[d] = um[d]
    BY <1>1, <2>0, <2>1
  <2>2. ASSUME NEW w \in Realms, NEW e \in Entry,
               um'[d] = [um[d] EXCEPT !.need = TRUE, !.entries[w] = e]
        PROVE  um'[d] \in Manifest /\ um'[d].base <= Len(umVlob')
    <3>1. [um[d].entries EXCEPT ![w] = e] \in Entries
      BY <2>0 DEF Entries
    <3>2. um'[d] = [base |-> um[d].base, entries |-> [um[d].entries EXCEPT ![w] = e],
                    last |-> um[d].last, need |-> TRUE]
      BY <2>0, <2>2 DEF Manifest
    <3>3. um[d].base \in 0..MaxUserVersion
      BY <2>0 DEF Manifest
    <3>4. QED
      BY <1>1, <2>0, <3>1, <3>2, <3>3 DEF Manifest
  <2>3. ASSUME um'[d] = [um[d] EXCEPT !.last = messages[d].done, !.need = TRUE]
        PROVE  um'[d] \in Manifest /\ um'[d].base <= Len(umVlob')
    <3>1. messages[d].done \in Nat
      BY DEF TypeOK
    <3>2. um'[d] = [base |-> um[d].base, entries |-> um[d].entries,
                    last |-> messages[d].done, need |-> TRUE]
      BY <2>0, <2>3 DEF Manifest
    <3>3. um[d].base \in 0..MaxUserVersion
      BY <2>0 DEF Manifest
    <3>4. QED
      BY <1>1, <2>0, <3>1, <3>2, <3>3 DEF Manifest
  <2>4. ASSUME syncing[d].pc = "merge",
               um'[d] = Merge(um[d], syncing[d].version, syncing[d].doc)
        PROVE  um'[d] \in Manifest /\ um'[d].base <= Len(umVlob')
    <3>1. syncing[d].version \in Nat /\ syncing[d].version <= Len(umVlob)
      BY <1>1, <2>4 DEF SyncInv
    <3>2. MergedEntries(um[d], syncing[d].doc) \in Entries
      BY ManifestTypes, MergedEntriesKeepKeys
    <3>3. MaxOf(um[d].last, syncing[d].doc.last) \in Nat
      BY <2>0 DEF MaxOf, Document
    <3>4. StillNeedsSync(um[d], syncing[d].doc) \in BOOLEAN
      BY DEF StillNeedsSync
    <3>5. QED
      BY <1>1, <2>4, <3>1, <3>2, <3>3, <3>4 DEF Merge, Manifest
  <2>5. UmStep(d)
    BY <1>0
  <2>6. QED
    BY <2>1, <2>2, <2>3, <2>4, <2>5 DEF UmStep
<1>3. ASSUME NEW d \in Devices
      PROVE  /\ syncing'[d] \in [pc : {"idle", "upload", "fetch", "merge"}, version : Nat,
                                 doc : Document]
             /\ syncing'[d].pc = "upload" => syncing'[d].version \in 1..(Len(umVlob') + 1)
             /\ syncing'[d].pc = "merge" => /\ syncing'[d].version \in 1..Len(umVlob')
                                            /\ syncing'[d].doc = umVlob'[syncing'[d].version]
  <2> DEFINE G == /\ syncing'[d] \in [pc : {"idle", "upload", "fetch", "merge"}, version : Nat,
                                      doc : Document]
                  /\ syncing'[d].pc = "upload" => syncing'[d].version \in 1..(Len(umVlob') + 1)
                  /\ syncing'[d].pc = "merge" => /\ syncing'[d].version \in 1..Len(umVlob')
                                                 /\ syncing'[d].doc = umVlob'[syncing'[d].version]
  <2>0. syncing[d] \in [pc : {"idle", "upload", "fetch", "merge"}, version : Nat, doc : Document]
    BY DEF TypeOK, Document
  <2>1. CASE syncing'[d] = syncing[d]
    <3>1. CASE syncing[d].pc = "merge"
      <4>1. syncing[d].version \in 1..Len(umVlob) /\ syncing[d].doc = umVlob[syncing[d].version]
        BY <3>1 DEF SyncInv
      <4>2. umVlob'[syncing[d].version] = umVlob[syncing[d].version]
        BY <1>1, <4>1
      <4>3. QED
        BY <1>1, <2>0, <2>1, <3>1, <4>1, <4>2
    <3>2. CASE syncing[d].pc # "merge"
      <4>1. syncing[d].pc = "upload" => syncing[d].version \in 1..(Len(umVlob) + 1)
        BY DEF SyncInv
      <4>2. QED
        BY <1>1, <2>0, <2>1, <3>2, <4>1
    <3>3. QED
      BY <3>1, <3>2
  <2>2. CASE syncing'[d] \in {NoSync, [NoSync EXCEPT !.pc = "fetch"]}
    BY <2>2, NoEntriesType DEF NoSync, Document
  <2>3. CASE syncing'[d] = [pc |-> "upload", version |-> um[d].base + 1, doc |-> Target(um[d])]
    <3>1. um[d].base \in Nat /\ um[d].base <= Len(umVlob) /\ Target(um[d]) \in Document
      BY ManifestTypes, <1>1 DEF Manifest, Document, Target
    <3>2. QED
      BY <1>1, <2>3, <3>1
  <2>4. CASE /\ umVlob' = Append(umVlob, syncing[d].doc)
             /\ syncing'[d] = [syncing[d] EXCEPT !.pc = "merge", !.version = Len(umVlob) + 1]
    <3>1. Len(umVlob') = Len(umVlob) + 1 /\ umVlob'[Len(umVlob) + 1] = syncing[d].doc
      BY <2>0, <2>4 DEF TypeOK, Document
    <3>2. syncing'[d] = [pc |-> "merge", version |-> Len(umVlob) + 1, doc |-> syncing[d].doc]
      BY <2>0, <2>4
    <3>3. syncing[d].doc \in Document
      BY <2>0
    <3>4. QED
      BY <1>1, <3>1, <3>2, <3>3
  <2>5. CASE /\ Len(umVlob) # um[d].base
             /\ syncing'[d] = [pc |-> "merge", version |-> Len(umVlob), doc |-> umVlob[Len(umVlob)]]
    <3>1. Len(umVlob) \in 1..Len(umVlob)
      BY <1>1, <2>5, ManifestTypes
    <3>2. umVlob[Len(umVlob)] \in Document /\ umVlob'[Len(umVlob)] = umVlob[Len(umVlob)]
      <4>1. umVlob \in Seq(Document)
        BY ManifestTypes
      <4>2. QED
        BY <1>1, <3>1, <4>1
    <3>3. QED
      BY <1>1, <2>5, <3>1, <3>2
  <2>6. QED
    BY <1>0, <2>1, <2>2, <2>3, <2>4, <2>5 DEF SyncingStep
<1> DEFINE Run == [pc : {"idle", "next", "apply"}, i : Nat, upto : Nat, done : Nat,
                   role : Role \cup {NoRole}, cert : Nat]
           Within(run, n) == run.pc # "idle" =>
             /\ run.upto <= n
             /\ run.i \in 1..(run.upto + 1)
             /\ run.done < run.i
             /\ run.pc = "apply" => run.i <= run.upto
<1>4. ASSUME NEW d \in Devices
      PROVE  messages'[d] \in Run /\ Within(messages'[d], Len(inbox'[Self]))
  <2> DEFINE run == messages[d]
             G == messages'[d] \in Run /\ Within(messages'[d], Len(inbox'[Self]))
  <2>0. /\ messages[d] \in Run /\ um[d].last \in Nat
        /\ Len(inbox[Self]) \in Nat /\ Len(inbox'[Self]) \in Nat
        /\ Len(inbox[Self]) <= Len(inbox'[Self])
    BY InboxGrows, ManifestSimulation DEF TypeOK
  <2>1. Within(messages[d], Len(inbox[Self]))
    BY DEF RunInv
  <2>2. /\ run.i \in Nat /\ run.upto \in Nat /\ run.done \in Nat
        /\ run.role \in Role \cup {NoRole} /\ run.cert \in Nat
    BY <2>0
  <2>3. CASE messages'[d] = messages[d]
    BY <2>0, <2>1, <2>2, <2>3
  <2>4. CASE messages'[d] = NoRun
    BY <2>4 DEF NoRun
  <2>5. CASE /\ um[d].last < Len(inbox[Self])
             /\ messages'[d] = [NoRun EXCEPT !.pc = "next", !.i = um[d].last + 1,
                                  !.upto = Len(inbox[Self]), !.done = um[d].last]
    <3>1. messages'[d] = [pc |-> "next", i |-> um[d].last + 1, upto |-> Len(inbox[Self]),
                          done |-> um[d].last, role |-> NoRole, cert |-> 0]
      BY <2>5 DEF NoRun
    <3>2. messages'[d] \in Run
      BY <2>0, <3>1
    <3>3. Within(messages'[d], Len(inbox'[Self]))
      BY <2>0, <2>5, <3>1, SMTT(30)
    <3>4. QED
      BY <3>2, <3>3
  <2>6. ASSUME run.pc = "next", run.i <= run.upto, NEW done \in {run.done, run.i},
               messages'[d] = [run EXCEPT !.i = run.i + 1, !.done = done]
        PROVE  G
    <3>1. messages'[d] = [pc |-> "next", i |-> run.i + 1, upto |-> run.upto,
                          done |-> done, role |-> run.role, cert |-> run.cert]
      BY <2>0, <2>6
    <3>2. run.upto <= Len(inbox[Self]) /\ run.done < run.i
      BY <2>1, <2>6
    <3>3. messages'[d] \in Run
      BY <2>2, <3>1
    <3>4. done \in Nat /\ done < run.i + 1 /\ run.i + 1 \in 1..(run.upto + 1)
      BY <2>2, <2>6, <3>2, SMTT(30)
    <3>5. Within(messages'[d], Len(inbox'[Self]))
      BY <2>0, <2>2, <3>1, <3>2, <3>4
    <3>6. QED
      BY <3>3, <3>5
  <2>7. ASSUME run.pc = "next", run.i <= run.upto,
               NEW role \in Role \cup {NoRole}, NEW cert \in Nat,
               messages'[d] = [run EXCEPT !.pc = "apply", !.role = role, !.cert = cert]
        PROVE  G
    <3>1. messages'[d] = [pc |-> "apply", i |-> run.i, upto |-> run.upto,
                          done |-> run.done, role |-> role, cert |-> cert]
      BY <2>0, <2>7
    <3>2. run.upto <= Len(inbox[Self]) /\ run.done < run.i /\ run.i >= 1
      BY <2>1, <2>2, <2>7
    <3>3. messages'[d] \in Run
      BY <2>2, <2>7, <3>1
    <3>4. Within(messages'[d], Len(inbox'[Self]))
      BY <2>0, <2>2, <2>7, <3>1, <3>2, SMTT(30)
    <3>5. QED
      BY <3>3, <3>4
  <2>8. CASE /\ run.pc = "apply"
             /\ messages'[d] = [run EXCEPT !.pc = "next", !.i = run.i + 1, !.done = run.i]
    <3>1. messages'[d] = [pc |-> "next", i |-> run.i + 1, upto |-> run.upto,
                          done |-> run.i, role |-> run.role, cert |-> run.cert]
      BY <2>0, <2>8
    <3>2. run.upto <= Len(inbox[Self]) /\ run.i <= run.upto
      BY <2>1, <2>8
    <3>3. QED
      BY <2>0, <2>2, <3>1, <3>2
  <2>9. MessagesStep(d)
    BY <1>0
  <2> HIDE DEF G
  <2>10. G
    BY <2>3, <2>4, <2>5, <2>6, <2>7, <2>8, <2>9 DEF MessagesStep, G
  <2>11. QED
    BY <2>10 DEF G
<1>5. um' = [d \in Devices |-> um'[d]]
  BY DEF TypeOK, Next, vars, clientVars, ServerStep, WorkspaceCreate, WorkspaceRename,
         ProcessMessages, MessageGet, LoadRoles, ApplyMessage, EndMessages, Sync, SyncStart,
         Upload, Fetch, MergeBack, GiveUp
<1>6. /\ stamp' \in 0..MaxStamps /\ renames' \in 0..MaxRenames /\ giveUps' \in 0..MaxGiveUps
      /\ passed' \subseteq Nat
  <2>0. /\ stamp \in 0..MaxStamps /\ renames \in 0..MaxRenames /\ giveUps \in 0..MaxGiveUps
        /\ passed \subseteq Nat /\ \A d \in Devices : messages[d].i \in Nat
    BY DEF TypeOK
  <2>1. stamp' \in 0..MaxStamps
    <3>1. stamp' = stamp \/ (stamp < MaxStamps /\ stamp' = stamp + 1)
      BY DEF Next, vars, clientVars, ServerStep, WorkspaceCreate, WorkspaceRename,
             ProcessMessages, MessageGet, LoadRoles, ApplyMessage, EndMessages, Sync, SyncStart,
             Upload, Fetch, MergeBack, GiveUp
    <3>2. QED
      BY <2>0, <3>1
  <2>2. renames' \in 0..MaxRenames
    <3>1. renames' = renames \/ (renames < MaxRenames /\ renames' = renames + 1)
      BY DEF Next, vars, clientVars, ServerStep, WorkspaceCreate, WorkspaceRename,
             ProcessMessages, MessageGet, LoadRoles, ApplyMessage, EndMessages, Sync, SyncStart,
             Upload, Fetch, MergeBack, GiveUp
    <3>2. QED
      BY <2>0, <3>1
  <2>3. giveUps' \in 0..MaxGiveUps
    <3>1. giveUps' = giveUps \/ (giveUps < MaxGiveUps /\ giveUps' = giveUps + 1)
      BY DEF Next, vars, clientVars, ServerStep, WorkspaceCreate, WorkspaceRename,
             ProcessMessages, MessageGet, LoadRoles, ApplyMessage, EndMessages, Sync, SyncStart,
             Upload, Fetch, MergeBack, GiveUp
    <3>2. QED
      BY <2>0, <3>1
  <2>4. passed' \subseteq Nat
    <3>1. passed' = passed \/ \E d \in Devices : passed' = passed \cup {messages[d].i}
      BY DEF Next, vars, clientVars, ServerStep, WorkspaceCreate, WorkspaceRename,
             ProcessMessages, MessageGet, LoadRoles, ApplyMessage, EndMessages, Sync, SyncStart,
             Upload, Fetch, MergeBack, GiveUp
    <3>2. ASSUME NEW d \in Devices, passed' = passed \cup {messages[d].i}
          PROVE  passed' \subseteq Nat
      BY <2>0, <3>2
    <3>3. QED
      BY <2>0, <3>1, <3>2
  <2>5. QED
    BY <2>1, <2>2, <2>3, <2>4
<1>7. TypeOK'
  <2>1. um' \in [Devices -> Manifest]
    BY <1>2, <1>5
  <2>2. syncing' \in [Devices -> [pc : {"idle", "upload", "fetch", "merge"}, version : Nat,
                                  doc : Document]]
    BY <1>3, EverySyncingStep
  <2>3. messages' \in [Devices -> Run]
    BY <1>4, EveryMessagesStep
  <2>4. QED
    BY <1>1, <1>6, <2>1, <2>2, <2>3 DEF TypeOK, Manifest, Document
<1>8. SyncInv'
  BY <1>1, <1>2, <1>3 DEF SyncInv
<1>9. RunInv'
  BY <1>4 DEF RunInv
<1>10. QED
  BY <1>7, <1>8, <1>9

\* The types of all variables, and where the runs are, hold from the start on.
LEMMA ClientTypeInvariant == Spec => [](RealmTypeOK /\ TypeOK /\ SyncInv /\ RunInv)
<1>1. Init => TypeOK /\ SyncInv /\ RunInv
  <2> SUFFICES ASSUME Init PROVE TypeOK /\ SyncInv /\ RunInv
    OBVIOUS
  <2> USE ClientBoundAssumption, NoEntriesType
  <2>1. TypeOK
    BY DEF Init, TypeOK, NewPlaceholder, NoRun, NoSync
  <2>2. SyncInv
    BY DEF Init, SyncInv, NewPlaceholder, NoSync
  <2>3. RunInv
    BY DEF Init, RunInv, NoRun
  <2>4. QED
    BY <2>1, <2>2, <2>3
<1>2. QED
  BY <1>1, UserManifestImplementsRealm, RealmTypeCorrect, ClientTypeStep, PTL DEF Spec

\* The variables of the clients keep their types, for any number of devices, workspaces and
\* messages.
THEOREM UserManifestTypeCorrect == Spec => []TypeOK
  BY ClientTypeInvariant, PTL

\* A device never goes back to the key of an earlier revision, whatever messages it processes
\* and whichever versions of its user's other devices it merges.
THEOREM KeysAreKept == Spec => KeysNeverGoBack
<1>1. RealmTypeOK /\ TypeOK /\ SyncInv /\ RunInv /\ [Next]_vars =>
        [\A d \in Devices, w \in Realms : um'[d].entries[w].rev >= um[d].entries[w].rev]_vars
  BY KeysGrow
<1>2. QED
  BY <1>1, ClientTypeInvariant, PTL DEF Spec, KeysNeverGoBack

-----------------------------------------------------------------------------
(* The assertions of the merges *)

\* KnownInv is preserved by every step.
LEMMA KnownInvStep ==
  ASSUME RealmTypeOK, TypeOK, SyncInv, RunInv, KnownInv, [Next]_vars
  PROVE  KnownInv'
<1> USE ClientBoundAssumption, BoundAssumption
<1>0. \A d \in Devices : UmStep(d) /\ SyncingStep(d)
  BY EveryUmStep, EverySyncingStep, EveryMessagesStep
<1>1. /\ Len(umVlob) \in Nat /\ Len(umVlob') \in Nat
      /\ Len(umVlob) <= Len(umVlob') /\ umVlob' \in Seq(Document) /\ umVlob \in Seq(Document)
      /\ \A v \in 1..Len(umVlob) : umVlob'[v] = umVlob[v]
  BY VersionsGrow DEF TypeOK, Document
<1>2. ASSUME NEW d \in Devices, NEW w \in Realms, Known(BaseEntries(um[d])'[w])
      PROVE  Known(um'[d].entries[w])
  <2>0. /\ um[d] \in Manifest /\ um[d].base \in 0..Len(umVlob) /\ um[d].entries[w].rev \in Nat
        /\ um'[d] \in Manifest /\ um'[d].entries[w].rev \in Nat
        /\ um'[d].entries[w].rev >= um[d].entries[w].rev
    <3>1. um[d] \in Manifest /\ um[d].base \in 0..Len(umVlob) /\ um'[d] \in Manifest
      BY ManifestTypes, ClientTypeStep DEF TypeOK, Manifest
    <3>2. um[d].entries \in Entries /\ um'[d].entries \in Entries
      BY <3>1 DEF Manifest
    <3>3. um[d].entries[w].rev \in Nat /\ um'[d].entries[w].rev \in Nat
      BY <3>2 DEF Entries, Entry
    <3>4. um'[d].entries[w].rev >= um[d].entries[w].rev
      BY KeysGrow
    <3>5. QED
      BY <3>1, <3>3, <3>4
  <2>1. CASE um'[d].base = um[d].base
    <3>1. BaseEntries(um[d])' = BaseEntries(um[d])
      BY <1>1, <2>0, <2>1 DEF BaseEntries
    <3>2. Known(um[d].entries[w])
      BY <1>2, <3>1 DEF KnownInv
    <3>3. QED
      BY <2>0, <3>2 DEF Known
  <2>2. CASE /\ syncing[d].pc = "merge"
             /\ um'[d] = Merge(um[d], syncing[d].version, syncing[d].doc)
    <3>1. /\ syncing[d].version \in 1..Len(umVlob)
          /\ syncing[d].doc = umVlob[syncing[d].version]
      BY <2>2 DEF SyncInv
    <3>2. um'[d].base = syncing[d].version /\ um'[d].entries = MergedEntries(um[d], syncing[d].doc)
      BY <2>2 DEF Merge
    <3>3. BaseEntries(um[d])' = syncing[d].doc.entries
      BY <1>1, <3>1, <3>2 DEF BaseEntries
    <3>4. um'[d].entries[w].rev >= syncing[d].doc.entries[w].rev
      BY <3>2, ManifestTypes, MergedEntriesKeepKeys
    <3>5. syncing[d].doc.entries[w].rev \in Nat
      BY ManifestTypes DEF Document, Entries, Entry
    <3>6. QED
      BY <1>2, <2>0, <3>3, <3>4, <3>5 DEF Known
  <2>3. um'[d].base = um[d].base \/ /\ syncing[d].pc = "merge"
                                    /\ um'[d] = Merge(um[d], syncing[d].version, syncing[d].doc)
    BY <1>0, <2>0 DEF UmStep, Manifest
  <2>4. QED
    BY <2>1, <2>2, <2>3
<1>3. ASSUME NEW i \in DOMAIN umVlob', NEW j \in DOMAIN umVlob', NEW w \in Realms, i <= j,
             Known(umVlob'[i].entries[w])
      PROVE  Known(umVlob'[j].entries[w])
  <2>1. CASE umVlob' = umVlob
    BY <1>3, <2>1 DEF KnownInv
  <2>2. ASSUME NEW d \in Devices, syncing[d].pc = "upload",
               syncing[d].version = Len(umVlob) + 1,
               umVlob' = Append(umVlob, syncing[d].doc)
        PROVE  Known(umVlob'[j].entries[w])
    <3>0. /\ syncing[d].doc \in Document /\ i \in Nat /\ j \in Nat /\ i >= 1
          /\ j <= Len(umVlob) + 1
          /\ umVlob'[Len(umVlob) + 1] = syncing[d].doc
      BY <1>1, <1>3, <2>2, ManifestTypes
    <3>1. CASE j <= Len(umVlob)
      <4>1. i \in DOMAIN umVlob /\ j \in DOMAIN umVlob /\ umVlob'[i] = umVlob[i]
            /\ umVlob'[j] = umVlob[j]
        BY <1>1, <1>3, <3>0, <3>1
      <4>2. QED
        BY <1>3, <4>1 DEF KnownInv
    <3>2. CASE j = Len(umVlob) + 1 /\ i <= Len(umVlob)
      <4>1. /\ i \in DOMAIN umVlob /\ Len(umVlob) \in DOMAIN umVlob /\ umVlob'[i] = umVlob[i]
            /\ syncing[d].version > 1 /\ syncing[d].version - 1 = Len(umVlob)
        BY <1>1, <2>2, <3>0, <3>2
      <4>2. Known(umVlob[Len(umVlob)].entries[w])
        BY <1>1, <1>3, <3>2, <4>1 DEF KnownInv
      <4>3. Known(syncing[d].doc.entries[w])
        BY <2>2, <4>1, <4>2 DEF KnownInv
      <4>4. QED
        BY <3>0, <3>2, <4>3
    <3>3. CASE i = j
      BY <1>3, <3>3
    <3>4. QED
      BY <1>1, <1>3, <3>0, <3>1, <3>2, <3>3
  <2>3. QED
    BY <2>1, <2>2, EveryVersionStep DEF VersionStep
<1>4. ASSUME NEW d \in Devices, NEW w \in Realms, syncing'[d].pc = "upload",
             syncing'[d].version > 1, Known(umVlob'[syncing'[d].version - 1].entries[w])
      PROVE  Known(syncing'[d].doc.entries[w])
  <2>0. syncing[d] \in [pc : {"idle", "upload", "fetch", "merge"}, version : Nat, doc : Document]
    BY DEF TypeOK, Document
  <2>1. CASE syncing'[d] = syncing[d]
    <3>1. syncing[d].version \in 1..(Len(umVlob) + 1)
      BY <1>4, <2>1 DEF SyncInv
    <3>2. umVlob'[syncing[d].version - 1] = umVlob[syncing[d].version - 1]
      BY <1>1, <1>4, <2>1, <3>1
    <3>3. QED
      BY <1>4, <2>1, <3>2 DEF KnownInv
  <2>2. CASE syncing'[d] = [pc |-> "upload", version |-> um[d].base + 1, doc |-> Target(um[d])]
    <3>1. /\ um[d].base \in 1..Len(umVlob) /\ syncing'[d].version - 1 = um[d].base
          /\ syncing'[d].doc.entries = um[d].entries
      BY <1>1, <1>4, <2>2, ManifestTypes DEF Target
    <3>2. umVlob'[um[d].base] = umVlob[um[d].base] /\ BaseEntries(um[d]) = umVlob[um[d].base].entries
      BY <1>1, <3>1 DEF BaseEntries
    <3>3. QED
      BY <1>4, <3>1, <3>2 DEF KnownInv
  <2>3. CASE syncing'[d] = NoSync \/ syncing'[d] = [NoSync EXCEPT !.pc = "fetch"]
    BY <1>4, <2>3 DEF NoSync
  <2>4. CASE syncing'[d] = [syncing[d] EXCEPT !.pc = "merge", !.version = Len(umVlob) + 1]
    BY <1>4, <2>0, <2>4
  <2>5. CASE syncing'[d] = [pc |-> "merge", version |-> Len(umVlob), doc |-> umVlob[Len(umVlob)]]
    BY <1>4, <2>5
  <2>6. QED
    BY <1>0, <2>1, <2>2, <2>3, <2>4, <2>5 DEF SyncingStep
<1>5. QED
  BY <1>2, <1>3, <1>4 DEF KnownInv

\* What merge_workspace_entries asserts of the entries of the base holds at every merge, for
\* any number of devices that upload, download and give up at any time.
THEOREM MergesFindTheirBase == Spec => []MergeAssertionsHold
<1>1. Init => KnownInv
  BY NoEntriesType DEF Init, KnownInv, NewPlaceholder, BaseEntries, NoEntries, NoEntry,
     WorkspaceEntry, Known, NoSync
<1>2. TypeOK /\ SyncInv /\ KnownInv => MergeAssertionsHold
  <2> SUFFICES ASSUME TypeOK, SyncInv, KnownInv, NEW d \in Devices, syncing[d].pc = "merge",
                      syncing[d].version > um[d].base, NEW w \in Realms,
                      Known(BaseEntries(um[d])[w])
               PROVE  Known(um[d].entries[w]) /\ Known(syncing[d].doc.entries[w])
    BY DEF MergeAssertionsHold
  <2>1. Known(um[d].entries[w])
    BY DEF KnownInv
  <2>2. /\ syncing[d].version \in 1..Len(umVlob) /\ syncing[d].doc = umVlob[syncing[d].version]
        /\ um[d].base \in 0..Len(umVlob) /\ umVlob \in Seq(Document)
    BY ManifestTypes DEF SyncInv
  <2>3. um[d].base # 0
    BY DEF BaseEntries, NoEntries, NoEntry, WorkspaceEntry, Known
  <2>4. /\ um[d].base \in DOMAIN umVlob /\ syncing[d].version \in DOMAIN umVlob
        /\ um[d].base <= syncing[d].version
    BY <2>2, <2>3
  <2>5. Known(umVlob[um[d].base].entries[w])
    BY <2>3 DEF BaseEntries
  <2>6. QED
    BY <2>1, <2>2, <2>4, <2>5 DEF KnownInv
<1>3. QED
  BY <1>1, <1>2, ClientTypeInvariant, KnownInvStep, PTL DEF Spec

-----------------------------------------------------------------------------
(* No key of a processed message is missed *)

\* Later messages, more messages passed over and later keys change nothing in what was reflected.
LEMMA ReflectsStays ==
  ASSUME NEW q \in Seq(Message), NEW q2 \in Seq(Message), NEW p, NEW p2,
         NEW e \in Entries, NEW f \in Entries, NEW n \in Nat, NEW k \in Nat,
         Len(q) <= Len(q2), \A j \in 1..Len(q) : q2[j] = q[j], p \subseteq p2,
         \A w \in Realms : f[w].rev >= e[w].rev, n <= Len(q), k <= n, ReflectsIn(q, p, e, n)
  PROVE  ReflectsIn(q2, p2, f, k)
<1> SUFFICES ASSUME NEW j \in 1..k, j \notin p2, q2[j].rev > 0
             PROVE  f[q2[j].realm].rev >= q2[j].rev
  BY DEF ReflectsIn
<1>1. j \in 1..Len(q) /\ j \in 1..n /\ q2[j] = q[j] /\ j \notin p
  OBVIOUS
<1>2. q[j] \in Message
  BY <1>1
<1>3. q[j].realm \in Realms /\ q[j].rev \in Nat
  BY <1>2, BoundAssumption, SMTT(30) DEF Message
<1>4. e[q[j].realm].rev \in Nat /\ f[q[j].realm].rev \in Nat
  BY <1>3, BoundAssumption DEF Entries, Entry
<1>5. e[q[j].realm].rev >= q[j].rev
  BY <1>1 DEF ReflectsIn
<1>6. QED
  BY <1>1, <1>3, <1>4, <1>5

\* A message that was passed over stays so.
LEMMA PassedGrows ==
  ASSUME [Next]_vars
  PROVE  passed \subseteq passed'
<1>1. ASSUME NEW d \in Devices, LoadRoles(d)
      PROVE  passed \subseteq passed'
  BY <1>1 DEF LoadRoles
<1>2. QED
  BY <1>1
  DEF Next, vars, clientVars, ServerStep, WorkspaceCreate, WorkspaceRename, ProcessMessages,
      MessageGet, ApplyMessage, EndMessages, Sync, SyncStart, Upload, Fetch, MergeBack, GiveUp

\* What an entries map reflects before a step, it and any map with later keys reflects after.
LEMMA ReflectsNext ==
  ASSUME RealmTypeOK, RealmTypeOK', TypeOK, [Next]_vars, NEW e \in Entries, NEW f \in Entries,
         \A w \in Realms : f[w].rev >= e[w].rev, NEW n \in Nat, NEW k \in Nat, k <= n,
         n <= Len(inbox[Self]), ReflectsFirst(e, n)
  PROVE  ReflectsIn(inbox'[Self], passed', f, k)
<1>1. inbox[Self] \in Seq(Message) /\ inbox'[Self] \in Seq(Message)
  BY SelfAssumption DEF RealmTypeOK
<1>2. /\ Len(inbox[Self]) <= Len(inbox'[Self])
      /\ \A j \in 1..Len(inbox[Self]) : inbox'[Self][j] = inbox[Self][j]
  BY ManifestSimulation, InboxGrows
<1>3. passed \subseteq passed'
  BY PassedGrows
<1>4. ReflectsIn(inbox[Self], passed, e, n)
  BY DEF ReflectsFirst
<1>5. QED
  BY <1>1, <1>2, <1>3, <1>4, ReflectsStays

\* One more message is reflected when it is passed over or its key is there.
LEMMA ReflectsOneMore ==
  ASSUME NEW q, NEW p, NEW f, NEW i \in Nat, i >= 1, ReflectsIn(q, p, f, i - 1),
         i \in p \/ ~(q[i].rev > 0) \/ f[q[i].realm].rev >= q[i].rev
  PROVE  ReflectsIn(q, p, f, i)
<1> SUFFICES ASSUME NEW j \in 1..i, j \notin p, q[j].rev > 0
             PROVE  f[q[j].realm].rev >= q[j].rev
  BY DEF ReflectsIn
<1>1. j = i \/ j \in 1..(i - 1)
  OBVIOUS
<1>2. QED
  BY <1>1 DEF ReflectsIn

\* After ApplyMessage the device holds the key of the message.
LEMMA ApplyBringsKey ==
  ASSUME RealmTypeOK, TypeOK, SyncInv, RunInv, NEW d \in Devices, ApplyMessage(d)
  PROVE  ~(Current(d).rev > 0) \/ um'[d].entries[Current(d).realm].rev >= Current(d).rev
<1> DEFINE m == Current(d)
           old == um[d].entries[m.realm]
<1>1. messages[d].pc = "apply" /\ stamp < MaxStamps
  BY DEF ApplyMessage
<1>2. messages[d].i <= messages[d].upto
  BY <1>1 DEF RunInv
<1>3. m \in Message /\ m.realm \in Realms /\ m.rev \in Nat
  BY <1>1, <1>2, CurrentMessage, BoundAssumption DEF Message
<1>4. um[d] \in Manifest /\ um[d].entries \in Entries /\ old \in Entry
  BY <1>3, ManifestTypes DEF Manifest, Entries
<1>5. CASE m.rev > 0
  <2>1. m.rev # 0
    BY <1>3, <1>5
  <2>2. um' = [um EXCEPT ![d] = [um[d] EXCEPT !.need = TRUE,
                 !.entries[m.realm] = Applied(old, messages[d], m)]]
    BY <2>1 DEF ApplyMessage
  <2>3. um'[d].entries[m.realm] = Applied(old, messages[d], m)
    <3> HIDE DEF m, old
    <3>1. um'[d] = [um[d] EXCEPT !.need = TRUE, !.entries[m.realm] = Applied(old, messages[d], m)]
      BY <2>2 DEF TypeOK
    <3>2. QED
      BY <1>3, <1>4, <3>1 DEF Manifest, Entries
  <2>4. Applied(old, messages[d], m).rev >= m.rev
    BY <1>1, <1>3, <1>4, <2>1, AppliedKeepsKeys
  <2>5. QED
    BY <2>3, <2>4
<1>6. QED
  BY <1>5

\* ReflectInv is preserved by every step.
LEMMA ReflectInvStep ==
  ASSUME RealmTypeOK, RealmTypeOK', TypeOK, SyncInv, RunInv, ReflectInv, [Next]_vars
  PROVE  ReflectInv'
<1> USE ClientBoundAssumption, BoundAssumption
<1> DEFINE q == inbox'[Self]
           R(e, n) == n <= Len(q) /\ ReflectsIn(q, passed', e, n)
<1>0. \A d \in Devices : UmStep(d) /\ SyncingStep(d) /\ MessagesStep(d)
  BY EveryUmStep, EverySyncingStep, EveryMessagesStep
<1>1. /\ Len(inbox[Self]) \in Nat /\ Len(q) \in Nat /\ Len(inbox[Self]) <= Len(q)
      /\ \A k \in 1..Len(inbox[Self]) : q[k] = inbox[Self][k]
  BY ManifestSimulation, InboxGrows
<1>2. ASSUME NEW e \in Entries, NEW n \in Nat, n <= Len(inbox[Self]), ReflectsFirst(e, n)
      PROVE  R(e, n)
  <2>1. \A w \in Realms : e[w].rev >= e[w].rev
    BY DEF Entries, Entry
  <2>2. ReflectsIn(q, passed', e, n)
    BY <1>2, <2>1, ReflectsNext
  <2>3. QED
    BY <1>1, <1>2, <2>2
<1>3. ASSUME NEW d \in Devices
      PROVE  /\ um[d] \in Manifest /\ um[d].entries \in Entries /\ um[d].last \in Nat
             /\ um'[d] \in Manifest /\ um'[d].entries \in Entries /\ um'[d].last \in Nat
             /\ \A w \in Realms : um'[d].entries[w].rev >= um[d].entries[w].rev
  <2>1. um[d] \in Manifest /\ um'[d] \in Manifest
    BY ManifestTypes, ClientTypeStep DEF TypeOK, Manifest
  <2>2. QED
    BY <2>1, KeysGrow DEF Manifest
<1>4. ASSUME NEW d \in Devices, NEW n \in Nat, n <= Len(inbox[Self]), ReflectsFirst(um[d].entries, n),
             NEW k \in Nat, k <= n
      PROVE  R(um'[d].entries, k)
  <2>1. ReflectsIn(q, passed', um'[d].entries, k)
    BY <1>3, <1>4, ReflectsNext
  <2>2. QED
    BY <1>1, <1>4, <2>1
<1>5. ASSUME NEW d \in Devices
      PROVE  R(um'[d].entries, um'[d].last)
  <2>0. um[d].last <= Len(inbox[Self]) /\ ReflectsFirst(um[d].entries, um[d].last)
    BY DEF ReflectInv
  <2>1. CASE um'[d].last = um[d].last
    BY <1>3, <1>4, <2>0, <2>1
  <2>2. CASE messages[d].pc = "next" /\ um'[d].last = messages[d].done
    <3>1. /\ messages[d].i - 1 \in Nat /\ messages[d].done \in Nat
          /\ messages[d].done <= messages[d].i - 1 /\ messages[d].i - 1 <= Len(inbox[Self])
      <4>1. messages[d].i \in Nat /\ messages[d].done \in Nat /\ messages[d].upto \in Nat
        BY DEF TypeOK
      <4>2. /\ messages[d].upto <= Len(inbox[Self]) /\ messages[d].i \in 1..(messages[d].upto + 1)
            /\ messages[d].done < messages[d].i
        BY <2>2 DEF RunInv
      <4>3. QED
        BY <1>1, <4>1, <4>2
    <3>2. ReflectsFirst(um[d].entries, messages[d].i - 1)
      BY <2>2 DEF ReflectInv
    <3>3. QED
      BY <1>4, <2>2, <3>1, <3>2
  <2>3. CASE /\ syncing[d].pc = "merge"
             /\ um'[d] = Merge(um[d], syncing[d].version, syncing[d].doc)
    <3>1. /\ um'[d].last = MaxOf(um[d].last, syncing[d].doc.last)
          /\ um'[d].entries = MergedEntries(um[d], syncing[d].doc)
      BY <2>3 DEF Merge
    <3>2. /\ syncing[d].doc \in Document /\ syncing[d].doc.entries \in Entries
          /\ syncing[d].doc.last \in Nat
      BY ManifestTypes DEF Document
    <3>3. CASE um'[d].last = um[d].last
      BY <2>1, <3>3
    <3>4. CASE um'[d].last = syncing[d].doc.last
      <4>1. \A w \in Realms : um'[d].entries[w].rev >= syncing[d].doc.entries[w].rev
        BY <3>1, <3>2, ManifestTypes, MergedEntriesKeepKeys
      <4>2. syncing[d].doc.last <= Len(inbox[Self])
            /\ ReflectsFirst(syncing[d].doc.entries, syncing[d].doc.last)
        BY DEF ReflectInv
      <4>3. ReflectsIn(q, passed', um'[d].entries, um'[d].last)
        BY <1>3, <3>2, <3>4, <4>1, <4>2, ReflectsNext
      <4>4. QED
        BY <1>1, <3>2, <3>4, <4>2, <4>3
    <3>5. QED
      BY <3>1, <3>3, <3>4 DEF MaxOf
  <2>4. \/ um'[d].last = um[d].last
        \/ messages[d].pc = "next" /\ um'[d].last = messages[d].done
        \/ /\ syncing[d].pc = "merge"
           /\ um'[d] = Merge(um[d], syncing[d].version, syncing[d].doc)
    BY <1>0, <1>3 DEF UmStep, Manifest
  <2>5. QED
    BY <2>1, <2>2, <2>3, <2>4
<1>6. ASSUME NEW d \in Devices
      PROVE  R(syncing'[d].doc.entries, syncing'[d].doc.last)
  <2>0. /\ syncing[d] \in [pc : {"idle", "upload", "fetch", "merge"}, version : Nat, doc : Document]
        /\ syncing[d].doc.entries \in Entries /\ syncing[d].doc.last \in Nat
        /\ syncing[d].doc.last <= Len(inbox[Self])
        /\ ReflectsFirst(syncing[d].doc.entries, syncing[d].doc.last)
    BY DEF TypeOK, Document, ReflectInv
  <2>1. CASE syncing'[d].doc = syncing[d].doc
    BY <1>2, <2>0, <2>1
  <2>2. CASE syncing'[d].doc = Target(um[d])
    <3>1. syncing'[d].doc.entries = um[d].entries /\ syncing'[d].doc.last = um[d].last
      BY <2>2 DEF Target
    <3>2. um[d].last <= Len(inbox[Self]) /\ ReflectsFirst(um[d].entries, um[d].last)
      BY DEF ReflectInv
    <3>3. QED
      BY <1>2, <1>3, <3>1, <3>2
  <2>3. CASE syncing'[d].doc.last = 0
    BY <1>1, <2>3 DEF ReflectsIn
  <2>4. CASE Len(umVlob) # um[d].base /\ syncing'[d].doc = umVlob[Len(umVlob)]
    <3>1. Len(umVlob) \in DOMAIN umVlob /\ umVlob[Len(umVlob)] \in Document
      BY <2>4, ManifestTypes
    <3>2. /\ umVlob[Len(umVlob)].last <= Len(inbox[Self])
          /\ ReflectsFirst(umVlob[Len(umVlob)].entries, umVlob[Len(umVlob)].last)
      BY <3>1 DEF ReflectInv
    <3>3. umVlob[Len(umVlob)].entries \in Entries /\ umVlob[Len(umVlob)].last \in Nat
      BY <3>1 DEF Document
    <3>4. QED
      BY <1>2, <2>4, <3>2, <3>3
  <2>5. \/ syncing'[d].doc = syncing[d].doc \/ syncing'[d].doc = Target(um[d])
        \/ syncing'[d].doc.last = 0
        \/ Len(umVlob) # um[d].base /\ syncing'[d].doc = umVlob[Len(umVlob)]
    <3>1. SyncingStep(d)
      BY <1>0
    <3>2. NoSync.doc.last = 0 /\ [NoSync EXCEPT !.pc = "fetch"].doc.last = 0
      BY DEF NoSync
    <3>3. ASSUME NEW n
          PROVE  [syncing[d] EXCEPT !.pc = "merge", !.version = n].doc = syncing[d].doc
      BY <2>0
    <3>4. ASSUME syncing'[d] = [pc |-> "upload", version |-> um[d].base + 1, doc |-> Target(um[d])]
          PROVE  syncing'[d].doc = Target(um[d])
      BY <3>4
    <3>5. ASSUME syncing'[d] = [pc |-> "merge", version |-> Len(umVlob), doc |-> umVlob[Len(umVlob)]]
          PROVE  syncing'[d].doc = umVlob[Len(umVlob)]
      BY <3>5
    <3>6. ASSUME syncing'[d] = [syncing[d] EXCEPT !.pc = "merge", !.version = Len(umVlob) + 1]
          PROVE  syncing'[d].doc = syncing[d].doc
      BY <3>3, <3>6
    <3>7. ASSUME syncing'[d] = NoSync \/ syncing'[d] = [NoSync EXCEPT !.pc = "fetch"]
          PROVE  syncing'[d].doc.last = 0
      BY <3>2, <3>7
    <3>8. QED
      BY <3>1, <3>4, <3>5, <3>6, <3>7 DEF SyncingStep
  <2>6. QED
    BY <2>1, <2>2, <2>3, <2>4, <2>5
<1>7. ASSUME NEW d \in Devices, messages'[d].pc # "idle"
      PROVE  ReflectsIn(q, passed', um'[d].entries, messages'[d].i - 1)
  <2>0. /\ messages[d] \in [pc : {"idle", "next", "apply"}, i : Nat, upto : Nat,
                            done : Nat, role : Role \cup {NoRole}, cert : Nat]
        /\ messages[d].i \in Nat /\ messages[d].upto \in Nat
    BY DEF TypeOK
  <2>1. CASE messages[d].pc # "idle"
    <3>1. /\ messages[d].i - 1 \in Nat /\ messages[d].i - 1 <= Len(inbox[Self])
          /\ messages[d].i >= 1
      BY <1>1, <2>0, <2>1 DEF RunInv
    <3>2. ReflectsFirst(um[d].entries, messages[d].i - 1)
      BY <2>1 DEF ReflectInv
    <3>3. ReflectsIn(q, passed', um'[d].entries, messages[d].i - 1)
      BY <1>4, <3>1, <3>2
    <3>4. CASE messages'[d].i = messages[d].i
      BY <3>3, <3>4
    <3>5. CASE messages'[d].i = messages[d].i + 1 /\ messages[d].i \in passed'
      <4>1. ReflectsIn(q, passed', um'[d].entries, messages[d].i)
        BY <2>0, <3>1, <3>3, <3>5, ReflectsOneMore
      <4>2. messages'[d].i - 1 = messages[d].i
        BY <2>0, <3>5
      <4>3. QED
        BY <4>1, <4>2
    <3>6. CASE /\ messages'[d].i = messages[d].i + 1 /\ messages[d].pc = "apply"
               /\ ApplyMessage(d)
      <4>0. messages[d].i \in 1..Len(inbox[Self])
        BY <2>0, <3>6, CurrentMessage DEF RunInv
      <4>1. Current(d) = q[messages[d].i]
        BY <1>1, <4>0 DEF Current
      <4>2. \/ ~(q[messages[d].i].rev > 0)
            \/ um'[d].entries[q[messages[d].i].realm].rev >= q[messages[d].i].rev
        BY <3>6, <4>1, ApplyBringsKey
      <4>3. ReflectsIn(q, passed', um'[d].entries, messages[d].i)
        BY <2>0, <3>1, <3>3, <4>2, ReflectsOneMore
      <4>4. messages'[d].i - 1 = messages[d].i
        BY <2>0, <3>6
      <4>5. QED
        BY <4>3, <4>4
    <3>7. CASE messages'[d] = [NoRun EXCEPT !.pc = "next", !.i = um[d].last + 1,
                                 !.upto = Len(inbox[Self]), !.done = um[d].last]
      <4>1. messages'[d].i - 1 = um[d].last
        BY <1>3, <3>7 DEF NoRun
      <4>2. um[d].last <= Len(inbox[Self]) /\ ReflectsFirst(um[d].entries, um[d].last)
        BY DEF ReflectInv
      <4>3. QED
        BY <1>3, <1>4, <4>1, <4>2
    <3>8. messages'[d] # NoRun
      BY <1>7 DEF NoRun
    <3>9. ASSUME NEW done,
                 messages'[d] = [messages[d] EXCEPT !.i = messages[d].i + 1, !.done = done]
          PROVE  messages'[d].i = messages[d].i + 1
      BY <2>0, <3>9
    <3>10. ASSUME NEW role, NEW cert,
                  messages'[d] = [messages[d] EXCEPT !.pc = "apply", !.role = role, !.cert = cert]
           PROVE  messages'[d].i = messages[d].i
      BY <2>0, <3>10
    <3>11. ASSUME messages'[d] = [messages[d] EXCEPT !.pc = "next", !.i = messages[d].i + 1,
                                    !.done = messages[d].i]
           PROVE  messages'[d].i = messages[d].i + 1
      BY <2>0, <3>11
    <3>12. MessagesStep(d)
      BY <1>0
    <3>13. QED
      BY <3>4, <3>5, <3>6, <3>7, <3>8, <3>9, <3>10, <3>11, <3>12 DEF MessagesStep
  <2>2. CASE messages[d].pc = "idle"
    <3>1. messages'[d] = [NoRun EXCEPT !.pc = "next", !.i = um[d].last + 1,
                            !.upto = Len(inbox[Self]), !.done = um[d].last]
      <4>1. messages'[d] # NoRun /\ messages'[d] # messages[d]
        BY <1>7, <2>2 DEF NoRun
      <4>2. MessagesStep(d)
        BY <1>0
      <4>3. QED
        BY <2>2, <4>1, <4>2 DEF MessagesStep
    <3>2. messages'[d].i - 1 = um[d].last
      BY <1>3, <3>1 DEF NoRun
    <3>3. um[d].last <= Len(inbox[Self]) /\ ReflectsFirst(um[d].entries, um[d].last)
      BY DEF ReflectInv
    <3>4. QED
      BY <1>3, <1>4, <3>2, <3>3
  <2>3. QED
    BY <2>1, <2>2
<1>8. ASSUME NEW v \in DOMAIN umVlob'
      PROVE  R(umVlob'[v].entries, umVlob'[v].last)
  <2>0. ASSUME NEW x \in DOMAIN umVlob
        PROVE  R(umVlob[x].entries, umVlob[x].last)
    <3>1. umVlob \in Seq(Document)
      BY DEF TypeOK, Document
    <3>2. umVlob[x] \in Document
      BY <3>1
    <3>3. umVlob[x].entries \in Entries /\ umVlob[x].last \in Nat
      BY <3>2 DEF Document
    <3>4. QED
      BY <1>2, <3>3 DEF ReflectInv
  <2>1. CASE umVlob' = umVlob
    BY <2>0, <2>1
  <2>2. ASSUME NEW d \in Devices, umVlob' = Append(umVlob, syncing[d].doc)
        PROVE  R(umVlob'[v].entries, umVlob'[v].last)
    <3>1. syncing[d].doc \in Document /\ umVlob \in Seq(Document)
      BY DEF TypeOK, Document
    <3>2. (v \in DOMAIN umVlob /\ umVlob'[v] = umVlob[v]) \/ umVlob'[v] = syncing[d].doc
      BY <2>2, <3>1
    <3>3. R(syncing[d].doc.entries, syncing[d].doc.last)
      BY <1>2, <3>1 DEF ReflectInv, Document
    <3>4. QED
      BY <2>0, <3>2, <3>3
  <2>3. QED
    BY <2>1, <2>2, EveryVersionStep DEF VersionStep
<1>9. QED
  BY <1>5, <1>6, <1>7, <1>8 DEF ReflectInv, ReflectsFirst

\* Whatever messages its devices process, refuse or find processed by each other, and whenever
\* they give up, a manifest whose offset is past a message holds the key of that message,
\* unless some device passed the message over.
THEOREM NoKeyIsMissed == Spec => []NoKeyMissed
<1>1. Init => ReflectInv
  <2> SUFFICES ASSUME Init PROVE ReflectInv
    OBVIOUS
  <2>1. inbox[Self] = <<>> /\ umVlob = <<>>
    BY SelfAssumption DEF Init, RealmInit
  <2>2. \A e : ReflectsFirst(e, 0)
    BY DEF ReflectsFirst, ReflectsIn
  <2>3. ASSUME NEW d \in Devices
        PROVE  um[d].last = 0 /\ syncing[d].doc.last = 0 /\ messages[d].pc = "idle"
    BY DEF Init, NewPlaceholder, NoSync, NoRun
  <2>4. QED
    BY <2>1, <2>2, <2>3 DEF ReflectInv
<1>2. ReflectInv => NoKeyMissed
  BY DEF ReflectInv, NoKeyMissed, Reflects, ReflectsFirst, ReflectsIn
<1>3. QED
  BY <1>1, <1>2, ClientTypeInvariant, ReflectInvStep, PTL DEF Spec
=============================================================================

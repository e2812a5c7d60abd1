------------------------------- MODULE MCSync -------------------------------
(***************************************************************************)
(* Model-checking instances of what two devices synchronize, side by side: *)
(* every behaviour is of one of them, which part names.  folder, file:     *)
(* EntrySync for the creator of an entry and another device; manifest:     *)
(* UserManifest for the devices of an outsider.                            *)
(***************************************************************************)
EXTENDS EntrySync

CONSTANTS d1, d2, e1, e2, alice, bob, w1

VARIABLES
  part,
  grants, status, revoked, connected, sending, inbox,                     \* Realm
  um, umVlob, messages, syncing, passed, stamp, renames, interruptions    \* UserManifest

\* A file instead of a folder.  Its writes are lost by a crash, which has a run of its own.
File == INSTANCE EntrySync WITH Kind <- "file", MaxCrashes <- 0

User == INSTANCE UserManifest WITH
  Users <- {alice, bob}, Outsiders <- {bob}, Admins <- {}, Realms <- {w1}, Self <- bob,
  MaxTime <- 1, MaxGrants <- 2, MaxRevision <- 1, MaxStamps <- 4, MaxUserVersion <- 9,
  MaxRenames <- 0, MaxGiveUps <- 1, giveUps <- interruptions

userVars ==
  <<grants, status, revoked, connected, sending, inbox,
    um, umVlob, messages, syncing, passed, stamp, renames, interruptions>>

PartsInit == part \in {"folder", "file", "manifest"} /\ Init /\ User!Init

InFolder(action) == part = "folder" /\ action /\ UNCHANGED <<part, userVars>>
InFile(action) == part = "file" /\ action /\ UNCHANGED <<part, userVars>>
InManifest(action) == part = "manifest" /\ action /\ UNCHANGED <<part, vars>>

\* The devices of the user are interchangeable: the one interrupted is d1.
InterruptsFirst == interruptions' # interruptions => UNCHANGED <<messages[d2], syncing[d2]>>

\* A folder meets one fault, a synchronization given up or a crash.
OneFault == giveUps' + crashes' <= 1

PartsNext ==
  InFolder(Next /\ OneFault) \/ InFile(File!Next) \/ InManifest(User!Next /\ InterruptsFirst)

partsVars == <<part, vars, userVars>>

\* The fairness of EntrySync, for what is synchronized, and that of UserManifest.
Either(folder, file) == InFolder(folder) \/ InFile(file)
Behind(d) == local[d].need \/ local[d].base < Len(vlob)

PartsFairness ==
  /\ WF_vars(Either(Publish, File!Publish))
  /\ \A d \in Devices :
       /\ WF_vars(Either(Sync(d), File!Sync(d)))
       /\ WF_vars(Either(Minimal(d), File!Minimal(d)))
       /\ SF_vars(Behind(d) /\ Either(SyncStart(d, TRUE), File!SyncStart(d, TRUE)))
  /\ \A d \in Devices :
       /\ WF_userVars(InManifest(User!ProcessMessages(d)))
       /\ WF_userVars(InManifest(User!Sync(d)))

PartsSpec == PartsInit /\ [][PartsNext]_partsVars /\ PartsFairness

\* Where an entry is synchronized, the devices converge (Converges).
EntriesConverge == part = "manifest" \/ Converges

\* The devices of a user end up with the same keys, unless a message was skipped or the
\* user is revoked (module UserManifest).
DevicesAgreeOnKeys == User!DevicesAgreeOnKeys

\* Devices that are left alone agree in the end: on the content of an entry, and on the keys.
DevicesAgree == EntriesConverge /\ DevicesAgreeOnKeys
=============================================================================

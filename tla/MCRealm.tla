------------------------------ MODULE MCRealm ------------------------------
(***************************************************************************)
(* Model-checking instances of components that share no state, side by     *)
(* side: every behaviour is one of a single component, which part names.   *)
(* realm: two standard users, one of them an admin, and an outsider, in    *)
(* one realm; invites and conduit: the invitations of the server; wizards  *)
(* and view: the dialogs and the list of files of the GUI; folder and      *)
(* file: the manifests of a folder and the storage of a file.              *)
(***************************************************************************)
EXTENDS Realm, Invitations, InviteWizards, FilesView, FolderManifests, FileStorage

CONSTANTS alice, bob, zoe, r1, b1, b2, s1, s2, c1, c2, p1, p2, w1, w2

VARIABLE part

\* Revocations and maintenances are taken when the timestamps of the roles are in order.
RevokedInOrder ==
  \/ revoked' = {} /\ status'[r1].rev = 1
  \/ \A u \in Users : \A i \in DOMAIN grants'[r1][u] : grants'[r1][u][i].on = 1

-----------------------------------------------------------------------------
(* Deployments of the server for the invitations *)

Deployed(impl, up, g, tg, n, r) ==
  [impl |-> impl, up |-> up, greeterOf |-> g, targets |-> tg, tokens |-> n, restarts |-> r]

MCInviteSetups ==
  {Deployed("MEMORY", {b1}, s1 :> "alice" @@ s2 :> "bob", {"mail"}, 2, 0),
   Deployed("MEMORY", {b1}, s1 :> "alice", {"mail", Device}, 2, 0),
   Deployed("POSTGRESQL", {b1, b2}, s1 :> "alice", {"mail"}, 1, 0),
   Deployed("POSTGRESQL", {b1}, s1 :> "alice" @@ s2 :> "alice", {"mail"}, 1, 0),
   Deployed("POSTGRESQL", {b1}, s1 :> "alice", {Device}, 1, 1)}

\* The claimers are interchangeable: the first one to connect is c1.  There is a second one
\* where there is a single token, which they share, and after the crash where there is one.
FirstIsFirst ==
  claimer[c1] = Away \/ deployment.tokens > 1 \/ restarts < deployment.restarts =>
    claimer'[c2] = Away

\* A client with a file that grows past its first block does not crash and uploads one version.
\* Chunks are committed by other transactions where a crash of the first version may follow.
EarlyCrash ==
  /\ \/ file'.size <= BlockSize /\ (count'.crashes = 0 \/ Len(versions') <= 1)
     \/ Len(versions') <= 1 /\ count'.crashes = 0
  /\ onDisk' # onDisk /\ UNCHANGED <<disk, file>> => count.crashes = 0 /\ versions = <<>>

\* Nothing is confined, or the names that end in "t" are.
MCFilters == {{}, {"t"}}

-----------------------------------------------------------------------------

\* A component that does not run starts in one of its initial states.
PartsInit ==
  /\ part \in {"realm", "invites", "conduit", "wizards", "view", "folder", "file"}
  /\ RealmInit /\ FileInit /\ FilesInit /\ view.ws = w1
  /\ InviteServerInit /\ (part # "invites" => Cardinality(deployment.targets) = 2)
  /\ PgConduitInit /\ (part # "conduit" => row.state = 1)
  /\ WizardInit /\ (part # "wizards" => wiz.kind = "greet_user")
  /\ FolderInit /\ (part # "folder" => filter = {})

otherThanRealm == <<inviteServerVars, pgConduitVars, wizardVars, filesVars, folderVars, fileVars>>

PartsNext ==
  /\ UNCHANGED part
  /\ \/ part = "realm" /\ RealmNext /\ RevokedInOrder /\ UNCHANGED otherThanRealm
     \/ /\ part # "realm" /\ UNCHANGED realmVars
        /\ \/ /\ part = "invites" /\ InviteServerNext /\ FirstIsFirst
              /\ UNCHANGED <<pgConduitVars, wizardVars, filesVars, folderVars, fileVars>>
           \/ /\ part = "conduit" /\ PgConduitNext
              /\ UNCHANGED <<inviteServerVars, wizardVars, filesVars, folderVars, fileVars>>
           \/ /\ part = "wizards" /\ WizardNext
              /\ UNCHANGED <<inviteServerVars, pgConduitVars, filesVars, folderVars, fileVars>>
           \/ /\ part = "view" /\ FilesNext
              /\ UNCHANGED <<inviteServerVars, pgConduitVars, wizardVars, folderVars, fileVars>>
           \/ /\ part = "folder" /\ FolderNext
              /\ UNCHANGED <<inviteServerVars, pgConduitVars, wizardVars, filesVars, fileVars>>
           \/ /\ part = "file" /\ FileNext /\ EarlyCrash
              /\ UNCHANGED <<inviteServerVars, pgConduitVars, wizardVars, filesVars, folderVars>>

PartsSpec == PartsInit /\ [][PartsNext]_<<realmVars, otherThanRealm, part>>
=============================================================================

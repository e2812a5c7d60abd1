------------------------------- MODULE Realm -------------------------------
(***************************************************************************)
(* The realm component of the guardata server: who may access a realm      *)
(* (role certificates), which encryption revision the realm is at, and the *)
(* re-encryption maintenance during which it is closed.  A realm is a      *)
(* workspace, or the storage of one user manifest.                         *)
(*                                                                         *)
(* A handler runs without interruption up to its first await that really   *)
(* yields.  update_roles and start_reencryption_maintenance change the     *)
(* realm first and post their messages afterwards, each behind an await on *)
(* the event channel: the messages still to post are the variable sending, *)
(* and a handler whose connection is cancelled because its author was      *)
(* revoked loses them (Kick).                                              *)
(***************************************************************************)
EXTENDS Naturals, Sequences, FiniteSets

CONSTANTS
  Users,        \* the users of one organization
  Outsiders,    \* those with the OUTSIDER profile
  Admins,       \* those with the ADMIN profile
  Realms,       \* realm identifiers
  MaxTime,      \* bound: certificate timestamps are 1..MaxTime
  MaxGrants,    \* bound: role certificates per realm
  MaxRevision   \* bound: encryption revisions per realm

ASSUME ProfileAssumption ==
  /\ Outsiders \subseteq Users
  /\ Admins \subseteq Users \ Outsiders
  /\ IsFiniteSet(Users)

ASSUME BoundAssumption ==
  MaxTime \in Nat /\ MaxGrants \in Nat /\ MaxRevision \in Nat \ {0}

VARIABLES
  grants,      \* grants[r][u]: the certificates of user u in realm r, as received
  status,      \* status[r]: encryption revision, maintenance flag, who started it
  revoked,     \* users whose revocation certificate is stored
  connected,   \* users with a live authenticated connection
  sending,     \* messages a handler has still to post
  inbox        \* inbox[u]: the message queue of user u

realmVars == <<grants, status, revoked, connected, sending, inbox>>

NoRole == "NONE"
Role == {"OWNER", "MANAGER", "CONTRIBUTOR", "READER"}
Times == 1..MaxTime
Revisions == 1..MaxRevision

Grant == [role : Role \cup {NoRole}, on : Times]

\* A message tells its recipient the key of one encryption revision of a realm
\* (sharing.granted, sharing.reencrypted), or that the access is over
\* (sharing.revoked, rev = 0).
Message == [realm : Realms, rev : 0..MaxRevision, by : Users]

NoUser == "nobody"
Status == [rev : Revisions, maintenance : BOOLEAN, by : Users \cup {NoUser}]

-----------------------------------------------------------------------------
(* Roles *)

\* Realm.roles sorts the certificates by timestamp (a stable sort) and lets each
\* one override the former: the role of a user is the one in the latest
\* certificate, the last received among those with the same timestamp.
LastIndex(certs) ==
  CHOOSE i \in DOMAIN certs : \A j \in DOMAIN certs :
    certs[j].on < certs[i].on \/ (certs[j].on = certs[i].on /\ j <= i)

RoleIn(certs) == IF certs = <<>> THEN NoRole ELSE certs[LastIndex(certs)].role

RoleOf(r, u) == RoleIn(grants[r][u])

Members(r) == {u \in Users : RoleOf(r, u) # NoRole}

Exists(r) == \E u \in Users : grants[r][u] # <<>>

Certificates(r) == {c \in Users \X (1..MaxGrants) : c[2] <= Len(grants[r][c[1]])}

\* Mutant: a manager may change any role.
NeededRolesManager(old, new) == {"OWNER", "MANAGER"}

\* The roles that may turn a member with role old into one with role new.
NeededRoles(old, new) ==
  IF {old, new} \cap {"OWNER", "MANAGER"} # {} THEN {"OWNER"} ELSE {"OWNER", "MANAGER"}

\* Mutant: the profile of the author is not looked at.
MayCreateAnyProfile(by) == TRUE

\* api_realm_create refuses outsiders.
MayCreate(by) == by \notin Outsiders

\* Mutant: roles may change during a maintenance.
OpenForRolesAlways(r) == Exists(r)

\* update_roles wants an existing realm that is not in maintenance.
OpenForRoles(r) == Exists(r) /\ ~status[r].maintenance

-----------------------------------------------------------------------------
(* Operations.  The author of a request is a user with a live connection.  *)

RealmCreate(r, by, on) ==
  /\ by \in connected
  /\ MayCreate(by)
  /\ ~Exists(r)
  /\ MaxGrants > 0
  /\ grants' = [grants EXCEPT ![r][by] = <<[role |-> "OWNER", on |-> on]>>]
  /\ UNCHANGED <<status, revoked, connected, sending, inbox>>

\* bodies is {} or a singleton: the optional recipient_message.
UpdateRoles(r, by, u, role, on, bodies) ==
  /\ by \in connected
  /\ by # u
  /\ ~(u \in Outsiders /\ role \in {"MANAGER", "OWNER"})
  /\ OpenForRoles(r)
  /\ RoleOf(r, by) \in NeededRoles(RoleOf(r, u), role)
  /\ RoleOf(r, u) # role
  /\ grants' = [grants EXCEPT ![r][u] = Append(@, [role |-> role, on |-> on])]
  /\ sending' = sending \cup {[to |-> u, msg |-> m] : m \in bodies}
  /\ UNCHANGED <<status, revoked, connected, inbox>>

\* Mutant: the message announces the revision after the one its key is of.
SharingBodyNextRevision(r, by, role, rev) ==
  [realm |-> r, by |-> by, rev |-> IF role = NoRole THEN 0 ELSE rev + 1]

\* The message of a sharing request carries the key its author knows, which is
\* the one of any revision so far; the message of an exclusion carries none.
SharingBody(r, by, role, rev) ==
  [realm |-> r, by |-> by, rev |-> IF role = NoRole THEN 0 ELSE rev]

\* A sharing request: the role certificate, and the message or none.
Share(r, by, u, role, on, rev) ==
  /\ rev <= status[r].rev
  /\ \E bodies \in {{}, {SharingBody(r, by, role, rev)}} :
       UpdateRoles(r, by, u, role, on, bodies)

\* Any sharing request, up to the bound on certificates.
Sharing(r) ==
  /\ Cardinality(Certificates(r)) < MaxGrants
  /\ \E by \in Users, u \in Users, role \in Role \cup {NoRole}, on \in Times, rev \in Revisions :
       Share(r, by, u, role, on, rev)

Participants(r) == Members(r) \ revoked

StartReencryption(r, by, rev, participants) ==
  /\ by \in connected
  /\ RoleOf(r, by) = "OWNER"
  /\ ~status[r].maintenance
  /\ rev = status[r].rev + 1
  /\ rev <= MaxRevision
  /\ participants = Participants(r)
  /\ status' = [status EXCEPT ![r] = [rev |-> rev, maintenance |-> TRUE, by |-> by]]
  /\ sending' = sending \cup
       {[to |-> u, msg |-> [realm |-> r, by |-> by, rev |-> rev]] : u \in participants}
  /\ UNCHANGED <<grants, revoked, connected, inbox>>

FinishReencryption(r, by, rev) ==
  /\ by \in connected
  /\ RoleOf(r, by) = "OWNER"
  /\ status[r].maintenance
  /\ rev = status[r].rev
  /\ status' = [status EXCEPT ![r] = [rev |-> rev, maintenance |-> FALSE, by |-> NoUser]]
  /\ UNCHANGED <<grants, revoked, connected, sending, inbox>>

\* The await of a handler returns and MemoryMessageComponent.send appends.
PostMessage(s) ==
  /\ s \in sending
  /\ sending' = sending \ {s}
  /\ inbox' = [inbox EXCEPT ![s.to] = Append(@, s.msg)]
  /\ UNCHANGED <<grants, status, revoked, connected>>

RevokeUser(by, u) ==
  /\ by \in connected
  /\ by \in Admins
  /\ by # u
  /\ u \notin revoked
  /\ revoked' = revoked \cup {u}
  /\ UNCHANGED <<grants, status, connected, sending, inbox>>

\* The user.revoked event reaches the connection of the user: its cancel scope
\* stops whatever handler was running there.
Kick(u) ==
  /\ u \in revoked \cap connected
  /\ connected' = connected \ {u}
  /\ sending' = {s \in sending : s.msg.by # u}
  /\ UNCHANGED <<grants, status, revoked, inbox>>

-----------------------------------------------------------------------------

RealmInit ==
  /\ grants = [r \in Realms |-> [u \in Users |-> <<>>]]
  /\ status = [r \in Realms |-> [rev |-> 1, maintenance |-> FALSE, by |-> NoUser]]
  /\ revoked = {}
  /\ connected = Users
  /\ sending = {}
  /\ inbox = [u \in Users |-> <<>>]

RealmNext ==
  \/ \E r \in Realms, by \in Users, on \in Times : RealmCreate(r, by, on)
  \/ \E r \in Realms : Sharing(r)
  \/ \E r \in Realms, by \in Users, rev \in Revisions, participants \in SUBSET Users :
       StartReencryption(r, by, rev, participants)
  \/ \E r \in Realms, by \in Users, rev \in Revisions : FinishReencryption(r, by, rev)
  \/ \E s \in sending : PostMessage(s)
  \/ \E by \in Users, u \in Users : RevokeUser(by, u)
  \/ \E u \in Users : Kick(u)

RealmSpec == RealmInit /\ [][RealmNext]_realmVars

-----------------------------------------------------------------------------
(* Properties *)

\* Every variable holds a value of its kind.
RealmTypeOK ==
  /\ grants \in [Realms -> [Users -> Seq(Grant)]]
  /\ status \in [Realms -> Status]
  /\ revoked \subseteq Users
  /\ connected \subseteq Users
  /\ sending \subseteq [to : Users, msg : Message]
  /\ inbox \in [Users -> Seq(Message)]

\* A realm that exists always has an owner, whatever the clocks of the authors
\* say: update_roles never lets anybody change their own role, and only an owner
\* may take the role of an owner away.  Without one nobody could share the realm
\* or re-encrypt it any more.
RealmHasOwner == \A r \in Realms : Exists(r) => \E u \in Users : RoleOf(r, u) = "OWNER"

\* No user with the OUTSIDER profile ever manages or owns a realm.
NoOutsiderInCharge ==
  \A r \in Realms, u \in Outsiders : RoleOf(r, u) \notin {"OWNER", "MANAGER"}

\* The user u has been told, or is about to be told, the key of revision rev.
Told(u, r, rev) ==
  \/ \E i \in DOMAIN inbox[u] : inbox[u][i].realm = r /\ inbox[u][i].rev = rev
  \/ \E s \in sending : s.to = u /\ s.msg.realm = r /\ s.msg.rev = rev

\* While a realm is re-encrypted, each of its members that is not revoked has the
\* new key, or gets it from the handler that started the maintenance, provided
\* that this handler was not cancelled by the revocation of its author.  This is
\* what the participants check and the refusal to change roles during a
\* maintenance are for.
NewKeyReachesMembers ==
  \A r \in Realms :
    status[r].maintenance /\ status[r].by \in connected =>
      \A u \in Participants(r) : Told(u, r, status[r].rev)

=============================================================================

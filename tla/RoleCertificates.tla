-------------------------- MODULE RoleCertificates --------------------------
(***************************************************************************)
(* The role certificates of one realm as the list the server keeps, and    *)
(* the two places that compute roles from it: Realm.roles on the server,   *)
(* and the clients, which verify the whole chain again.                    *)
(*                                                                         *)
(* A certificate carries the clock of the device that signed it.  The      *)
(* server accepts it when it is near its own clock                         *)
(* (timestamps_in_the_ballpark), whatever the certificates before it say.  *)
(***************************************************************************)
EXTENDS Naturals, Sequences, FiniteSets

CONSTANTS
  Users,       \* the users of one organization
  Outsiders,   \* those with the OUTSIDER profile
  Skew,        \* how far the clocks of devices are from the server's
  MaxTime,     \* bound: clocks show 1..MaxTime
  MaxGrants    \* bound: certificates of the realm

ASSUME ProfileAssumption == Outsiders \subseteq Users /\ IsFiniteSet(Users)
ASSUME BoundAssumption == Skew \in Nat /\ MaxTime \in Nat \ {0} /\ MaxGrants \in Nat

VARIABLES
  granted,   \* Realm.granted_roles, in the order of reception
  clock      \* the clock of the server

vars == <<granted, clock>>

NoRole == "NONE"
Role == {"OWNER", "MANAGER", "CONTRIBUTOR", "READER"}
Times == 1..MaxTime

-----------------------------------------------------------------------------
(* Roles out of certificates *)

\* sorted(..., key = timestamp) is stable.
Position(certs, i) ==
  Cardinality({j \in DOMAIN certs :
    certs[j].on < certs[i].on \/ (certs[j].on = certs[i].on /\ j <= i)})

SortedByTime(certs) ==
  [n \in DOMAIN certs |-> certs[CHOOSE i \in DOMAIN certs : Position(certs, i) = n]]

\* Each certificate overrides the role its user had.
RolesAfter(certs) ==
  LET after[n \in 0..Len(certs)] ==
        IF n = 0 THEN [u \in Users |-> NoRole]
        ELSE [after[n - 1] EXCEPT ![certs[n].user] = certs[n].role]
  IN  after[Len(certs)]

\* Realm.roles.
ServerRoles(certs) == RolesAfter(SortedByTime(certs))

\* Mutant: a manager may change any role.
NeededRolesManager(old, new) == {"OWNER", "MANAGER"}

\* The roles that may turn a user with role old into one with role new.
NeededRoles(old, new) ==
  IF {old, new} \cap {"OWNER", "MANAGER"} # {} THEN {"OWNER"} ELSE {"OWNER", "MANAGER"}

\* What a client wants of the author of a certificate, given the roles the
\* certificates before it gave: the first one is signed by its own user.
ClientNeeds(roles, c) ==
  IF (\A u \in Users : roles[u] = NoRole) /\ c.user = c.by
    THEN {NoRole}
  ELSE IF {roles[c.user], c.role} \cap {"OWNER", "MANAGER"} # {}
    THEN {"OWNER"}
  ELSE {"OWNER", "MANAGER"}

\* _load_realm_role_certificates: the client sorts the certificates by timestamp
\* too, and refuses none of the chain.
Verified(certs) ==
  LET chain == SortedByTime(certs) IN
    \A n \in DOMAIN chain :
      LET roles == RolesAfter(SubSeq(chain, 1, n - 1)) IN
        roles[chain[n].by] \in ClientNeeds(roles, chain[n])

-----------------------------------------------------------------------------
(* Operations *)

\* Mutant: no certificate is too far from the clock of the server.
InTheBallparkAlways(on) == TRUE

\* timestamps_in_the_ballpark.
InTheBallpark(on) == on <= clock + Skew /\ clock <= on + Skew

RealmCreate(by, on) ==
  /\ by \notin Outsiders
  /\ InTheBallpark(on)
  /\ granted = <<>>
  /\ MaxGrants > 0
  /\ granted' = <<[user |-> by, role |-> "OWNER", on |-> on, by |-> by]>>
  /\ UNCHANGED clock

UpdateRoles(by, u, role, on) ==
  /\ InTheBallpark(on)
  /\ by # u
  /\ ~(u \in Outsiders /\ role \in {"MANAGER", "OWNER"})
  /\ granted # <<>>
  /\ LET roles == ServerRoles(granted) IN
       /\ roles[by] \in NeededRoles(roles[u], role)
       /\ roles[u] # role
  /\ Len(granted) < MaxGrants
  /\ granted' = Append(granted, [user |-> u, role |-> role, on |-> on, by |-> by])
  /\ UNCHANGED clock

Tick ==
  /\ clock < MaxTime
  /\ clock' = clock + 1
  /\ UNCHANGED granted

-----------------------------------------------------------------------------

Init == granted = <<>> /\ clock = 1

Next ==
  \/ \E by \in Users, on \in Times : RealmCreate(by, on)
  \/ \E by \in Users, u \in Users, role \in Role \cup {NoRole}, on \in Times :
       UpdateRoles(by, u, role, on)
  \/ Tick

Spec == Init /\ [][Next]_vars

-----------------------------------------------------------------------------
(* Properties *)

\* The chain of certificates the server has accepted is one that the clients
\* accept: each author had the right to do what the certificate says, at its place
\* in the order of the timestamps.  A chain they refuse closes the realm to all of
\* them, since they load it before they read or share anything.
ClientsAcceptChain == Verified(granted)

\* The list implements the certificates of module Realm, which keeps those of each
\* user apart and has neither a common order nor authors.
OfUser(u) ==
  LET mine == SelectSeq(granted, LAMBDA c : c.user = u)
  IN  [n \in DOMAIN mine |-> [role |-> mine[n].role, on |-> mine[n].on]]

Abstract == INSTANCE Realm WITH
  Admins <- {}, Realms <- {"realm"}, MaxRevision <- 1,
  grants <- [r \in {"realm"} |-> [u \in Users |-> OfUser(u)]],
  status <- [r \in {"realm"} |-> [rev |-> 1, maintenance |-> FALSE, by |-> "nobody"]],
  revoked <- {}, connected <- Users, sending <- {}, inbox <- [u \in Users |-> <<>>]

\* Every operation on the list is an operation of module Realm on the certificates
\* of one user, so that what is shown of Realm holds of the list.  (Abstract!RealmSpec,
\* where a step that leaves the list alone is a stuttering step of Realm.)
ImplementsRealm ==
  /\ Abstract!RealmInit
  /\ [][UNCHANGED granted \/ Abstract!RealmNext]_(Abstract!realmVars)

=============================================================================

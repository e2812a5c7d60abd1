----------------------------- MODULE RealmProofs -----------------------------
(***************************************************************************)
(* Theorems about Realm, for any users, realms and bounds.                 *)
(***************************************************************************)
EXTENDS Realm, WellFoundedInduction, TLAPS

\* Every operation of the realm component keeps every variable within its kind.
LEMMA RealmTypeStep ==
  ASSUME RealmTypeOK, [RealmNext]_realmVars
  PROVE  RealmTypeOK'
<1> USE BoundAssumption DEF RealmTypeOK
<1>1. ASSUME NEW r \in Realms, NEW by \in Users, NEW on \in Times, RealmCreate(r, by, on)
      PROVE  RealmTypeOK'
  <2>1. <<[role |-> "OWNER", on |-> on]>> \in Seq(Grant)
    BY DEF Grant, Role
  <2>2. grants' \in [Realms -> [Users -> Seq(Grant)]]
    BY <1>1, <2>1 DEF RealmCreate
  <2>3. QED
    BY <1>1, <2>2 DEF RealmCreate
<1>2. ASSUME NEW r \in Realms, NEW by \in Users, NEW u \in Users,
             NEW role \in Role \cup {NoRole}, NEW on \in Times, NEW rev \in Revisions,
             Share(r, by, u, role, on, rev)
      PROVE  RealmTypeOK'
  <2> PICK bodies \in {{}, {SharingBody(r, by, role, rev)}} :
             UpdateRoles(r, by, u, role, on, bodies)
    BY <1>2 DEF Share
  <2>1. SharingBody(r, by, role, rev) \in Message
    BY DEF SharingBody, Message, Revisions
  <2>2. \A m \in bodies : m \in Message
    BY <2>1
  <2>3. sending' \subseteq [to : Users, msg : Message]
    BY <2>2 DEF UpdateRoles
  <2>4. [role |-> role, on |-> on] \in Grant
    BY DEF Grant
  <2>5. grants' \in [Realms -> [Users -> Seq(Grant)]]
    BY <2>4 DEF UpdateRoles
  <2>6. QED
    BY <2>3, <2>5 DEF UpdateRoles
<1>3. ASSUME NEW r \in Realms, NEW by \in Users, NEW rev \in Revisions,
             NEW ps \in SUBSET Users, StartReencryption(r, by, rev, ps)
      PROVE  RealmTypeOK'
  <2>1. [rev |-> rev, maintenance |-> TRUE, by |-> by] \in Status
    BY DEF Status
  <2>2. [realm |-> r, by |-> by, rev |-> rev] \in Message
    BY DEF Message, Revisions
  <2>3. sending' \subseteq [to : Users, msg : Message]
    BY <1>3, <2>2 DEF StartReencryption
  <2>4. QED
    BY <1>3, <2>1, <2>3 DEF StartReencryption
<1>4. ASSUME NEW r \in Realms, NEW by \in Users, NEW rev \in Revisions,
             FinishReencryption(r, by, rev)
      PROVE  RealmTypeOK'
  <2>1. [rev |-> rev, maintenance |-> FALSE, by |-> NoUser] \in Status
    BY DEF Status
  <2>2. QED
    BY <1>4, <2>1 DEF FinishReencryption
<1>5. ASSUME NEW s \in sending, PostMessage(s)
      PROVE  RealmTypeOK'
  BY <1>5 DEF PostMessage
<1>6. ASSUME NEW by \in Users, NEW u \in Users, RevokeUser(by, u)
      PROVE  RealmTypeOK'
  BY <1>6 DEF RevokeUser
<1>7. ASSUME NEW u \in Users, Kick(u)
      PROVE  RealmTypeOK'
  BY <1>7 DEF Kick
<1>8. CASE UNCHANGED realmVars
  BY <1>8 DEF realmVars
<1> HIDE DEF RealmTypeOK
<1>9. QED
  BY <1>1, <1>2, <1>3, <1>4, <1>5, <1>6, <1>7, <1>8 DEF RealmNext, Sharing

\* RealmTypeOK is an invariant of the realm component.
THEOREM RealmTypeCorrect == RealmSpec => []RealmTypeOK
<1>1. RealmInit => RealmTypeOK
  BY BoundAssumption DEF RealmInit, RealmTypeOK, Status, Revisions
<1>2. QED
  BY <1>1, RealmTypeStep, PTL DEF RealmSpec

-----------------------------------------------------------------------------

\* A single certificate gives its role.
LEMMA RoleOfSingleCertificate ==
  ASSUME NEW g \in Grant
  PROVE  RoleIn(<<g>>) = g.role
<1>1. DOMAIN <<g>> = {1}
  OBVIOUS
<1>2. \A j \in {1} : <<g>>[j].on < <<g>>[1].on \/ (<<g>>[j].on = <<g>>[1].on /\ j <= 1)
  OBVIOUS
<1>3. LastIndex(<<g>>) = 1
  BY <1>1, <1>2 DEF LastIndex
<1>4. QED
  BY <1>3 DEF RoleIn

\* RealmHasOwner is inductive: only an owner can take the role of an owner away,
\* and never their own, so the owner who signs the certificate remains.
THEOREM RealmAlwaysHasOwner == RealmSpec => []RealmHasOwner
<1>1. RealmInit => RealmHasOwner
  BY DEF RealmInit, RealmHasOwner, Exists
<1>2. ASSUME RealmTypeOK, RealmHasOwner, [RealmNext]_realmVars
      PROVE  RealmHasOwner'
  <2>1. ASSUME NEW r \in Realms, NEW by \in Users, NEW on \in Times, RealmCreate(r, by, on)
        PROVE  RealmHasOwner'
    <3> DEFINE g == [role |-> "OWNER", on |-> on]
    <3>1. g \in Grant
      BY DEF Grant, Role
    <3>2. grants'[r][by] = <<g>>
      BY <1>2, <2>1 DEF RealmCreate, RealmTypeOK
    <3>3. RoleOf(r, by)' = "OWNER"
      BY <3>1, <3>2, RoleOfSingleCertificate DEF RoleOf
    <3>4. \A q \in Realms \ {r} : grants'[q] = grants[q]
      BY <1>2, <2>1 DEF RealmCreate, RealmTypeOK
    <3>5. QED
      BY <1>2, <3>3, <3>4 DEF RealmHasOwner, Exists, RoleOf
  <2>2. ASSUME NEW r \in Realms, NEW by \in Users, NEW u \in Users,
               NEW role \in Role \cup {NoRole}, NEW on \in Times, NEW rev \in Revisions,
               Share(r, by, u, role, on, rev)
        PROVE  RealmHasOwner'
    <3>0. PICK bodies \in {{}, {SharingBody(r, by, role, rev)}} :
            UpdateRoles(r, by, u, role, on, bodies)
      BY <2>2 DEF Share
    <3>1. \A q \in Realms \ {r} : grants'[q] = grants[q]
      BY <1>2, <3>0 DEF UpdateRoles, RealmTypeOK
    <3>2. \A w \in Users \ {u} : grants'[r][w] = grants[r][w]
      BY <1>2, <3>0 DEF UpdateRoles, RealmTypeOK
    <3>3. PICK w \in Users : RoleOf(r, w) = "OWNER"
      BY <1>2, <3>0 DEF RealmHasOwner, UpdateRoles, OpenForRoles
    <3>4. CASE w # u
      BY <1>2, <3>1, <3>2, <3>3, <3>4 DEF RealmHasOwner, Exists, RoleOf
    <3>5. CASE w = u
      <4>1. RoleOf(r, by) = "OWNER" /\ by # u
        BY <3>0, <3>3, <3>5 DEF UpdateRoles, NeededRoles
      <4>2. QED
        BY <1>2, <3>1, <3>2, <4>1 DEF RealmHasOwner, Exists, RoleOf
    <3>6. QED
      BY <3>4, <3>5
  <2>3. ASSUME UNCHANGED grants
        PROVE  RealmHasOwner'
    BY <1>2, <2>3 DEF RealmHasOwner, Exists, RoleOf
  <2>4. QED
    BY <1>2, <2>1, <2>2, <2>3
    DEF RealmNext, Sharing, realmVars, StartReencryption, FinishReencryption, PostMessage,
        RevokeUser, Kick
<1>3. QED
  BY <1>1, <1>2, RealmTypeCorrect, PTL DEF RealmSpec

-----------------------------------------------------------------------------

\* The message with the new key that the handler which started the maintenance
\* of r sends to u.
KeyMessage(r, u) ==
  [to |-> u, msg |-> [realm |-> r, by |-> status[r].by, rev |-> status[r].rev]]

\* The user u has received the key of revision rev of realm r.
Received(u, r, rev) ==
  \E i \in DOMAIN inbox[u] : inbox[u][i].realm = r /\ inbox[u][i].rev = rev

\* The inductive form of NewKeyReachesMembers: a realm in maintenance exists, so
\* that creating it cannot add a member, and a member without the key is served by
\* a message of the starter itself, which the cancellation of another handler
\* leaves alone.
KeyInv ==
  \A r \in Realms : status[r].maintenance =>
    /\ Exists(r)
    /\ status[r].by \in connected =>
         \A u \in Participants(r) :
           Received(u, r, status[r].rev) \/ KeyMessage(r, u) \in sending

\* What was received stays received: inboxes only grow.
LEMMA ReceivedStays ==
  ASSUME RealmTypeOK, NEW u \in Users, NEW r \in Realms, NEW rev, Received(u, r, rev),
         \/ UNCHANGED inbox
         \/ \E s \in sending : inbox' = [inbox EXCEPT ![s.to] = Append(@, s.msg)]
  PROVE  Received(u, r, rev)'
<1>1. CASE UNCHANGED inbox
  BY <1>1 DEF Received
<1>2. ASSUME NEW s \in sending, inbox' = [inbox EXCEPT ![s.to] = Append(@, s.msg)]
      PROVE  Received(u, r, rev)'
  <2>1. s.to \in Users /\ s.msg \in Message /\ inbox[u] \in Seq(Message)
    BY DEF RealmTypeOK
  <2>2. PICK i \in DOMAIN inbox[u] : inbox[u][i].realm = r /\ inbox[u][i].rev = rev
    BY DEF Received
  <2>3. i \in DOMAIN inbox'[u] /\ inbox'[u][i] = inbox[u][i]
    BY <1>2, <2>1, <2>2 DEF RealmTypeOK
  <2>4. QED
    BY <2>2, <2>3 DEF Received
<1>3. QED
  BY <1>1, <1>2

\* KeyInv is preserved by every operation.
LEMMA KeyInvStep ==
  ASSUME RealmTypeOK, KeyInv, [RealmNext]_realmVars
  PROVE  KeyInv'
<1>1. ASSUME NEW r \in Realms, NEW by \in Users, NEW on \in Times, RealmCreate(r, by, on)
      PROVE  KeyInv'
  <2>1. ~status[r].maintenance
    BY <1>1 DEF KeyInv, RealmCreate
  <2>2. \A q \in Realms \ {r} : grants'[q] = grants[q]
    BY <1>1 DEF RealmCreate, RealmTypeOK
  <2>3. UNCHANGED <<status, revoked, connected, sending, inbox>>
    BY <1>1 DEF RealmCreate
  <2>4. QED
    BY <2>1, <2>2, <2>3
    DEF KeyInv, Exists, Participants, Members, RoleOf, Received, KeyMessage
<1>2. ASSUME NEW r \in Realms, NEW by \in Users, NEW u \in Users,
             NEW role \in Role \cup {NoRole}, NEW on \in Times, NEW rev \in Revisions,
             Share(r, by, u, role, on, rev)
      PROVE  KeyInv'
  <2>0. PICK bodies \in {{}, {SharingBody(r, by, role, rev)}} :
          UpdateRoles(r, by, u, role, on, bodies)
    BY <1>2 DEF Share
  <2>1. ~status[r].maintenance
    BY <2>0 DEF UpdateRoles, OpenForRoles
  <2>2. \A q \in Realms \ {r} : grants'[q] = grants[q]
    BY <2>0 DEF UpdateRoles, RealmTypeOK
  <2>3. UNCHANGED <<status, revoked, connected, inbox>> /\ sending \subseteq sending'
    BY <2>0 DEF UpdateRoles
  <2>4. QED
    BY <2>1, <2>2, <2>3
    DEF KeyInv, Exists, Participants, Members, RoleOf, Received, KeyMessage
<1>3. ASSUME NEW r \in Realms, NEW by \in Users, NEW rev \in Revisions,
             NEW ps \in SUBSET Users, StartReencryption(r, by, rev, ps)
      PROVE  KeyInv'
  <2>1. UNCHANGED <<grants, revoked, connected, inbox>> /\ sending \subseteq sending'
    BY <1>3 DEF StartReencryption
  <2>2. \A q \in Realms \ {r} : status'[q] = status[q]
    BY <1>3 DEF StartReencryption, RealmTypeOK
  <2>3. status'[r] = [rev |-> rev, maintenance |-> TRUE, by |-> by]
    BY <1>3 DEF StartReencryption, RealmTypeOK
  <2>4. Exists(r)'
    BY <1>3, <2>1 DEF StartReencryption, RoleOf, RoleIn, Exists, NoRole
  <2>5. Participants(r)' = ps
    BY <1>3, <2>1 DEF StartReencryption, Participants, Members, RoleOf
  <2>6. \A u \in ps : KeyMessage(r, u)' \in sending'
    BY <1>3, <2>3 DEF StartReencryption, KeyMessage
  <2>7. ASSUME NEW q \in Realms \ {r}, status'[q].maintenance
        PROVE  /\ Exists(q)'
               /\ status'[q].by \in connected' =>
                    \A u \in Participants(q)' :
                      Received(u, q, status[q].rev)' \/ KeyMessage(q, u)' \in sending'
    BY <2>1, <2>2, <2>7
    DEF KeyInv, Exists, Participants, Members, RoleOf, Received, KeyMessage
  <2>8. QED
    BY <2>2, <2>4, <2>5, <2>6, <2>7 DEF KeyInv
<1>4. ASSUME NEW r \in Realms, NEW by \in Users, NEW rev \in Revisions,
             FinishReencryption(r, by, rev)
      PROVE  KeyInv'
  <2>1. ~status'[r].maintenance /\ \A q \in Realms \ {r} : status'[q] = status[q]
    BY <1>4 DEF FinishReencryption, RealmTypeOK
  <2>2. UNCHANGED <<grants, revoked, connected, sending, inbox>>
    BY <1>4 DEF FinishReencryption
  <2>3. QED
    BY <2>1, <2>2 DEF KeyInv, Exists, Participants, Members, RoleOf, Received, KeyMessage
<1>5. ASSUME NEW s \in sending, PostMessage(s)
      PROVE  KeyInv'
  <2>1. UNCHANGED <<grants, status, revoked, connected>>
    BY <1>5 DEF PostMessage
  <2>2. sending' = sending \ {s} /\ inbox' = [inbox EXCEPT ![s.to] = Append(@, s.msg)]
    BY <1>5 DEF PostMessage
  <2>3. s.to \in Users /\ s.msg \in Message /\ inbox[s.to] \in Seq(Message)
    BY DEF RealmTypeOK
  <2>4. inbox'[s.to] = Append(inbox[s.to], s.msg)
    BY <2>2, <2>3 DEF RealmTypeOK
  <2>5. /\ Len(inbox[s.to]) + 1 \in DOMAIN inbox'[s.to]
        /\ inbox'[s.to][Len(inbox[s.to]) + 1] = s.msg
    BY <2>3, <2>4
  <2>6. Received(s.to, s.msg.realm, s.msg.rev)'
    BY <2>5 DEF Received
  <2>7. ASSUME NEW r \in Realms, NEW u \in Users,
               Received(u, r, status[r].rev) \/ KeyMessage(r, u) \in sending
        PROVE  Received(u, r, status[r].rev)' \/ KeyMessage(r, u)' \in sending'
    <3>1. CASE Received(u, r, status[r].rev)
      BY <2>1, <2>2, <3>1, ReceivedStays
    <3>2. CASE KeyMessage(r, u) = s
      BY <2>1, <2>6, <3>2 DEF KeyMessage
    <3>3. CASE KeyMessage(r, u) \in sending /\ KeyMessage(r, u) # s
      BY <2>1, <2>2, <3>3 DEF KeyMessage
    <3>4. QED
      BY <2>7, <3>1, <3>2, <3>3
  <2>8. \A r \in Realms : Exists(r)' = Exists(r) /\ Participants(r)' = Participants(r)
    BY <2>1 DEF Exists, Participants, Members, RoleOf
  <2>9. \A r \in Realms : Participants(r) \subseteq Users
    BY DEF Participants, Members
  <2>10. QED
    BY <2>1, <2>7, <2>8, <2>9 DEF KeyInv
<1>6. ASSUME NEW by \in Users, NEW u \in Users, RevokeUser(by, u)
      PROVE  KeyInv'
  BY <1>6 DEF RevokeUser, KeyInv, Exists, Participants, Members, RoleOf, Received, KeyMessage
<1>7. ASSUME NEW w \in Users, Kick(w)
      PROVE  KeyInv'
  <2>1. UNCHANGED <<grants, status, revoked, inbox>> /\ connected' = connected \ {w}
    BY <1>7 DEF Kick
  <2>2. ASSUME NEW r \in Realms, NEW u \in Users, status[r].by # w,
               KeyMessage(r, u) \in sending
        PROVE  KeyMessage(r, u)' \in sending'
    BY <1>7, <2>1, <2>2 DEF Kick, KeyMessage
  <2>3. \A r \in Realms : Exists(r)' = Exists(r) /\ Participants(r)' = Participants(r)
    BY <2>1 DEF Exists, Participants, Members, RoleOf
  <2>4. \A r \in Realms : Participants(r) \subseteq Users
    BY DEF Participants, Members
  <2>5. \A u \in Users, r \in Realms : Received(u, r, status[r].rev)' = Received(u, r, status[r].rev)
    BY <2>1 DEF Received
  <2>6. QED
    BY <2>1, <2>2, <2>3, <2>4, <2>5 DEF KeyInv
<1>8. CASE UNCHANGED realmVars
  BY <1>8 DEF realmVars, KeyInv, Exists, Participants, Members, RoleOf, Received, KeyMessage
<1>9. QED
  BY <1>1, <1>2, <1>3, <1>4, <1>5, <1>6, <1>7, <1>8 DEF RealmNext, Sharing

\* NewKeyReachesMembers holds in every state: the participants check, the refusal
\* to change roles during a maintenance and the cancellation of handlers of revoked
\* users only together make it true.
THEOREM NewKeyAlwaysReachesMembers == RealmSpec => []NewKeyReachesMembers
<1>1. RealmInit => KeyInv
  BY DEF RealmInit, KeyInv
<1>2. RealmTypeOK /\ KeyInv => NewKeyReachesMembers
  <2> SUFFICES ASSUME RealmTypeOK, KeyInv, NEW r \in Realms, status[r].maintenance,
                      status[r].by \in connected, NEW u \in Participants(r)
               PROVE  Told(u, r, status[r].rev)
    BY DEF NewKeyReachesMembers
  <2>1. CASE Received(u, r, status[r].rev)
    BY <2>1 DEF Received, Told
  <2>2. CASE KeyMessage(r, u) \in sending
    BY <2>2 DEF KeyMessage, Told
  <2>3. QED
    BY <2>1, <2>2 DEF KeyInv
<1>3. QED
  BY <1>1, <1>2, KeyInvStep, RealmTypeCorrect, PTL DEF RealmSpec

-----------------------------------------------------------------------------

\* A nonempty set of naturals has a least element.
LEMMA LeastNatural ==
  ASSUME NEW S \in SUBSET Nat, S # {}
  PROVE  \E m \in S : \A n \in S : m <= n
<1> DEFINE R == OpToRel(<, Nat)
<1>1. PICK m \in S : \A n \in S : ~ (<<n, m>> \in R)
  <2> HIDE DEF R
  <2>1. IsWellFoundedOn(R, Nat)
    BY NatLessThanWellFounded DEF R
  <2> QED BY <2>1, WFMin
<1>2. \A n \in S : <<n, m>> \in R <=> n < m
  BY DEF OpToRel
<1>3. \A n \in S : ~ (n < m)
  BY <1>1, <1>2
<1>4. QED
  BY <1>3

\* Among the certificates of a user there is a last one.
LEMMA LastIndexIn ==
  ASSUME NEW certs \in Seq(Grant), certs # <<>>
  PROVE  LastIndex(certs) \in DOMAIN certs
<1> USE BoundAssumption
<1>1. DOMAIN certs = 1 .. Len(certs) /\ Len(certs) \in Nat \ {0}
  OBVIOUS
<1>2. \A i \in DOMAIN certs : certs[i].on \in Nat /\ certs[i].on <= MaxTime
  <2>1. \A i \in DOMAIN certs : certs[i] \in Grant
    OBVIOUS
  <2> QED BY <2>1 DEF Grant, Times
<1> DEFINE Ages == {MaxTime - certs[i].on : i \in DOMAIN certs}
<1>3. Ages \in SUBSET Nat /\ Ages # {}
  BY <1>1, <1>2
<1>4. PICK a \in Ages : \A b \in Ages : a <= b
  <2> HIDE DEF Ages
  <2> QED BY <1>3, LeastNatural
<1>5. PICK k \in DOMAIN certs : a = MaxTime - certs[k].on
  BY <1>4
<1>6. \A j \in DOMAIN certs : certs[j].on <= certs[k].on
  <2> SUFFICES ASSUME NEW j \in DOMAIN certs PROVE certs[j].on <= certs[k].on
    OBVIOUS
  <2>1. a <= MaxTime - certs[j].on
    BY <1>4
  <2> QED BY <2>1, <1>2, <1>5
<1> DEFINE Gaps == {Len(certs) - i : i \in {i \in DOMAIN certs : certs[i].on = certs[k].on}}
<1>7. Gaps \in SUBSET Nat /\ Gaps # {}
  BY <1>1
<1>8. PICK g \in Gaps : \A h \in Gaps : g <= h
  <2> HIDE DEF Gaps
  <2> QED BY <1>7, LeastNatural
<1>9. PICK i \in DOMAIN certs : certs[i].on = certs[k].on /\ g = Len(certs) - i
  BY <1>8
<1>10. \A j \in DOMAIN certs : certs[j].on = certs[k].on => j <= i
  <2> SUFFICES ASSUME NEW j \in DOMAIN certs, certs[j].on = certs[k].on PROVE j <= i
    OBVIOUS
  <2>1. g <= Len(certs) - j
    BY <1>8
  <2> QED BY <2>1, <1>9, <1>1
<1>11. \A j \in DOMAIN certs : certs[j].on < certs[i].on \/ (certs[j].on = certs[i].on /\ j <= i)
  BY <1>2, <1>6, <1>9, <1>10
<1> QED
  BY <1>11 DEF LastIndex

\* The inductive form of NoOutsiderInCharge: no certificate of an outsider, whatever its
\* timestamp, gives a role that manages.  The roles alone would not do, as a certificate
\* with a later timestamp may hide one that was received before it.
OutsiderInv ==
  \A r \in Realms, u \in Outsiders : \A i \in DOMAIN grants[r][u] :
    grants[r][u][i].role \notin {"OWNER", "MANAGER"}

\* OutsiderInv is preserved by every operation: the two that add a certificate refuse it.
LEMMA OutsiderStep ==
  ASSUME RealmTypeOK, OutsiderInv, [RealmNext]_realmVars
  PROVE  OutsiderInv'
<1> USE ProfileAssumption
<1>1. ASSUME NEW r \in Realms, NEW by \in Users, NEW on \in Times, RealmCreate(r, by, on)
      PROVE  OutsiderInv'
  <2>1. \A q \in Realms, u \in Users : u # by => grants'[q][u] = grants[q][u]
    BY <1>1 DEF RealmCreate, RealmTypeOK
  <2>2. by \notin Outsiders
    BY <1>1 DEF RealmCreate, MayCreate
  <2>3. QED
    BY <2>1, <2>2 DEF OutsiderInv
<1>2. ASSUME NEW r \in Realms, NEW by \in Users, NEW u \in Users,
             NEW role \in Role \cup {NoRole}, NEW on \in Times, NEW rev \in Revisions,
             Share(r, by, u, role, on, rev)
      PROVE  OutsiderInv'
  <2>0. PICK bodies \in {{}, {SharingBody(r, by, role, rev)}} :
          UpdateRoles(r, by, u, role, on, bodies)
    BY <1>2 DEF Share
  <2>1. \A q \in Realms, w \in Users : q # r \/ w # u => grants'[q][w] = grants[q][w]
    BY <2>0 DEF UpdateRoles, RealmTypeOK
  <2>2. grants'[r][u] = Append(grants[r][u], [role |-> role, on |-> on])
    BY <2>0 DEF UpdateRoles, RealmTypeOK
  <2>3. grants[r][u] \in Seq(Grant)
    BY DEF RealmTypeOK
  <2>4. ASSUME u \in Outsiders, NEW i \in DOMAIN grants'[r][u]
        PROVE  grants'[r][u][i].role \notin {"OWNER", "MANAGER"}
    <3>1. role \notin {"OWNER", "MANAGER"}
      BY <2>0, <2>4 DEF UpdateRoles
    <3>2. CASE i \in DOMAIN grants[r][u]
      BY <2>2, <2>3, <2>4, <3>2 DEF OutsiderInv
    <3>3. CASE i = Len(grants[r][u]) + 1
      BY <2>2, <2>3, <3>1, <3>3
    <3>4. QED
      BY <2>2, <2>3, <2>4, <3>2, <3>3
  <2>5. QED
    BY <2>1, <2>4 DEF OutsiderInv
<1>3. ASSUME UNCHANGED grants
      PROVE  OutsiderInv'
  BY <1>3 DEF OutsiderInv
<1>4. QED
  BY <1>1, <1>2, <1>3
  DEF RealmNext, Sharing, realmVars, StartReencryption, FinishReencryption, PostMessage,
      RevokeUser, Kick

\* A user with the OUTSIDER profile never manages or owns a realm, in whatever order the
\* certificates arrive.
THEOREM OutsiderNeverInCharge == RealmSpec => []NoOutsiderInCharge
<1>1. RealmInit => OutsiderInv
  BY ProfileAssumption DEF RealmInit, OutsiderInv
<1>2. RealmTypeOK /\ OutsiderInv => NoOutsiderInCharge
  <2> SUFFICES ASSUME RealmTypeOK, OutsiderInv, NEW r \in Realms, NEW u \in Outsiders,
                      grants[r][u] # <<>>
               PROVE  RoleOf(r, u) \notin {"OWNER", "MANAGER"}
    BY DEF NoOutsiderInCharge, RoleOf, RoleIn, NoRole
  <2>1. grants[r][u] \in Seq(Grant)
    BY ProfileAssumption DEF RealmTypeOK
  <2>2. QED
    BY <2>1, LastIndexIn DEF OutsiderInv, RoleOf, RoleIn
<1>3. QED
  BY <1>1, <1>2, OutsiderStep, RealmTypeCorrect, PTL DEF RealmSpec
=============================================================================

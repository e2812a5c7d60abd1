---------------------------- MODULE Organization ----------------------------
(***************************************************************************)
(* One organization of the server: its creation and bootstrap, its users   *)
(* and devices with their certificates, revocation, and the sessions that  *)
(* clients open by a handshake.                                            *)
(*                                                                         *)
(* The two implementations differ in what is atomic.  In memory a handler  *)
(* runs until its next await; only bootstrap has one between its checks    *)
(* and its last assignment.  With PostgreSQL the creation of a user is a   *)
(* transaction at the level READ COMMITTED: each statement sees what was   *)
(* committed before it, and an INSERT waits for the end of another open    *)
(* transaction that inserted the same unique key.                          *)
(*                                                                         *)
(* A certificate is what it certifies, with its author (a device or a root *)
(* key) and its timestamp; signatures are taken as unforgeable.  A root    *)
(* key is named by the user that bootstraps with it.                       *)
(***************************************************************************)
EXTENDS Naturals, FiniteSets

CONSTANTS
  UserIds,        \* the users that may exist
  Humans,         \* the human handles
  Conns,          \* the connections to the server
  Setups,         \* the implementations considered, each with its bounds
  Spontaneous,    \* config.spontaneous_organization_bootstrap
  ClockSkew            \* timestamps_in_the_ballpark: how far clocks may be apart

ASSUME OrgAssumption ==
  /\ Spontaneous \in BOOLEAN /\ ClockSkew \in Nat /\ "not bootstrapped" \notin UserIds
  /\ \A s \in Setups :
       /\ s.impl \in {"MEMORY", "POSTGRESQL"}
       /\ s.tokens \in Nat /\ s.now \in Nat \ {0} /\ s.devices \in Nat \ {0}

VARIABLES
  setup,     \* the implementation that runs and the bounds (never changes)
  org,       \* the row of the organization
  users,     \* user_id -> User, for the users that exist
  devices,   \* <<user_id, n>> -> Device, for the devices that exist
  conns,     \* the sessions
  work,      \* connection -> the bootstrap or user_create under way
  signals,   \* users whose USER_REVOKED event is not dispatched yet
  late,      \* sessions opened after the revocation of their user was sent
  now        \* the server's clock

MaxTokens == setup.tokens       \* bound: commands of the administration
MaxNow == setup.now             \* bound: the server's clock
MaxDevices == setup.devices     \* bound: devices of all users

orgVars == <<setup, org, users, devices, conns, work, signals, late, now>>

NoDevice == <<>>
NoneYet == [x \in {} |-> x]
NoRoot == "not bootstrapped"
SpontaneousToken == 0

Profiles == {"ADMIN", "STANDARD"}
DeviceIds == UserIds \X (1 .. MaxDevices)
Root(u) == <<u, 0>>
Authors == DeviceIds \cup {Root(u) : u \in UserIds}

UserRecords ==
  [human : Humans, profile : Profiles, author : Authors, created : Nat \ {0},
   revoked : Nat, revoker : DeviceIds \cup {NoDevice}, root : UserIds]
DeviceRecords == [author : Authors, created : Nat]

NewUser(h, p, a, t, r) ==
  [human |-> h, profile |-> p, author |-> a, created |-> t,
   revoked |-> 0, revoker |-> NoDevice, root |-> r]

\* A certificate's timestamp, checked against the server's clock.
OrgInTheBallpark(t) == t + ClockSkew >= now /\ t <= now + ClockSkew
Timestamps == {t \in 1 .. MaxNow + ClockSkew : OrgInTheBallpark(t)}

Idle == [st |-> "none", dev |-> NoDevice]

OrgInit ==
  /\ setup \in Setups
  /\ org = [created |-> FALSE, token |-> SpontaneousToken, issued |-> 0,
            root |-> NoRoot, expired |-> FALSE]
  /\ users = NoneYet
  /\ devices = NoneYet
  /\ conns = [c \in Conns |-> Idle]
  /\ work = NoneYet
  /\ signals = {}
  /\ late = {}
  /\ now = 1

Drop(f, S) == [x \in DOMAIN f \ S |-> f[x]]
WithRow(f, x, row) == [y \in DOMAIN f \cup {x} |-> IF y \in DOMAIN f THEN f[y] ELSE row]

\* Revoked for the checks that read the clock.
IsRevoked(u) == u \in DOMAIN users /\ users[u].revoked # 0 /\ users[u].revoked <= now

-----------------------------------------------------------------------------
(* The administration of the organization.                                  *)

\* organization_create gives a fresh token; an organization that is not
\* bootstrapped yet is overwritten.
CreateOrganization ==
  /\ org.issued < MaxTokens
  /\ org.root = NoRoot
  /\ org' = [org EXCEPT !.created = TRUE, !.issued = @ + 1,
                        !.token = org.issued + 1, !.expired = FALSE]
  /\ UNCHANGED <<setup, users, devices, conns, work, signals, late, now>>

\* organization_update: a date that has passed, or none.
SetExpirationDate ==
  /\ org.issued < MaxTokens
  /\ org.created
  /\ org' = [org EXCEPT !.issued = @ + 1, !.expired = ~ @]
  /\ UNCHANGED <<setup, users, devices, conns, work, signals, late, now>>

-----------------------------------------------------------------------------
(* Handshakes.                                                              *)

\* An anonymous client; the organization may be created on the spot.
AnonymousAnswer(c) ==
  /\ conns[c].st = "none"
  /\ org.created \/ Spontaneous
  /\ ~ org.expired
  /\ org' = [org EXCEPT !.created = TRUE]
  /\ conns' = [conns EXCEPT ![c] = [st |-> "anonymous", dev |-> NoDevice]]
  /\ UNCHANGED <<setup, users, devices, work, signals, late, now>>

\* What a client answers to the challenge, with the root key it was given.
Identity(d, rvk) == [dev |-> d, rvk |-> rvk]

\* The checks of an authenticated handshake, on the rows as they are now, in
\* their order.
HandshakeResult(i) ==
  IF i.dev[1] \notin DOMAIN users \/ i.dev \notin DOMAIN devices THEN "bad_identity"
  ELSE IF org.root # i.rvk THEN "rvk_mismatch"
  ELSE IF org.expired THEN "organization_expired"
  ELSE IF IsRevoked(i.dev[1]) THEN "revoked_device"
  ELSE "ok"

\* The context is built; the result is not sent yet.
AuthenticatedAnswer(c, d) ==
  /\ conns[c].st = "none"
  /\ \E rvk \in UserIds : HandshakeResult(Identity(d, rvk)) = "ok"
  /\ conns' = [conns EXCEPT ![c] = [st |-> "checked", dev |-> d]]
  /\ UNCHANGED <<setup, org, users, devices, work, signals, late, now>>

\* The result is sent, then the session listens for its revocation.
OpenSession(c) ==
  /\ conns[c].st = "checked"
  /\ conns' = [conns EXCEPT ![c].st = "open"]
  /\ late' = IF users[conns[c].dev[1]].revoked # 0 /\ conns[c].dev[1] \notin signals
               THEN late \cup {c} ELSE late
  /\ UNCHANGED <<setup, org, users, devices, work, signals, now>>

\* The client leaves, which the server sees once no command is under way.
CloseSession(c) ==
  /\ conns[c].st # "none" /\ c \notin DOMAIN work
  /\ conns' = [conns EXCEPT ![c] = Idle]
  /\ late' = late \ {c}
  /\ UNCHANGED <<setup, org, users, devices, work, signals, now>>

\* The server stops and starts again on its database: the sessions, the open
\* transactions and the events on their way are gone.
ServerRestart ==
  /\ setup.impl = "POSTGRESQL" /\ \E c \in Conns : conns[c].st # "none"
  /\ conns' = [c \in Conns |-> Idle]
  /\ work' = NoneYet
  /\ signals' = {} /\ late' = {}
  /\ UNCHANGED <<setup, org, users, devices, now>>

-----------------------------------------------------------------------------
(* Creation of users: the rows, and the transactions of PostgreSQL.         *)

HumanIsTaken(h) ==
  \E u \in DOMAIN users : users[u].human = h /\ users[u].revoked = 0

\* memory create_user, up to its event.
CanCreate(u, h) == u \notin DOMAIN users /\ ~ HumanIsTaken(h)

StoreUser(u, rec) ==
  /\ users' = WithRow(users, u, rec)
  /\ devices' = WithRow(devices, <<u, 1>>, [author |-> rec.author, created |-> rec.created])

\* PostgreSQL: the INSERTs of a human and of a user wait for the open
\* transactions that hold the same key; a human is new if no user has it.
HumanRowExists(h) == \E u \in DOMAIN users : users[u].human = h
MayInsert(c, u, h) ==
  \A o \in DOMAIN work \ {c} :
    /\ work[o].user # u
    /\ work[o].rec.human = h => HumanRowExists(h)

\* _q_get_not_revoked_users_for_human, with the row inserted by this transaction.
OnlyUserOfHuman(w) ==
  \A u \in DOMAIN users : users[u].human = w.rec.human => IsRevoked(u)

\* What the command answers to is dropped with the transaction.
RollbackCreation(c) ==
  /\ work' = Drop(work, {c})
  /\ UNCHANGED <<org, users, devices>>

-----------------------------------------------------------------------------
(* organization_bootstrap.                                                  *)

\* The checks on the organization as it is read, then the first user.
BootstrapStart(c, u, h, t, k) ==
  /\ conns[c].st = "anonymous" /\ c \notin DOMAIN work
  /\ k \in Timestamps
  /\ org.root = NoRoot /\ org.token = t
  /\ LET rec == NewUser(h, "ADMIN", Root(u), k, u)
     IN  /\ work' = WithRow(work, c, [kind |-> "bootstrap", st |-> "inserted",
                                     user |-> u, rec |-> rec, org |-> org])
         /\ IF setup.impl = "MEMORY"
              THEN CanCreate(u, h) /\ StoreUser(u, rec)
              ELSE u \notin DOMAIN users /\ MayInsert(c, u, h) /\ UNCHANGED <<users, devices>>
  /\ UNCHANGED <<setup, org, conns, signals, late, now>>

\* memory: the organization read before the event is written with its key.
BootstrapEnd(c) ==
  /\ setup.impl = "MEMORY" /\ c \in DOMAIN work
  /\ org' = [work[c].org EXCEPT !.root = work[c].user, !.issued = org.issued]
  /\ work' = Drop(work, {c})
  /\ UNCHANGED <<setup, users, devices, conns, signals, late, now>>

\* PostgreSQL: UPDATE ... WHERE root_verify_key IS NULL, and commit.
BootstrapCommit(c) ==
  /\ setup.impl = "POSTGRESQL" /\ c \in DOMAIN work
  /\ work[c].kind = "bootstrap" /\ work[c].st = "counted"
  /\ IF org.root = NoRoot /\ org.token = work[c].org.token
       THEN /\ org' = [org EXCEPT !.root = work[c].user]
            /\ StoreUser(work[c].user, work[c].rec)
            /\ work' = Drop(work, {c})
       ELSE RollbackCreation(c)
  /\ UNCHANGED <<setup, conns, signals, late, now>>

-----------------------------------------------------------------------------
(* Commands of authenticated sessions.                                      *)

Author(c) == conns[c].dev
CanCommand(c) == conns[c].st = "open" /\ c \notin DOMAIN work
CanAdminister(c) == CanCommand(c) /\ users[Author(c)[1]].profile = "ADMIN"

\* user_create: in memory at once; with PostgreSQL a transaction starts.
UserCreate(c, u, h, p, k) ==
  /\ CanAdminister(c) /\ k \in Timestamps
  /\ LET rec == NewUser(h, p, Author(c), k, users[Author(c)[1]].root)
     IN  \/ /\ setup.impl = "MEMORY" /\ CanCreate(u, h)
            /\ StoreUser(u, rec)
            /\ UNCHANGED work
         \/ /\ setup.impl = "POSTGRESQL" /\ u \notin DOMAIN users /\ MayInsert(c, u, h)
            /\ work' = WithRow(work, c, [kind |-> "user_create", st |-> "inserted",
                                        user |-> u, rec |-> rec, org |-> org])
            /\ UNCHANGED <<users, devices>>
  /\ UNCHANGED <<setup, org, conns, signals, late, now>>

\* The last check of the transaction, for a user_create and for a bootstrap.
CountUsers(c) ==
  /\ setup.impl = "POSTGRESQL" /\ c \in DOMAIN work /\ work[c].st = "inserted"
  /\ IF OnlyUserOfHuman(work[c])
       THEN work' = [work EXCEPT ![c].st = "counted"] /\ UNCHANGED <<org, users, devices>>
       ELSE RollbackCreation(c)
  /\ UNCHANGED <<setup, conns, signals, late, now>>

CommitUser(c) ==
  /\ setup.impl = "POSTGRESQL" /\ c \in DOMAIN work
  /\ work[c].kind = "user_create" /\ work[c].st = "counted"
  /\ StoreUser(work[c].user, work[c].rec)
  /\ work' = Drop(work, {c})
  /\ UNCHANGED <<setup, org, conns, signals, late, now>>

\* device_create, for a device of the author's own user, with a name of its own.
DeviceCreate(c, k) ==
  /\ CanCommand(c) /\ k \in Timestamps
  /\ Cardinality(DOMAIN devices) < MaxDevices
  /\ LET u == Author(c)[1]
         d == <<u, Cardinality({x \in DOMAIN devices : x[1] = u}) + 1>>
     IN  devices' = WithRow(devices, d, [author |-> Author(c), created |-> k])
  /\ UNCHANGED <<setup, org, users, conns, work, signals, late, now>>

\* The row of a user that is not revoked yet, and its event.
RevokedUser(user, author, k) == [user EXCEPT !.revoked = k, !.revoker = author]

Revoke(u, author, k) ==
  /\ users[u].revoked = 0
  /\ users' = [users EXCEPT ![u] = RevokedUser(@, author, k)]
  /\ signals' = signals \cup {u}

\* user_revoke, of somebody else.
UserRevoke(c, u, k) ==
  /\ CanAdminister(c) /\ k \in Timestamps
  /\ u # Author(c)[1] /\ u \in DOMAIN users
  /\ Revoke(u, Author(c), k)
  /\ UNCHANGED <<setup, org, devices, conns, work, late, now>>

\* Mutant: the event is compared with one device of the user.
ClosedByDevice(u) == {c \in Conns : conns[c].st = "open" /\ conns[c].dev = <<u, 1>>}

\* The event is dispatched: the sessions of the user are cancelled.
ClosedBy(u) == {c \in Conns : conns[c].st = "open" /\ conns[c].dev[1] = u}

UserRevoked(u) ==
  /\ u \in signals
  /\ signals' = signals \ {u}
  /\ conns' = [c \in Conns |-> IF c \in ClosedBy(u) THEN Idle ELSE conns[c]]
  /\ work' = Drop(work, ClosedBy(u))
  /\ late' = late \ ClosedBy(u)
  /\ UNCHANGED <<setup, org, users, devices, now>>

TimePasses ==
  /\ now < MaxNow
  /\ now' = now + 1
  /\ UNCHANGED <<setup, org, users, devices, conns, work, signals, late>>

OrgNext ==
  \/ CreateOrganization \/ SetExpirationDate \/ TimePasses \/ ServerRestart
  \/ \E u \in UserIds : UserRevoked(u)
  \/ \E c \in Conns :
       \/ AnonymousAnswer(c) \/ OpenSession(c) \/ CloseSession(c)
       \/ BootstrapEnd(c) \/ BootstrapCommit(c) \/ CountUsers(c) \/ CommitUser(c)
       \/ \E d \in DeviceIds : AuthenticatedAnswer(c, d)
       \/ \E k \in 1 .. MaxNow + ClockSkew :
            \/ DeviceCreate(c, k)
            \/ \E u \in UserIds : UserRevoke(c, u, k)
            \/ \E u \in UserIds, h \in Humans :
                 \/ \E t \in 0 .. MaxTokens : BootstrapStart(c, u, h, t, k)
                 \/ \E p \in Profiles : UserCreate(c, u, h, p, k)

OrgSpec == OrgInit /\ [][OrgNext]_orgVars

-----------------------------------------------------------------------------
(* Properties.                                                              *)

OrgTypeOK ==
  /\ setup \in Setups
  /\ org \in [created : BOOLEAN, token : 0 .. MaxTokens, issued : 0 .. MaxTokens,
              root : UserIds \cup {NoRoot}, expired : BOOLEAN]
  /\ DOMAIN users \subseteq UserIds /\ \A u \in DOMAIN users : users[u] \in UserRecords
  /\ DOMAIN devices \subseteq DeviceIds
  /\ \A d \in DOMAIN devices : devices[d] \in DeviceRecords /\ d[1] \in DOMAIN users
  /\ \A c \in Conns :
       /\ conns[c].st \in {"none", "anonymous"} <=> conns[c].dev = NoDevice
       /\ conns[c].dev # NoDevice => conns[c].dev \in DOMAIN devices
  /\ signals \subseteq {u \in DOMAIN users : users[u].revoked # 0}
  /\ late \subseteq {c \in Conns : conns[c].st = "open"}
  /\ now \in 1 .. MaxNow

\* Two clients may bootstrap at the same time and the token may be replaced
\* meanwhile: with PostgreSQL the UPDATE that asks for root_verify_key IS NULL
\* lets one of them through, so that every user hangs from the root key that
\* the organization has.
RootIsUnique ==
  setup.impl = "POSTGRESQL" => \A u \in DOMAIN users : users[u].root = org.root

OneUserPerHuman ==
  \A u, v \in DOMAIN users :
    /\ users[u].revoked = 0 /\ users[v].revoked = 0
    /\ users[u].human = users[v].human
    => u = v

\* "Finally make sure there is only one non-revoked user with this human
\* handle" (create.py): kept by the in-memory implementation, where create_user
\* has no await between its checks and its assignments.
HumanIsUnique == setup.impl = "MEMORY" => OneUserPerHuman

\* A session of a revoked user is about to be cancelled by the event, unless
\* the event was dispatched before the session listened for it.
RevokedSessionsEnd ==
  \A c \in Conns :
    conns[c].st = "open" /\ users[conns[c].dev[1]].revoked # 0
      => conns[c].dev[1] \in signals \/ c \in late
=============================================================================

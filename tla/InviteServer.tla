--------------------------- MODULE InviteServer ---------------------------
(***************************************************************************)
(* The invitations of an organization on the server: they are created and  *)
(* deleted by greeters, and claimers connect with their tokens.  Server    *)
(* processes share the database and tell each other by events which        *)
(* claimers are connected; each keeps a list of them in memory.  With the  *)
(* memory implementation there is one process and a command is one step;   *)
(* with PostgreSQL invite_new is a transaction that reads and then inserts *)
(* and the events are notifications.  What goes through the conduit of an  *)
(* invitation is in InviteConduit and PgConduit.                           *)
(***************************************************************************)
EXTENDS Naturals, Sequences, FiniteSets

CONSTANTS
  MaxBacklog,       \* bound: events on their way when invite_new is called again
  Backends,         \* server processes
  InviteSessions,   \* sessions of authenticated clients
  Claimers,         \* connections of claimers; each is used once
  InviteSetups      \* deployments: [impl, up, greeterOf, targets, tokens, restarts]

Device == "device"   \* the target of an invitation for a device; other targets are emails

ASSUME InviteSetupsAssumption ==
  IsFiniteSet(InviteSessions) /\ \A s \in InviteSetups :
    /\ s.impl \in {"MEMORY", "POSTGRESQL"}
    /\ s.up \subseteq Backends /\ s.up # {} /\ (s.impl = "MEMORY" => Cardinality(s.up) = 1)
    /\ DOMAIN s.greeterOf \subseteq InviteSessions
    /\ s.tokens \in Nat /\ s.restarts \in Nat

VARIABLES
  deployment,     \* the setup (never changes); tokens and restarts are bounds
  invitations,    \* sequence of [greeter, target, deleted]; a token is an index
  members,        \* emails of users that are not revoked
  pending,        \* pending[s]: what the invite_new transaction of session s found
  upBackends,     \* running processes
  claimersReady,  \* _claimers_ready of each process
  wire,           \* wire[b]: events on their way to the bus of process b
  claimer,        \* the connections of claimers
  excuses,        \* <<b, t>>: b may be wrong about t, for a reason the code accepts
  restarts

inviteServerVars == <<deployment, invitations, members, pending, upBackends, claimersReady,
                      wire, claimer, excuses, restarts>>

Tokens == DOMAIN invitations
Open(t) == ~invitations[t].deleted
Nothing == [pc |-> "none"]
Away == [pc |-> "away", at |-> "", token |-> 0, late |-> FALSE]

\* Claimers that told the others they joined and not yet that they left.
Joined(t) == {c \in Claimers : claimer[c].token = t
                               /\ claimer[c].pc \in {"joining", "listening", "leaving"}}

InviteServerInit ==
  /\ deployment \in InviteSetups
  /\ invitations = <<>>
  /\ members = {}
  /\ pending = [s \in DOMAIN deployment.greeterOf |-> Nothing]
  /\ upBackends = deployment.up
  /\ claimersReady = [b \in Backends |-> {}]
  /\ wire = [b \in Backends |-> <<>>]
  /\ claimer = [c \in Claimers |-> Away]
  /\ excuses = {}
  /\ restarts = 0

-----------------------------------------------------------------------------
(* Events *)

\* INVITE_STATUS_CHANGED goes to the bus of every running process, in the order of the
\* commits.
SendStatus(b, t, status) ==
  wire' = [x \in Backends |-> IF x \in upBackends
                                THEN Append(wire[x], [token |-> t, status |-> status])
                                ELSE wire[x]]

\* Mutant: only the deletion takes a claimer off the list.
OnStatusChangedKeepsIdle(ready, e) ==
  CASE e.status = "READY" -> ready \cup {e.token}
    [] e.status = "DELETED" -> ready \ {e.token}
    [] OTHER -> ready

\* _on_status_changed of the component.
OnStatusChanged(ready, e) ==
  IF e.status = "READY" THEN ready \cup {e.token} ELSE ready \ {e.token}

\* _on_invite_status_changed of a connection closes it when its invitation is deleted.
DropsClaimer(c, b, e) ==
  e.status = "DELETED" /\ claimer[c].at = b /\ claimer[c].token = e.token

\* The bus of process b handles the next event.
Dispatch(b) ==
  LET e == Head(wire[b]) IN
  /\ b \in upBackends /\ wire[b] # <<>>
  /\ wire' = [wire EXCEPT ![b] = Tail(@)]
  /\ claimersReady' = [claimersReady EXCEPT ![b] = OnStatusChanged(@, e)]
  /\ claimer' = [c \in Claimers |->
       CASE DropsClaimer(c, b, e) /\ claimer[c].pc = "listening" ->
              [claimer[c] EXCEPT !.pc = "leaving"]
         [] DropsClaimer(c, b, e) /\ claimer[c].pc \in {"accepted", "joining"} ->
              [claimer[c] EXCEPT !.late = TRUE]
         [] OTHER -> claimer[c]]
  /\ UNCHANGED <<deployment, invitations, members, pending, upBackends, excuses, restarts>>

-----------------------------------------------------------------------------
(* Commands of greeters *)

\* The invitations that already serve what is asked.
Compatible(g, target) ==
  {t \in Tokens : invitations[t] = [greeter |-> g, target |-> target, deleted |-> FALSE]}

\* The rows after invite_new: one more when no compatible one was found.
InsertInvitation(g, target, found) ==
  IF found = {} THEN Append(invitations, [greeter |-> g, target |-> target, deleted |-> FALSE])
                ELSE invitations

\* The token invite_new answers; LIMIT 1 without an order picks any.
Answers(t, found) == IF found = {} THEN t = Len(invitations) + 1 ELSE t \in found

\* invite_new on the memory implementation: one step; no event for an invitation that
\* is already there.
MemoryNew(s, target, b) ==
  LET g == deployment.greeterOf[s]
      found == Compatible(g, target)
  IN  /\ deployment.impl = "MEMORY" /\ b \in upBackends
      /\ target \notin members
      /\ found # {} \/ Len(invitations) < deployment.tokens
      /\ invitations' = InsertInvitation(g, target, found)
      /\ IF found = {} THEN SendStatus(b, Len(invitations) + 1, "IDLE") ELSE UNCHANGED wire
      /\ UNCHANGED <<deployment, members, pending, upBackends, claimersReady, claimer,
                     excuses, restarts>>

\* invite_new with PostgreSQL reads the active users and the compatible invitations.
PGNewBegin(s, target, b) ==
  /\ deployment.impl = "POSTGRESQL" /\ b \in upBackends /\ pending[s] = Nothing
  /\ target \notin members /\ \A x \in Backends : Len(wire[x]) < MaxBacklog
  /\ pending' = [pending EXCEPT ![s] =
       [pc |-> "found", target |-> target, at |-> b,
        found |-> Compatible(deployment.greeterOf[s], target)]]
  /\ UNCHANGED <<deployment, invitations, members, upBackends, claimersReady, wire, claimer,
                 excuses, restarts>>

\* It inserts a row if it found none and commits; IDLE is sent in any case, also for
\* an invitation whose claimer is connected.
PGNewCommit(s) ==
  LET p == pending[s]
      g == deployment.greeterOf[s]
  IN  /\ p.pc = "found"
      /\ p.found # {} \/ Len(invitations) < deployment.tokens
      /\ invitations' = InsertInvitation(g, p.target, p.found)
      /\ \E t \in 1 .. Len(invitations) + 1 :
           /\ Answers(t, p.found)
           /\ SendStatus(p.at, t, "IDLE")
           /\ excuses' = excuses \cup
                {<<b, t>> : b \in IF t \in Tokens /\ Joined(t) # {} THEN upBackends ELSE {}}
      /\ pending' = [pending EXCEPT ![s] = Nothing]
      /\ UNCHANGED <<deployment, members, upBackends, claimersReady, claimer, restarts>>

\* _do_delete_invitation finds the row by greeter and token, locks it, and refuses a
\* deleted one.
MayDelete(g, t) == invitations[t].greeter = g /\ Open(t)

\* invite_delete.
DeleteInvitation(s, t, b) ==
  /\ b \in upBackends /\ pending[s] = Nothing
  /\ MayDelete(deployment.greeterOf[s], t)
  /\ invitations' = [invitations EXCEPT ![t].deleted = TRUE]
  /\ SendStatus(b, t, "DELETED")
  /\ UNCHANGED <<deployment, members, pending, upBackends, claimersReady, claimer, excuses,
                 restarts>>

\* The rows invite_list reads.
Listable(g) == {t \in Tokens : invitations[t].greeter = g /\ Open(t)}

\* The status process b gives to a row.
StatusOf(b, t) == IF t \in claimersReady[b] THEN "READY" ELSE "IDLE"

\* invite_list of a process: the open invitations of a greeter with their status.
ListInvitations(b, g) == [t \in Listable(g) |-> StatusOf(b, t)]

\* A user with this email is created, or the last one is revoked.
MembersChange(target) ==
  /\ target # Device
  /\ target \in members \/ \E t \in Tokens : invitations[t].target = target
  /\ members' = IF target \in members THEN members \ {target} ELSE members \cup {target}
  /\ UNCHANGED <<deployment, invitations, pending, upBackends, claimersReady, wire, claimer,
                 excuses, restarts>>

-----------------------------------------------------------------------------
(* Connections of claimers *)

\* info() refuses a deleted invitation.
InfoAccepts(t) == Open(t)

\* The handshake of a claimer reads the invitation.
Handshake(c, t, b) ==
  /\ claimer[c] = Away /\ b \in upBackends /\ InfoAccepts(t)
  /\ claimer' = [claimer EXCEPT ![c] = [pc |-> "accepted", at |-> b, token |-> t, late |-> FALSE]]
  /\ UNCHANGED <<deployment, invitations, members, pending, upBackends, claimersReady, wire,
                 excuses, restarts>>

\* claimer_joined: the event is sent before the connection listens to events itself.
ClaimerJoined(c) ==
  LET t == claimer[c].token IN
  /\ claimer[c].pc = "accepted"
  /\ claimer' = [claimer EXCEPT ![c].pc = "joining"]
  /\ SendStatus(claimer[c].at, t, "READY")
  /\ excuses' = {x \in excuses : x[2] # t \/ x[1] \notin upBackends}
  /\ UNCHANGED <<deployment, invitations, members, pending, upBackends, claimersReady, restarts>>

\* The connection listens to INVITE_STATUS_CHANGED and serves commands.
ServeClaimer(c) ==
  /\ claimer[c].pc = "joining"
  /\ claimer' = [claimer EXCEPT ![c].pc = "listening"]
  /\ UNCHANGED <<deployment, invitations, members, pending, upBackends, claimersReady, wire,
                 excuses, restarts>>

\* The claimer closes its connection.
ClaimerLeaves(c) ==
  /\ claimer[c].pc \in {"accepted", "listening"}
  /\ claimer' = [claimer EXCEPT ![c].pc = IF @ = "accepted" THEN "gone" ELSE "leaving"]
  /\ UNCHANGED <<deployment, invitations, members, pending, upBackends, claimersReady, wire,
                 excuses, restarts>>

\* claimer_left, shielded from cancellation.
ClaimerLeft(c) ==
  LET t == claimer[c].token IN
  /\ claimer[c].pc = "leaving"
  /\ claimer' = [claimer EXCEPT ![c].pc = "gone"]
  /\ SendStatus(claimer[c].at, t, "IDLE")
  /\ excuses' = IF Joined(t) = {c} THEN {x \in excuses : x[2] # t \/ x[1] \notin upBackends}
                                   ELSE excuses \cup {<<b, t>> : b \in upBackends}
  /\ UNCHANGED <<deployment, invitations, members, pending, upBackends, claimersReady, restarts>>

\* The connections of a process end with it, without claimer_left.
LostConnections(b) ==
  [c \in Claimers |-> IF claimer[c].at = b THEN [claimer[c] EXCEPT !.pc = "gone"] ELSE claimer[c]]

\* A process stops at once: its connections are lost and nobody is told.
Crash(b) ==
  /\ b \in upBackends /\ restarts < deployment.restarts
  /\ restarts' = restarts + 1
  /\ upBackends' = upBackends \ {b}
  /\ wire' = [wire EXCEPT ![b] = <<>>]
  /\ claimersReady' = [claimersReady EXCEPT ![b] = {}]
  /\ pending' = [s \in DOMAIN pending |->
       IF pending[s] # Nothing /\ pending[s].at = b THEN Nothing ELSE pending[s]]
  /\ claimer' = LostConnections(b)
  /\ excuses' = excuses \cup
       {<<x, t>> : x \in Backends, t \in {claimer[c].token : c \in {d \in Claimers :
            claimer[d].at = b /\ claimer[d].pc \in {"joining", "listening", "leaving"}}}}
  /\ UNCHANGED <<deployment, invitations, members>>

\* A process starts: no claimer is known to it.
StartBackend(b) ==
  /\ b \notin upBackends /\ deployment.impl = "POSTGRESQL" /\ deployment.restarts > 0
  /\ upBackends' = upBackends \cup {b}
  /\ excuses' = excuses \cup {<<b, t>> : t \in {x \in Tokens : Joined(x) # {}}}
  /\ UNCHANGED <<deployment, invitations, members, pending, claimersReady, wire, claimer, restarts>>

InviteServerNext ==
  \/ \E b \in Backends : Dispatch(b) \/ Crash(b) \/ StartBackend(b)
  \/ \E s \in DOMAIN pending, b \in Backends :
       \/ \E target \in deployment.targets : MemoryNew(s, target, b) \/ PGNewBegin(s, target, b)
       \/ \E t \in Tokens : DeleteInvitation(s, t, b)
  \/ \E s \in DOMAIN pending : PGNewCommit(s)
  \/ \E target \in deployment.targets : MembersChange(target)
  \/ \E c \in Claimers, t \in Tokens, b \in Backends : Handshake(c, t, b)
  \/ \E c \in Claimers : ClaimerJoined(c) \/ ServeClaimer(c) \/ ClaimerLeaves(c) \/ ClaimerLeft(c)

InviteServerSpec == InviteServerInit /\ [][InviteServerNext]_inviteServerVars

-----------------------------------------------------------------------------
(* Properties *)

\* Every variable has its type, and the connections of claimers are to running
\* processes and for invitations that exist.
InviteServerTypeOK ==
  /\ \A t \in Tokens : invitations[t].target \in deployment.targets
                       /\ invitations[t].deleted \in BOOLEAN
  /\ members \subseteq deployment.targets \ {Device}
  /\ upBackends \subseteq Backends
  /\ claimersReady \in [Backends -> SUBSET Tokens]
  /\ \A c \in Claimers : claimer[c].pc \notin {"away", "gone"} =>
       claimer[c].at \in upBackends /\ claimer[c].token \in Tokens
  /\ \A b \in Backends : \A i \in 1 .. Len(wire[b]) : wire[b][i].token \in Tokens

\* Once a process has handled the events sent to it, invite_list shows an invitation as
\* READY exactly when a claimer is connected with it to some process.  Excused are the
\* cases of the comment at invite.py:203 (a process started or crashed, one of several
\* connections closed) until a claimer connects again, and invite_new repeated with
\* PostgreSQL, which tells every process that a connected claimer is idle.
ListShowsClaimers ==
  \A b \in upBackends : wire[b] = <<>> =>
    \A s \in DOMAIN pending :
      LET shown == ListInvitations(b, deployment.greeterOf[s]) IN
        \A t \in DOMAIN shown : <<b, t>> \notin excuses => (shown[t] = "READY" <=> Joined(t) # {})

\* A claimer whose invitation is deleted, by whatever process, is not served any more
\* once its own process handled the event, except when the event came after its
\* handshake and before its connection listened to events (app.py:160-187): it
\* then stays, and only its commands are refused.
DeletedClaimersLeave ==
  \A c \in Claimers :
    /\ claimer[c].pc = "listening" /\ wire[claimer[c].at] = <<>>
    /\ ~Open(claimer[c].token)
    => claimer[c].late

\* A greeter has at most one open invitation for an email or for a device, when it has
\* one session or the implementation is in memory.  Two sessions with PostgreSQL make
\* two: nothing locks what invite_new has read.
OneInvitationPerTarget ==
  \A t, u \in Tokens :
    /\ t # u /\ Open(t) /\ Open(u)
    /\ deployment.impl = "MEMORY"
         \/ Cardinality({s \in DOMAIN pending :
                           deployment.greeterOf[s] = invitations[t].greeter}) = 1
    => \/ invitations[t].greeter # invitations[u].greeter
       \/ invitations[t].target # invitations[u].target
=============================================================================

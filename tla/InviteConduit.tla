--------------------------- MODULE InviteConduit ---------------------------
(***************************************************************************)
(* The enrollment of a user or a device: a claimer and a greeter exchange  *)
(* payloads through the conduit of an invitation, compare SAS codes, and   *)
(* the greeter registers the keys of the claimer.                          *)
(*                                                                         *)
(* A client that is disconnected or refused starts again with a new        *)
(* attempt, with fresh keys and nonces.  The server does not notice that a *)
(* client left while its handler waits on the conduit: handlers of former  *)
(* attempts linger and still take part.                                    *)
(***************************************************************************)
EXTENDS Naturals, FiniteSets

CONSTANTS
  Kind,          \* "USER" or "DEVICE" invitation
  MaxAttempts,   \* bound: attempts of each side
  MaxDrops       \* bound: connections lost

ASSUME KindAssumption == Kind \in {"USER", "DEVICE"}
ASSUME BoundAssumption == MaxAttempts \in Nat /\ MaxDrops \in Nat

VARIABLES
  conduit,   \* the state of the conduit and the payload of each side
  handler,   \* handler[s][a]: the server's handler for attempt a of side s
  client,    \* client[s]: where the present attempt of side s is
  users,     \* the claimer attempts whose keys are registered
  deleted,   \* the invitation is deleted
  drops

vars == <<conduit, handler, client, users, deleted, drops>>

Sides == {"claimer", "greeter"}
Peer(s) == IF s = "claimer" THEN "greeter" ELSE "claimer"
Attempts == 1..MaxAttempts

-----------------------------------------------------------------------------
(* The exchanges *)

\* The legs of an enrollment: 1 public keys, 2 hashed nonce, 3 greeter nonce,
\* 4 claimer nonce, 5 and 6 trust, 7 claim request, 8 confirmation.  The last two
\* both use the conduit state 4_COMMUNICATE, whose next state is itself.
Legs == 1..8
State(leg) == IF leg > 7 THEN 7 ELSE leg

\* NEXT_CONDUIT_STATE.
NextState(state) == IF state = 7 THEN 7 ELSE state + 1

\* Two commands of the API exchange twice: 2a of the claimer and 2b of the greeter.
Continues(s, leg) == <<s, leg>> \in {<<"claimer", 2>>, <<"greeter", 3>>}

\* A payload: the attempt it stems from and, when it is encrypted, the peer attempt
\* whose key it is encrypted for.
Payload(kind, att, for) == [kind |-> kind, att |-> att, for |-> for]
None == Payload("none", 0, 0)
Empty == Payload("empty", 0, 0)

Says(s, leg, att, key) ==
  CASE leg = 1 -> Payload("key", att, 0)
    [] s = "claimer" /\ leg = 2 -> Payload("hash", att, 0)
    [] s = "greeter" /\ leg = 3 -> Payload("nonce", att, 0)
    [] s = "claimer" /\ leg = 4 -> Payload("nonce", att, 0)
    [] s = "claimer" /\ leg = 7 -> Payload("data", att, key)
    [] s = "greeter" /\ leg = 8 -> Payload("confirmation", att, key)
    [] OTHER -> Empty

NoHandler == [pc |-> "none", leg |-> 1, key |-> 0, peer |-> None, wake |-> FALSE, status |-> "ok"]

\* Mutant: a change of the conduit is not signalled.
WakeNobody(h) == h

\* INVITE_CONDUIT_UPDATED wakes every handler that waits on the conduit.
Wake(h) == [s \in Sides |-> [a \in Attempts |->
              IF h[s][a].pc = "listen" THEN [h[s][a] EXCEPT !.wake = TRUE] ELSE h[s][a]]]

Answered(h, status, peer) ==
  [h EXCEPT !.pc = "reply", !.status = status, !.peer = peer, !.wake = FALSE]

-----------------------------------------------------------------------------
(* The server *)

\* Mutant: a payload is overwritten by the next talk of the same side.
OutOfSyncStateOnly(s, leg) == conduit.state # State(leg)

\* The conduit is not where this talk expects it, or a payload is already there.
OutOfSync(s, leg) == conduit.state # State(leg) \/ conduit.pay[s] # None

\* A talk of leg 1 resets the conduit it finds out of sync.
Resets(leg) == leg = 1

Cleared == [x \in Sides |-> None]

\* _conduit_talk: put the payload in the conduit, reset it or refuse.
Talk(s, a) ==
  LET h == handler[s][a]
      says == Says(s, h.leg, a, h.key)
      reset == OutOfSync(s, h.leg)
      pay == IF reset THEN Cleared ELSE conduit.pay
  IN  /\ h.pc = "talk"
      /\ IF deleted \/ (reset /\ ~Resets(h.leg))
           THEN /\ handler' = [handler EXCEPT ![s][a] =
                     Answered(h, IF deleted THEN "already_deleted" ELSE "invalid_state", None)]
                /\ UNCHANGED conduit
           ELSE /\ conduit' = [state |-> State(h.leg), pay |-> [pay EXCEPT ![s] = says]]
                /\ handler' = Wake([handler EXCEPT ![s][a] =
                     [h EXCEPT !.pc = "listen", !.peer = pay[Peer(s)]]])
      /\ UNCHANGED <<client, users, deleted, drops>>

\* The exchange of a handler is over: it goes on with the second exchange of its
\* command, or answers.
Returns(s, a, peer) ==
  LET h == handler[s][a] IN
    IF Continues(s, h.leg)
      THEN [h EXCEPT !.pc = "talk", !.leg = h.leg + 1, !.peer = None, !.wake = FALSE]
      ELSE Answered(h, "ok", peer)

\* "Only peer payload should be allowed to change"
Undisturbed(s, h, says) == conduit.state = State(h.leg) /\ conduit.pay[s] = says

\* _conduit_listen.
Listen(s, a) ==
  LET h == handler[s][a]
      says == Says(s, h.leg, a, h.key)
      given == conduit.pay[Peer(s)]
      wait == [handler EXCEPT ![s][a].wake = FALSE]
      refuse(status) == [handler EXCEPT ![s][a] = Answered(h, status, None)]
  IN  /\ h.pc = "listen" /\ h.wake
      /\ \/ /\ deleted
            /\ handler' = refuse("already_deleted")
            /\ UNCHANGED conduit
         \/ /\ ~deleted /\ h.peer = None /\ ~Undisturbed(s, h, says)
            /\ handler' = refuse("invalid_state")
            /\ UNCHANGED conduit
         \/ /\ ~deleted /\ h.peer = None /\ Undisturbed(s, h, says) /\ given = None
            /\ handler' = wait
            /\ UNCHANGED conduit
         \/ /\ ~deleted /\ h.peer = None /\ Undisturbed(s, h, says) /\ given # None
            /\ conduit' = [state |-> NextState(State(h.leg)), pay |-> Cleared]
            /\ handler' = Wake([handler EXCEPT ![s][a] = Returns(s, a, given)])
         \/ /\ ~deleted /\ h.peer # None
            /\ handler' =
                 IF conduit.state = NextState(State(h.leg)) /\ conduit.pay[s] = None
                   THEN [handler EXCEPT ![s][a] = Returns(s, a, h.peer)]
                 ELSE IF Undisturbed(s, h, says) /\ given = h.peer THEN wait
                 ELSE refuse("invalid_state")
            /\ UNCHANGED conduit
      /\ UNCHANGED <<client, users, deleted, drops>>

\* The server closes the connections of the claimers of a deleted invitation.
CloseClaimers ==
  /\ deleted
  /\ \E a \in Attempts : handler["claimer"][a].pc # "none"
  /\ handler' = [handler EXCEPT !["claimer"] = [a \in Attempts |-> NoHandler]]
  /\ client' = [client EXCEPT !["claimer"].pc = IF @ = "wait" THEN "idle" ELSE @]
  /\ UNCHANGED <<conduit, users, deleted, drops>>

-----------------------------------------------------------------------------
(* The clients *)

NoAttempt == [pc |-> "idle", att |-> 0, leg |-> 1, key |-> 0, nonce |-> 0, hash |-> 0]

\* A new attempt, with a new private key.
Start(s) ==
  /\ client[s].pc = "idle"
  /\ client[s].att < MaxAttempts
  /\ ~deleted
  /\ client' = [client EXCEPT ![s] = [NoAttempt EXCEPT !.pc = "ready", !.att = client[s].att + 1]]
  /\ UNCHANGED <<conduit, handler, users, deleted, drops>>

\* generate_sas_codes: both nonces and the shared secret key.
Sas(s) ==
  LET c == client[s] IN
    IF s = "claimer" THEN [claimer |-> c.att, greeter |-> c.nonce, key |-> <<c.att, c.key>>]
                     ELSE [claimer |-> c.nonce, greeter |-> c.att, key |-> <<c.key, c.att>>]

\* The side whose code the user must recognize before this leg.
Compares(s, leg) == <<s, leg>> \in {<<"claimer", 5>>, <<"greeter", 6>>}

ShowsCode(s) == client[s].leg \in 5..8 /\ client[s].pc # "idle"

\* The client sends the command that starts with its present leg.
Request(s) ==
  LET c == client[s] IN
    /\ c.pc = "ready"
    /\ Compares(s, c.leg) => ShowsCode(Peer(s)) /\ Sas(s) = Sas(Peer(s))
    /\ handler' = [handler EXCEPT ![s][c.att] =
         [NoHandler EXCEPT !.pc = "talk", !.leg = c.leg, !.key = c.key]]
    /\ client' = [client EXCEPT ![s].pc = "wait"]
    /\ UNCHANGED <<conduit, users, deleted, drops>>

\* The user does not recognize the code, or the other one starts again.
Abort(s) ==
  LET c == client[s] IN
    /\ c.pc = "ready"
    /\ Compares(s, c.leg)
    /\ IF ShowsCode(Peer(s)) THEN Sas(s) # Sas(Peer(s)) ELSE client[Peer(s)].leg < 3
    /\ client' = [client EXCEPT ![s].pc = "idle"]
    /\ UNCHANGED <<conduit, handler, users, deleted, drops>>

NonceChecked(c, p) == p.att = c.hash

\* Decryption with the shared secret key of the attempt.
Decrypts(c, kind, p) == p.kind = kind /\ p.att = c.key /\ p.for = c.att

\* What a client makes of the answer to the command it waits for.
AnswerUsed(s, c, leg, p) ==
  LET next == [c EXCEPT !.pc = "ready", !.leg = leg + 1]
      fail == [c EXCEPT !.pc = "idle"]
      done == [c EXCEPT !.pc = "done", !.leg = leg + 1]
  IN  CASE leg = 1 -> [next EXCEPT !.key = p.att]
        [] s = "claimer" /\ leg = 3 -> [next EXCEPT !.nonce = p.att]
        [] s = "greeter" /\ leg = 2 -> [next EXCEPT !.hash = p.att]
        [] s = "greeter" /\ leg = 4 ->
             IF NonceChecked(c, p) THEN [next EXCEPT !.nonce = p.att] ELSE fail
        [] s = "greeter" /\ leg = 7 ->
             IF Decrypts(c, "data", p) THEN [next EXCEPT !.pc = "create"] ELSE fail
        [] s = "greeter" /\ leg = 8 -> [next EXCEPT !.pc = "delete"]
        [] s = "claimer" /\ leg = 8 -> IF Decrypts(c, "confirmation", p) THEN done ELSE fail
        [] OTHER -> next

\* The answer of a handler reaches its client, or nobody if the client left.
Reply(s, a) ==
  LET h == handler[s][a]
      c == client[s]
  IN  /\ h.pc = "reply"
      /\ handler' = [handler EXCEPT ![s][a] = NoHandler]
      /\ client' = [client EXCEPT ![s] =
           IF c.att # a \/ c.pc # "wait" THEN c
           ELSE IF h.status = "ok" THEN AnswerUsed(s, c, h.leg, h.peer)
           ELSE [c EXCEPT !.pc = "idle"]]
      /\ UNCHANGED <<conduit, users, deleted, drops>>

\* user_create or device_create.  A second user for the same human is refused.
Create ==
  LET c == client["greeter"] IN
    /\ c.pc = "create"
    /\ IF Kind = "USER" /\ users # {}
         THEN client' = [client EXCEPT !["greeter"].pc = "idle"] /\ UNCHANGED users
         ELSE users' = users \cup {c.key} /\ client' = [client EXCEPT !["greeter"].pc = "ready"]
    /\ UNCHANGED <<conduit, handler, deleted, drops>>

\* invite_delete, once the confirmation has been exchanged.
Delete ==
  /\ client["greeter"].pc = "delete"
  /\ deleted' = TRUE
  /\ client' = [client EXCEPT !["greeter"].pc = "done"]
  /\ UNCHANGED <<conduit, handler, users, drops>>

\* The connection of a client breaks; its handler, if any, knows nothing of it.
Drop(s) ==
  /\ client[s].pc \in {"ready", "wait", "create", "delete"}
  /\ drops < MaxDrops
  /\ drops' = drops + 1
  /\ client' = [client EXCEPT ![s].pc = "idle"]
  /\ UNCHANGED <<conduit, handler, users, deleted>>

-----------------------------------------------------------------------------

Init ==
  /\ conduit = [state |-> 1, pay |-> Cleared]
  /\ handler = [s \in Sides |-> [a \in Attempts |-> NoHandler]]
  /\ client = [s \in Sides |-> NoAttempt]
  /\ users = {}
  /\ deleted = FALSE
  /\ drops = 0

Handle(s, a) == Talk(s, a) \/ Listen(s, a) \/ Reply(s, a)
Handles(s) == \E a \in Attempts : Handle(s, a)

Act(s) == Start(s) \/ Request(s) \/ Abort(s)

Next ==
  \/ \E s \in Sides, a \in Attempts : Handle(s, a)
  \/ \E s \in Sides : Act(s)
  \/ \E s \in Sides : Drop(s)
  \/ CloseClaimers
  \/ Create
  \/ Delete

Spec == Init /\ [][Next]_vars

\* Handlers run, clients go on, and their users retry what failed.
FairSpec ==
  /\ Spec
  /\ \A s \in Sides : WF_vars(Handles(s)) /\ WF_vars(Act(s))
  /\ WF_vars(CloseClaimers) /\ WF_vars(Create) /\ WF_vars(Delete)

-----------------------------------------------------------------------------
(* Properties *)

PayloadSet == [kind : {"none", "empty", "key", "hash", "nonce", "data", "confirmation"},
               att : 0..MaxAttempts, for : 0..MaxAttempts]

\* Every variable holds a value of its kind.
TypeOK ==
  /\ conduit \in [state : 1..7, pay : [Sides -> PayloadSet]]
  /\ handler \in [Sides -> [Attempts ->
       [pc : {"none", "talk", "listen", "reply"}, leg : Legs, key : 0..MaxAttempts,
        peer : PayloadSet, wake : BOOLEAN,
        status : {"ok", "invalid_state", "already_deleted"}]]]
  /\ client \in [Sides ->
       [pc : {"idle", "ready", "wait", "create", "delete", "done"}, att : 0..MaxAttempts,
        leg : 1..9, key : 0..MaxAttempts, nonce : 0..MaxAttempts, hash : 0..MaxAttempts]]
  /\ users \subseteq Attempts
  /\ deleted \in BOOLEAN
  /\ drops \in 0..MaxDrops

\* Two attempts that have exchanged keys and went through the nonces show their
\* users the same codes: the handler of a former attempt does not mix in a nonce of
\* its own, which would raise a false alarm.  It takes the requests of three pairs of
\* broken connections, all of them late, to do so.
CodesAgree ==
  ShowsCode("claimer") /\ ShowsCode("greeter")
    /\ client["claimer"].key = client["greeter"].att
    /\ client["greeter"].key = client["claimer"].att
    => Sas("claimer") = Sas("greeter")

\* A claimer that ends with a confirmation has its own keys registered, by a
\* greeter that compared codes with this attempt.
ConfirmedIsRegistered ==
  client["claimer"].pc = "done" => client["claimer"].att \in users

Asleep(h) == h.pc = "listen" /\ ~h.wake
MovesOn(s, a) ==
  LET h == handler[s][a]
  IN  /\ h.pc = "listen" /\ h.wake /\ h.peer = None
      /\ Undisturbed(s, h, Says(s, h.leg, a, h.key)) /\ conduit.pay[Peer(s)] # None

\* The two clients never wait for each other through handlers that nothing will wake
\* any more: when both handlers sleep, one of a former attempt moves the conduit on.
NobodyStuck ==
  (\A s \in Sides : client[s].pc = "wait" /\ Asleep(handler[s][client[s].att]))
    => ~deleted /\ \E s \in Sides, a \in Attempts : MovesOn(s, a)

\* When connections stop breaking, the keys of some claimer get registered.
Enrolls == <>(users # {})

\* The exchange of an enrollment under restarts and broken connections: a claimer that is
\* confirmed is registered, and no two clients wait for each other.
ExchangeIsSound == TypeOK /\ ConfirmedIsRegistered /\ NobodyStuck
=============================================================================

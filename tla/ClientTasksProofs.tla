------------------------- MODULE ClientTasksProofs -------------------------
(***************************************************************************)
(* Proofs about three tasks of a client, modules InviteConduit,            *)
(* SyncMonitor and Mountpoint: however many attempts are given up and      *)
(* leave handlers behind, a confirmed claimer is registered, and two       *)
(* clients never wait for each other for good; the sync monitor skips no   *)
(* change and loses no wake-up; no driver serves without its runner.       *)
(***************************************************************************)
EXTENDS InviteConduit, SyncMonitor, Mountpoint, TLAPS, FiniteSetTheorems, SequenceTheorems,
        WellFoundedInduction

-----------------------------------------------------------------------------
(* The inductive invariant *)

HandlerSet ==
  [pc : {"none", "talk", "listen", "reply"}, leg : Legs, key : 0..MaxAttempts, peer : PayloadSet,
   wake : BOOLEAN, status : {"ok", "invalid_state", "already_deleted"}]
Handlers == [Sides -> [Attempts -> HandlerSet]]
ClientSet ==
  [pc : {"idle", "ready", "wait", "create", "delete", "done"}, att : 0..MaxAttempts,
   leg : 1..9, key : 0..MaxAttempts, nonce : 0..MaxAttempts, hash : 0..MaxAttempts]

ConduitSet == [state : 1..7, pay : [Sides -> PayloadSet]]

\* A confirmation is for a claimer that is registered; a public key is the one of an attempt.
Genuine(p, registered) == p.kind = "confirmation" => p.for \in registered
ConduitOK(c, registered) ==
  \A s \in Sides : /\ Genuine(c.pay[s], registered)
                   /\ c.state = 1 /\ c.pay[s] # None => c.pay[s].att \in Attempts
HandlerOK(s, h, registered) ==
  /\ Genuine(h.peer, registered)
  /\ h.leg = 1 /\ (h.peer # None \/ (h.pc = "reply" /\ h.status = "ok")) => h.peer.att \in Attempts
  /\ s = "greeter" /\ h.pc # "none" /\ h.leg = 8 => h.key \in registered
ClientOK(s, c, registered) ==
  /\ c.pc \in {"ready", "wait", "create"} => c.leg <= 8
  /\ c.pc # "idle" => c.att # 0
  /\ c.pc = "create" => c.leg = 8
  /\ c.leg > 1 => c.key \in Attempts
  /\ s = "greeter" /\ c.leg = 8 /\ c.pc \in {"ready", "wait"} => c.key \in registered
  /\ s = "claimer" /\ c.pc = "done" => c.att \in registered

\* The handler h of attempt a, next to the client c: the present attempt has one only while
\* the client waits, which works on the leg asked for or on the next one of the same command.
PairOK(s, a, c, h) ==
  /\ c.att < a => h.pc = "none"
  /\ c.att = a /\ c.pc \in {"ready", "create"} => h.pc = "none"
  /\ c.att = a /\ c.pc = "wait" /\ h.pc # "none" =>
       h.key = c.key /\ (h.leg = c.leg \/ (Continues(s, c.leg) /\ h.leg = c.leg + 1))

PartsInv ==
  /\ TypeOK /\ ConduitOK(conduit, users)
  /\ \A s \in Sides : ClientOK(s, client[s], users)
  /\ \A s \in Sides, a \in Attempts :
       HandlerOK(s, handler[s][a], users) /\ PairOK(s, a, client[s], handler[s][a])
  /\ deleted => client["greeter"].pc = "done"

\* The handler h of attempt a of side s has put its payload into the conduit c.
Holds(s, a, h, c) == c.state = State(h.leg) /\ c.pay[s] = Says(s, h.leg, a, h.key)

\* A handler sleeps as long as the conduit is as it saw it: every change wakes it.
Sleeps(s, a, h, c) == Asleep(h) => Holds(s, a, h, c) /\ c.pay[Peer(s)] = h.peer
SleepInv == \A s \in Sides, a \in Attempts : Sleeps(s, a, handler[s][a], conduit)

\* Who talked first into the conduit still listens, and has not seen the other payload.
First(s, a, h, c) == h.pc = "listen" /\ h.peer = None /\ Holds(s, a, h, c)
FirstInv ==
  ~deleted /\ (\E s \in Sides : conduit.pay[s] # None) =>
    \E s \in Sides, a \in Attempts : First(s, a, handler[s][a], conduit)

ExchangeInv == PartsInv /\ SleepInv /\ FirstInv

-----------------------------------------------------------------------------
(* Payloads and handlers *)

LEMMA PeerFacts ==
  ASSUME NEW s \in Sides
  PROVE  Peer(s) \in Sides /\ Peer(s) # s /\ \A x \in Sides : x = s \/ x = Peer(s)
BY DEF Sides, Peer

LEMMA PayloadFacts ==
  ASSUME NEW kind \in {"none", "empty", "key", "hash", "nonce", "data", "confirmation"},
         NEW att \in 0..MaxAttempts, NEW for \in 0..MaxAttempts
  PROVE  /\ Payload(kind, att, for) \in PayloadSet /\ Payload(kind, att, for).kind = kind
         /\ Payload(kind, att, for).att = att /\ Payload(kind, att, for).for = for
BY DEF Payload, PayloadSet

LEMMA NoneFacts == None \in PayloadSet /\ None.kind = "none"
BY BoundAssumption DEF None, Payload, PayloadSet

LEMMA ClearedFacts == Cleared \in [Sides -> PayloadSet] /\ \A s \in Sides : Cleared[s] = None
BY NoneFacts DEF Cleared

\* What a handler says is something; it is its attempt for the public key, and a confirmation
\* is for the key of the greeter that asked for it.
LEMMA SaysFacts ==
  ASSUME NEW s \in Sides, NEW leg \in Legs, NEW a \in Attempts, NEW key \in 0..MaxAttempts
  PROVE  /\ Says(s, leg, a, key) \in PayloadSet /\ Says(s, leg, a, key) # None
         /\ leg = 1 => Says(s, leg, a, key).att = a
         /\ Says(s, leg, a, key).kind = "confirmation" =>
              s = "greeter" /\ leg = 8 /\ Says(s, leg, a, key).for = key
<1>1. a \in 0..MaxAttempts /\ 0 \in 0..MaxAttempts
  BY BoundAssumption DEF Attempts
<1>2. \A k \in {"empty", "key", "hash", "nonce", "data", "confirmation"}, n, f \in 0..MaxAttempts :
        /\ Payload(k, n, f) \in PayloadSet /\ Payload(k, n, f).kind = k /\ Payload(k, n, f) # None
        /\ Payload(k, n, f).att = n /\ Payload(k, n, f).for = f
  BY PayloadFacts, NoneFacts
<1> DEFINE p == Says(s, leg, a, key)
<1>3. \/ leg = 1 /\ p = Payload("key", a, 0)
      \/ leg # 1 /\ p \in {Payload("hash", a, 0), Payload("nonce", a, 0), Payload("data", a, key),
                           Payload("empty", 0, 0)}
      \/ s = "greeter" /\ leg = 8 /\ p = Payload("confirmation", a, key)
  BY DEF Says, Empty
<1> HIDE DEF p
<1>4. QED
  BY <1>1, <1>2, <1>3 DEF p

\* Two handlers that differ in what has woken them.
SameButWake(x, y) ==
  x.pc = y.pc /\ x.leg = y.leg /\ x.key = y.key /\ x.peer = y.peer /\ x.status = y.status

LEMMA WakeFacts ==
  ASSUME NEW hs \in Handlers
  PROVE  /\ Wake(hs) \in Handlers
         /\ \A s \in Sides, a \in Attempts :
              /\ SameButWake(Wake(hs)[s][a], hs[s][a])
              /\ Wake(hs)[s][a].pc = "listen" => Wake(hs)[s][a].wake = TRUE
<1>1. ASSUME NEW s \in Sides, NEW a \in Attempts
      PROVE  /\ Wake(hs)[s][a] \in HandlerSet /\ SameButWake(Wake(hs)[s][a], hs[s][a])
             /\ Wake(hs)[s][a].pc = "listen" => Wake(hs)[s][a].wake = TRUE
  <2> DEFINE h == hs[s][a]
             w == [h EXCEPT !.wake = TRUE]
  <2>1. h \in HandlerSet
    BY DEF Handlers
  <2>2. w \in HandlerSet /\ SameButWake(w, h) /\ w.wake = TRUE
    BY <2>1 DEF HandlerSet, SameButWake
  <2>3. Wake(hs)[s][a] = IF h.pc = "listen" THEN w ELSE h
    BY DEF Wake
  <2> HIDE DEF h, w
  <2>4. SameButWake(h, h)
    BY DEF SameButWake
  <2>5. QED
    BY <2>1, <2>2, <2>3, <2>4 DEF h
<1>2. Wake(hs) \in Handlers
  <2>1. Wake(hs) = [s \in Sides |-> [a \in Attempts |-> Wake(hs)[s][a]]]
    BY DEF Wake
  <2> DEFINE w == Wake(hs)
  <2> HIDE DEF w
  <2>2. /\ w = [s \in Sides |-> [a \in Attempts |-> w[s][a]]]
        /\ \A s \in Sides, a \in Attempts : w[s][a] \in HandlerSet
    BY <1>1, <2>1 DEF w
  <2>3. w \in Handlers
    BY <2>2 DEF Handlers
  <2>4. QED
    BY <2>3 DEF w
<1>3. QED
  BY <1>1, <1>2

LEMMA PutFacts ==
  ASSUME NEW hs \in Handlers, NEW s \in Sides, NEW a \in Attempts, NEW r \in HandlerSet
  PROVE  /\ [hs EXCEPT ![s][a] = r] \in Handlers /\ [hs EXCEPT ![s][a] = r][s][a] = r
         /\ \A x \in Sides, b \in Attempts :
              <<x, b>> # <<s, a>> => [hs EXCEPT ![s][a] = r][x][b] = hs[x][b]
BY DEF Handlers

-----------------------------------------------------------------------------
(* Steps *)

LEMMA Typed ==
  ASSUME TypeOK
  PROVE  /\ conduit \in ConduitSet /\ handler \in Handlers /\ client \in [Sides -> ClientSet]
         /\ users \subseteq Attempts /\ deleted \in BOOLEAN /\ drops \in 0..MaxDrops
         /\ \A s \in Sides : /\ conduit.pay[s] \in PayloadSet /\ client[s] \in ClientSet
                             /\ \A a \in Attempts : handler[s][a] \in HandlerSet
<1>1. conduit \in ConduitSet /\ handler \in Handlers /\ client \in [Sides -> ClientSet]
  BY DEF TypeOK, ConduitSet, Handlers, HandlerSet, ClientSet
<1>2. \A s \in Sides : conduit.pay[s] \in PayloadSet
  BY <1>1 DEF ConduitSet
<1>3. \A s \in Sides : client[s] \in ClientSet /\ \A a \in Attempts : handler[s][a] \in HandlerSet
  BY <1>1 DEF Handlers
<1>4. QED
  BY <1>1, <1>2, <1>3 DEF TypeOK

\* Who is registered stays registered.
LEMMA OKMonotone ==
  ASSUME NEW old, NEW new, old \subseteq new
  PROVE  /\ \A c : ConduitOK(c, old) => ConduitOK(c, new)
         /\ \A s, h : HandlerOK(s, h, old) => HandlerOK(s, h, new)
         /\ \A s, c : ClientOK(s, c, old) => ClientOK(s, c, new)
<1>1. \A c : ConduitOK(c, old) => ConduitOK(c, new)
  BY DEF ConduitOK, Genuine
<1>2. \A s, h : HandlerOK(s, h, old) => HandlerOK(s, h, new)
  BY DEF HandlerOK, Genuine
<1>3. \A s, c : ClientOK(s, c, old) => ClientOK(s, c, new)
  BY DEF ClientOK
<1>4. QED
  BY <1>1, <1>2, <1>3

LEMMA OKButWake ==
  ASSUME NEW x, NEW y, SameButWake(x, y)
  PROVE  /\ \A s, registered : HandlerOK(s, y, registered) => HandlerOK(s, x, registered)
         /\ \A s, a, c : PairOK(s, a, c, y) => PairOK(s, a, c, x)
         /\ \A s, a, c : First(s, a, y, c) => First(s, a, x, c)
<1>1. x.pc = y.pc /\ x.leg = y.leg /\ x.key = y.key /\ x.peer = y.peer /\ x.status = y.status
  BY DEF SameButWake
<1>2. \A s, registered : HandlerOK(s, y, registered) => HandlerOK(s, x, registered)
  BY <1>1 DEF HandlerOK
<1>3. \A s, a, c : PairOK(s, a, c, y) => PairOK(s, a, c, x)
  BY <1>1 DEF PairOK
<1>4. \A s, a, c : First(s, a, y, c) => First(s, a, x, c)
  BY <1>1 DEF First, Holds
<1>5. QED
  BY <1>2, <1>3, <1>4

\* One handler becomes r, and every handler that waits on the conduit may be woken.
Becomes(s, a, r) ==
  LET put == [handler EXCEPT ![s][a] = r] IN handler' = put \/ handler' = Wake(put)

LEMMA BecomesFacts ==
  ASSUME handler \in Handlers, NEW s \in Sides, NEW a \in Attempts, NEW r \in HandlerSet,
         Becomes(s, a, r)
  PROVE  /\ handler' \in Handlers /\ SameButWake(handler'[s][a], r)
         /\ \A x \in Sides, b \in Attempts :
              <<x, b>> # <<s, a>> => SameButWake(handler'[x][b], handler[x][b])
<1> DEFINE put == [handler EXCEPT ![s][a] = r]
<1>1. /\ put \in Handlers /\ put[s][a] = r
      /\ \A x \in Sides, b \in Attempts : <<x, b>> # <<s, a>> => put[x][b] = handler[x][b]
  BY PutFacts
<1>2. handler' = put \/ handler' = Wake(put)
  BY DEF Becomes
<1> HIDE DEF put
<1>3. CASE handler' = put
  BY <1>1, <1>3 DEF SameButWake
<1>4. CASE handler' = Wake(put)
  <2>1. /\ Wake(put) \in Handlers
        /\ \A x \in Sides, b \in Attempts : SameButWake(Wake(put)[x][b], put[x][b])
    BY <1>1, WakeFacts
  <2>2. QED
    BY <1>1, <1>4, <2>1
<1>5. QED
  BY <1>2, <1>3, <1>4

\* A step of the handler of attempt a of side s and of the client of that side.
LEMMA PartsStep ==
  ASSUME PartsInv, NEW s \in Sides, NEW a \in Attempts, NEW r \in HandlerSet, NEW c \in ClientSet,
         Becomes(s, a, r), client' = [client EXCEPT ![s] = c], UNCHANGED <<users, deleted, drops>>,
         conduit' \in ConduitSet, ConduitOK(conduit', users), HandlerOK(s, r, users),
         ClientOK(s, c, users), PairOK(s, a, c, r),
         \A b \in Attempts : b # a => PairOK(s, b, c, handler[s][b]),
         deleted => client'["greeter"].pc = "done"
  PROVE  PartsInv'
<1>1. TypeOK
  BY DEF PartsInv
<1>2. /\ handler' \in Handlers /\ SameButWake(handler'[s][a], r)
      /\ \A x \in Sides, b \in Attempts :
           <<x, b>> # <<s, a>> => SameButWake(handler'[x][b], handler[x][b])
  BY <1>1, Typed, BecomesFacts
<1>3. /\ client' \in [Sides -> ClientSet] /\ client'[s] = c
      /\ \A x \in Sides : x # s => client'[x] = client[x]
  BY <1>1, Typed
<1>4. TypeOK'
  <2>1. users' \subseteq Attempts /\ deleted' \in BOOLEAN /\ drops' \in 0..MaxDrops
    BY <1>1, Typed
  <2>2. QED
    BY <2>1, <1>2, <1>3 DEF TypeOK, ConduitSet, Handlers, HandlerSet, ClientSet
<1>5. \A x \in Sides : ClientOK(x, client'[x], users)
  BY <1>3 DEF PartsInv
<1>6. ASSUME NEW x \in Sides, NEW b \in Attempts
      PROVE  HandlerOK(x, handler'[x][b], users) /\ PairOK(x, b, client'[x], handler'[x][b])
  <2>1. HandlerOK(x, handler[x][b], users) /\ PairOK(x, b, client[x], handler[x][b])
    BY DEF PartsInv
  <2>2. CASE x = s /\ b = a
    BY <2>2, <1>2, <1>3, OKButWake
  <2>3. CASE x = s /\ b # a
    <3>1. SameButWake(handler'[x][b], handler[x][b]) /\ PairOK(x, b, client'[x], handler[x][b])
      BY <2>3, <1>2, <1>3
    <3>2. QED
      BY <3>1, <2>1, OKButWake
  <2>4. CASE x # s
    <3>1. SameButWake(handler'[x][b], handler[x][b]) /\ client'[x] = client[x]
      BY <2>4, <1>2, <1>3
    <3>2. QED
      BY <3>1, <2>1, OKButWake
  <2>5. QED
    BY <2>2, <2>3, <2>4
<1>7. users' = users /\ deleted' = deleted
  OBVIOUS
<1>8. QED
  BY <1>4, <1>5, <1>6, <1>7 DEF PartsInv

\* A step of the client of side s alone.
LEMMA ClientStep ==
  ASSUME PartsInv, NEW s \in Sides, NEW c \in ClientSet, client' = [client EXCEPT ![s] = c],
         UNCHANGED <<conduit, handler>>, users \subseteq users', users' \subseteq Attempts,
         deleted' \in BOOLEAN, drops' \in 0..MaxDrops, ClientOK(s, c, users'),
         \A b \in Attempts : PairOK(s, b, c, handler[s][b]),
         deleted' => client'["greeter"].pc = "done"
  PROVE  PartsInv'
<1>1. TypeOK
  BY DEF PartsInv
<1>3. /\ client' \in [Sides -> ClientSet] /\ client'[s] = c
      /\ \A x \in Sides : x # s => client'[x] = client[x]
  BY <1>1, Typed
<1>4. TypeOK'
  <2>1. conduit' \in ConduitSet /\ handler' \in Handlers
    BY <1>1, Typed
  <2>2. QED
    BY <2>1, <1>3 DEF TypeOK, ConduitSet, Handlers, HandlerSet, ClientSet
<1>5. \A x \in Sides : ClientOK(x, client'[x], users')
  BY <1>3, OKMonotone DEF PartsInv
<1>6. \A x \in Sides, b \in Attempts : HandlerOK(x, handler'[x][b], users')
  BY OKMonotone DEF PartsInv
<1>7. \A x \in Sides, b \in Attempts : PairOK(x, b, client'[x], handler'[x][b])
  BY <1>3 DEF PartsInv
<1>8. ConduitOK(conduit', users')
  BY OKMonotone DEF PartsInv
<1>9. QED
  BY <1>4, <1>5, <1>6, <1>7, <1>8 DEF PartsInv

\* A handler step that leaves the conduit alone keeps sleepers and the first talker.
LEMMA QuietStep ==
  ASSUME TypeOK, SleepInv, FirstInv, NEW s \in Sides, NEW a \in Attempts, NEW r \in HandlerSet,
         handler' = [handler EXCEPT ![s][a] = r], UNCHANGED <<conduit, deleted>>,
         Sleeps(s, a, r, conduit),
         ~deleted /\ First(s, a, handler[s][a], conduit) => First(s, a, r, conduit)
  PROVE  SleepInv' /\ FirstInv'
<1>1. /\ handler'[s][a] = r
      /\ \A x \in Sides, b \in Attempts : <<x, b>> # <<s, a>> => handler'[x][b] = handler[x][b]
  BY Typed, PutFacts
<1>2. SleepInv'
  BY <1>1 DEF SleepInv
<1>3. ASSUME ~deleted, \E x \in Sides : conduit.pay[x] # None
      PROVE  \E x \in Sides, b \in Attempts : First(x, b, handler'[x][b], conduit)
  <2>1. PICK x \in Sides, b \in Attempts : First(x, b, handler[x][b], conduit)
    BY <1>3 DEF FirstInv
  <2>2. First(x, b, handler'[x][b], conduit)
    BY <1>1, <1>3, <2>1
  <2>3. QED
    BY <2>2
<1>4. QED
  BY <1>2, <1>3 DEF FirstInv

\* A step that wakes every handler leaves no sleeper.
LEMMA WakingStep ==
  ASSUME TypeOK, NEW s \in Sides, NEW a \in Attempts, NEW r \in HandlerSet,
         handler' = Wake([handler EXCEPT ![s][a] = r])
  PROVE  SleepInv'
<1> DEFINE put == [handler EXCEPT ![s][a] = r]
<1>1. put \in Handlers
  BY Typed, PutFacts
<1> HIDE DEF put
<1>2. \A x \in Sides, b \in Attempts : Wake(put)[x][b].pc = "listen" => Wake(put)[x][b].wake = TRUE
  BY <1>1, WakeFacts
<1>3. \A x \in Sides, b \in Attempts : handler'[x][b].pc = "listen" => handler'[x][b].wake = TRUE
  BY <1>2 DEF put
<1>4. QED
  BY <1>3 DEF SleepInv, Sleeps, Asleep

LEMMA AnsweredFacts ==
  ASSUME NEW h \in HandlerSet, NEW answer \in {"ok", "invalid_state", "already_deleted"},
         NEW peer \in PayloadSet
  PROVE  /\ Answered(h, answer, peer) \in HandlerSet /\ Answered(h, answer, peer).pc = "reply"
         /\ Answered(h, answer, peer).leg = h.leg /\ Answered(h, answer, peer).key = h.key
         /\ Answered(h, answer, peer).peer = peer /\ Answered(h, answer, peer).status = answer
BY DEF Answered, HandlerSet

LEMMA StateFacts ==
  ASSUME NEW leg \in Legs
  PROVE  State(leg) \in 1..7 /\ NextState(State(leg)) \in 1..7 /\ (State(leg) = 1 <=> leg = 1)
BY DEF Legs, State, NextState

\* A handler that goes on with the leg of its client is still paired with it.
LEMMA PairStays ==
  ASSUME NEW s, NEW a, NEW c, NEW h, NEW r, PairOK(s, a, c, h), h.pc # "none", r.leg = h.leg,
         r.key = h.key
  PROVE  PairOK(s, a, c, r)
BY DEF PairOK

\* A handler that refuses.
LEMMA RefusedIsOK ==
  ASSUME NEW s \in Sides, NEW h \in HandlerSet, NEW answer \in {"invalid_state", "already_deleted"},
         HandlerOK(s, h, users), h.pc # "none"
  PROVE  HandlerOK(s, Answered(h, answer, None), users)
<1> DEFINE r == Answered(h, answer, None)
<1>1. r.pc = "reply" /\ r.leg = h.leg /\ r.key = h.key /\ r.peer = None /\ r.status = answer
  BY AnsweredFacts, NoneFacts
<1> HIDE DEF r
<1>2. HandlerOK(s, r, users)
  BY <1>1, NoneFacts DEF HandlerOK, Genuine
<1>3. QED
  BY <1>2 DEF r

\* A handler whose exchange is over with the payload given.
LEMMA ReturnsIsOK ==
  ASSUME PartsInv, NEW s \in Sides, NEW a \in Attempts, NEW given \in PayloadSet,
         handler[s][a].pc = "listen", Genuine(given, users), given # None,
         handler[s][a].leg = 1 => given.att \in Attempts
  PROVE  /\ Returns(s, a, given) \in HandlerSet /\ Returns(s, a, given).pc # "listen"
         /\ HandlerOK(s, Returns(s, a, given), users)
         /\ PairOK(s, a, client[s], Returns(s, a, given))
<1> DEFINE h == handler[s][a]
           r == Returns(s, a, given)
           goesOn == [h EXCEPT !.pc = "talk", !.leg = h.leg + 1, !.peer = None, !.wake = FALSE]
<1>1. h \in HandlerSet /\ HandlerOK(s, h, users) /\ PairOK(s, a, client[s], h) /\ h.pc = "listen"
  BY Typed DEF PartsInv
<1>2. r = IF Continues(s, h.leg) THEN goesOn ELSE Answered(h, "ok", given)
  BY DEF Returns
<1>3. CASE Continues(s, h.leg)
  <2>1. h.leg \in {2, 3} /\ ~Continues(s, h.leg + 1)
    BY <1>3 DEF Continues
  <2>2. /\ goesOn \in HandlerSet /\ goesOn.pc = "talk" /\ goesOn.leg = h.leg + 1
        /\ goesOn.key = h.key /\ goesOn.peer = None
    <3> HIDE DEF h
    <3>1. h.leg + 1 \in Legs /\ None \in PayloadSet
      BY <2>1, NoneFacts DEF Legs
    <3>2. goesOn.pc = "talk" /\ goesOn.leg = h.leg + 1 /\ goesOn.key = h.key /\ goesOn.peer = None
      BY <1>1 DEF HandlerSet
    <3>3. goesOn \in HandlerSet
      BY <1>1, <3>1 DEF HandlerSet
    <3>4. QED
      BY <3>2, <3>3
  <2>3. r = goesOn
    BY <1>2, <1>3
  <2>4. client[s].leg \in 1..9
    BY Typed DEF PartsInv, ClientSet
  <2> HIDE DEF h, r, goesOn
  <2>5. HandlerOK(s, r, users)
    BY <1>1, <2>1, <2>2, <2>3, NoneFacts DEF HandlerOK, Genuine
  <2>6. PairOK(s, a, client[s], r)
    <3>1. Continues(s, client[s].leg) => h.leg # client[s].leg + 1
      BY <1>3, <2>4 DEF Continues
    <3>2. QED
      BY <1>1, <1>3, <2>2, <2>3, <3>1 DEF PairOK
  <2>7. QED
    BY <2>2, <2>3, <2>5, <2>6 DEF r
<1>4. CASE ~Continues(s, h.leg)
  <2> DEFINE ans == Answered(h, "ok", given)
  <2>1. /\ ans \in HandlerSet /\ ans.pc = "reply" /\ ans.leg = h.leg /\ ans.key = h.key
        /\ ans.peer = given
    <3> HIDE DEF h
    <3>1. QED
      BY <1>1 DEF Answered, HandlerSet
  <2>2. r = ans
    BY <1>2, <1>4
  <2>3. h.leg = 1 => given.att \in Attempts
    OBVIOUS
  <2> HIDE DEF h, r, ans
  <2>4. HandlerOK(s, r, users)
    BY <1>1, <2>1, <2>2, <2>3 DEF HandlerOK
  <2>5. PairOK(s, a, client[s], r)
    BY <1>1, <2>1, <2>2, PairStays
  <2>6. QED
    BY <2>1, <2>2, <2>4, <2>5 DEF r
<1>5. QED
  BY <1>3, <1>4

LEMMA Held ==
  ASSUME ExchangeInv, NEW s \in Sides, NEW a \in Attempts
  PROVE  /\ TypeOK /\ PartsInv /\ SleepInv /\ FirstInv
         /\ client[s] \in ClientSet /\ client = [client EXCEPT ![s] = client[s]]
         /\ handler[s][a] \in HandlerSet
         /\ HandlerOK(s, handler[s][a], users) /\ ConduitOK(conduit, users)
         /\ ClientOK(s, client[s], users)
         /\ \A b \in Attempts : PairOK(s, b, client[s], handler[s][b])
         /\ deleted => client["greeter"].pc = "done"
<1>1. TypeOK /\ PartsInv /\ SleepInv /\ FirstInv
  BY DEF ExchangeInv, PartsInv
<1>2. /\ client[s] \in ClientSet /\ client = [client EXCEPT ![s] = client[s]]
      /\ handler[s][a] \in HandlerSet
  BY <1>1, Typed
<1>3. QED
  BY <1>1, <1>2 DEF PartsInv

\* A handler that leaves the conduit and its client alone.
LEMMA QuietHandler ==
  ASSUME ExchangeInv, NEW s \in Sides, NEW a \in Attempts, NEW r \in HandlerSet,
         handler' = [handler EXCEPT ![s][a] = r],
         UNCHANGED <<conduit, client, users, deleted, drops>>,
         HandlerOK(s, r, users), PairOK(s, a, client[s], r), Sleeps(s, a, r, conduit),
         ~deleted /\ First(s, a, handler[s][a], conduit) => First(s, a, r, conduit)
  PROVE  ExchangeInv'
<1>1. SleepInv' /\ FirstInv'
  BY Held, QuietStep
<1>2. Becomes(s, a, r)
  BY DEF Becomes
<1>3. /\ conduit' \in ConduitSet /\ ConduitOK(conduit', users)
      /\ client' = [client EXCEPT ![s] = client[s]]
  BY Held, Typed
<1>4. deleted => client'["greeter"].pc = "done"
  BY Held
<1>5. PartsInv'
  BY <1>2, <1>3, <1>4, Held, PartsStep
<1>6. QED
  BY <1>1, <1>5 DEF ExchangeInv

\* A handler that refuses: it did not talk first, or the invitation is deleted.
LEMMA RefuseStep ==
  ASSUME ExchangeInv, NEW s \in Sides, NEW a \in Attempts, handler[s][a].pc # "none",
         NEW answer \in {"invalid_state", "already_deleted"},
         handler' = [handler EXCEPT ![s][a] = Answered(handler[s][a], answer, None)],
         UNCHANGED <<conduit, client, users, deleted, drops>>,
         deleted \/ ~First(s, a, handler[s][a], conduit)
  PROVE  ExchangeInv'
<1> DEFINE h == handler[s][a]
           r == Answered(h, answer, None)
<1>1. h \in HandlerSet /\ HandlerOK(s, h, users) /\ PairOK(s, a, client[s], h) /\ h.pc # "none"
  BY Held
<1>2. HandlerOK(s, r, users)
  BY <1>1, RefusedIsOK
<1>3. r \in HandlerSet /\ r.pc = "reply" /\ r.leg = h.leg /\ r.key = h.key
  <2> HIDE DEF h
  <2>1. answer \in {"ok", "invalid_state", "already_deleted"} /\ None \in PayloadSet
    BY NoneFacts
  <2>2. QED
    BY <1>1, <2>1, AnsweredFacts
<1>4. handler' = [handler EXCEPT ![s][a] = r] /\ (deleted \/ ~First(s, a, h, conduit))
  OBVIOUS
<1> HIDE DEF r
<1>5. PairOK(s, a, client[s], r)
  BY <1>1, <1>3, PairStays
<1>6. Sleeps(s, a, r, conduit)
  BY <1>3 DEF Sleeps, Asleep
<1>7. QED
  BY <1>2, <1>3, <1>4, <1>5, <1>6, QuietHandler

LEMMA TalkStep ==
  ASSUME ExchangeInv, NEW s \in Sides, NEW a \in Attempts, Talk(s, a)
  PROVE  ExchangeInv'
<1> DEFINE h == handler[s][a]
           says == Says(s, h.leg, a, h.key)
           reset == OutOfSync(s, h.leg)
           pay == IF reset THEN Cleared ELSE conduit.pay
           r == [h EXCEPT !.pc = "listen", !.peer = pay[Peer(s)]]
<1>1. h \in HandlerSet /\ HandlerOK(s, h, users) /\ PairOK(s, a, client[s], h) /\ h.pc = "talk"
  BY Held DEF Talk
<1>2. UNCHANGED <<client, users, deleted, drops>>
  BY DEF Talk
<1>3. CASE deleted \/ (reset /\ ~Resets(h.leg))
  <2> DEFINE answer == IF deleted THEN "already_deleted" ELSE "invalid_state"
  <2>1. handler' = [handler EXCEPT ![s][a] = Answered(h, answer, None)] /\ UNCHANGED conduit
    BY <1>3 DEF Talk
  <2>2. answer \in {"invalid_state", "already_deleted"}
    OBVIOUS
  <2> HIDE DEF answer
  <2>3. ~First(s, a, h, conduit)
    BY <1>1 DEF First
  <2>4. QED
    BY <1>1, <1>2, <2>1, <2>2, <2>3, RefuseStep
<1>4. CASE ~(deleted \/ (reset /\ ~Resets(h.leg)))
  <2>1. /\ conduit' = [state |-> State(h.leg), pay |-> [pay EXCEPT ![s] = says]]
        /\ handler' = Wake([handler EXCEPT ![s][a] = r])
    BY <1>4 DEF Talk
  <2>2. /\ pay \in [Sides -> PayloadSet]
        /\ \A x \in Sides : /\ Genuine(pay[x], users)
                            /\ pay[x] # None => /\ ~reset /\ pay[x] = conduit.pay[x]
                                                /\ h.leg = 1 => pay[x].att \in Attempts
    <3>1. CASE reset
      BY <3>1, ClearedFacts, NoneFacts DEF Genuine
    <3>2. CASE ~reset
      <4>1. conduit.pay \in [Sides -> PayloadSet] /\ ConduitOK(conduit, users)
        BY Held, Typed DEF ConduitSet
      <4>2. h.leg = 1 => conduit.state = 1
        BY <3>2 DEF OutOfSync, State
      <4>3. QED
        BY <3>2, <4>1, <4>2 DEF ConduitOK
    <3>3. QED
      BY <3>1, <3>2
  <2>3. /\ h.leg \in Legs /\ h.key \in 0..MaxAttempts /\ State(h.leg) \in 1..7
        /\ (State(h.leg) = 1 <=> h.leg = 1)
    BY <1>1, StateFacts DEF HandlerSet
  <2>4. /\ says \in PayloadSet /\ says # None
        /\ h.leg = 1 => says.att = a
        /\ says.kind = "confirmation" => s = "greeter" /\ h.leg = 8 /\ says.for = h.key
    BY <2>3, SaysFacts
  <2>5. Genuine(says, users)
    BY <1>1, <2>4 DEF Genuine, HandlerOK
  <2>6. ~reset => conduit.state = State(h.leg) /\ conduit.pay[s] = None
    BY DEF OutOfSync
  <2>7. Peer(s) \in Sides /\ Peer(s) # s /\ \A x \in Sides : x = s \/ x = Peer(s)
    BY PeerFacts
  <2>8. /\ r \in HandlerSet /\ r.pc = "listen" /\ r.leg = h.leg /\ r.key = h.key
        /\ r.peer = pay[Peer(s)]
    <3>1. pay[Peer(s)] \in PayloadSet
      BY <2>2, <2>7
    <3> HIDE DEF h, pay
    <3>2. QED
      BY <1>1, <3>1 DEF HandlerSet
  <2>9. ~deleted
    BY <1>4
  <2> HIDE DEF pay, says, r, reset, h
  <2>10. conduit' \in ConduitSet /\ conduit'.state = State(h.leg) /\ conduit'.pay[s] = says
         /\ conduit'.pay[Peer(s)] = pay[Peer(s)]
    BY <2>1, <2>2, <2>3, <2>4, <2>7 DEF ConduitSet
  <2>11. ConduitOK(conduit', users)
    BY <2>2, <2>3, <2>4, <2>5, <2>7, <2>10 DEF ConduitOK
  <2>12. HandlerOK(s, r, users)
    BY <1>1, <2>2, <2>7, <2>8 DEF HandlerOK
  <2>13. PairOK(s, a, client[s], r)
    BY <1>1, <2>8, PairStays
  <2>14. Becomes(s, a, r)
    BY <2>1 DEF Becomes
  <2>15. client' = [client EXCEPT ![s] = client[s]] /\ (deleted => client'["greeter"].pc = "done")
    BY <1>2, Held
  <2>16. PartsInv'
    BY <1>2, <2>8, <2>10, <2>11, <2>12, <2>13, <2>14, <2>15, Held, PartsStep
  <2>17. SleepInv'
    BY <2>1, <2>8, Held, WakingStep
  <2>18. \E x \in Sides, b \in Attempts : First(x, b, handler'[x][b], conduit')
    <3>1. handler \in Handlers
      BY Held, Typed
    <3>2. /\ SameButWake(handler'[s][a], r)
          /\ \A x \in Sides, b \in Attempts :
               <<x, b>> # <<s, a>> => SameButWake(handler'[x][b], handler[x][b])
      BY <2>8, <2>14, <3>1, BecomesFacts
    <3>3. CASE pay[Peer(s)] = None
      <4>1. First(s, a, r, conduit')
        BY <2>8, <2>10, <3>3 DEF First, Holds, says
      <4>2. First(s, a, handler'[s][a], conduit')
        BY <3>2, <4>1, OKButWake
      <4>3. QED
        BY <4>2
    <3>4. CASE pay[Peer(s)] # None
      <4>1. ~reset /\ pay[Peer(s)] = conduit.pay[Peer(s)]
        BY <2>2, <2>7, <3>4
      <4>2. PICK x \in Sides, b \in Attempts : First(x, b, handler[x][b], conduit)
        BY <2>7, <2>9, <3>4, <4>1, Held DEF FirstInv
      <4>3. x = Peer(s)
        <5>1. handler[x][b] \in HandlerSet
          BY Held
        <5>2. handler[x][b].leg \in Legs /\ handler[x][b].key \in 0..MaxAttempts
          BY <5>1 DEF HandlerSet
        <5>3. conduit.pay[x] # None
          BY <4>2, <5>2, SaysFacts DEF First, Holds
        <5>4. QED
          BY <2>6, <2>7, <4>1, <5>3
      <4>4. conduit'.state = conduit.state /\ conduit'.pay[x] = conduit.pay[x]
        BY <2>6, <2>10, <4>1, <4>3
      <4>5. First(x, b, handler[x][b], conduit')
        BY <4>2, <4>4 DEF First, Holds
      <4>6. First(x, b, handler'[x][b], conduit')
        BY <2>7, <3>2, <4>3, <4>5, OKButWake
      <4>7. QED
        BY <4>6
    <3>5. QED
      BY <3>3, <3>4
  <2>19. FirstInv'
    BY <2>18 DEF FirstInv
  <2>20. QED
    BY <2>16, <2>17, <2>19 DEF ExchangeInv
<1>5. QED
  BY <1>3, <1>4

LEMMA ListenStep ==
  ASSUME ExchangeInv, NEW s \in Sides, NEW a \in Attempts, Listen(s, a)
  PROVE  ExchangeInv'
<1> DEFINE h == handler[s][a]
           says == Says(s, h.leg, a, h.key)
           given == conduit.pay[Peer(s)]
           w == [h EXCEPT !.wake = FALSE]
<1>1. h \in HandlerSet /\ HandlerOK(s, h, users) /\ PairOK(s, a, client[s], h) /\ h.pc = "listen"
  BY Held DEF Listen
<1>2. UNCHANGED <<client, users, deleted, drops>>
  BY DEF Listen
<1>3. Undisturbed(s, h, says) <=> Holds(s, a, h, conduit)
  BY DEF Undisturbed, Holds
<1>4. h.leg \in Legs /\ Peer(s) \in Sides /\ given \in PayloadSet /\ h.peer \in PayloadSet
  BY <1>1, PeerFacts, Held, Typed DEF HandlerSet
<1>5. ASSUME NEW answer \in {"invalid_state", "already_deleted"},
             handler' = [handler EXCEPT ![s][a] = Answered(h, answer, None)], UNCHANGED conduit,
             deleted \/ ~First(s, a, h, conduit)
      PROVE  ExchangeInv'
  BY <1>1, <1>2, <1>5, RefuseStep
\* It waits on: what it saw is what is there.
<1>6. ASSUME handler' = [handler EXCEPT ![s][a].wake = FALSE], UNCHANGED conduit,
             Undisturbed(s, h, says), given = h.peer
      PROVE  ExchangeInv'
  <2>1. [handler EXCEPT ![s][a].wake = FALSE] = [handler EXCEPT ![s][a] = w]
    OBVIOUS
  <2>2. w \in HandlerSet /\ SameButWake(w, h)
    BY <1>1 DEF HandlerSet, SameButWake
  <2>3. Sleeps(s, a, w, conduit)
    BY <1>3, <1>6, <2>2 DEF Sleeps, Holds, SameButWake
  <2>4. /\ handler' = [handler EXCEPT ![s][a] = w] /\ PairOK(s, a, client[s], h)
        /\ HandlerOK(s, h, users)
    BY <1>1, <1>6, <2>1
  <2> HIDE DEF w
  <2>5. /\ HandlerOK(s, w, users) /\ PairOK(s, a, client[s], w)
        /\ (First(s, a, h, conduit) => First(s, a, w, conduit))
    BY <1>1, <2>2, OKButWake
  <2>6. QED
    BY <1>2, <1>6, <2>2, <2>3, <2>4, <2>5, QuietHandler
<1>7. CASE deleted
  BY <1>5, <1>7 DEF Listen
<1>8. CASE ~deleted /\ h.peer = None /\ ~Undisturbed(s, h, says)
  <2>1. /\ handler' = [handler EXCEPT ![s][a] = Answered(h, "invalid_state", None)]
        /\ UNCHANGED conduit
    BY <1>8 DEF Listen
  <2>2. ~First(s, a, h, conduit)
    BY <1>3, <1>8 DEF First
  <2>3. QED
    BY <1>5, <2>1, <2>2
<1>9. CASE ~deleted /\ h.peer = None /\ Undisturbed(s, h, says) /\ given = None
  <2>1. handler' = [handler EXCEPT ![s][a].wake = FALSE] /\ UNCHANGED conduit
    BY <1>9 DEF Listen
  <2>2. QED
    BY <1>6, <1>9, <2>1
\* It saw the payload of its peer: it moves the conduit on and wakes the others.
<1>10. CASE ~deleted /\ h.peer = None /\ Undisturbed(s, h, says) /\ given # None
  <2> DEFINE r == Returns(s, a, given)
  <2>1. /\ conduit' = [state |-> NextState(State(h.leg)), pay |-> Cleared]
        /\ handler' = Wake([handler EXCEPT ![s][a] = r])
    BY <1>10 DEF Listen
  <2>2. Genuine(given, users) /\ (h.leg = 1 => given.att \in Attempts)
    <3>1. ConduitOK(conduit, users)
      BY Held
    <3>2. h.leg = 1 => conduit.state = 1
      BY <1>10 DEF Undisturbed, State
    <3>3. QED
      BY <1>4, <1>10, <3>1, <3>2 DEF ConduitOK
  <2>3. r \in HandlerSet /\ HandlerOK(s, r, users) /\ PairOK(s, a, client[s], r)
    BY <1>1, <1>4, <1>10, <2>2, Held, ReturnsIsOK
  <2>4. NextState(State(h.leg)) \in 1..7
    BY <1>4, StateFacts
  <2> HIDE DEF r
  <2>5. conduit' \in ConduitSet /\ conduit'.pay = Cleared
    BY <2>1, <2>4, ClearedFacts DEF ConduitSet
  <2>6. ConduitOK(conduit', users)
    BY <2>5, ClearedFacts, NoneFacts DEF ConduitOK, Genuine
  <2>7. Becomes(s, a, r)
    BY <2>1 DEF Becomes
  <2>8. client' = [client EXCEPT ![s] = client[s]] /\ (deleted => client'["greeter"].pc = "done")
    BY <1>2, Held
  <2>9. PartsInv'
    BY <1>2, <2>3, <2>5, <2>6, <2>7, <2>8, Held, PartsStep
  <2>10. SleepInv'
    BY <2>1, <2>3, Held, WakingStep
  <2>11. FirstInv'
    BY <2>5, ClearedFacts DEF FirstInv
  <2>12. QED
    BY <2>9, <2>10, <2>11 DEF ExchangeInv
\* It had the payload of its peer already: it returns when the peer moved the conduit on.
<1>11. CASE ~deleted /\ h.peer # None
  <2>1. ~First(s, a, h, conduit) /\ UNCHANGED conduit
    BY <1>11 DEF First, Listen
  <2>2. CASE conduit.state = NextState(State(h.leg)) /\ conduit.pay[s] = None
    <3> DEFINE r == Returns(s, a, h.peer)
    <3>1. handler' = [handler EXCEPT ![s][a] = r]
      BY <1>11, <2>2 DEF Listen
    <3>2. Genuine(h.peer, users) /\ (h.leg = 1 => h.peer.att \in Attempts)
      BY <1>1, <1>11 DEF HandlerOK
    <3>3. /\ r \in HandlerSet /\ r.pc # "listen" /\ HandlerOK(s, r, users)
          /\ PairOK(s, a, client[s], r)
      BY <1>1, <1>4, <1>11, <3>2, Held, ReturnsIsOK
    <3> HIDE DEF r
    <3>4. Sleeps(s, a, r, conduit)
      BY <3>3 DEF Sleeps, Asleep
    <3>5. QED
      BY <1>2, <2>1, <3>1, <3>3, <3>4, QuietHandler
  <2>3. CASE ~(conduit.state = NextState(State(h.leg)) /\ conduit.pay[s] = None)
    <3>1. CASE Undisturbed(s, h, says) /\ given = h.peer
      <4>1. handler' = [handler EXCEPT ![s][a].wake = FALSE]
        BY <1>11, <2>3, <3>1 DEF Listen
      <4>2. QED
        BY <1>6, <2>1, <3>1, <4>1
    <3>2. CASE ~(Undisturbed(s, h, says) /\ given = h.peer)
      <4>1. handler' = [handler EXCEPT ![s][a] = Answered(h, "invalid_state", None)]
        BY <1>11, <2>3, <3>2 DEF Listen
      <4>2. QED
        BY <1>5, <2>1, <4>1
    <3>3. QED
      BY <3>1, <3>2
  <2>4. QED
    BY <2>2, <2>3
<1>12. QED
  BY <1>7, <1>8, <1>9, <1>10, <1>11 DEF Listen

LEMMA NoHandlerFacts ==
  /\ NoHandler \in HandlerSet /\ NoHandler.pc = "none" /\ NoHandler.peer = None
  /\ \A s, registered : HandlerOK(s, NoHandler, registered)
  /\ \A s, a, c : PairOK(s, a, c, NoHandler)
<1>1. NoHandler \in HandlerSet /\ NoHandler.pc = "none" /\ NoHandler.peer = None
  BY NoneFacts, BoundAssumption DEF NoHandler, HandlerSet, Legs
<1>2. \A s, registered : HandlerOK(s, NoHandler, registered)
  BY <1>1, NoneFacts DEF HandlerOK, Genuine
<1>3. \A s, a, c : PairOK(s, a, c, NoHandler)
  BY <1>1 DEF PairOK
<1>4. QED
  BY <1>1, <1>2, <1>3

LEMMA NoAttemptFacts ==
  /\ NoAttempt \in ClientSet /\ NoAttempt.pc = "idle" /\ NoAttempt.leg = 1 /\ NoAttempt.att = 0
BY BoundAssumption DEF NoAttempt, ClientSet

\* What a client makes of an answer of the server.
LEMMA AnswerUsedIsOK ==
  ASSUME NEW s \in Sides, NEW c \in ClientSet, NEW h \in HandlerSet, c.pc = "wait", h.pc = "reply",
         ClientOK(s, c, users), HandlerOK(s, h, users), h.status = "ok", PairOK(s, c.att, c, h)
  PROVE  LET d == AnswerUsed(s, c, h.leg, h.peer)
         IN  d \in ClientSet /\ d.att = c.att /\ ClientOK(s, d, users)
<1> DEFINE d == AnswerUsed(s, c, h.leg, h.peer)
           leg == h.leg
           p == h.peer
<1>1. leg \in Legs /\ p.att \in 0..MaxAttempts /\ leg + 1 \in 1..9
  BY DEF HandlerSet, PayloadSet, Legs
<1>2. /\ c.leg \in 1..9 /\ c.att # 0 /\ h.key = c.key
      /\ (leg = c.leg \/ (c.leg > 1 /\ leg = c.leg + 1))
  BY DEF ClientSet, ClientOK, PairOK, Continues
<1>3. leg > 1 => c.key \in Attempts
  BY <1>2 DEF ClientOK
<1>4. leg = 1 => p.att \in Attempts
  BY DEF HandlerOK
<1>5. d \in ClientSet /\ d.att = c.att
  BY <1>1 DEF AnswerUsed, ClientSet
<1>6. ClientOK(s, d, users)
  BY <1>1, <1>2, <1>3, <1>4
     DEF AnswerUsed, ClientSet, ClientOK, HandlerOK, Genuine, Decrypts, Sides, Legs
<1>7. QED
  BY <1>5, <1>6

LEMMA ReplyStep ==
  ASSUME ExchangeInv, NEW s \in Sides, NEW a \in Attempts, Reply(s, a)
  PROVE  ExchangeInv'
<1> DEFINE h == handler[s][a]
           c == client[s]
           d == IF c.att # a \/ c.pc # "wait" THEN c
                ELSE IF h.status = "ok" THEN AnswerUsed(s, c, h.leg, h.peer)
                ELSE [c EXCEPT !.pc = "idle"]
<1>1. /\ h.pc = "reply" /\ handler' = [handler EXCEPT ![s][a] = NoHandler]
      /\ client' = [client EXCEPT ![s] = d] /\ UNCHANGED <<conduit, users, deleted, drops>>
  BY DEF Reply
<1>2. /\ h \in HandlerSet /\ HandlerOK(s, h, users) /\ PairOK(s, a, c, h)
      /\ c \in ClientSet /\ ClientOK(s, c, users)
  BY Held
<1>3. /\ d \in ClientSet /\ d.att = c.att /\ ClientOK(s, d, users)
      /\ (c.att # a \/ c.pc # "wait" => d = c)
  <2>1. CASE c.att # a \/ c.pc # "wait"
    BY <1>2, <2>1
  <2>2. CASE c.att = a /\ c.pc = "wait" /\ h.status = "ok"
    <3>1. d = AnswerUsed(s, c, h.leg, h.peer)
      BY <2>2
    <3> HIDE DEF c, h, d
    <3>2. QED
      BY <1>1, <1>2, <2>2, <3>1, AnswerUsedIsOK
  <2>3. CASE c.att = a /\ c.pc = "wait" /\ h.status # "ok"
    <3>1. d = [c EXCEPT !.pc = "idle"]
      BY <2>3
    <3> HIDE DEF c, h, d
    <3>2. QED
      BY <1>2, <2>3, <3>1 DEF ClientSet, ClientOK
  <2>4. QED
    BY <2>1, <2>2, <2>3
<1> HIDE DEF d
<1>4. \A b \in Attempts : b # a => PairOK(s, b, d, handler[s][b])
  <2>1. \A b \in Attempts : PairOK(s, b, c, handler[s][b])
    BY Held
  <2>2. QED
    BY <1>3, <2>1 DEF PairOK
<1>5. deleted => client'["greeter"].pc = "done"
  <2>1. deleted => client["greeter"].pc = "done"
    BY Held
  <2>2. client \in [Sides -> ClientSet]
    BY Held, Typed
  <2>3. QED
    BY <1>1, <1>3, <2>1, <2>2 DEF Sides
<1>6. conduit' \in ConduitSet /\ ConduitOK(conduit', users)
  BY <1>1, Held, Typed
<1>7. Becomes(s, a, NoHandler)
  BY <1>1 DEF Becomes
<1>8. PartsInv'
  BY <1>1, <1>3, <1>4, <1>5, <1>6, <1>7, Held, NoHandlerFacts, PartsStep
<1>9. Sleeps(s, a, NoHandler, conduit) /\ ~First(s, a, h, conduit)
  BY <1>1, NoHandlerFacts DEF Sleeps, Asleep, First
<1>10. SleepInv' /\ FirstInv'
  BY <1>1, <1>9, Held, NoHandlerFacts, QuietStep
<1>11. QED
  BY <1>8, <1>10 DEF ExchangeInv

LEMMA RequestStep ==
  ASSUME ExchangeInv, NEW s \in Sides, Request(s)
  PROVE  ExchangeInv'
<1> DEFINE c == client[s]
           a == c.att
           r == [NoHandler EXCEPT !.pc = "talk", !.leg = c.leg, !.key = c.key]
           d == [c EXCEPT !.pc = "wait"]
<1>1. /\ c.pc = "ready" /\ handler' = [handler EXCEPT ![s][a] = r]
      /\ client' = [client EXCEPT ![s].pc = "wait"] /\ UNCHANGED <<conduit, users, deleted, drops>>
  BY DEF Request
<1>2. c \in ClientSet /\ ClientOK(s, c, users)
  BY Typed DEF ExchangeInv, PartsInv
<1>3. a \in Attempts /\ c.leg \in Legs /\ c.key \in 0..MaxAttempts
  BY <1>1, <1>2, BoundAssumption DEF ClientSet, ClientOK, Attempts, Legs
<1>4. client' = [client EXCEPT ![s] = d]
  BY <1>1
<1>5. d \in ClientSet /\ d.att = a /\ d.pc = "wait" /\ d.leg = c.leg /\ d.key = c.key
  BY <1>2 DEF ClientSet
<1>6. /\ r \in HandlerSet /\ r.pc = "talk" /\ r.leg = c.leg /\ r.key = c.key /\ r.peer = None
  <2> HIDE DEF c
  <2>1. QED
    BY <1>3, NoHandlerFacts DEF HandlerSet
<1>7. \A b \in Attempts : PairOK(s, b, c, handler[s][b])
  BY <1>3, Held
<1> HIDE DEF d, r
<1>8. ClientOK(s, d, users)
  BY <1>1, <1>2, <1>5 DEF ClientOK
<1>9. HandlerOK(s, r, users)
  BY <1>1, <1>2, <1>6, NoneFacts DEF HandlerOK, Genuine, ClientOK
<1>10. PairOK(s, a, d, r)
  BY <1>3, <1>5, <1>6, BoundAssumption DEF PairOK, Attempts
<1>11. \A b \in Attempts : b # a => PairOK(s, b, d, handler[s][b])
  BY <1>1, <1>5, <1>7 DEF PairOK
<1>12. deleted => client'["greeter"].pc = "done"
  <2>1. deleted => client["greeter"].pc = "done"
    BY <1>3, Held
  <2>2. client \in [Sides -> ClientSet]
    BY <1>3, Held, Typed
  <2>3. QED
    BY <1>1, <2>1, <2>2 DEF Sides
<1>13. conduit' \in ConduitSet /\ ConduitOK(conduit', users)
  BY <1>1, <1>3, Held, Typed
<1>14. Becomes(s, a, r)
  BY <1>1 DEF Becomes
<1>15. PartsInv'
  BY <1>1, <1>3, <1>4, <1>5, <1>6, <1>8, <1>9, <1>10,
               <1>11, <1>12, <1>13, <1>14, Held, PartsStep
<1>16. Sleeps(s, a, r, conduit) /\ ~First(s, a, handler[s][a], conduit)
  BY <1>1, <1>3, <1>6, <1>7 DEF Sleeps, Asleep, First, PairOK
<1>17. SleepInv' /\ FirstInv'
  BY <1>1, <1>3, <1>6, <1>16, Held, QuietStep
<1>18. QED
  BY <1>15, <1>17 DEF ExchangeInv

\* A step of a client that leaves the conduit and the handlers alone.
LEMMA ClientOnly ==
  ASSUME ExchangeInv, NEW s \in Sides, NEW c \in ClientSet, client' = [client EXCEPT ![s] = c],
         UNCHANGED <<conduit, handler>>, users \subseteq users', users' \subseteq Attempts,
         deleted' \in BOOLEAN, deleted => deleted', drops' \in 0..MaxDrops, ClientOK(s, c, users'),
         \A b \in Attempts : PairOK(s, b, c, handler[s][b]),
         deleted' => c.pc = "done" \/ s # "greeter", deleted' # deleted => s = "greeter"
  PROVE  ExchangeInv'
<1>1. deleted' => client'["greeter"].pc = "done"
  <2>1. deleted => client["greeter"].pc = "done"
    BY DEF ExchangeInv, PartsInv
  <2>2. client \in [Sides -> ClientSet]
    BY Typed DEF ExchangeInv, PartsInv
  <2>3. deleted \in BOOLEAN
    BY Typed DEF ExchangeInv, PartsInv
  <2>4. QED
    BY <2>1, <2>2, <2>3 DEF Sides
<1>2. PartsInv'
  BY <1>1, ClientStep DEF ExchangeInv
<1>3. SleepInv' /\ FirstInv'
  BY DEF ExchangeInv, SleepInv, FirstInv
<1>4. QED
  BY <1>2, <1>3 DEF ExchangeInv

LEMMA ClientFacts ==
  ASSUME ExchangeInv, NEW s \in Sides
  PROVE  /\ client[s] \in ClientSet /\ ClientOK(s, client[s], users)
         /\ \A b \in Attempts : PairOK(s, b, client[s], handler[s][b])
         /\ users \subseteq Attempts /\ deleted \in BOOLEAN /\ drops \in 0..MaxDrops
         /\ deleted => client["greeter"].pc = "done"
BY Typed DEF ExchangeInv, PartsInv

LEMMA StartStep ==
  ASSUME ExchangeInv, NEW s \in Sides, Start(s)
  PROVE  ExchangeInv'
<1> DEFINE c == client[s]
           n == c.att + 1
           d == [NoAttempt EXCEPT !.pc = "ready", !.att = n]
<1>1. /\ c.att < MaxAttempts /\ ~deleted /\ client' = [client EXCEPT ![s] = d]
      /\ UNCHANGED <<conduit, handler, users, deleted, drops>>
  BY DEF Start
<1>2. c.att \in Nat /\ n \in 0..MaxAttempts /\ n # 0 /\ c.att < n
  BY <1>1, BoundAssumption, ClientFacts DEF ClientSet
<1> HIDE DEF n
<1>3. d \in ClientSet /\ d.pc = "ready" /\ d.att = n /\ d.leg = 1
  BY <1>2, NoAttemptFacts DEF ClientSet
<1> HIDE DEF d
<1>4. ClientOK(s, d, users)
  BY <1>2, <1>3 DEF ClientOK
<1>5. \A b \in Attempts : PairOK(s, b, d, handler[s][b])
  <2>1. \A b \in Attempts : PairOK(s, b, c, handler[s][b])
    BY ClientFacts
  <2>2. \A b \in Attempts : n <= b => c.att < b
    BY <1>2 DEF n, Attempts
  <2>3. \A b \in Attempts : n <= b => handler[s][b].pc = "none"
    BY <2>1, <2>2 DEF PairOK
  <2>4. \A b \in Attempts : d.att < b \/ d.att = b => n <= b
    BY <1>2, <1>3 DEF Attempts
  <2>5. QED
    BY <2>3, <2>4, <1>3 DEF PairOK
<1>6. QED
  BY <1>1, <1>3, <1>4, <1>5, ClientFacts, ClientOnly

\* A client that gives up its attempt.
LEMMA GivesUp ==
  ASSUME ExchangeInv, NEW s \in Sides, client' = [client EXCEPT ![s].pc = "idle"],
         UNCHANGED <<conduit, handler, users, deleted>>, drops' \in 0..MaxDrops,
         client[s].pc # "done"
  PROVE  ExchangeInv'
<1> DEFINE c == client[s]
           d == [c EXCEPT !.pc = "idle"]
<1>1. c \in ClientSet /\ ClientOK(s, c, users) /\ \A b \in Attempts : PairOK(s, b, c, handler[s][b])
  BY ClientFacts
<1>2. d \in ClientSet /\ d.pc = "idle" /\ d.att = c.att /\ d.leg = c.leg /\ d.key = c.key
  BY <1>1 DEF ClientSet
<1>3. client' = [client EXCEPT ![s] = d]
  OBVIOUS
<1> HIDE DEF d
<1>4. ClientOK(s, d, users) /\ \A b \in Attempts : PairOK(s, b, d, handler[s][b])
  BY <1>1, <1>2 DEF ClientOK, PairOK
<1>5. deleted => s # "greeter"
  BY ClientFacts
<1>6. QED
  BY <1>2, <1>3, <1>4, <1>5, ClientFacts, ClientOnly

LEMMA AbortStep ==
  ASSUME ExchangeInv, NEW s \in Sides, Abort(s)
  PROVE  ExchangeInv'
BY ClientFacts, GivesUp DEF Abort

LEMMA DropStep ==
  ASSUME ExchangeInv, NEW s \in Sides, Drop(s)
  PROVE  ExchangeInv'
<1>1. drops' \in 0..MaxDrops
  BY ClientFacts, BoundAssumption DEF Drop
<1>2. QED
  BY <1>1, GivesUp DEF Drop

LEMMA CreateStep ==
  ASSUME ExchangeInv, Create
  PROVE  ExchangeInv'
<1> DEFINE s == "greeter"
           c == client[s]
           d == [c EXCEPT !.pc = "ready"]
<1>0. s \in Sides
  BY DEF Sides
<1>1. c.pc = "create" /\ UNCHANGED <<conduit, handler, deleted, drops>>
  BY DEF Create
<1>2. CASE Kind = "USER" /\ users # {}
  <2>1. client' = [client EXCEPT ![s].pc = "idle"] /\ UNCHANGED users
    BY <1>2 DEF Create
  <2>2. drops' \in 0..MaxDrops
    BY <1>0, <1>1, ClientFacts
  <2> HIDE DEF s
  <2>3. QED
    BY <1>0, <1>1, <2>1, <2>2, GivesUp
<1>3. CASE ~(Kind = "USER" /\ users # {})
  <2>1. users' = users \cup {c.key} /\ client' = [client EXCEPT ![s] = d]
    BY <1>3 DEF Create
  <2>2. /\ /\ c \in ClientSet /\ ClientOK(s, c, users)
        /\ \A b \in Attempts : PairOK(s, b, c, handler[s][b])
        /\ ~deleted
    BY <1>0, <1>1, ClientFacts
  <2>3. c.key \in Attempts /\ c.leg = 8
    BY <1>1, <2>2 DEF ClientOK
  <2>4. d \in ClientSet /\ d.pc = "ready" /\ d.att = c.att /\ d.leg = c.leg /\ d.key = c.key
    BY <2>2 DEF ClientSet
  <2> HIDE DEF d
  <2>5. ClientOK(s, d, users')
    BY <1>1, <2>1, <2>2, <2>3, <2>4 DEF ClientOK
  <2>6. \A b \in Attempts : PairOK(s, b, d, handler[s][b])
    BY <1>1, <2>2, <2>4 DEF PairOK
  <2>7. /\ users \subseteq users' /\ users' \subseteq Attempts /\ deleted' \in BOOLEAN
        /\ drops' \in 0..MaxDrops
    BY <1>0, <1>1, <2>1, <2>3, ClientFacts
  <2> HIDE DEF s
  <2>8. QED
    BY <1>0, <1>1, <2>1, <2>2, <2>4, <2>5, <2>6, <2>7, ClientOnly
<1>4. QED
  BY <1>2, <1>3

LEMMA DeleteStep ==
  ASSUME ExchangeInv, Delete
  PROVE  ExchangeInv'
<1> DEFINE s == "greeter"
           c == client[s]
           d == [c EXCEPT !.pc = "done"]
<1>0. s \in Sides
  BY DEF Sides
<1>1. /\ c.pc = "delete" /\ deleted' = TRUE /\ client' = [client EXCEPT ![s] = d]
      /\ UNCHANGED <<conduit, handler, users, drops>>
  BY DEF Delete
<1>2. c \in ClientSet /\ ClientOK(s, c, users) /\ \A b \in Attempts : PairOK(s, b, c, handler[s][b])
  BY <1>0, ClientFacts
<1>3. d \in ClientSet /\ d.pc = "done" /\ d.att = c.att /\ d.leg = c.leg /\ d.key = c.key
  BY <1>2 DEF ClientSet
<1>4. s # "claimer"
  OBVIOUS
<1> HIDE DEF d
<1>5. ClientOK(s, d, users) /\ \A b \in Attempts : PairOK(s, b, d, handler[s][b])
  BY <1>1, <1>2, <1>3, <1>4 DEF ClientOK, PairOK
<1>6. users' \subseteq Attempts /\ drops' \in 0..MaxDrops /\ s = "greeter"
  BY <1>0, <1>1, ClientFacts
<1> HIDE DEF s
<1>7. QED
  BY <1>0, <1>1, <1>3, <1>5, <1>6, ClientOnly

LEMMA CloseClaimersStep ==
  ASSUME ExchangeInv, CloseClaimers
  PROVE  ExchangeInv'
<1> DEFINE c == client["claimer"]
           d == [c EXCEPT !.pc = IF @ = "wait" THEN "idle" ELSE @]
<1>1. /\ deleted /\ handler' = [handler EXCEPT !["claimer"] = [a \in Attempts |-> NoHandler]]
      /\ client' = [client EXCEPT !["claimer"] = d] /\ UNCHANGED <<conduit, users, deleted, drops>>
  BY DEF CloseClaimers
<1>2. TypeOK
  BY DEF ExchangeInv, PartsInv
<1>3. /\ handler' \in Handlers /\ \A a \in Attempts : handler'["claimer"][a] = NoHandler
      /\ handler'["greeter"] = handler["greeter"]
  BY <1>1, <1>2, Typed, NoHandlerFacts DEF Handlers, Sides
<1>4. c \in ClientSet /\ ClientOK("claimer", c, users)
  BY ClientFacts DEF Sides
<1>5. /\ d \in ClientSet /\ d.att = c.att /\ d.leg = c.leg /\ d.key = c.key
      /\ (d.pc = c.pc \/ d.pc = "idle")
  BY <1>4 DEF ClientSet
<1> HIDE DEF d
<1>6. /\ client' \in [Sides -> ClientSet] /\ client'["claimer"] = d
      /\ client'["greeter"] = client["greeter"]
  BY <1>1, <1>2, <1>5, Typed DEF Sides
<1>7. TypeOK'
  <2>1. /\ conduit' \in ConduitSet /\ users' \subseteq Attempts /\ deleted' \in BOOLEAN
        /\ drops' \in 0..MaxDrops
    BY <1>1, <1>2, Typed
  <2>2. QED
    BY <2>1, <1>3, <1>6 DEF TypeOK, ConduitSet, Handlers, HandlerSet, ClientSet
<1>8. \A x \in Sides : ClientOK(x, client'[x], users)
  <2>1. ClientOK("claimer", d, users)
    BY <1>4, <1>5 DEF ClientOK
  <2>2. QED
    BY <1>6, <2>1, ClientFacts DEF Sides
<1>9. \A x \in Sides, a \in Attempts :
        HandlerOK(x, handler'[x][a], users) /\ PairOK(x, a, client'[x], handler'[x][a])
  <2>1. \A a \in Attempts : HandlerOK("greeter", handler["greeter"][a], users)
                            /\ PairOK("greeter", a, client["greeter"], handler["greeter"][a])
    BY DEF ExchangeInv, PartsInv, Sides
  <2>2. QED
    BY <1>3, <1>6, <2>1, NoHandlerFacts DEF Sides
<1>10. PartsInv'
  BY <1>1, <1>6, <1>7, <1>8, <1>9 DEF ExchangeInv, PartsInv
<1>11. SleepInv'
  <2>1. \A a \in Attempts : Sleeps("claimer", a, NoHandler, conduit)
    BY NoHandlerFacts DEF Sleeps, Asleep
  <2>2. \A a \in Attempts : Sleeps("greeter", a, handler["greeter"][a], conduit)
    BY DEF ExchangeInv, SleepInv, Sides
  <2>3. QED
    BY <1>1, <1>3, <2>1, <2>2 DEF SleepInv, Sides
<1>12. FirstInv'
  BY <1>1 DEF FirstInv
<1>13. QED
  BY <1>10, <1>11, <1>12 DEF ExchangeInv

-----------------------------------------------------------------------------
(* The theorem *)

LEMMA ExchangeInit ==
  ASSUME Init
  PROVE  ExchangeInv
<1>1. /\ handler \in Handlers /\ \A s \in Sides, a \in Attempts : handler[s][a] = NoHandler
  BY NoHandlerFacts DEF Init, Handlers
<1>2. client \in [Sides -> ClientSet] /\ \A s \in Sides : client[s] = NoAttempt
  BY NoAttemptFacts DEF Init
<1>3. conduit \in ConduitSet /\ conduit.pay = Cleared
  BY ClearedFacts DEF Init, ConduitSet
<1>4. TypeOK
  <2>1. users \subseteq Attempts /\ deleted \in BOOLEAN /\ drops \in 0..MaxDrops
    <3>1. 0 \in 0..MaxDrops
      BY BoundAssumption
    <3>2. QED
      BY <3>1 DEF Init
  <2>2. QED
    BY <1>1, <1>2, <1>3, <2>1 DEF TypeOK, ConduitSet, Handlers, HandlerSet, ClientSet
<1>5. ConduitOK(conduit, users)
  BY <1>3, ClearedFacts, NoneFacts DEF ConduitOK, Genuine
<1>6. \A s \in Sides : ClientOK(s, client[s], users)
  BY <1>2, NoAttemptFacts DEF ClientOK
<1>7. \A s \in Sides, a \in Attempts :
        HandlerOK(s, handler[s][a], users) /\ PairOK(s, a, client[s], handler[s][a])
  BY <1>1, NoHandlerFacts
<1>8. PartsInv
  BY <1>4, <1>5, <1>6, <1>7 DEF PartsInv, Init
<1>9. SleepInv
  BY <1>1, NoHandlerFacts DEF SleepInv, Sleeps, Asleep
<1>10. FirstInv
  BY <1>3, ClearedFacts DEF FirstInv
<1>11. QED
  BY <1>8, <1>9, <1>10 DEF ExchangeInv

LEMMA ExchangeStep ==
  ASSUME ExchangeInv, [Next]_vars
  PROVE  ExchangeInv'
<1>1. CASE Next
  <2>1. CASE \E s \in Sides, a \in Attempts : Handle(s, a)
    BY <2>1, TalkStep, ListenStep, ReplyStep DEF Handle
  <2>2. CASE \E s \in Sides : Act(s)
    BY <2>2, StartStep, RequestStep, AbortStep DEF Act
  <2>3. CASE \E s \in Sides : Drop(s)
    BY <2>3, DropStep
  <2>4. CASE CloseClaimers \/ Create \/ Delete
    BY <2>4, CloseClaimersStep, CreateStep, DeleteStep
  <2>5. QED
    BY <1>1, <2>1, <2>2, <2>3, <2>4 DEF Next
<1>2. CASE UNCHANGED vars
  <2>1. TypeOK'
    BY <1>2 DEF vars, ExchangeInv, PartsInv, TypeOK
  <2>2. PartsInv'
    BY <1>2, <2>1 DEF vars, ExchangeInv, PartsInv
  <2>3. SleepInv' /\ FirstInv'
    BY <1>2 DEF vars, ExchangeInv, SleepInv, FirstInv
  <2>4. QED
    BY <2>2, <2>3 DEF ExchangeInv
<1>3. QED
  BY <1>1, <1>2

\* Two clients that wait through sleeping handlers have both payloads in the conduit; the
\* handler that talked first is then awake and moves the conduit on.
LEMMA NobodyIsStuck ==
  ASSUME ExchangeInv
  PROVE  NobodyStuck
<1> SUFFICES ASSUME \A s \in Sides : client[s].pc = "wait" /\ Asleep(handler[s][client[s].att])
             PROVE  ~deleted /\ \E s \in Sides, a \in Attempts : MovesOn(s, a)
  BY DEF NobodyStuck
<1>1. ~deleted
  BY DEF ExchangeInv, PartsInv, Sides
<1>2. ASSUME NEW s \in Sides, NEW a \in Attempts, Holds(s, a, handler[s][a], conduit)
      PROVE  conduit.pay[s] # None
  <2>1. handler[s][a].leg \in Legs /\ handler[s][a].key \in 0..MaxAttempts
    BY Held DEF HandlerSet
  <2>2. QED
    BY <1>2, <2>1, SaysFacts DEF Holds
<1>3. ASSUME NEW s \in Sides
      PROVE  conduit.pay[s] # None
  <2>1. client[s].att \in Attempts
    BY ClientFacts, BoundAssumption DEF ClientSet, ClientOK, Attempts
  <2>2. Holds(s, client[s].att, handler[s][client[s].att], conduit)
    BY <2>1 DEF ExchangeInv, SleepInv, Sleeps
  <2>3. QED
    BY <1>2, <2>1, <2>2
<1>4. PICK s \in Sides, a \in Attempts : First(s, a, handler[s][a], conduit)
  BY <1>1, <1>3 DEF ExchangeInv, FirstInv, Sides
<1>5. conduit.pay[Peer(s)] # None
  BY <1>3, PeerFacts
<1>6. handler[s][a].wake \in BOOLEAN
  BY Held DEF HandlerSet
<1>7. handler[s][a].wake
  BY <1>4, <1>5, <1>6 DEF ExchangeInv, SleepInv, Sleeps, Asleep, First
<1>8. MovesOn(s, a)
  BY <1>4, <1>5, <1>7 DEF MovesOn, First, Holds, Undisturbed
<1>9. QED
  BY <1>1, <1>8

\* However many attempts break off and leave handlers behind on the server, a claimer that ends
\* with a confirmation has its own keys registered, and the two clients never wait for each
\* other through handlers that nothing will wake.
THEOREM ExchangesAreSound == Spec => []ExchangeIsSound
<1>1. Init => ExchangeInv
  BY ExchangeInit
<1>2. ExchangeInv /\ [Next]_vars => ExchangeInv'
  BY ExchangeStep
<1>3. ExchangeInv => ExchangeIsSound
  <2>1. ASSUME ExchangeInv PROVE TypeOK /\ ConfirmedIsRegistered
    BY <2>1, ClientFacts DEF ExchangeInv, PartsInv, ConfirmedIsRegistered, ClientOK, Sides
  <2>2. QED
    BY <2>1, NobodyIsStuck DEF ExchangeIsSound
<1>4. QED
  BY <1>1, <1>2, <1>3, PTL DEF Spec

-----------------------------------------------------------------------------
(* The sync monitor: its inductive invariant *)

ContextSet ==
  [on : BOOLEAN, loaded : BOOLEAN, readOnly : BOOLEAN,
   local : [Entries -> {"now", "later", NotPending}], remote : SUBSET Entries, due : Dues]
TaskSet ==
  [step : {"off", "poll", "store", "read", "assign", "wait", "sync"}, boot : BOOLEAN,
   entry : Entries \cup {"none"}, dead : BOOLEAN, dirtied : BOOLEAN, until : Dues,
   checkpoint : Nat, changes : [Entries -> Nat], local : SUBSET Entries, remote : SUBSET Entries]
RealmSet ==
  [version : [Entries -> Nat], changed : [Entries -> Nat], index : Nat, role : WorkspaceRoles,
   maintenance : BOOLEAN]
StorageSet ==
  [need : SUBSET Entries, base : [Entries -> Nat], remote : [Entries -> Nat], checkpoint : Nat]

QueueOK(q) == q \in [on : BOOLEAN, events : Seq(Entries)] /\ Len(q.events) <= QueueLimit

MonitorTyped ==
  /\ realm \in RealmSet /\ storage \in StorageSet
  /\ QueueOK(queue) /\ status \in {"LOST", "INITIALIZING", "READY"}
  /\ role \in WorkspaceRoles
  /\ ctx \in ContextSet /\ monitorTask \in TaskSet /\ wakeup \in BOOLEAN
  /\ monitorTask.step = "sync" => monitorTask.entry \in Entries

\* With the versions v noted as the remote ones, the checkpoint n passes no unknown change.
Covers(r, base, v, n) ==
  \A e \in Entries : r.version[e] \notin {base[e], v[e]} => r.changed[e] > n

\* The versions that the device will know of once the answer t of a poll is stored.
Noting(s, t) == [e \in Entries |-> IF t.changes[e] # 0 THEN t.changes[e] ELSE s.remote[e]]

\* A version v exists on the server r.
Existing(r, v) == \A e \in Entries : v[e] <= r.version[e]

\* What is stored, and an answer that is about to be, against the server.
StorageInv(r, s, t) ==
  /\ s.checkpoint <= r.index /\ Existing(r, s.base) /\ Existing(r, s.remote)
  /\ \A e \in Entries : r.version[e] # 0 /\ r.changed[e] <= r.index
  /\ Covers(r, s.base, s.remote, s.checkpoint)
  /\ t.step = "store" =>
       /\ t.checkpoint <= r.index /\ Existing(r, t.changes)
       /\ Covers(r, s.base, Noting(s, t), t.checkpoint)

\* The monitor t that waits has seen the time of its context c, or is about to wake up.
WaitInv(c, t, w) ==
  /\ t.step = "wait" /\ ~w => DueRank(t.until) <= DueRank(c.due)
  /\ t.step = "wait" /\ c.loaded /\ (c.remote # {} \/ LocalChanges(c) # {}) => c.due # "never"
  /\ t.dead => ~c.loaded /\ (w \/ c.due = "never")
  /\ t.step \in {"poll", "store", "read", "assign"} => ~c.loaded

MonitorInv ==
  MonitorTyped /\ StorageInv(realm, storage, monitorTask) /\ WaitInv(ctx, monitorTask, wakeup)

-----------------------------------------------------------------------------
(* The sync monitor: times, contexts and tasks *)

\* A time has a rank, and the rank tells the times apart.
LEMMA DueRanks ==
  /\ DueRank("now") = 0 /\ DueRank("later") = 1 /\ DueRank("never") = 2
  /\ \A d \in Dues : DueRank(d) \in 0..2
BY DEF DueRank, Dues

\* The soonest of some times is one of them, and none of them comes before it.
LEMMA SoonestIsFirst ==
  ASSUME NEW dues \in SUBSET Dues, dues # {}
  PROVE  Soonest(dues) \in dues /\ \A o \in dues : DueRank(Soonest(dues)) <= DueRank(o)
<1>1. \E d \in dues : \A o \in dues : DueRank(d) <= DueRank(o)
  <2>1. CASE "now" \in dues  BY <2>1, DueRanks DEF Dues
  <2>2. CASE "now" \notin dues /\ "later" \in dues  BY <2>2, DueRanks DEF Dues
  <2>3. CASE "now" \notin dues /\ "later" \notin dues
    <3>1. \A o \in dues : o = "never"  BY <2>3 DEF Dues
    <3>2. QED  BY <3>1, DueRanks
  <2>4. QED  BY <2>1, <2>2, <2>3
<1>2. QED  BY <1>1 DEF Soonest

\* A context in which a change is noted has a due time (compute_due_time).
LEMMA NotedHasTime ==
  ASSUME NEW c \in ContextSet, NEW least \in {"now", "later"}
  PROVE  /\ ComputeDueTime(c, least) \in Dues
         /\ c.remote # {} \/ LocalChanges(c) # {} => ComputeDueTime(c, least) # "never"
<1> DEFINE dues == {"never"} \cup {c.local[e] : e \in LocalChanges(c)}
           due == IF c.remote # {} THEN "now" ELSE Soonest(dues)
<1>1. dues \in SUBSET Dues /\ dues # {}  BY DEF ContextSet, LocalChanges, Dues
<1>2. ASSUME NEW e \in LocalChanges(c)  PROVE  DueRank(c.local[e]) <= 1 /\ c.local[e] \in dues
  BY <1>2, DueRanks DEF ContextSet, LocalChanges
<1>3. due \in Dues  BY <1>1, SoonestIsFirst DEF Dues
<1>4. c.remote # {} \/ LocalChanges(c) # {} => due # "never"
  <2>1. CASE c.remote # {}  BY <2>1
  <2>2. ASSUME NEW e \in LocalChanges(c)  PROVE  Soonest(dues) # "never"
    <3>1. DueRank(Soonest(dues)) <= DueRank(c.local[e])  BY <1>1, <1>2, SoonestIsFirst
    <3>2. c.local[e] \in Dues  BY <1>1, <1>2
    <3>3. DueRank(c.local[e]) \in 0..2  BY <3>2, DueRanks
    <3> HIDE DEF dues
    <3>4. QED  BY <3>1, <3>3, <1>2, DueRanks
  <2>3. QED  BY <2>1, <2>2
<1> HIDE DEF dues
<1>5. ComputeDueTime(c, least) = IF DueRank(due) < DueRank(least) THEN least ELSE due
  BY DEF ComputeDueTime, dues
<1> HIDE DEF due
<1>6. QED  BY <1>3, <1>4, <1>5, DueRanks DEF Dues

\* The contexts that the store creates: nothing is loaded and nothing noted.
LEMMA NewContexts ==
  /\ NoContext \in ContextSet /\ ~NoContext.loaded /\ NoContext.due = "never"
  /\ \A r \in WorkspaceRoles :
       NewContext(r) \in ContextSet /\ ~NewContext(r).loaded /\ NewContext(r).due = "never"
<1>1. NoContext \in ContextSet /\ ~NoContext.loaded /\ NoContext.due = "never"
  BY DEF NoContext, ContextSet, Dues
<1>2. ASSUME NEW r \in WorkspaceRoles
      PROVE  NewContext(r) \in ContextSet /\ ~NewContext(r).loaded /\ NewContext(r).due = "never"
  BY <1>1 DEF NewContext, ContextSet
<1>3. QED  BY <1>1, <1>2

Steps == {"off", "poll", "store", "read", "assign", "wait", "sync"}

\* A task that begins: it is about no entry, and its context is the present one.
LEMMA NewTasks ==
  ASSUME NEW step \in Steps, NEW boot \in BOOLEAN
  PROVE  /\ Task(step, boot) \in TaskSet
         /\ Task(step, boot).step = step /\ Task(step, boot).until = "never"
         /\ ~Task(step, boot).dead
BY DEF Task, TaskSet, Dues, Steps

\* The task of a loop that waits.
LEMMA WaitingTask ==
  ASSUME NEW d \in Dues, WaitUntil(d)
  PROVE  /\ monitorTask' \in TaskSet /\ monitorTask'.step = "wait" /\ monitorTask'.until = d
         /\ ~monitorTask'.dead /\ status' = "READY"
<1>1. monitorTask' = [Task("wait", FALSE) EXCEPT !.until = d] /\ status' = "READY"
  BY DEF WaitUntil
<1>2. Task("wait", FALSE) \in TaskSet /\ Task("wait", FALSE).step = "wait"
      /\ ~Task("wait", FALSE).dead
  BY NewTasks DEF Steps
<1>3. QED  BY <1>1, <1>2 DEF TaskSet

\* A loop that waits for the due time of its context c has not lost a wake-up.
LEMMA WaitsForContext ==
  ASSUME NEW c \in ContextSet, NEW t \in TaskSet, NEW w \in BOOLEAN, t.step = "wait", ~t.dead,
         w \/ t.until = c.due \/ c.due = "never",
         c.loaded /\ (c.remote # {} \/ LocalChanges(c) # {}) => c.due # "never"
  PROVE  WaitInv(c, t, w)
<1>1. c.due \in Dues /\ t.until \in Dues  BY DEF ContextSet, TaskSet
<1>2. QED  BY <1>1, DueRanks DEF WaitInv, Dues

\* What is stored depends on the answer of a poll only while it is about to be stored.
LEMMA SameStorage ==
  ASSUME NEW r, NEW s, NEW t, NEW u, StorageInv(r, s, t),
         \/ u.step # "store"
         \/ u.step = t.step /\ u.checkpoint = t.checkpoint /\ u.changes = t.changes
  PROVE  StorageInv(r, s, u)
<1>1. CASE u.step # "store"  BY <1>1 DEF StorageInv
<1>2. CASE u.step = t.step /\ u.checkpoint = t.checkpoint /\ u.changes = t.changes
  BY <1>2 DEF StorageInv, Noting
<1>3. QED  BY <1>1, <1>2

-----------------------------------------------------------------------------
(* The sync monitor: every step keeps its invariant *)

LEMMA EmptyQueue == \A b \in BOOLEAN : QueueOK([on |-> b, events |-> <<>>])
<1>1. Len(<<>>) = 0 /\ 0 <= QueueLimit  BY SyncMonitorAssumption
<1>2. QED  BY <1>1 DEF QueueOK

LEMMA MonitorInitOK == ASSUME SyncMonInit PROVE MonitorInv
<1>1. Task("off", FALSE) \in TaskSet /\ Task("off", FALSE).step = "off" /\ ~Task("off", FALSE).dead
  BY NewTasks DEF Steps
<1> DEFINE ones == [e \in Entries |-> 1]
<1>a. ones \in [Entries -> Nat] /\ \A e \in Entries : ones[e] = 1  OBVIOUS
<1>b. /\ realm = [version |-> ones, changed |-> ones, index |-> 1, role |-> "CONTRIBUTOR",
                  maintenance |-> FALSE]
      /\ storage = [need |-> {}, base |-> ones, remote |-> ones, checkpoint |-> 0]
  BY DEF SyncMonInit
<1> HIDE DEF ones
<1>2. MonitorTyped
  <2>1. realm \in RealmSet /\ storage \in StorageSet
    BY <1>a, <1>b DEF RealmSet, StorageSet, WorkspaceRoles
  <2>2. QED  BY <1>1, <2>1, NewContexts, EmptyQueue
             DEF SyncMonInit, MonitorTyped, WorkspaceRoles, MonitorOff
<1>3. StorageInv(realm, storage, monitorTask)
  <2>1. monitorTask.step = "off"  BY <1>1 DEF SyncMonInit, MonitorOff
  <2>2. QED  BY <1>a, <1>b, <2>1 DEF StorageInv, Existing, Covers
<1>4. WaitInv(ctx, monitorTask, wakeup)
  BY <1>1 DEF SyncMonInit, WaitInv, MonitorOff
<1>5. QED  BY <1>2, <1>3, <1>4 DEF MonitorInv

\* A version uploaded to the server is news to the device, and to the poll it has made.
LEMMA NewVersionOK ==
  ASSUME NEW r \in RealmSet, NEW q \in RealmSet, NEW s \in StorageSet, NEW t \in TaskSet,
         StorageInv(r, s, t), NEW e \in Entries,
         q = [r EXCEPT !.version[e] = @ + 1, !.index = @ + 1, !.changed[e] = r.index + 1]
  PROVE  StorageInv(q, s, t)
<1>1. /\ q.index = r.index + 1 /\ q.version[e] = r.version[e] + 1 /\ q.changed[e] = r.index + 1
      /\ \A f \in Entries \ {e} : q.version[f] = r.version[f] /\ q.changed[f] = r.changed[f]
  BY DEF RealmSet
<1>2. r.index \in Nat /\ q.index \in Nat /\ s.checkpoint \in Nat /\ t.checkpoint \in Nat
  BY DEF RealmSet, StorageSet, TaskSet
<1>3. \A f \in Entries : /\ r.version[f] \in Nat /\ r.changed[f] \in Nat /\ s.base[f] \in Nat
                         /\ s.remote[f] \in Nat /\ t.changes[f] \in Nat
  BY DEF RealmSet, StorageSet, TaskSet
<1>4. QED  BY <1>1, <1>2, <1>3 DEF StorageInv, Existing, Covers

LEMMA NewVersionTyped ==
  ASSUME realm \in RealmSet, NEW e \in Entries
  PROVE  NewVersion(e) \in RealmSet
<1>1. realm.version \in [Entries -> Nat] /\ realm.changed \in [Entries -> Nat]
      /\ realm.index \in Nat
  BY DEF RealmSet
<1>2. /\ [realm.version EXCEPT ![e] = @ + 1] \in [Entries -> Nat]
      /\ [realm.changed EXCEPT ![e] = realm.index + 1] \in [Entries -> Nat]
  BY <1>1
<1>3. QED  BY <1>1, <1>2 DEF NewVersion, RealmSet

LEMMA OtherUploadsOK ==
  ASSUME MonitorInv, NEW e \in Entries, OtherUploads(e)
  PROVE  MonitorInv'
<1>1. realm' \in RealmSet  BY NewVersionTyped DEF MonitorInv, MonitorTyped, OtherUploads
<1>2. QueueOK(queue')
  <2>1. QueueOK(queue) /\ OnRealmEvent(e)  BY DEF MonitorInv, MonitorTyped, OtherUploads
  <2>2. CASE queue' = queue  BY <2>1, <2>2
  <2>3. CASE Len(queue.events) < QueueLimit
             /\ queue' = [queue EXCEPT !.events = Append(queue.events, e)]
    <3>1. queue.events \in Seq(Entries)  BY <2>1 DEF QueueOK
    <3>2. /\ Append(queue.events, e) \in Seq(Entries)
          /\ Len(Append(queue.events, e)) = Len(queue.events) + 1
          /\ Len(queue.events) \in Nat
      BY <3>1
    <3>3. QueueLimit \in Nat  BY SyncMonitorAssumption
    <3>4. Len(Append(queue.events, e)) <= QueueLimit  BY <2>3, <3>2, <3>3
    <3>5. QED  BY <2>1, <2>3, <3>2, <3>4 DEF QueueOK
  <2>4. QED  BY <2>1, <2>2, <2>3 DEF OnRealmEvent
<1>3. StorageInv(realm', storage, monitorTask)
  BY <1>1, NewVersionOK DEF MonitorInv, MonitorTyped, OtherUploads, NewVersion
<1>4. QED  BY <1>1, <1>2, <1>3 DEF MonitorInv, MonitorTyped, OtherUploads

\* The role and the maintenance are not read from what is stored.
LEMMA SameVersions ==
  ASSUME NEW r, NEW q, NEW s, NEW t, StorageInv(r, s, t),
         q.version = r.version, q.changed = r.changed, q.index = r.index
  PROVE  StorageInv(q, s, t)
BY DEF StorageInv, Existing, Covers

LEMMA RealmDisturbedOK ==
  ASSUME MonitorInv, (\E r \in WorkspaceRoles : RoleChanges(r)) \/ MaintenanceStarts
                     \/ MaintenanceEnds
  PROVE  MonitorInv'
<1>1. /\ realm' \in RealmSet
      /\ realm'.version = realm.version /\ realm'.changed = realm.changed
      /\ realm'.index = realm.index
  BY DEF MonitorInv, MonitorTyped, RealmSet, RoleChanges, MaintenanceStarts, MaintenanceEnds
<1>2. UNCHANGED <<queue, storage, status, ctx, monitorTask, wakeup, role>>
  BY DEF RoleChanges, MaintenanceStarts, MaintenanceEnds
<1>3. StorageInv(realm', storage, monitorTask)  BY <1>1, SameVersions DEF MonitorInv
<1>4. QED  BY <1>1, <1>2, <1>3 DEF MonitorInv, MonitorTyped

LEMMA ManagerConnectOK == ASSUME MonitorInv, ManagerConnect PROVE MonitorInv'
<1>1. /\ Task("wait", FALSE) \in TaskSet /\ Task("poll", TRUE) \in TaskSet
      /\ Task("wait", FALSE).step = "wait" /\ Task("poll", TRUE).step = "poll"
      /\ ~Task("wait", FALSE).dead /\ ~Task("poll", TRUE).dead
  BY NewTasks DEF Steps
<1>2. UNCHANGED <<realm, storage, role>> /\ wakeup' = FALSE
      /\ queue' = [on |-> TRUE, events |-> <<>>] /\ status' \in {"READY", "INITIALIZING"}
  BY DEF ManagerConnect
<1>3. CASE role = "none"
  <2>1. monitorTask' = Task("wait", FALSE) /\ ctx' = NoContext  BY <1>3 DEF ManagerConnect
  <2>2. MonitorTyped'
    BY <1>1, <1>2, <2>1, NewContexts, EmptyQueue DEF MonitorInv, MonitorTyped
  <2>3. StorageInv(realm, storage, monitorTask')  BY <1>1, <2>1, SameStorage DEF MonitorInv
  <2>4. WaitInv(ctx', monitorTask', wakeup')
    BY <1>1, <1>2, <2>1, NewContexts, WaitsForContext
  <2>5. QED  BY <1>2, <2>2, <2>3, <2>4 DEF MonitorInv
<1>4. CASE role # "none"
  <2>1. monitorTask' = Task("poll", TRUE) /\ ctx' = NewContext(role)  BY <1>4 DEF ManagerConnect
  <2>2. role \in WorkspaceRoles  BY DEF MonitorInv, MonitorTyped
  <2>3. MonitorTyped'
    BY <1>1, <1>2, <2>1, <2>2, NewContexts, EmptyQueue DEF MonitorInv, MonitorTyped
  <2>4. StorageInv(realm, storage, monitorTask')  BY <1>1, <2>1, SameStorage DEF MonitorInv
  <2>5. WaitInv(ctx', monitorTask', wakeup')  BY <1>1, <2>1, <2>2, NewContexts DEF WaitInv
  <2>6. QED  BY <1>2, <2>3, <2>4, <2>5 DEF MonitorInv
<1>5. QED  BY <1>3, <1>4

LEMMA ConnectionLostOK == ASSUME MonitorInv, ConnectionLost PROVE MonitorInv'
<1>1. Task("off", FALSE) \in TaskSet /\ Task("off", FALSE).step = "off" /\ ~Task("off", FALSE).dead
  BY NewTasks DEF Steps
<1>2. /\ UNCHANGED <<realm, storage, role>> /\ queue' = [on |-> FALSE, events |-> <<>>]
      /\ status' = "LOST" /\ wakeup' = FALSE /\ monitorTask' = Task("off", FALSE)
      /\ ctx' = NoContext
  BY DEF ConnectionLost, Disconnected, MonitorOff
<1>3. MonitorTyped'
  BY <1>1, <1>2, NewContexts, EmptyQueue DEF MonitorInv, MonitorTyped
<1>4. StorageInv(realm, storage, monitorTask')  BY <1>1, <1>2, SameStorage DEF MonitorInv
<1>5. WaitInv(ctx', monitorTask', wakeup')  BY <1>1, <1>2 DEF WaitInv
<1>6. QED  BY <1>2, <1>3, <1>4, <1>5 DEF MonitorInv

\* A context without a due time in which nothing is loaded is one to wait with for ever.
LEMMA UnloadedWaits ==
  ASSUME NEW c \in ContextSet, NEW t \in TaskSet, NEW w \in BOOLEAN, ~c.loaded,
         w \/ c.due = "never"
  PROVE  WaitInv(c, t, w)
<1>1. t.until \in Dues  BY DEF TaskSet
<1>2. QED  BY <1>1, DueRanks DEF WaitInv

\* The context that an event is noted in (SyncContextStore.get).
LEMMA ContextOfOK ==
  ASSUME MonitorInv
  PROVE  ContextOf(ctx) \in ContextSet /\ WaitInv(ContextOf(ctx), monitorTask, wakeup)
<1>1. ctx \in ContextSet /\ role \in WorkspaceRoles /\ monitorTask \in TaskSet /\ wakeup \in BOOLEAN
  BY DEF MonitorInv, MonitorTyped
<1>2. WaitInv(NewContext(role), monitorTask, wakeup)  BY <1>1, NewContexts, UnloadedWaits
<1>3. QED  BY <1>1, <1>2, NewContexts DEF MonitorInv, ContextOf

\* The task of the monitor reads nothing of an entry that is marked as modified meanwhile.
LEMMA SameWait ==
  ASSUME NEW c, NEW t, NEW u, NEW w, WaitInv(c, t, w),
         u.step = t.step, u.until = t.until, u.dead = t.dead
  PROVE  WaitInv(c, u, w)
BY DEF WaitInv

LEMMA SetLocalChangeOK ==
  ASSUME NEW c \in ContextSet, NEW t \in TaskSet, wakeup \in BOOLEAN, WaitInv(c, t, wakeup),
         NEW e \in Entries, SetLocalChange(c, e)
  PROVE  ctx' \in ContextSet /\ wakeup' \in BOOLEAN /\ WaitInv(ctx', t, wakeup')
<1>1. CASE c.readOnly
  <2>1. ctx' = c /\ wakeup' = wakeup  BY <1>1 DEF SetLocalChange, TriggerWakeup
  <2>2. QED  BY <2>1
<1>2. CASE ~c.readOnly
  <2>1. PICK due \in ChangedDue(c.local[e]) :
          LET wake == DueRank(due) <= DueRank(c.due)
          IN  /\ ctx' = [c EXCEPT !.local[e] = due, !.due = IF wake THEN due ELSE @]
              /\ TriggerWakeup(wake)
    BY <1>2 DEF SetLocalChange
  <2>2. due \in {"now", "later"} /\ DueRank(due) \in {0, 1}  BY DueRanks DEF ChangedDue
  <2> DEFINE wake == DueRank(due) <= DueRank(c.due)
  <2>3. /\ ctx' = [c EXCEPT !.local[e] = due, !.due = IF wake THEN due ELSE @]
        /\ wakeup' = (wakeup \/ wake)
    BY <2>1 DEF TriggerWakeup
  <2>4. c.due \in Dues /\ t.until \in Dues  BY DEF ContextSet, TaskSet
  <2>5. DueRank(c.due) \in 0..2 /\ DueRank(t.until) \in 0..2  BY <2>4, DueRanks
  <2>6. c.due = "never" => wake  BY <2>2, DueRanks
  <2>7. wakeup' \in BOOLEAN /\ (wakeup' <=> wakeup \/ wake)  BY <2>3
  <2> HIDE DEF wake
  <2>8. /\ ctx' \in ContextSet /\ ctx'.loaded = c.loaded
        /\ ctx'.due = IF wake THEN due ELSE c.due
    <3>1. c.local \in [Entries -> {"now", "later", NotPending}]  BY DEF ContextSet
    <3>2. [c.local EXCEPT ![e] = due] \in [Entries -> {"now", "later", NotPending}]
      BY <2>2, <3>1
    <3>3. ctx' = [c EXCEPT !.local = [c.local EXCEPT ![e] = due],
                           !.due = IF wake THEN due ELSE c.due]
      BY <2>3
    <3>4. (IF wake THEN due ELSE c.due) \in Dues  BY <2>2, <2>4 DEF Dues
    <3>5. QED  BY <3>2, <3>3, <3>4 DEF ContextSet
  <2>9. ctx'.due # "never"  BY <2>2, <2>6, <2>8
  <2>10. WaitInv(ctx', t, wakeup')  BY <2>6, <2>7, <2>8, <2>9 DEF WaitInv
  <2>11. QED  BY <2>7, <2>8, <2>10
<1>3. QED  BY <1>1, <1>2

LEMMA EditEntryOK ==
  ASSUME MonitorInv, NEW e \in Entries, EditEntry(e)
  PROVE  MonitorInv'
<1>1. /\ ctx \in ContextSet /\ monitorTask \in TaskSet /\ wakeup \in BOOLEAN
      /\ storage \in StorageSet
  BY DEF MonitorInv, MonitorTyped
<1>2. /\ storage' = [storage EXCEPT !.need = storage.need \cup {e}]
      /\ UNCHANGED <<realm, queue, status, role>>
      /\ monitorTask' = [monitorTask EXCEPT
           !.dirtied = monitorTask.dirtied \/ monitorTask.entry = e]
  BY DEF EditEntry
<1>3. /\ monitorTask' \in TaskSet /\ monitorTask'.step = monitorTask.step
      /\ monitorTask'.until = monitorTask.until /\ monitorTask'.dead = monitorTask.dead
      /\ monitorTask'.checkpoint = monitorTask.checkpoint
      /\ monitorTask'.changes = monitorTask.changes /\ monitorTask'.entry = monitorTask.entry
  BY <1>1, <1>2 DEF TaskSet
<1>4. /\ storage' \in StorageSet /\ storage'.base = storage.base
      /\ storage'.remote = storage.remote /\ storage'.checkpoint = storage.checkpoint
  BY <1>1, <1>2 DEF StorageSet
<1>5. ctx' \in ContextSet /\ wakeup' \in BOOLEAN /\ WaitInv(ctx', monitorTask, wakeup')
  <2>1. CASE MonitorOn
    <3>1. SetLocalChange(ContextOf(ctx), e)  BY <2>1 DEF EditEntry
    <3>2. QED  BY <3>1, <1>1, ContextOfOK, SetLocalChangeOK
  <2>2. CASE ~MonitorOn
    <3>1. UNCHANGED <<ctx, wakeup>>  BY <2>2 DEF EditEntry
    <3>2. QED  BY <3>1, <1>1 DEF MonitorInv
  <2>3. QED  BY <2>1, <2>2
<1>6. WaitInv(ctx', monitorTask', wakeup')  BY <1>3, <1>5, SameWait
<1>7. StorageInv(realm, storage, monitorTask')  BY <1>3, SameStorage DEF MonitorInv
<1>8. StorageInv(realm, storage', monitorTask')  BY <1>4, <1>7 DEF StorageInv, Noting
<1>9. MonitorTyped'  BY <1>2, <1>3, <1>4, <1>5 DEF MonitorInv, MonitorTyped
<1>10. QED  BY <1>2, <1>6, <1>8, <1>9 DEF MonitorInv

LEMMA ListenEventOK == ASSUME MonitorInv, ListenEvent PROVE MonitorInv'
<1> DEFINE c == ContextOf(ctx)
           e == Head(queue.events)
<1>1. /\ QueueOK(queue) /\ monitorTask \in TaskSet /\ queue.events # <<>>
      /\ queue' = [queue EXCEPT !.events = Tail(queue.events)]
      /\ UNCHANGED <<realm, storage, status, monitorTask, role>>
  BY DEF MonitorInv, MonitorTyped, ListenEvent
<1>2. QueueOK(queue') /\ e \in Entries
  <2>1. queue.events \in Seq(Entries) /\ Len(queue.events) <= QueueLimit  BY <1>1 DEF QueueOK
  <2>2. /\ Tail(queue.events) \in Seq(Entries) /\ e \in Entries
        /\ Len(Tail(queue.events)) = Len(queue.events) - 1 /\ Len(queue.events) \in Nat
    BY <1>1, <2>1
  <2>3. QueueLimit \in Nat  BY SyncMonitorAssumption
  <2>4. Len(Tail(queue.events)) <= QueueLimit  BY <2>1, <2>2, <2>3
  <2>5. QED  BY <1>1, <2>2, <2>4 DEF QueueOK
<1>3. c \in ContextSet /\ WaitInv(c, monitorTask, wakeup)  BY ContextOfOK
<1>4. ctx' = [c EXCEPT !.remote = c.remote \cup {e}, !.due = "now"] /\ wakeup' = TRUE
  BY DEF ListenEvent, SetRemoteChange, TriggerWakeup
<1> HIDE DEF c, e
<1>5. ctx' \in ContextSet /\ ctx'.loaded = c.loaded /\ ctx'.due = "now"
  BY <1>2, <1>3, <1>4 DEF ContextSet, Dues
<1>6. WaitInv(ctx', monitorTask, wakeup')  BY <1>3, <1>4, <1>5 DEF WaitInv
<1>7. MonitorTyped'  BY <1>1, <1>2, <1>4, <1>5 DEF MonitorInv, MonitorTyped
<1>8. QED  BY <1>1, <1>6, <1>7 DEF MonitorInv

LEMMA SharingUpdatedOK == ASSUME MonitorInv, SharingUpdated PROVE MonitorInv'
<1>1. /\ monitorTask \in TaskSet /\ wakeup \in BOOLEAN /\ realm \in RealmSet
      /\ monitorTask' = [monitorTask EXCEPT !.dead = TRUE] /\ role' = realm.role
      /\ UNCHANGED <<realm, queue, storage, status>>
  BY DEF MonitorInv, MonitorTyped, SharingUpdated
<1>2. /\ monitorTask' \in TaskSet /\ monitorTask'.step = monitorTask.step
      /\ monitorTask'.checkpoint = monitorTask.checkpoint
      /\ monitorTask'.changes = monitorTask.changes /\ monitorTask'.entry = monitorTask.entry
  BY <1>1 DEF TaskSet
<1>3. realm.role \in WorkspaceRoles  BY <1>1 DEF RealmSet
<1>4. /\ ctx' \in ContextSet /\ wakeup' \in BOOLEAN /\ ~ctx'.loaded
      /\ wakeup' \/ ctx'.due = "never"
  <2>1. CASE realm.role = "none"
    <3>1. ctx' = NoContext /\ wakeup' = wakeup  BY <1>1, <2>1 DEF SharingUpdated, TriggerWakeup
    <3>2. QED  BY <1>1, <3>1, NewContexts
  <2>2. CASE realm.role # "none"
    <3>1. ctx' = [NewContext(realm.role) EXCEPT !.due = "now"] /\ wakeup' = TRUE
      BY <2>2 DEF SharingUpdated, TriggerWakeup
    <3>2. QED  BY <1>3, <3>1, NewContexts DEF ContextSet, Dues
  <2>3. QED  BY <2>1, <2>2
<1>5. WaitInv(ctx', monitorTask', wakeup')  BY <1>2, <1>4, UnloadedWaits
<1>6. StorageInv(realm, storage, monitorTask')  BY <1>2, SameStorage DEF MonitorInv
<1>7. MonitorTyped'  BY <1>1, <1>2, <1>3, <1>4 DEF MonitorInv, MonitorTyped
<1>8. QED  BY <1>1, <1>5, <1>6, <1>7 DEF MonitorInv

LEMMA TimePassesOK == ASSUME MonitorInv, TimePasses PROVE MonitorInv'
<1> DEFINE local == [e \in Entries |-> Elapse(ctx.local[e])]
<1>1. /\ ctx \in ContextSet /\ monitorTask \in TaskSet /\ wakeup \in BOOLEAN
      /\ ctx' = [ctx EXCEPT !.due = Elapse(ctx.due), !.local = local]
      /\ monitorTask' = [monitorTask EXCEPT !.until = Elapse(monitorTask.until)]
      /\ UNCHANGED <<realm, queue, storage, status, wakeup, role>>
  BY DEF MonitorInv, MonitorTyped, TimePasses
<1>2. ctx.due \in Dues /\ monitorTask.until \in Dues
  BY <1>1 DEF ContextSet, TaskSet
<1>3. \A d \in Dues : /\ Elapse(d) \in Dues /\ (Elapse(d) = "never" <=> d = "never")
  BY DEF Elapse, Dues
<1>4. \A d, f \in Dues : DueRank(d) <= DueRank(f) => DueRank(Elapse(d)) <= DueRank(Elapse(f))
  BY DueRanks DEF Elapse, Dues
<1>5. ctx.local \in [Entries -> {"now", "later", NotPending}]  BY <1>1 DEF ContextSet
<1>6. /\ local \in [Entries -> {"now", "later", NotPending}]
      /\ \A e \in Entries : local[e] = NotPending <=> ctx.local[e] = NotPending
  BY <1>5 DEF Elapse, NotPending
<1> HIDE DEF local
<1>7. /\ ctx' \in ContextSet /\ ctx'.loaded = ctx.loaded /\ ctx'.remote = ctx.remote
      /\ ctx'.due = Elapse(ctx.due) /\ ctx'.local = local
  BY <1>1, <1>2, <1>3, <1>6 DEF ContextSet
<1>8. /\ monitorTask' \in TaskSet /\ monitorTask'.step = monitorTask.step
      /\ monitorTask'.checkpoint = monitorTask.checkpoint /\ monitorTask'.dead = monitorTask.dead
      /\ monitorTask'.changes = monitorTask.changes /\ monitorTask'.entry = monitorTask.entry
      /\ monitorTask'.until = Elapse(monitorTask.until)
  BY <1>1, <1>2, <1>3 DEF TaskSet
<1>9. LocalChanges(ctx') = LocalChanges(ctx)  BY <1>6, <1>7 DEF LocalChanges
<1>10. WaitInv(ctx', monitorTask', wakeup')
  <2>1. WaitInv(ctx, monitorTask, wakeup)  BY DEF MonitorInv
  <2>2. QED  BY <2>1, <1>1, <1>2, <1>3, <1>4, <1>7, <1>8, <1>9 DEF WaitInv
<1>11. StorageInv(realm, storage, monitorTask')  BY <1>8, SameStorage DEF MonitorInv
<1>12. MonitorTyped'  BY <1>1, <1>7, <1>8 DEF MonitorInv, MonitorTyped
<1>13. QED  BY <1>1, <1>10, <1>11, <1>12 DEF MonitorInv

\* The loop waits for the due time of its context, or of none when it was discarded.
LEMMA WaitUntilOK ==
  ASSUME MonitorTyped, StorageInv(realm, storage, monitorTask), NEW d \in Dues, WaitUntil(d),
         ctx' \in ContextSet, UNCHANGED <<realm, queue, storage, role>>, wakeup' \in BOOLEAN,
         wakeup' \/ d = ctx'.due \/ ctx'.due = "never",
         ctx'.loaded /\ (ctx'.remote # {} \/ LocalChanges(ctx') # {}) => ctx'.due # "never"
  PROVE  MonitorInv'
<1>1. /\ monitorTask' \in TaskSet /\ monitorTask'.step = "wait" /\ monitorTask'.until = d
      /\ ~monitorTask'.dead /\ status' = "READY"
  BY WaitingTask
<1>2. WaitInv(ctx', monitorTask', wakeup')  BY <1>1, WaitsForContext
<1>3. StorageInv(realm, storage, monitorTask')  BY <1>1, SameStorage
<1>4. MonitorTyped'  BY <1>1 DEF MonitorTyped
<1>5. QED  BY <1>2, <1>3, <1>4 DEF MonitorInv

LEMMA PollChangesOK == ASSUME MonitorInv, PollChanges PROVE MonitorInv'
<1>1. /\ MonitorTyped /\ StorageInv(realm, storage, monitorTask)
      /\ WaitInv(ctx, monitorTask, wakeup) /\ monitorTask.step = "poll"
      /\ UNCHANGED <<realm, queue, storage, ctx, wakeup, role>>
  BY DEF MonitorInv, PollChanges
<1>2. /\ ctx \in ContextSet /\ wakeup \in BOOLEAN /\ monitorTask \in TaskSet /\ ctx.due \in Dues
      /\ realm \in RealmSet /\ storage \in StorageSet
  BY <1>1 DEF MonitorTyped, ContextSet
<1>3. ~ctx.loaded /\ (monitorTask.dead => wakeup \/ ctx.due = "never")  BY <1>1 DEF WaitInv
<1>4. CASE realm.role = "none" \/ realm.maintenance
  <2>1. WaitUntil(Returned(ctx))  BY <1>4 DEF PollChanges
  <2>2. Returned(ctx) \in Dues /\ (wakeup \/ Returned(ctx) = ctx.due \/ ctx.due = "never")
    BY <1>2, <1>3 DEF Returned, Dues
  <2>3. QED  BY <1>1, <1>2, <1>3, <2>1, <2>2, WaitUntilOK
<1>5. CASE ~(realm.role = "none" \/ realm.maintenance)
  <2> DEFINE ch == [e \in Entries |->
                      IF realm.changed[e] > storage.checkpoint THEN realm.version[e] ELSE 0]
  <2>1. /\ monitorTask' = [monitorTask EXCEPT !.step = "store", !.checkpoint = realm.index,
                                              !.changes = ch]
        /\ UNCHANGED status
    BY <1>5 DEF PollChanges
  <2>2. /\ realm.version \in [Entries -> Nat] /\ realm.changed \in [Entries -> Nat]
        /\ storage.base \in [Entries -> Nat] /\ storage.remote \in [Entries -> Nat]
        /\ realm.index \in Nat /\ storage.checkpoint \in Nat
    BY <1>2 DEF RealmSet, StorageSet
  <2>3. ch \in [Entries -> Nat]
        /\ \A e \in Entries : ch[e] = IF realm.changed[e] > storage.checkpoint
                                      THEN realm.version[e] ELSE 0
    BY <2>2
  <2> HIDE DEF ch
  <2>4. /\ monitorTask' \in TaskSet /\ monitorTask'.step = "store"
        /\ monitorTask'.checkpoint = realm.index /\ monitorTask'.changes = ch
        /\ monitorTask'.dead = monitorTask.dead
    BY <1>2, <2>1, <2>2, <2>3 DEF TaskSet
  <2>5. StorageInv(realm, storage, monitorTask')
    <3>1. Existing(realm, ch)  BY <2>2, <2>3 DEF Existing
    <3>2. Covers(realm, storage.base, Noting(storage, monitorTask'), realm.index)
      <4>1. ASSUME NEW e \in Entries,
                   realm.version[e] \notin {storage.base[e], Noting(storage, monitorTask')[e]}
            PROVE  FALSE
        <5>1. Noting(storage, monitorTask')[e] = IF ch[e] # 0 THEN ch[e] ELSE storage.remote[e]
          BY <2>4 DEF Noting
        <5>2. realm.version[e] # 0 /\ (realm.version[e] \notin {storage.base[e], storage.remote[e]}
                                        => realm.changed[e] > storage.checkpoint)
          BY <1>1 DEF StorageInv, Covers
        <5>3. QED  BY <4>1, <5>1, <5>2, <2>3
      <4>2. QED  BY <4>1 DEF Covers
    <3>3. realm.index <= realm.index  BY <2>2
    <3>4. QED  BY <1>1, <2>4, <3>1, <3>2, <3>3 DEF StorageInv
  <2>6. WaitInv(ctx, monitorTask', wakeup)  BY <1>1, <1>3, <2>4 DEF WaitInv
  <2>7. MonitorTyped'  BY <1>1, <2>1, <2>4 DEF MonitorTyped
  <2>8. QED  BY <1>1, <2>5, <2>6, <2>7 DEF MonitorInv
<1>6. QED  BY <1>4, <1>5

LEMMA StoreChangesOK == ASSUME MonitorInv, StoreChanges PROVE MonitorInv'
<1> DEFINE v == Noting(storage, monitorTask)
<1>1. /\ MonitorTyped /\ StorageInv(realm, storage, monitorTask)
      /\ WaitInv(ctx, monitorTask, wakeup) /\ monitorTask.step = "store"
      /\ UNCHANGED <<realm, queue, status, ctx, wakeup, role>>
      /\ storage' = [storage EXCEPT !.checkpoint = monitorTask.checkpoint, !.remote = v]
      /\ monitorTask' = [monitorTask EXCEPT !.step = "read"]
  BY DEF MonitorInv, StoreChanges, UpdateRealmCheckpoint, Noting
<1>2. monitorTask \in TaskSet /\ realm \in RealmSet /\ storage \in StorageSet
  BY <1>1 DEF MonitorTyped
<1>3. /\ v \in [Entries -> Nat]
      /\ \A e \in Entries : v[e] = IF monitorTask.changes[e] # 0 THEN monitorTask.changes[e]
                                   ELSE storage.remote[e]
  BY <1>2 DEF Noting, TaskSet, StorageSet
<1>4. /\ monitorTask.checkpoint <= realm.index /\ Existing(realm, monitorTask.changes)
      /\ Covers(realm, storage.base, v, monitorTask.checkpoint)
  BY <1>1 DEF StorageInv
<1>5. Existing(realm, v)  BY <1>1, <1>3, <1>4 DEF Existing, StorageInv
<1> HIDE DEF v
<1>6. /\ monitorTask' \in TaskSet /\ monitorTask'.step = "read"
      /\ monitorTask'.dead = monitorTask.dead
  BY <1>1, <1>2 DEF TaskSet
<1>7. /\ storage' \in StorageSet /\ storage'.checkpoint = monitorTask.checkpoint
      /\ storage'.remote = v /\ storage'.base = storage.base
  BY <1>1, <1>2, <1>3 DEF StorageSet, TaskSet
<1>8. StorageInv(realm, storage', monitorTask')
  BY <1>1, <1>4, <1>5, <1>6, <1>7 DEF StorageInv
<1>9. WaitInv(ctx, monitorTask', wakeup)  BY <1>1, <1>6 DEF WaitInv
<1>10. MonitorTyped'  BY <1>1, <1>6, <1>7 DEF MonitorTyped
<1>11. QED  BY <1>1, <1>8, <1>9, <1>10 DEF MonitorInv

LEMMA ReadChangesOK == ASSUME MonitorInv, ReadChanges PROVE MonitorInv'
<1>1. /\ MonitorTyped /\ StorageInv(realm, storage, monitorTask)
      /\ WaitInv(ctx, monitorTask, wakeup) /\ monitorTask.step = "read"
      /\ UNCHANGED <<realm, queue, storage, status, ctx, wakeup, role>>
      /\ monitorTask' = [monitorTask EXCEPT !.step = "assign", !.local = NeedSyncEntries.local,
                                            !.remote = NeedSyncEntries.remote]
  BY DEF MonitorInv, ReadChanges
<1>2. monitorTask \in TaskSet /\ storage \in StorageSet  BY <1>1 DEF MonitorTyped
<1>3. NeedSyncEntries.local \in SUBSET Entries /\ NeedSyncEntries.remote \in SUBSET Entries
  BY <1>2 DEF NeedSyncEntries, StorageSet
<1>4. /\ monitorTask' \in TaskSet /\ monitorTask'.step = "assign"
      /\ monitorTask'.dead = monitorTask.dead
  BY <1>1, <1>2, <1>3 DEF TaskSet
<1>5. StorageInv(realm, storage, monitorTask')  BY <1>1, <1>4, SameStorage
<1>6. WaitInv(ctx, monitorTask', wakeup)  BY <1>1, <1>4 DEF WaitInv
<1>7. MonitorTyped'  BY <1>1, <1>4 DEF MonitorTyped
<1>8. QED  BY <1>1, <1>5, <1>6, <1>7 DEF MonitorInv

\* A context that is given the due time of what it has noted.
LEMMA DueContext ==
  ASSUME NEW c \in ContextSet, NEW least \in {"now", "later"}, NEW d,
         d = [c EXCEPT !.due = ComputeDueTime(c, least)]
  PROVE  /\ d \in ContextSet /\ d.due \in Dues
         /\ d.remote # {} \/ LocalChanges(d) # {} => d.due # "never"
<1>1. ComputeDueTime(c, least) \in Dues  BY NotedHasTime
<1>2. /\ d \in ContextSet /\ d.due = ComputeDueTime(c, least)
      /\ d.remote = c.remote /\ d.local = c.local
  BY <1>1 DEF ContextSet
<1>3. LocalChanges(d) = LocalChanges(c)  BY <1>2 DEF LocalChanges
<1>4. QED  BY <1>1, <1>2, <1>3, NotedHasTime

\* The change of the entry e is handled: it is removed from the context first.
LEMMA BeginSyncOK ==
  ASSUME MonitorTyped, StorageInv(realm, storage, monitorTask), NEW e \in Entries,
         NEW b \in BOOLEAN, monitorTask' = [Task("sync", b) EXCEPT !.entry = e],
         ctx' \in ContextSet, UNCHANGED <<realm, queue, storage, status, role>>,
         wakeup' \in BOOLEAN
  PROVE  MonitorInv'
<1>1. Task("sync", b) \in TaskSet /\ Task("sync", b).step = "sync" /\ ~Task("sync", b).dead
  BY NewTasks DEF Steps
<1>2. /\ monitorTask' \in TaskSet /\ monitorTask'.step = "sync" /\ monitorTask'.entry = e
      /\ ~monitorTask'.dead
  BY <1>1 DEF TaskSet
<1>3. StorageInv(realm, storage, monitorTask')  BY <1>2, SameStorage
<1>4. WaitInv(ctx', monitorTask', wakeup')  BY <1>2 DEF WaitInv
<1>5. MonitorTyped'  BY <1>2 DEF MonitorTyped
<1>6. QED  BY <1>3, <1>4, <1>5 DEF MonitorInv

LEMMA PickOK ==
  ASSUME MonitorTyped, StorageInv(realm, storage, monitorTask), NEW c \in ContextSet, Pick(c),
         UNCHANGED <<realm, queue, storage, role>>, wakeup' \in BOOLEAN
  PROVE  MonitorInv'
<1>1. /\ c.local \in [Entries -> {"now", "later", NotPending}] /\ c.remote \in SUBSET Entries
  BY DEF ContextSet
<1>2. ASSUME NEW e \in c.remote, ctx' = [c EXCEPT !.remote = c.remote \ {e}],
             monitorTask' = [Task("sync", FALSE) EXCEPT !.entry = e], UNCHANGED status
      PROVE  MonitorInv'
  <2>1. ctx' \in ContextSet /\ e \in Entries  BY <1>1, <1>2 DEF ContextSet
  <2>2. QED  BY <1>2, <2>1, BeginSyncOK
<1>3. ASSUME NEW e \in Entries, ctx' = [c EXCEPT !.local[e] = NotPending],
             monitorTask' = [Task("sync", TRUE) EXCEPT !.entry = e], UNCHANGED status
      PROVE  MonitorInv'
  <2>1. [c.local EXCEPT ![e] = NotPending] \in [Entries -> {"now", "later", NotPending}]
    BY <1>1
  <2>2. ctx' = [c EXCEPT !.local = [c.local EXCEPT ![e] = NotPending]]  BY <1>3
  <2>3. ctx' \in ContextSet  BY <2>1, <2>2 DEF ContextSet
  <2>4. QED  BY <1>3, <2>3, BeginSyncOK
<1>4. ASSUME ctx' = [c EXCEPT !.due = ComputeDueTime(c, "now")], WaitUntil(ctx'.due)
      PROVE  MonitorInv'
  <2>1. /\ ctx' \in ContextSet /\ ctx'.due \in Dues
        /\ ctx'.remote # {} \/ LocalChanges(ctx') # {} => ctx'.due # "never"
    BY <1>4, DueContext
  <2>2. QED  BY <1>4, <2>1, WaitUntilOK
<1>5. QED  BY <1>2, <1>3, <1>4 DEF Pick

LEMMA LoadedContextOK ==
  ASSUME monitorTask \in TaskSet, NEW c \in ContextSet
  PROVE  /\ LoadedContext(c) \in ContextSet /\ LoadedContext(c).due \in Dues
         /\ LoadedContext(c).remote # {} \/ LocalChanges(LoadedContext(c)) # {} =>
              LoadedContext(c).due # "never"
<1> DEFINE local == IF c.readOnly THEN c.local
                    ELSE [e \in Entries |->
                            IF e \in monitorTask.local THEN "later" ELSE NotPending]
           d == [c EXCEPT !.loaded = TRUE, !.remote = monitorTask.remote, !.local = local]
<1>1. local \in [Entries -> {"now", "later", NotPending}]  BY DEF ContextSet
<1>2. LoadedContext(c) = [d EXCEPT !.due = ComputeDueTime(d, "now")]  BY DEF LoadedContext
<1> HIDE DEF local
<1>3. d \in ContextSet  BY <1>1 DEF ContextSet, TaskSet
<1> HIDE DEF d
<1>4. QED  BY <1>2, <1>3, DueContext

LEMMA AssignChangesOK == ASSUME MonitorInv, AssignChanges PROVE MonitorInv'
<1>1. /\ MonitorTyped /\ StorageInv(realm, storage, monitorTask)
      /\ WaitInv(ctx, monitorTask, wakeup) /\ monitorTask.step = "assign"
      /\ UNCHANGED <<realm, queue, storage, wakeup, role>>
  BY DEF MonitorInv, AssignChanges
<1>2. ctx \in ContextSet /\ wakeup \in BOOLEAN /\ monitorTask \in TaskSet
  BY <1>1 DEF MonitorTyped
<1>3. CASE monitorTask.dead
  <2>1. WaitUntil("never") /\ UNCHANGED ctx  BY <1>1, <1>3 DEF AssignChanges
  <2>2. ~ctx.loaded /\ (wakeup \/ ctx.due = "never")  BY <1>1, <1>3 DEF WaitInv
  <2>3. "never" \in Dues  BY DEF Dues
  <2>4. QED  BY <1>1, <1>2, <2>1, <2>2, <2>3, WaitUntilOK
<1>4. CASE ~monitorTask.dead /\ monitorTask.boot
  <2>1. ctx' = LoadedContext(ctx) /\ WaitUntil(ctx'.due)  BY <1>1, <1>4 DEF AssignChanges
  <2>2. QED  BY <1>1, <1>2, <2>1, LoadedContextOK, WaitUntilOK
<1>5. CASE ~monitorTask.dead /\ ~monitorTask.boot
  <2>1. Pick(LoadedContext(ctx))  BY <1>1, <1>5 DEF AssignChanges
  <2>2. QED  BY <1>1, <1>2, <2>1, LoadedContextOK, PickOK
<1>6. QED  BY <1>3, <1>4, <1>5

LEMMA WakeUpOK == ASSUME MonitorInv, WakeUp PROVE MonitorInv'
<1>1. /\ MonitorTyped /\ StorageInv(realm, storage, monitorTask)
      /\ WaitInv(ctx, monitorTask, wakeup) /\ monitorTask.step = "wait"
      /\ UNCHANGED <<realm, queue, storage, role>>
  BY DEF MonitorInv, WakeUp
<1>2. /\ ctx \in ContextSet /\ wakeup' \in BOOLEAN /\ monitorTask \in TaskSet /\ ctx.due \in Dues
  BY <1>1 DEF MonitorTyped, ContextSet, WakeUp
<1>3. CASE ctx.due # "now"
  <2>1. WaitUntil(ctx.due) /\ ctx' = ctx  BY <1>3 DEF WakeUp, Tick
  <2>2. ctx.loaded /\ (ctx.remote # {} \/ LocalChanges(ctx) # {}) => ctx.due # "never"
    BY <1>1 DEF WaitInv
  <2>3. QED  BY <1>1, <1>2, <2>1, <2>2, WaitUntilOK
<1>4. CASE ctx.due = "now" /\ ctx.loaded
  <2>1. Pick(ctx)  BY <1>4 DEF WakeUp, Tick
  <2>2. QED  BY <1>1, <1>2, <2>1, PickOK
<1>5. CASE ctx.due = "now" /\ ~ctx.loaded
  <2>1. /\ ctx' = [ctx EXCEPT !.due = "never"] /\ monitorTask' = Task("poll", FALSE)
        /\ UNCHANGED status
    BY <1>5 DEF WakeUp, Tick
  <2>2. ctx' \in ContextSet /\ ~ctx'.loaded  BY <1>2, <1>5, <2>1 DEF ContextSet, Dues
  <2>3. monitorTask' \in TaskSet /\ monitorTask'.step = "poll" /\ ~monitorTask'.dead
    BY <2>1, NewTasks DEF Steps
  <2>4. StorageInv(realm, storage, monitorTask')  BY <1>1, <2>3, SameStorage
  <2>5. WaitInv(ctx', monitorTask', wakeup')  BY <2>2, <2>3 DEF WaitInv
  <2>6. MonitorTyped'  BY <1>1, <1>2, <2>1, <2>2, <2>3 DEF MonitorTyped
  <2>7. QED  BY <1>1, <2>4, <2>5, <2>6 DEF MonitorInv
<1>6. QED  BY <1>3, <1>4, <1>5

\* The device knows the version of an entry that it has just synchronized.
LEMMA SyncedOK ==
  ASSUME MonitorTyped, StorageInv(realm, storage, monitorTask), monitorTask.step = "sync",
         NEW e \in Entries, Synced(e)
  PROVE  /\ realm' \in RealmSet /\ storage' \in StorageSet
         /\ StorageInv(realm', storage', monitorTask)
<1>1. realm \in RealmSet /\ storage \in StorageSet /\ monitorTask \in TaskSet
  BY DEF MonitorTyped
<1>2. realm' \in RealmSet /\ StorageInv(realm', storage, monitorTask)
  <2>1. CASE realm' = NewVersion(e)
    <3>1. realm' \in RealmSet  BY <1>1, <2>1, NewVersionTyped
    <3>2. QED  BY <1>1, <2>1, <3>1, NewVersionOK DEF NewVersion
  <2>2. CASE UNCHANGED realm  BY <1>1, <2>2
  <2>3. QED  BY <2>1, <2>2 DEF Synced
<1>3. PICK need \in SUBSET Entries :
        storage' = [storage EXCEPT !.base[e] = realm'.version[e], !.remote[e] = realm'.version[e],
                                   !.need = need]
  <2>1. CASE e \in storage.need
    <3>1. storage' = [storage EXCEPT !.base[e] = realm'.version[e],
                        !.remote[e] = realm'.version[e],
                        !.need = IF monitorTask.dirtied THEN storage.need ELSE storage.need \ {e}]
      BY <2>1 DEF Synced
    <3>2. (IF monitorTask.dirtied THEN storage.need ELSE storage.need \ {e}) \in SUBSET Entries
      BY <1>1 DEF StorageSet
    <3>3. QED  BY <3>1, <3>2
  <2>2. CASE e \notin storage.need
    <3>1. storage' = [storage EXCEPT !.base[e] = realm'.version[e],
                                     !.remote[e] = realm'.version[e]]
      BY <2>2 DEF Synced
    <3>2. storage' = [storage EXCEPT !.base[e] = realm'.version[e],
                        !.remote[e] = realm'.version[e], !.need = storage.need]
      BY <1>1, <3>1 DEF StorageSet
    <3>3. storage.need \in SUBSET Entries  BY <1>1 DEF StorageSet
    <3>4. QED  BY <3>2, <3>3
  <2>3. QED  BY <2>1, <2>2
<1>4. /\ storage.base \in [Entries -> Nat] /\ storage.remote \in [Entries -> Nat]
      /\ realm'.version \in [Entries -> Nat]
  BY <1>1, <1>2 DEF StorageSet, RealmSet
<1>5. /\ storage'.base = [storage.base EXCEPT ![e] = realm'.version[e]]
      /\ storage'.remote = [storage.remote EXCEPT ![e] = realm'.version[e]]
      /\ storage'.checkpoint = storage.checkpoint
      /\ storage' \in StorageSet
  BY <1>1, <1>3, <1>4 DEF StorageSet
<1>6. /\ storage'.base[e] = realm'.version[e] /\ storage'.remote[e] = realm'.version[e]
      /\ \A f \in Entries \ {e} : /\ storage'.base[f] = storage.base[f]
                                  /\ storage'.remote[f] = storage.remote[f]
  BY <1>4, <1>5
<1>7. StorageInv(realm', storage', monitorTask)
  <2>1. Existing(realm', storage'.base) /\ Existing(realm', storage'.remote)
    BY <1>2, <1>4, <1>6 DEF StorageInv, Existing
  <2>2. Covers(realm', storage'.base, storage'.remote, storage'.checkpoint)
    BY <1>2, <1>5, <1>6 DEF StorageInv, Covers
  <2>3. QED  BY <1>2, <1>5, <2>1, <2>2 DEF StorageInv
<1>8. QED  BY <1>2, <1>5, <1>7

LEMMA TickSyncOK == ASSUME MonitorInv, TickSync PROVE MonitorInv'
<1> DEFINE c == IF EntryRefused THEN AfterRefusal(ctx) ELSE ctx
           least == IF EntryRefused THEN "later" ELSE "now"
<1>1. /\ MonitorTyped /\ StorageInv(realm, storage, monitorTask)
      /\ WaitInv(ctx, monitorTask, wakeup) /\ monitorTask.step = "sync"
      /\ UNCHANGED <<queue, wakeup, role>> /\ monitorTask.entry \in Entries
  BY DEF MonitorInv, MonitorTyped, TickSync
<1>2. ctx \in ContextSet /\ wakeup \in BOOLEAN /\ monitorTask \in TaskSet
  BY <1>1 DEF MonitorTyped
<1>3. /\ realm' \in RealmSet /\ storage' \in StorageSet
      /\ StorageInv(realm', storage', monitorTask)
  <2>1. CASE EntryRefused
    <3>1. UNCHANGED <<realm, storage>>  BY <2>1 DEF TickSync
    <3>2. QED  BY <1>1, <3>1 DEF MonitorTyped
  <2>2. CASE ~EntryRefused
    <3>1. Synced(monitorTask.entry)  BY <2>2 DEF TickSync
    <3>2. QED  BY <1>1, <3>1, SyncedOK
  <2>3. QED  BY <2>1, <2>2
<1>4. c \in ContextSet
  <2>1. ctx.local \in [Entries -> {"now", "later", NotPending}]  BY <1>2 DEF ContextSet
  <2>2. [ctx.local EXCEPT ![monitorTask.entry] = "later"]
          \in [Entries -> {"now", "later", NotPending}]
    BY <1>1, <2>1
  <2>3. [ctx EXCEPT !.local = [ctx.local EXCEPT ![monitorTask.entry] = "later"]] \in ContextSet
    BY <1>2, <2>2 DEF ContextSet
  <2>4. [ctx EXCEPT !.remote = ctx.remote \cup {monitorTask.entry}] \in ContextSet
    BY <1>1, <1>2 DEF ContextSet
  <2>5. QED  BY <1>2, <2>3, <2>4 DEF AfterRefusal, PutBack
<1>5. least \in {"now", "later"}  OBVIOUS
<1>6. /\ ctx' = IF monitorTask.dead THEN ctx ELSE [c EXCEPT !.due = ComputeDueTime(c, least)]
      /\ WaitUntil(Returned(ctx'))
  BY DEF TickSync
<1> HIDE DEF c, least
<1>7. /\ ctx' \in ContextSet /\ Returned(ctx') \in Dues
      /\ wakeup \/ Returned(ctx') = ctx'.due \/ ctx'.due = "never"
      /\ ctx'.loaded /\ (ctx'.remote # {} \/ LocalChanges(ctx') # {}) => ctx'.due # "never"
  <2>1. CASE monitorTask.dead
    <3>1. ctx' = ctx /\ Returned(ctx') = "never"  BY <1>6, <2>1 DEF Returned
    <3>2. ~ctx.loaded /\ (wakeup \/ ctx.due = "never")  BY <1>1, <2>1 DEF WaitInv
    <3>3. QED  BY <1>2, <3>1, <3>2 DEF Dues
  <2>2. CASE ~monitorTask.dead
    <3>1. ctx' = [c EXCEPT !.due = ComputeDueTime(c, least)]  BY <1>6, <2>2
    <3>2. Returned(ctx') = ctx'.due  BY <2>2 DEF Returned
    <3>3. QED  BY <1>4, <1>5, <3>1, <3>2, DueContext
  <2>3. QED  BY <2>1, <2>2
<1>8. /\ monitorTask' \in TaskSet /\ monitorTask'.step = "wait"
      /\ monitorTask'.until = Returned(ctx') /\ ~monitorTask'.dead /\ status' = "READY"
  BY <1>6, <1>7, WaitingTask
<1>9. WaitInv(ctx', monitorTask', wakeup')  BY <1>1, <1>2, <1>7, <1>8, WaitsForContext
<1>10. StorageInv(realm', storage', monitorTask')  BY <1>3, <1>8, SameStorage
<1>11. MonitorTyped'  BY <1>1, <1>3, <1>7, <1>8 DEF MonitorTyped
<1>12. QED  BY <1>9, <1>10, <1>11 DEF MonitorInv

LEMMA TickCrashOK == ASSUME MonitorInv, TickCrash PROVE MonitorInv'
<1>1. /\ MonitorTyped /\ StorageInv(realm, storage, monitorTask) /\ role \in WorkspaceRoles
      /\ UNCHANGED <<realm, queue, storage, wakeup, role>> /\ wakeup \in BOOLEAN
      /\ ctx' = [NewContext(role) EXCEPT !.due = "later"] /\ WaitUntil("later")
  BY DEF MonitorInv, MonitorTyped, TickCrash
<1>2. ctx' \in ContextSet /\ ~ctx'.loaded /\ ctx'.due = "later"
  BY <1>1, NewContexts DEF ContextSet, Dues
<1>3. "later" \in Dues  BY DEF Dues
<1>4. QED  BY <1>1, <1>2, <1>3, WaitUntilOK

-----------------------------------------------------------------------------
(* The sync monitor: what its invariant shows *)

\* What the run of the client tasks checks of the monitor.
LEMMA MonitorShown == ASSUME MonitorInv PROVE MonitorIsSound
<1>1. MonitorTyped /\ StorageInv(realm, storage, monitorTask) /\ WaitInv(ctx, monitorTask, wakeup)
  BY DEF MonitorInv
<1>2. SyncMonTypeOK
  BY <1>1 DEF SyncMonTypeOK, MonitorTyped, StorageInv, Existing, QueueOK, RealmSet, StorageSet,
              ContextSet, TaskSet
<1>3. NothingSkipped  BY <1>1 DEF NothingSkipped, StorageInv, Covers
<1>4. NoLostWakeup /\ NotedIsDue  BY <1>1 DEF NoLostWakeup, NotedIsDue, WaitInv
<1>5. QED  BY <1>2, <1>3, <1>4 DEF MonitorIsSound

\* Whatever the role, the maintenances, the errors and the losses of the connection do to the
\* tasks of the sync monitor, the checkpoint of its storage never passes a change that the
\* device has not noted, it never waits longer than its context is due, and what a loaded
\* context has noted has a due time.
THEOREM MonitorStaysSound == SyncMonSpec => []MonitorIsSound
<1>1. SyncMonInit => MonitorInv  BY MonitorInitOK
<1>2. MonitorInv /\ [SyncMonNext]_syncMonVars => MonitorInv'
  <2> SUFFICES ASSUME MonitorInv, [SyncMonNext]_syncMonVars PROVE MonitorInv'
    OBVIOUS
  <2>1. CASE MonitorStep
    BY <2>1, PollChangesOK, StoreChangesOK, ReadChangesOK, AssignChangesOK, WakeUpOK, TickSyncOK
    DEF MonitorStep
  <2>2. CASE TickCrash \/ ManagerConnect \/ ConnectionLost
    BY <2>2, TickCrashOK, ManagerConnectOK, ConnectionLostOK
  <2>3. CASE ListenEvent \/ SharingUpdated \/ TimePasses
    BY <2>3, ListenEventOK, SharingUpdatedOK, TimePassesOK
  <2>4. CASE MaintenanceStarts \/ MaintenanceEnds \/ \E r \in WorkspaceRoles : RoleChanges(r)
    BY <2>4, RealmDisturbedOK
  <2>5. CASE \E e \in Entries : OtherUploads(e) \/ EditEntry(e)
    BY <2>5, OtherUploadsOK, EditEntryOK
  <2>6. CASE UNCHANGED syncMonVars
    BY <2>6 DEF syncMonVars, MonitorInv, MonitorTyped
  <2>7. QED  BY <2>1, <2>2, <2>3, <2>4, <2>5, <2>6 DEF SyncMonNext
<1>3. MonitorInv => MonitorIsSound  BY MonitorShown
<1>4. QED  BY <1>1, <1>2, <1>3, PTL DEF SyncMonSpec

-----------------------------------------------------------------------------
(* The mountpoints: their inductive invariant *)

RunnerSet ==
  [key : MountKeys, phase : {"bootstrap", "waiting", "running", "torn", "stopping", "ended"},
   thread : {"none", "spawned", "begun", "mounting", "serving", "stopped"}, path : Nat,
   started : BOOLEAN, cancelled : BOOLEAN, exit : BOOLEAN, readOnly : BOOLEAN,
   loop : {"check", "wait", "to read only", "to writable"}, noted : BOOLEAN]
CallSet ==
  [op : {"none", "loading", "starting", "joining"}, runner : Nat, old : MountKeys,
   key : MountKeys]

\* A thread has a place as long as its runner is there; without it, it will not serve.
RunnerOK(x) ==
  /\ x.thread \in {"spawned", "begun", "mounting", "serving"} /\ x.phase # "ended" => x.path # 0
  /\ x.phase = "ended" => x.thread \notin {"mounting", "serving"}
  /\ x.started => x.phase # "bootstrap"
  /\ x.phase \in {"bootstrap", "waiting"} => x.loop = "check"

\* With driver d and role a: a volume agrees, or will once it has restarted, with the role
\* since the last change of it that its runner has not handled.
RoleOK(x, d, a) ==
  d = "winfsp" /\ x.phase = "running" /\ ~x.noted /\ a # "NONE" =>
    /\ x.loop = "wait" => x.readOnly = (a = "READER")
    /\ x.loop = "to read only" => a = "READER"
    /\ x.loop = "to writable" => a # "READER"

RunnersOK(s, d, a) ==
  /\ s \in Seq(RunnerSet) /\ Len(s) <= MaxRunners
  /\ \A r \in DOMAIN s : RunnerOK(s[r]) /\ RoleOK(s[r], d, a)
RecordsOK(t, s) == \A key \in DOMAIN t : t[key] \in DOMAIN s /\ s[t[key]].started
CallsOK(f, s) ==
  /\ f \in [MountCallers -> CallSet]
  /\ \A c \in MountCallers : f[c].op \in {"starting", "joining"} => f[c].runner \in DOMAIN s

MountInv ==
  /\ position \in Positions /\ RunnersOK(runners, driver, access)
  /\ RecordsOK(mountpointTasks, runners) /\ CallsOK(mountCalls, runners)

-----------------------------------------------------------------------------
(* The mountpoints: the drive letters *)

\* Whatever the step m that is not a multiple of 19, it leads from any letter to any other.
LEMMA StepsReachAll ==
  ASSUME NEW m \in 1..18, NEW i \in 0..18, NEW t \in 0..18
  PROVE  \E y \in 0..18 : (i + y * m) % 19 = t
<1>1. CASE m = 1
  <2> DEFINE y == (1 * (t - i + 19)) % 19
  <2>1. y \in 0..18 /\ (i + y * 1) % 19 = t  OBVIOUS
  <2>2. QED  BY <1>1, <2>1
<1>2. CASE m = 2
  <2> DEFINE y == (10 * (t - i + 19)) % 19
  <2>1. y \in 0..18 /\ (i + y * 2) % 19 = t  OBVIOUS
  <2>2. QED  BY <1>2, <2>1
<1>3. CASE m = 3
  <2> DEFINE y == (13 * (t - i + 19)) % 19
  <2>1. y \in 0..18 /\ (i + y * 3) % 19 = t  OBVIOUS
  <2>2. QED  BY <1>3, <2>1
<1>4. CASE m = 4
  <2> DEFINE y == (5 * (t - i + 19)) % 19
  <2>1. y \in 0..18 /\ (i + y * 4) % 19 = t  OBVIOUS
  <2>2. QED  BY <1>4, <2>1
<1>5. CASE m = 5
  <2> DEFINE y == (4 * (t - i + 19)) % 19
  <2>1. y \in 0..18 /\ (i + y * 5) % 19 = t  OBVIOUS
  <2>2. QED  BY <1>5, <2>1
<1>6. CASE m = 6
  <2> DEFINE y == (16 * (t - i + 19)) % 19
  <2>1. y \in 0..18 /\ (i + y * 6) % 19 = t  OBVIOUS
  <2>2. QED  BY <1>6, <2>1
<1>7. CASE m = 7
  <2> DEFINE y == (11 * (t - i + 19)) % 19
  <2>1. y \in 0..18 /\ (i + y * 7) % 19 = t  OBVIOUS
  <2>2. QED  BY <1>7, <2>1
<1>8. CASE m = 8
  <2> DEFINE y == (12 * (t - i + 19)) % 19
  <2>1. y \in 0..18 /\ (i + y * 8) % 19 = t  OBVIOUS
  <2>2. QED  BY <1>8, <2>1
<1>9. CASE m = 9
  <2> DEFINE y == (17 * (t - i + 19)) % 19
  <2>1. y \in 0..18 /\ (i + y * 9) % 19 = t  OBVIOUS
  <2>2. QED  BY <1>9, <2>1
<1>10. CASE m = 10
  <2> DEFINE y == (2 * (t - i + 19)) % 19
  <2>1. y \in 0..18 /\ (i + y * 10) % 19 = t  OBVIOUS
  <2>2. QED  BY <1>10, <2>1
<1>11. CASE m = 11
  <2> DEFINE y == (7 * (t - i + 19)) % 19
  <2>1. y \in 0..18 /\ (i + y * 11) % 19 = t  OBVIOUS
  <2>2. QED  BY <1>11, <2>1
<1>12. CASE m = 12
  <2> DEFINE y == (8 * (t - i + 19)) % 19
  <2>1. y \in 0..18 /\ (i + y * 12) % 19 = t  OBVIOUS
  <2>2. QED  BY <1>12, <2>1
<1>13. CASE m = 13
  <2> DEFINE y == (3 * (t - i + 19)) % 19
  <2>1. y \in 0..18 /\ (i + y * 13) % 19 = t  OBVIOUS
  <2>2. QED  BY <1>13, <2>1
<1>14. CASE m = 14
  <2> DEFINE y == (15 * (t - i + 19)) % 19
  <2>1. y \in 0..18 /\ (i + y * 14) % 19 = t  OBVIOUS
  <2>2. QED  BY <1>14, <2>1
<1>15. CASE m = 15
  <2> DEFINE y == (14 * (t - i + 19)) % 19
  <2>1. y \in 0..18 /\ (i + y * 15) % 19 = t  OBVIOUS
  <2>2. QED  BY <1>15, <2>1
<1>16. CASE m = 16
  <2> DEFINE y == (6 * (t - i + 19)) % 19
  <2>1. y \in 0..18 /\ (i + y * 16) % 19 = t  OBVIOUS
  <2>2. QED  BY <1>16, <2>1
<1>17. CASE m = 17
  <2> DEFINE y == (9 * (t - i + 19)) % 19
  <2>1. y \in 0..18 /\ (i + y * 17) % 19 = t  OBVIOUS
  <2>2. QED  BY <1>17, <2>1
<1>18. CASE m = 18
  <2> DEFINE y == (18 * (t - i + 19)) % 19
  <2>1. y \in 0..18 /\ (i + y * 18) % 19 = t  OBVIOUS
  <2>2. QED  BY <1>18, <2>1
<1>19. QED  BY <1>1, <1>2, <1>3, <1>4, <1>5, <1>6, <1>7, <1>8, <1>9, <1>10,
               <1>11, <1>12, <1>13, <1>14, <1>15, <1>16, <1>17, <1>18

\* The remainder of a sum with a multiple of another number.
LEMMA StepRemainder ==
  ASSUME NEW n \in Nat, NEW y \in Nat, NEW len \in Nat
  PROVE  (n + y * len) % 19 = ((n % 19) + y * (len % 19)) % 19
<1> DEFINE a == n \div 19
           b == n % 19
           c == len \div 19
           d == len % 19
<1>1. /\ n = 19 * a + b /\ a \in Nat /\ b \in 0..18
      /\ len = 19 * c + d /\ c \in Nat /\ d \in 0..18
  OBVIOUS
<1> HIDE DEF a, b, c, d
<1>2. y * len = 19 * (y * c) + y * d
  <2>1. y * len = y * (19 * c + d)  BY <1>1
  <2>2. y * (19 * c + d) = 19 * (y * c) + y * d  BY <1>1
  <2>3. QED  BY <2>1, <2>2
<1>3. y * c \in Nat /\ y * d \in Nat  BY <1>1
<1> DEFINE p == y * c
           q == y * d
<1>4. y * len = 19 * p + q /\ p \in Nat /\ q \in Nat  BY <1>2, <1>3
<1> HIDE DEF p, q
<1>5. n + y * len = 19 * (a + p) + (b + q)  BY <1>1, <1>4
<1>6. (19 * (a + p) + (b + q)) % 19 = (b + q) % 19  BY <1>1, <1>4
<1>7. QED  BY <1>5, <1>6 DEF b, d, q

\* Every letter is tried, from any position, when the rounded length is not a multiple of the
\* number of letters (sorted_drive_letters asserts it).
LEMMA AllLettersTried == ASSUME position \in Positions PROVE EveryDriveIsTried
<1> SUFFICES ASSUME LengthsAreCoprime
             PROVE  {MountLetters[k] : k \in 1..19} = 1..19
  BY DEF EveryDriveIsTried, DriveLetters
<1> DEFINE n == position[1]
           len == Rounded(position[2], 5)
<1>1. n \in Nat /\ position[2] \in Nat  BY MountAssumption
<1>2. len \in Nat  BY <1>1 DEF Rounded
<1>3. len % 19 \in 1..18  BY <1>2 DEF LengthsAreCoprime, DriveLetters
<1>4. n % 19 \in 0..18  BY <1>1
<1>5. \A k \in 1..19 : MountLetters[k] = ((n + (k - 1) * len) % 19) + 1
  BY DEF MountLetters, SortedDriveLetters, DriveLetters
<1> HIDE DEF n, len
<1>6. ASSUME NEW k \in 1..19  PROVE  MountLetters[k] \in 1..19
  <2>1. (k - 1) * len \in Nat  BY <1>2
  <2> DEFINE z == n + (k - 1) * len
  <2>2. z \in Nat  BY <1>1, <2>1
  <2>3. MountLetters[k] = (z % 19) + 1  BY <1>5
  <2> HIDE DEF z
  <2>4. QED  BY <2>2, <2>3
<1>7. ASSUME NEW t \in 1..19  PROVE  \E k \in 1..19 : MountLetters[k] = t
  <2> DEFINE m == len % 19
             i == n % 19
             u == t - 1
  <2>1. m \in 1..18 /\ i \in 0..18 /\ u \in 0..18  BY <1>3, <1>4
  <2> HIDE DEF m, i, u
  <2>2. PICK y \in 0..18 : (i + y * m) % 19 = u  BY <2>1, StepsReachAll
  <2>3. (n + y * len) % 19 = (i + y * m) % 19  BY <1>1, <1>2, StepRemainder DEF m, i
  <2>4. MountLetters[y + 1] = ((n + y * len) % 19) + 1
    <3>1. y + 1 \in 1..19 /\ (y + 1) - 1 = y  OBVIOUS
    <3>2. QED  BY <1>5, <3>1
  <2>5. MountLetters[y + 1] = t  BY <2>2, <2>3, <2>4 DEF u
  <2>6. y + 1 \in 1..19  OBVIOUS
  <2>7. QED  BY <2>5, <2>6
<1>8. QED  BY <1>6, <1>7

\* A set of numbers has a least one.
LEMMA LeastNumber ==
  ASSUME NEW T \in SUBSET Nat, T # {}
  PROVE  \E x \in T : \A y \in T : x <= y
<1>1. PICK x \in T : \A y \in T : <<y, x>> \notin OpToRel(<, Nat)
  BY NatLessThanWellFounded, WFMin, Zenon
<1>2. \A y \in T : ~(y < x)  BY <1>1 DEF OpToRel
<1>3. QED  BY <1>2

\* With fewer runners than places, one of the places is not served.
LEMMA SomePlaceIsFree ==
  ASSUME MountInv
  PROVE  \E p \in 1..MaxRunners + 1 : p \notin Served
<1> SUFFICES ASSUME 1..MaxRunners + 1 \subseteq Served PROVE FALSE
  OBVIOUS
<1> DEFINE n == Len(runners)
           serving == {r \in DOMAIN runners : runners[r].thread = "serving"}
           f == [r \in serving |-> runners[r].path]
<1>1. n \in Nat /\ DOMAIN runners = 1..n /\ n <= MaxRunners /\ MaxRunners \in Nat
  BY LenProperties, MountAssumption DEF MountInv, RunnersOK
<1> HIDE DEF n
<1>2. IsFiniteSet(1..n) /\ Cardinality(1..n) = n  BY <1>1, FS_Interval
<1>3. serving \in SUBSET (1..n)  BY <1>1
<1>4. IsFiniteSet(serving) /\ Cardinality(serving) <= n /\ Cardinality(serving) \in Nat
  BY <1>2, <1>3, FS_Subset, FS_CardinalityType
<1>5. Served = {f[r] : r \in serving}  BY DEF Served
<1>6. f \in Surjection(serving, Served)  BY <1>5 DEF Surjection
<1> HIDE DEF f, serving
<1>7. IsFiniteSet(Served) /\ Cardinality(Served) <= Cardinality(serving)
      /\ Cardinality(Served) \in Nat
  BY <1>4, <1>6, FS_Surjection, FS_CardinalityType
<1>8. Cardinality(1..MaxRunners + 1) = MaxRunners + 1  BY <1>1, FS_Interval
<1>9. Cardinality(1..MaxRunners + 1) <= Cardinality(Served)  BY <1>7, FS_Subset
<1>10. QED  BY <1>1, <1>4, <1>7, <1>8, <1>9

\* The place that a runner takes is one.
LEMMA PlaceIsOne ==
  ASSUME MountInv, PlaceIsFound
  PROVE  FirstFree \in Nat \ {0}
<1>1. CASE driver = "fuse"
  <2> DEFINE free == {p \in 1..MaxRunners + 1 : p \notin Served}
  <2>1. MaxRunners \in Nat  BY MountAssumption
  <2>2. free \in SUBSET Nat /\ free # {}  BY <2>1, SomePlaceIsFree
  <2> HIDE DEF free
  <2>3. PICK x \in free : \A y \in free : x <= y  BY <2>2, LeastNumber
  <2> USE DEF free
  <2>4. x \in 1..MaxRunners + 1 /\ x \notin Served /\ \A q \in 1..x - 1 : q \in Served
    BY <2>1, <2>3
  <2>5. FirstFree \in 1..MaxRunners + 1  BY <1>1, <2>4 DEF FirstFree
  <2>6. QED  BY <2>1, <2>5
<1>2. CASE driver # "fuse"
  <2> DEFINE free == {k \in 1..19 : MountLetters[k] \notin Served}
  <2>1. free \in SUBSET Nat /\ free # {}  BY <1>2 DEF PlaceIsFound, DriveLetters
  <2> HIDE DEF free
  <2>2. PICK x \in free : \A y \in free : x <= y  BY <2>1, LeastNumber
  <2> USE DEF free
  <2>3. x \in 1..19 /\ MountLetters[x] \notin Served
        /\ \A j \in 1..x - 1 : MountLetters[j] \in Served
    BY <2>2
  <2> HIDE DEF free
  <2>4. \E k \in 1..19 : FirstFree = MountLetters[k]
    BY <1>2, <2>3 DEF FirstFree, DriveLetters
  <2>5. PICK k \in 1..19 : FirstFree = MountLetters[k]  BY <2>4
  <2>6. {MountLetters[j] : j \in 1..19} = 1..19
    BY <1>2, AllLettersTried DEF MountInv, EveryDriveIsTried, PlaceIsFound, DriveLetters
  <2>7. MountLetters[k] \in 1..19  BY <2>6
  <2>8. QED  BY <2>5, <2>7
<1>3. QED  BY <1>1, <1>2

-----------------------------------------------------------------------------
(* The mountpoints: the runners *)

\* One runner is changed: the others, and what refers to them, are as before.
LEMMA OneRunner ==
  ASSUME NEW s, NEW d, NEW a, RunnersOK(s, d, a), NEW r \in DOMAIN s,
         NEW x \in RunnerSet, RunnerOK(x), RoleOK(x, d, a), NEW u, u = [s EXCEPT ![r] = x]
  PROVE  /\ RunnersOK(u, d, a) /\ DOMAIN u = DOMAIN s /\ u[r] = x
         /\ \A q \in DOMAIN s : q # r => u[q] = s[q]
<1>1. s \in Seq(RunnerSet) /\ Len(s) <= MaxRunners  BY DEF RunnersOK
<1>2. DOMAIN s = 1..Len(s) /\ r \in 1..Len(s)  BY <1>1, LenProperties
<1>3. /\ u \in Seq(RunnerSet) /\ Len(u) = Len(s)
      /\ \A j \in 1..Len(s) : u[j] = IF j = r THEN x ELSE s[j]
  BY <1>1, <1>2, ExceptSeq
<1>4. DOMAIN u = DOMAIN s  BY <1>2
<1>5. QED  BY <1>1, <1>2, <1>3, <1>4 DEF RunnersOK

\* Every runner is changed at once.
LEMMA EveryRunner ==
  ASSUME NEW s, NEW d, NEW a, RunnersOK(s, d, a), NEW b, NEW u, NEW F,
         F \in [DOMAIN s -> RunnerSet], u = F,
         \A r \in DOMAIN s : RunnerOK(u[r]) /\ RoleOK(u[r], d, b)
  PROVE  RunnersOK(u, d, b) /\ DOMAIN u = DOMAIN s /\ Len(u) = Len(s)
<1>1. s \in Seq(RunnerSet) /\ Len(s) <= MaxRunners  BY DEF RunnersOK
<1>2. DOMAIN s = 1..Len(s) /\ Len(s) \in Nat  BY <1>1, LenProperties
<1>3. u \in [1..Len(s) -> RunnerSet]  BY <1>2
<1>4. u \in Seq(RunnerSet)  BY <1>2, <1>3, SeqDef
<1>5. DOMAIN u = 1..Len(u) /\ Len(u) \in Nat  BY <1>4, LenProperties
<1>6. DOMAIN u = DOMAIN s  BY <1>2, <1>3
<1>7. Len(u) = Len(s)  BY <1>2, <1>3, <1>4, <1>5
<1>8. QED  BY <1>1, <1>4, <1>6, <1>7 DEF RunnersOK

\* A runner begins.
OneMore(u, s, key) == u = Append(s, NewRunner(key))

LEMMA RunnerBegins ==
  ASSUME NEW s, NEW d, NEW a, RunnersOK(s, d, a), Len(s) < MaxRunners, NEW key \in MountKeys,
         NEW u, OneMore(u, s, key)
  PROVE  /\ RunnersOK(u, d, a) /\ Len(s) + 1 \in DOMAIN u /\ DOMAIN s \subseteq DOMAIN u
         /\ \A q \in DOMAIN s : u[q] = s[q]
<1>1. s \in Seq(RunnerSet) /\ Len(s) \in Nat /\ DOMAIN s = 1..Len(s)
  BY LenProperties DEF RunnersOK
<1>2. /\ NewRunner(key) \in RunnerSet /\ NewRunner(key).phase = "bootstrap"
      /\ NewRunner(key).thread = "none" /\ ~NewRunner(key).started
      /\ NewRunner(key).loop = "check"
  BY DEF NewRunner, RunnerSet
<1>3. RunnerOK(NewRunner(key)) /\ RoleOK(NewRunner(key), d, a)
  BY <1>2 DEF RunnerOK, RoleOK
<1> DEFINE x == NewRunner(key)
<1> HIDE DEF x
<1>4. x \in RunnerSet /\ RunnerOK(x) /\ RoleOK(x, d, a) /\ u = Append(s, x)
  BY <1>2, <1>3 DEF x, OneMore
<1>5. /\ u \in Seq(RunnerSet) /\ Len(u) = Len(s) + 1
      /\ \A i \in 1..Len(s) : u[i] = s[i]
      /\ u[Len(s) + 1] = x
  BY <1>1, <1>4, AppendProperties
<1>6. DOMAIN u = 1..Len(s) + 1  BY <1>1, <1>5, LenProperties
<1>7. MaxRunners \in Nat  BY MountAssumption
<1>8. Len(u) <= MaxRunners  BY <1>1, <1>5, <1>7
<1>9. \A i \in DOMAIN u : i \in DOMAIN s \/ i = Len(s) + 1  BY <1>1, <1>6
<1>10. QED  BY <1>1, <1>4, <1>5, <1>6, <1>8, <1>9 DEF RunnersOK

\* A record and a call refer to runners, which are never removed and stay started.
LEMMA RefersToSame ==
  ASSUME NEW t, NEW f, NEW s, NEW u, RecordsOK(t, s), CallsOK(f, s), DOMAIN s \subseteq DOMAIN u,
         \A r \in DOMAIN s : s[r].started => u[r].started
  PROVE  RecordsOK(t, u) /\ CallsOK(f, u)
BY DEF RecordsOK, CallsOK

\* Call c becomes call x.
LEMMA OneCall ==
  ASSUME NEW f, NEW s, CallsOK(f, s), NEW c \in MountCallers, NEW x \in CallSet,
         x.op \in {"starting", "joining"} => x.runner \in DOMAIN s
  PROVE  CallsOK([f EXCEPT ![c] = x], s)
BY DEF CallsOK

-----------------------------------------------------------------------------
(* The mountpoints: every step keeps the invariant *)

LEMMA MountInitOK == ASSUME MountInit PROVE MountInv
<1>1. NoCall \in CallSet /\ NoCall.op = "none"  BY MountAssumption DEF NoCall, CallSet
<1>2. RunnersOK(<<>>, driver, access)
  <2>1. <<>> \in Seq(RunnerSet) /\ Len(<<>>) = 0  BY EmptySeq
  <2>2. DOMAIN <<>> = {} /\ 0 <= MaxRunners  BY MountAssumption
  <2>3. QED  BY <2>1, <2>2 DEF RunnersOK
<1>3. RecordsOK(<<>>, <<>>) /\ CallsOK(mountCalls, <<>>)
  BY <1>1 DEF RecordsOK, CallsOK, MountInit
<1>4. QED  BY <1>2, <1>3 DEF MountInit, MountInv

\* The step of a runner.
LEMMA ChangeOK ==
  ASSUME MountInv, NEW r \in DOMAIN runners, NEW x \in RunnerSet, Change(r, x), UnchangedManager,
         RunnerOK(x), RoleOK(x, driver, access), runners[r].started => x.started
  PROVE  MountInv'
<1>1. /\ RunnersOK(runners', driver, access) /\ DOMAIN runners' = DOMAIN runners
      /\ runners'[r] = x /\ \A q \in DOMAIN runners : q # r => runners'[q] = runners[q]
  BY OneRunner DEF MountInv, Change
<1>2. RecordsOK(mountpointTasks, runners') /\ CallsOK(mountCalls, runners')
  BY <1>1, RefersToSame DEF MountInv
<1>3. QED  BY <1>1, <1>2 DEF MountInv, Change, UnchangedManager

\* The end of a runner, whose thread does not serve.
LEMMA EndRunnerOK ==
  ASSUME MountInv, NEW r \in DOMAIN runners, NEW th \in {"none", "spawned", "stopped"},
         EndRunner(r, th), UnchangedManager, runners[r].started => runners[r].phase # "bootstrap"
  PROVE  MountInv'
<1> DEFINE x == [NewRunner(runners[r].key) EXCEPT !.phase = "ended", !.thread = th,
                   !.started = runners[r].started, !.cancelled = TRUE]
<1>1. runners[r] \in RunnerSet  BY LenProperties, ElementOfSeq DEF MountInv, RunnersOK
<1>2. NewRunner(runners[r].key) \in RunnerSet  BY <1>1 DEF NewRunner, RunnerSet
<1>3. x \in RunnerSet /\ x.phase = "ended" /\ x.thread = th /\ x.started = runners[r].started
  BY <1>1, <1>2 DEF RunnerSet
<1>4. runners' = [runners EXCEPT ![r] = x]
      /\ mountpointTasks' = [key \in DOMAIN mountpointTasks \ {runners[r].key} |->
                               mountpointTasks[key]]
  BY DEF EndRunner
<1> HIDE DEF x
<1>5. RunnerOK(x) /\ RoleOK(x, driver, access)  BY <1>3 DEF RunnerOK, RoleOK
<1>6. /\ RunnersOK(runners', driver, access) /\ DOMAIN runners' = DOMAIN runners
      /\ runners'[r] = x /\ \A q \in DOMAIN runners : q # r => runners'[q] = runners[q]
  BY <1>3, <1>4, <1>5, OneRunner DEF MountInv
<1>7. RecordsOK(mountpointTasks, runners') /\ CallsOK(mountCalls, runners')
  BY <1>3, <1>6, RefersToSame DEF MountInv
<1>8. RecordsOK(mountpointTasks', runners')  BY <1>4, <1>7 DEF RecordsOK
<1>9. QED  BY <1>6, <1>7, <1>8 DEF MountInv, UnchangedManager

\* What is known of a runner.
LEMMA RunnerFacts ==
  ASSUME MountInv, NEW r \in DOMAIN runners
  PROVE  /\ runners[r] \in RunnerSet /\ RunnerOK(runners[r])
         /\ RoleOK(runners[r], driver, access)
<1>1. runners[r] \in RunnerSet  BY LenProperties, ElementOfSeq DEF MountInv, RunnersOK
<1>2. QED  BY <1>1 DEF MountInv, RunnersOK

LEMMA BootstrapOK ==
  ASSUME MountInv, NEW r \in DOMAIN runners, Bootstrap(r)
  PROVE  MountInv'
<1> DEFINE p == FirstFree
           o == driver = "winfsp" /\ ReadOnly
           x == [runners[r] EXCEPT !.phase = "waiting", !.thread = "spawned", !.path = p,
                                   !.readOnly = o]
<1>1. runners[r] \in RunnerSet /\ RunnerOK(runners[r]) /\ runners[r].phase = "bootstrap"
      /\ UnchangedManager
  BY RunnerFacts DEF Bootstrap
<1>2. CASE runners[r].cancelled \/ ~PlaceIsFound
  <2>1. EndRunner(r, "none")  BY <1>2 DEF Bootstrap
  <2>2. ~runners[r].started  BY <1>1 DEF RunnerOK
  <2>3. QED  BY <1>1, <2>1, <2>2, EndRunnerOK
<1>3. CASE ~runners[r].cancelled /\ PlaceIsFound
  <2>1. Change(r, x)  BY <1>3 DEF Bootstrap
  <2>2. p \in Nat \ {0} /\ o \in BOOLEAN  BY <1>3, PlaceIsOne
  <2> HIDE DEF p, o
  <2>3. /\ x \in RunnerSet /\ x.phase = "waiting" /\ x.path = p /\ x.loop = runners[r].loop
        /\ x.started = runners[r].started
    BY <1>1, <2>2 DEF RunnerSet
  <2> HIDE DEF x
  <2>4. RunnerOK(x) /\ RoleOK(x, driver, access)  BY <1>1, <2>2, <2>3 DEF RunnerOK, RoleOK
  <2>5. QED  BY <1>1, <2>1, <2>3, <2>4, ChangeOK
<1>4. QED  BY <1>2, <1>3

\* The thread th is the next one of runner r, whose volume is not concerned.
LEMMA ThreadOK ==
  ASSUME MountInv, NEW r \in DOMAIN runners,
         NEW th \in {"begun", "mounting", "serving", "stopped"}, NEW c \in BOOLEAN,
         runners[r].thread \in {"spawned", "begun", "mounting", "serving"},
         th \in {"mounting", "serving"} => runners[r].phase # "ended",
         NEW x, x = [runners[r] EXCEPT !.thread = th, !.cancelled = c],
         Change(r, x), UnchangedManager
  PROVE  MountInv'
<1>1. /\ runners[r] \in RunnerSet /\ RunnerOK(runners[r]) /\ RoleOK(runners[r], driver, access)
  BY RunnerFacts
<1>2. /\ x \in RunnerSet /\ x.thread = th /\ x.phase = runners[r].phase
      /\ x.path = runners[r].path /\ x.started = runners[r].started
      /\ x.loop = runners[r].loop /\ x.noted = runners[r].noted
      /\ x.readOnly = runners[r].readOnly
  BY <1>1 DEF RunnerSet
<1>3. RunnerOK(x) /\ RoleOK(x, driver, access)  BY <1>1, <1>2 DEF RunnerOK, RoleOK
<1>4. QED  BY <1>2, <1>3, ChangeOK

LEMMA ThreadsOK ==
  ASSUME MountInv, NEW r \in DOMAIN runners,
         FuseBegins(r) \/ FuseChecks(r) \/ FuseServes(r) \/ FuseStops(r) \/ WinStarts(r)
  PROVE  MountInv'
<1>1. /\ runners[r] \in RunnerSet /\ RunnerOK(runners[r]) /\ UnchangedManager
      /\ runners[r].cancelled \in BOOLEAN
  BY RunnerFacts DEF FuseBegins, FuseChecks, FuseServes, FuseStops, WinStarts, RunnerSet
<1>2. \A th : [runners[r] EXCEPT !.thread = th]
              = [runners[r] EXCEPT !.thread = th, !.cancelled = runners[r].cancelled]
  BY <1>1 DEF RunnerSet
<1>3. CASE FuseBegins(r)
  <2>1. /\ runners[r].thread = "spawned"
        /\ Change(r, [runners[r] EXCEPT !.thread = "begun"])
    BY <1>3 DEF FuseBegins
  <2>2. Change(r, [runners[r] EXCEPT !.thread = "begun", !.cancelled = runners[r].cancelled])
    BY <1>2, <2>1
  <2>3. QED  BY <1>1, <2>1, <2>2, ThreadOK
<1>4. CASE FuseChecks(r)
  <2> DEFINE th == IF TornDown(r) THEN "stopped" ELSE "mounting"
  <2>1. runners[r].thread = "begun" /\ Change(r, [runners[r] EXCEPT !.thread = th])
    BY <1>4 DEF FuseChecks
  <2>2. th \in {"mounting", "stopped"} /\ (th = "mounting" => runners[r].phase # "ended")
    BY DEF TornDown
  <2> HIDE DEF th
  <2>3. Change(r, [runners[r] EXCEPT !.thread = th, !.cancelled = runners[r].cancelled])
    BY <1>2, <2>1
  <2>4. QED  BY <1>1, <2>1, <2>2, <2>3, ThreadOK
<1>5. CASE FuseServes(r)
  <2>1. runners[r].thread = "mounting" /\ runners[r].phase # "ended"
    BY <1>1, <1>5 DEF FuseServes, RunnerOK
  <2>2. CASE Change(r, [runners[r] EXCEPT !.thread = "serving"])
    <3>1. Change(r, [runners[r] EXCEPT !.thread = "serving", !.cancelled = runners[r].cancelled])
      BY <1>2, <2>2
    <3>2. QED  BY <1>1, <2>1, <3>1, ThreadOK
  <2>3. CASE Change(r, [runners[r] EXCEPT !.thread = "stopped", !.cancelled = TRUE])
    BY <1>1, <2>1, <2>3, ThreadOK
  <2>4. QED  BY <1>5, <2>2, <2>3 DEF FuseServes
<1>6. CASE FuseStops(r)
  <2>1. /\ runners[r].thread = "serving"
        /\ Change(r, [runners[r] EXCEPT !.thread = "stopped"])
    BY <1>6 DEF FuseStops
  <2>2. Change(r, [runners[r] EXCEPT !.thread = "stopped", !.cancelled = runners[r].cancelled])
    BY <1>2, <2>1
  <2>3. QED  BY <1>1, <2>1, <2>2, ThreadOK
<1>7. CASE WinStarts(r)
  <2>1. runners[r].thread = "spawned" /\ runners[r].phase = "waiting"
    BY <1>7 DEF WinStarts
  <2>2. CASE Change(r, [runners[r] EXCEPT !.thread = "stopped", !.cancelled = TRUE])
    BY <1>1, <2>1, <2>2, ThreadOK
  <2>3. CASE Change(r, [runners[r] EXCEPT !.thread = "serving"])
    <3>1. Change(r, [runners[r] EXCEPT !.thread = "serving", !.cancelled = runners[r].cancelled])
      BY <1>2, <2>3
    <3>2. QED  BY <1>1, <2>1, <3>1, ThreadOK
  <2>4. QED  BY <1>7, <2>2, <2>3 DEF WinStarts
<1>8. QED  BY <1>3, <1>4, <1>5, <1>6, <1>7

LEMMA DriverReadyOK ==
  ASSUME MountInv, NEW r \in DOMAIN runners, DriverReady(r)
  PROVE  MountInv'
<1> DEFINE x == [runners[r] EXCEPT !.phase = "running", !.started = TRUE]
<1>1. /\ runners[r] \in RunnerSet /\ RunnerOK(runners[r]) /\ runners[r].phase = "waiting"
      /\ UnchangedManager /\ Change(r, x)
  BY RunnerFacts DEF DriverReady
<1>2. /\ x \in RunnerSet /\ x.thread = runners[r].thread /\ x.phase = "running"
      /\ x.path = runners[r].path /\ x.loop = runners[r].loop /\ x.started
  BY <1>1 DEF RunnerSet
<1> HIDE DEF x
<1>3. RunnerOK(x) /\ RoleOK(x, driver, access)  BY <1>1, <1>2 DEF RunnerOK, RoleOK
<1>4. QED  BY <1>1, <1>2, <1>3, ChangeOK

\* The volume of a running runner: its loop, what it has noted, and how it is mounted.
LEMMA VolumeOK ==
  ASSUME MountInv, NEW r \in DOMAIN runners, NEW o \in BOOLEAN, NEW n \in BOOLEAN,
         NEW l \in {"check", "wait", "to read only", "to writable"},
         runners[r].phase = "running",
         NEW x, x = [runners[r] EXCEPT !.readOnly = o, !.loop = l, !.noted = n],
         driver = "winfsp" /\ ~n /\ access # "NONE" =>
           /\ l = "wait" => o = ReadOnly
           /\ l = "to read only" => ReadOnly
           /\ l = "to writable" => ~ReadOnly,
         Change(r, x), UnchangedManager
  PROVE  MountInv'
<1>1. runners[r] \in RunnerSet /\ RunnerOK(runners[r])  BY RunnerFacts
<1>2. /\ x \in RunnerSet /\ x.thread = runners[r].thread /\ x.phase = "running"
      /\ x.path = runners[r].path /\ x.loop = l /\ x.started = runners[r].started
      /\ x.readOnly = o /\ x.noted = n
  BY <1>1 DEF RunnerSet
<1>3. RunnerOK(x) /\ RoleOK(x, driver, access)  BY <1>1, <1>2 DEF RunnerOK, RoleOK, ReadOnly
<1>4. QED  BY <1>2, <1>3, ChangeOK

LEMMA VolumesOK ==
  ASSUME MountInv, NEW r \in DOMAIN runners,
         WinCheckRole(r) \/ WinRestarted(r) \/ WinEvent(r)
  PROVE  MountInv'
<1>1. /\ runners[r] \in RunnerSet /\ RoleOK(runners[r], driver, access)
      /\ UnchangedManager /\ runners[r].phase = "running"
      /\ runners[r].readOnly \in BOOLEAN /\ runners[r].noted \in BOOLEAN
  BY RunnerFacts DEF WinCheckRole, WinRestarted, WinEvent, RunnerSet
<1>2. CASE WinCheckRole(r)
  <2> DEFINE l == IF ReadOnly # runners[r].readOnly /\ access # "NONE"
                    THEN IF ReadOnly THEN "to read only" ELSE "to writable" ELSE "wait"
  <2>1. Change(r, [runners[r] EXCEPT !.loop = l])  BY <1>2 DEF WinCheckRole
  <2>2. /\ l \in {"check", "wait", "to read only", "to writable"}
        /\ access # "NONE" => /\ l = "wait" => runners[r].readOnly = ReadOnly
                              /\ l = "to read only" => ReadOnly
                              /\ l = "to writable" => ~ReadOnly
    <3>1. ReadOnly \in BOOLEAN  BY DEF ReadOnly
    <3>2. QED  BY <1>1, <3>1
  <2> HIDE DEF l
  <2>3. [runners[r] EXCEPT !.loop = l]
        = [runners[r] EXCEPT !.readOnly = runners[r].readOnly, !.loop = l,
                             !.noted = runners[r].noted]
    BY <1>1 DEF RunnerSet
  <2>4. QED  BY <1>1, <2>1, <2>2, <2>3, VolumeOK
<1>3. CASE WinRestarted(r)
  <2> DEFINE o == runners[r].loop = "to read only"
  <2>1. /\ Change(r, [runners[r] EXCEPT !.readOnly = o, !.loop = "wait"])
        /\ runners[r].loop \in {"to read only", "to writable"}
    BY <1>3 DEF WinRestarted
  <2>2. /\ o \in BOOLEAN
        /\ driver = "winfsp" /\ ~runners[r].noted /\ access # "NONE" => o = ReadOnly
    BY <1>1, <2>1 DEF RoleOK, ReadOnly
  <2> HIDE DEF o
  <2>3. [runners[r] EXCEPT !.readOnly = o, !.loop = "wait"]
        = [runners[r] EXCEPT !.readOnly = o, !.loop = "wait", !.noted = runners[r].noted]
    BY <1>1 DEF RunnerSet
  <2>4. QED  BY <1>1, <2>1, <2>2, <2>3, VolumeOK
<1>4. CASE WinEvent(r)
  <2>1. Change(r, [runners[r] EXCEPT !.noted = FALSE, !.loop = "check"])  BY <1>4 DEF WinEvent
  <2>2. [runners[r] EXCEPT !.noted = FALSE, !.loop = "check"]
        = [runners[r] EXCEPT !.readOnly = runners[r].readOnly, !.loop = "check", !.noted = FALSE]
    BY <1>1 DEF RunnerSet
  <2>3. QED  BY <1>1, <2>1, <2>2, VolumeOK
<1>5. QED  BY <1>2, <1>3, <1>4

LEMMA TearDownOK ==
  ASSUME MountInv, NEW r \in DOMAIN runners, TearDown(r)
  PROVE  MountInv'
<1> DEFINE x == [runners[r] EXCEPT !.phase = "torn"]
<1>1. /\ runners[r] \in RunnerSet /\ RunnerOK(runners[r]) /\ UnchangedManager /\ Change(r, x)
      /\ runners[r].phase \in {"waiting", "running"}
  BY RunnerFacts DEF TearDown
<1>2. /\ x \in RunnerSet /\ x.thread = runners[r].thread /\ x.phase = "torn"
      /\ x.path = runners[r].path /\ x.started = runners[r].started
  BY <1>1 DEF RunnerSet
<1> HIDE DEF x
<1>3. RunnerOK(x) /\ RoleOK(x, driver, access)  BY <1>1, <1>2 DEF RunnerOK, RoleOK
<1>4. QED  BY <1>1, <1>2, <1>3, ChangeOK

LEMMA StopDriverOK ==
  ASSUME MountInv, NEW r \in DOMAIN runners, StopDriver(r) \/ DriverStopped(r)
  PROVE  MountInv'
<1> DEFINE x == [runners[r] EXCEPT !.phase = "stopping", !.exit = TRUE]
<1>1. /\ runners[r] \in RunnerSet /\ RunnerOK(runners[r]) /\ UnchangedManager
      /\ runners[r].phase \in {"torn", "stopping"}
  BY RunnerFacts DEF StopDriver, DriverStopped
<1>2. CASE EndRunner(r, "stopped")  BY <1>1, <1>2, EndRunnerOK
<1>3. CASE EndRunner(r, runners[r].thread) /\ runners[r].thread \in {"spawned", "stopped"}
  BY <1>1, <1>3, EndRunnerOK
<1>4. CASE Change(r, x) /\ runners[r].phase = "torn"
  <2>1. /\ x \in RunnerSet /\ x.thread = runners[r].thread /\ x.phase = "stopping"
        /\ x.path = runners[r].path /\ x.started = runners[r].started
    BY <1>1 DEF RunnerSet
  <2> HIDE DEF x
  <2>2. RunnerOK(x) /\ RoleOK(x, driver, access)  BY <1>1, <1>4, <2>1 DEF RunnerOK, RoleOK
  <2>3. QED  BY <1>1, <1>4, <2>1, <2>2, ChangeOK
<1> HIDE DEF x
<1>5. StopDriver(r) => \/ EndRunner(r, "stopped")
                       \/ /\ EndRunner(r, runners[r].thread)
                          /\ runners[r].thread \in {"spawned", "stopped"}
                       \/ Change(r, x) /\ runners[r].phase = "torn"
  BY DEF StopDriver, x
<1>6. DriverStopped(r) => EndRunner(r, "stopped")  BY DEF DriverStopped
<1>7. QED  BY <1>2, <1>3, <1>4, <1>5, <1>6

\* A call changes, and the runners do not.
LEMMA CallOK ==
  ASSUME MountInv, NEW c \in MountCallers, NEW x \in CallSet,
         mountCalls' = [mountCalls EXCEPT ![c] = x],
         x.op \in {"starting", "joining"} => x.runner \in DOMAIN runners,
         UNCHANGED <<driver, position, mountpointTasks, runners, access>>
  PROVE  MountInv'
<1>1. CallsOK(mountCalls', runners)  BY OneCall DEF MountInv
<1>2. QED  BY <1>1 DEF MountInv

LEMMA NoCallFacts == NoCall \in CallSet /\ NoCall.op = "none"
BY MountAssumption DEF NoCall, CallSet

LEMMA StartMountOK ==
  ASSUME MountInv, NEW c \in MountCallers, NEW key \in MountKeys, NEW old \in MountKeys,
         StartMount(c, key, old), UNCHANGED <<driver, position, mountpointTasks, access>>
  PROVE  MountInv'
<1> DEFINE x == [op |-> "starting", runner |-> Len(runners) + 1, old |-> old, key |-> key]
<1>1. Len(runners) \in Nat /\ DOMAIN runners = 1..Len(runners)
  BY LenProperties DEF MountInv, RunnersOK
<1>2. /\ RunnersOK(runners', driver, access) /\ Len(runners) + 1 \in DOMAIN runners'
      /\ DOMAIN runners \subseteq DOMAIN runners'
      /\ \A q \in DOMAIN runners : runners'[q] = runners[q]
  <2>1. /\ RunnersOK(runners, driver, access) /\ Len(runners) < MaxRunners
        /\ OneMore(runners', runners, key)
    BY DEF MountInv, StartMount, OneMore
  <2>2. QED  BY <2>1, RunnerBegins
<1>3. RecordsOK(mountpointTasks, runners') /\ CallsOK(mountCalls, runners')
  BY <1>2, RefersToSame DEF MountInv
<1>4. x \in CallSet /\ x.runner = Len(runners) + 1  BY <1>1 DEF CallSet
<1>5. mountCalls' = [mountCalls EXCEPT ![c] = x]  BY DEF StartMount
<1> HIDE DEF x
<1>6. CallsOK(mountCalls', runners')  BY <1>2, <1>3, <1>4, <1>5, OneCall
<1>7. QED  BY <1>2, <1>3, <1>6 DEF MountInv

LEMMA MountsBeginOK ==
  ASSUME MountInv, NEW c \in MountApps,
         \/ MountWorkspace(c) \/ LoadTimestamped(c)
         \/ \E old, key \in MountKeys : RemountWorkspace(c, old, key)
  PROVE  MountInv'
<1>1. c \in MountCallers /\ mountCalls[c] \in CallSet /\ 0 \in MountKeys
  BY MountAssumption DEF MountCallers, MountInv, CallsOK
<1>2. CASE MountWorkspace(c)  BY <1>1, <1>2, StartMountOK DEF MountWorkspace
<1>3. CASE LoadTimestamped(c)
  <2>1. mountCalls[c].key \in MountKeys /\ mountCalls[c].old \in MountKeys  BY <1>1 DEF CallSet
  <2>2. UNCHANGED <<driver, position, mountpointTasks, access>>  BY <1>3 DEF LoadTimestamped
  <2>3. CASE StartMount(c, mountCalls[c].key, mountCalls[c].old)
    BY <1>1, <2>1, <2>2, <2>3, StartMountOK
  <2>4. CASE mountCalls' = [mountCalls EXCEPT ![c] = NoCall] /\ UNCHANGED runners
    BY <1>1, <2>2, <2>4, NoCallFacts, CallOK
  <2>5. QED  BY <1>3, <2>3, <2>4 DEF LoadTimestamped
<1>4. ASSUME NEW old \in MountKeys, NEW key \in MountKeys, RemountWorkspace(c, old, key)
      PROVE  MountInv'
  <2> DEFINE x == [op |-> "loading", runner |-> 0, old |-> old, key |-> key]
  <2>1. x \in CallSet /\ x.op = "loading"  BY DEF CallSet
  <2>2. mountCalls' = [mountCalls EXCEPT ![c] = x]
        /\ UNCHANGED <<driver, position, mountpointTasks, runners, access>>
    BY <1>4 DEF RemountWorkspace
  <2> HIDE DEF x
  <2>3. QED  BY <1>1, <2>1, <2>2, CallOK
<1>5. QED  BY <1>2, <1>3, <1>4

\* Runner r is cancelled, and the call waits for its end.
LEMMA CancelAndJoinOK ==
  ASSUME MountInv, NEW c \in MountCallers, NEW r \in DOMAIN runners, CancelAndJoin(c, r)
  PROVE  /\ RunnersOK(runners', driver, access) /\ CallsOK(mountCalls', runners')
         /\ DOMAIN runners' = DOMAIN runners
         /\ \A q \in DOMAIN runners : runners'[q].started = runners[q].started
<1> DEFINE x == [runners[r] EXCEPT !.cancelled = TRUE]
           y == [NoCall EXCEPT !.op = "joining", !.runner = r]
<1>1. /\ runners[r] \in RunnerSet /\ RunnerOK(runners[r]) /\ RoleOK(runners[r], driver, access)
  BY RunnerFacts
<1>2. /\ x \in RunnerSet /\ x.thread = runners[r].thread /\ x.phase = runners[r].phase
      /\ x.path = runners[r].path /\ x.started = runners[r].started
      /\ x.loop = runners[r].loop /\ x.noted = runners[r].noted
      /\ x.readOnly = runners[r].readOnly
  BY <1>1 DEF RunnerSet
<1>3. runners' = [runners EXCEPT ![r] = x] /\ mountCalls' = [mountCalls EXCEPT ![c] = y]
  BY DEF CancelAndJoin
<1> HIDE DEF x
<1>4. RunnerOK(x) /\ RoleOK(x, driver, access)  BY <1>1, <1>2 DEF RunnerOK, RoleOK
<1>5. /\ RunnersOK(runners', driver, access) /\ DOMAIN runners' = DOMAIN runners
      /\ runners'[r] = x /\ \A q \in DOMAIN runners : q # r => runners'[q] = runners[q]
  BY <1>2, <1>3, <1>4, OneRunner DEF MountInv
<1>6. r \in Nat
  BY LenProperties DEF MountInv, RunnersOK
<1>7. y \in CallSet /\ y.runner = r  BY <1>6, NoCallFacts DEF CallSet
<1> HIDE DEF y
<1>8. CallsOK(mountCalls, runners')  BY <1>5 DEF MountInv, CallsOK
<1>9. CallsOK(mountCalls', runners')  BY <1>3, <1>5, <1>7, <1>8, OneCall
<1>10. QED  BY <1>2, <1>5, <1>9

LEMMA RecordMountOK ==
  ASSUME MountInv, NEW c \in MountCallers, RecordMount(c)
  PROVE  MountInv'
<1> DEFINE call == mountCalls[c]
<1>1. call \in CallSet /\ call.runner \in DOMAIN runners /\ runners[call.runner].started
  BY DEF MountInv, CallsOK, RecordMount
<1>2. mountpointTasks' = [key \in DOMAIN mountpointTasks \cup {call.key} |->
                            IF key = call.key THEN call.runner ELSE mountpointTasks[key]]
      /\ UNCHANGED <<driver, position, access>>
  BY DEF RecordMount
<1>3. RecordsOK(mountpointTasks', runners)  BY <1>1, <1>2 DEF MountInv, RecordsOK
<1>4. CASE call.old \in DOMAIN mountpointTasks' /\ call.old # 0
  <2>1. CancelAndJoin(c, mountpointTasks'[call.old])  BY <1>4 DEF RecordMount
  <2>2. mountpointTasks'[call.old] \in DOMAIN runners  BY <1>3, <1>4 DEF RecordsOK
  <2>3. /\ RunnersOK(runners', driver, access) /\ CallsOK(mountCalls', runners')
        /\ DOMAIN runners' = DOMAIN runners
        /\ \A q \in DOMAIN runners : runners'[q].started = runners[q].started
    BY <2>1, <2>2, CancelAndJoinOK
  <2>4. RecordsOK(mountpointTasks', runners')  BY <1>3, <2>3 DEF RecordsOK
  <2>5. QED  BY <1>2, <2>3, <2>4 DEF MountInv
<1>5. CASE ~(call.old \in DOMAIN mountpointTasks' /\ call.old # 0)
  <2>1. mountCalls' = [mountCalls EXCEPT ![c] = NoCall] /\ UNCHANGED runners
    BY <1>5 DEF RecordMount
  <2>2. CallsOK(mountCalls', runners)  BY <2>1, NoCallFacts, OneCall DEF MountInv
  <2>3. QED  BY <1>2, <1>3, <2>1, <2>2 DEF MountInv
<1>6. QED  BY <1>4, <1>5

LEMMA CallsEndOK ==
  ASSUME MountInv, NEW c \in MountCallers, MountFailed(c) \/ JoinRunner(c)
  PROVE  MountInv'
BY NoCallFacts, CallOK DEF MountFailed, JoinRunner

LEMMA UnmountWorkspaceOK ==
  ASSUME MountInv, NEW c \in MountCallers, NEW key \in MountKeys, UnmountWorkspace(c, key)
  PROVE  MountInv'
<1>1. mountpointTasks[key] \in DOMAIN runners /\ CancelAndJoin(c, mountpointTasks[key])
      /\ UNCHANGED <<driver, position, mountpointTasks, access>>
  BY DEF MountInv, RecordsOK, UnmountWorkspace
<1>2. /\ RunnersOK(runners', driver, access) /\ CallsOK(mountCalls', runners')
      /\ DOMAIN runners' = DOMAIN runners
      /\ \A q \in DOMAIN runners : runners'[q].started = runners[q].started
  BY <1>1, CancelAndJoinOK
<1>3. RecordsOK(mountpointTasks, runners')  BY <1>2 DEF MountInv, RecordsOK
<1>4. QED  BY <1>1, <1>2, <1>3 DEF MountInv

\* A runner is cancelled, or notes a change of the role: nothing else of it changes.
LEMMA CancelledRunner ==
  ASSUME NEW x \in RunnerSet, NEW b \in BOOLEAN, NEW y, y = [x EXCEPT !.cancelled = b]
  PROVE  /\ y \in RunnerSet /\ y.thread = x.thread /\ y.phase = x.phase /\ y.path = x.path
         /\ y.started = x.started /\ y.loop = x.loop /\ y.readOnly = x.readOnly
         /\ y.noted = x.noted
BY DEF RunnerSet

LEMMA NotingRunner ==
  ASSUME NEW x \in RunnerSet, NEW y, y = [x EXCEPT !.noted = TRUE]
  PROVE  /\ y \in RunnerSet /\ y.thread = x.thread /\ y.phase = x.phase /\ y.path = x.path
         /\ y.started = x.started /\ y.loop = x.loop /\ y.readOnly = x.readOnly /\ y.noted
BY DEF RunnerSet

\* Some runners are cancelled, or note that the role is now b.
LEMMA ManyOK ==
  ASSUME MountInv, NEW F \in [DOMAIN runners -> RunnerSet], NEW b,
         \A r \in DOMAIN runners :
           /\ F[r].thread = runners[r].thread /\ F[r].phase = runners[r].phase
           /\ F[r].path = runners[r].path /\ F[r].started = runners[r].started
           /\ F[r].loop = runners[r].loop /\ F[r].readOnly = runners[r].readOnly
           /\ \/ F[r].noted
              \/ ~F[r].noted /\ ~runners[r].noted /\ b = access
              \/ driver # "winfsp" \/ runners[r].phase # "running"
  PROVE  /\ RunnersOK(F, driver, b) /\ DOMAIN F = DOMAIN runners /\ Len(F) = Len(runners)
         /\ RecordsOK(mountpointTasks, F) /\ CallsOK(mountCalls, F)
<1>1. ASSUME NEW r \in DOMAIN runners  PROVE  RunnerOK(F[r]) /\ RoleOK(F[r], driver, b)
  <2>1. RunnerOK(runners[r]) /\ RoleOK(runners[r], driver, access)  BY <1>1, RunnerFacts
  <2>2. RunnerOK(F[r])  BY <1>1, <2>1 DEF RunnerOK
  <2>3. RoleOK(F[r], driver, b)  BY <1>1, <2>1 DEF RoleOK
  <2>4. QED  BY <2>2, <2>3
<1>2. RunnersOK(runners, driver, access)  BY DEF MountInv
<1>3. RunnersOK(F, driver, b) /\ DOMAIN F = DOMAIN runners /\ Len(F) = Len(runners)
  BY <1>1, <1>2, EveryRunner
<1>4. QED  BY <1>3, RefersToSame DEF MountInv

LEMMA CloseManagerOK == ASSUME MountInv, CloseManager PROVE MountInv'
<1> DEFINE late(r) == \E c \in MountCallers :
             mountCalls[c].op = "starting" /\ mountCalls[c].runner = r /\ ~runners[r].started
           F == [r \in DOMAIN runners |->
                   [runners[r] EXCEPT !.cancelled = runners[r].cancelled \/ late(r)]]
<1>1. /\ runners' = F /\ mountCalls' = [c \in MountCallers |-> NoCall]
      /\ UNCHANGED <<driver, position, mountpointTasks, access>>
  BY DEF CloseManager
<1>2. \A r \in DOMAIN runners : runners[r] \in RunnerSet  BY RunnerFacts
<1>3. ASSUME NEW r \in DOMAIN runners
      PROVE  /\ F[r] \in RunnerSet
             /\ F[r].thread = runners[r].thread /\ F[r].phase = runners[r].phase
             /\ F[r].path = runners[r].path /\ F[r].started = runners[r].started
             /\ F[r].loop = runners[r].loop /\ F[r].readOnly = runners[r].readOnly
             /\ F[r].noted = runners[r].noted
  <2> DEFINE b == runners[r].cancelled \/ late(r)
  <2>1. F[r] = [runners[r] EXCEPT !.cancelled = b] /\ b \in BOOLEAN  OBVIOUS
  <2> HIDE DEF b, F, late
  <2>2. QED  BY <1>2, <2>1, CancelledRunner
<1>4. F \in [DOMAIN runners -> RunnerSet]  BY <1>3
<1>5. \A r \in DOMAIN runners :
        /\ F[r].thread = runners[r].thread /\ F[r].phase = runners[r].phase
        /\ F[r].path = runners[r].path /\ F[r].started = runners[r].started
        /\ F[r].loop = runners[r].loop /\ F[r].readOnly = runners[r].readOnly
        /\ F[r].noted = runners[r].noted
  BY <1>3
<1> HIDE DEF F
<1>6. \A r \in DOMAIN runners : F[r].noted \in BOOLEAN  BY <1>4 DEF RunnerSet
<1>7. /\ RunnersOK(F, driver, access) /\ DOMAIN F = DOMAIN runners
      /\ RecordsOK(mountpointTasks, F)
  BY <1>4, <1>5, <1>6, ManyOK
<1>8. CallsOK(mountCalls', runners')  BY <1>1, NoCallFacts DEF CallsOK
<1>9. QED  BY <1>1, <1>7, <1>8 DEF MountInv

LEMMA CancelRunnersOK == ASSUME MountInv, CancelRunners PROVE MountInv'
<1> DEFINE F == [r \in DOMAIN runners |-> [runners[r] EXCEPT !.cancelled = TRUE]]
<1>1. runners' = F /\ UNCHANGED <<driver, position, mountpointTasks, mountCalls, access>>
  BY DEF CancelRunners
<1>2. \A r \in DOMAIN runners : runners[r] \in RunnerSet  BY RunnerFacts
<1>a. ASSUME NEW r \in DOMAIN runners
      PROVE  /\ F[r] \in RunnerSet
             /\ F[r].thread = runners[r].thread /\ F[r].phase = runners[r].phase
             /\ F[r].path = runners[r].path /\ F[r].started = runners[r].started
             /\ F[r].loop = runners[r].loop /\ F[r].readOnly = runners[r].readOnly
             /\ F[r].noted = runners[r].noted
  <2> DEFINE b == TRUE
  <2>1. F[r] = [runners[r] EXCEPT !.cancelled = b] /\ b \in BOOLEAN  OBVIOUS
  <2> HIDE DEF F, b
  <2>2. QED  BY <1>2, <2>1, CancelledRunner
<1>3. F \in [DOMAIN runners -> RunnerSet]  BY <1>a
<1>4. \A r \in DOMAIN runners :
        /\ F[r].thread = runners[r].thread /\ F[r].phase = runners[r].phase
        /\ F[r].path = runners[r].path /\ F[r].started = runners[r].started
        /\ F[r].loop = runners[r].loop /\ F[r].readOnly = runners[r].readOnly
        /\ F[r].noted = runners[r].noted
  BY <1>a
<1> HIDE DEF F
<1>5. \A r \in DOMAIN runners : F[r].noted \in BOOLEAN  BY <1>3 DEF RunnerSet
<1>6. /\ RunnersOK(F, driver, access) /\ RecordsOK(mountpointTasks, F) /\ CallsOK(mountCalls, F)
  BY <1>3, <1>4, <1>5, ManyOK
<1>7. QED  BY <1>1, <1>6 DEF MountInv

LEMMA SafeUnmountAllOK ==
  ASSUME MountInv, NEW key \in MountKeys, SafeUnmountAll(key)
  PROVE  MountInv'
<1> DEFINE k == mountpointTasks[key]
           x == [runners[k] EXCEPT !.cancelled = TRUE]
<1>1. k \in DOMAIN runners /\ runners' = [runners EXCEPT ![k] = x]
      /\ UNCHANGED <<driver, position, mountpointTasks, mountCalls, access>>
  BY DEF MountInv, RecordsOK, SafeUnmountAll
<1> HIDE DEF k
<1>2. /\ runners[k] \in RunnerSet /\ RunnerOK(runners[k]) /\ RoleOK(runners[k], driver, access)
  BY <1>1, RunnerFacts
<1>3. /\ x \in RunnerSet /\ x.thread = runners[k].thread /\ x.phase = runners[k].phase
      /\ x.path = runners[k].path /\ x.started = runners[k].started
      /\ x.loop = runners[k].loop /\ x.noted = runners[k].noted
      /\ x.readOnly = runners[k].readOnly
  BY <1>2 DEF RunnerSet
<1> HIDE DEF x
<1>4. RunnerOK(x) /\ RoleOK(x, driver, access)  BY <1>2, <1>3 DEF RunnerOK, RoleOK
<1>5. /\ RunnersOK(runners', driver, access) /\ DOMAIN runners' = DOMAIN runners
      /\ runners'[k] = x /\ \A q \in DOMAIN runners : q # k => runners'[q] = runners[q]
  BY <1>1, <1>3, <1>4, OneRunner DEF MountInv
<1>6. RecordsOK(mountpointTasks, runners') /\ CallsOK(mountCalls, runners')
  BY <1>3, <1>5, RefersToSame DEF MountInv
<1>7. QED  BY <1>1, <1>5, <1>6 DEF MountInv

LEMMA OnSharingUpdatedOK ==
  ASSUME MountInv, NEW c \in MountCallers, NEW b, OnSharingUpdated(c, b)
  PROVE  MountInv'
<1> DEFINE F == [r \in DOMAIN runners |->
                   IF driver = "winfsp" /\ runners[r].phase = "running"
                     THEN [runners[r] EXCEPT !.noted = TRUE] ELSE runners[r]]
<1>1. access' = b /\ UNCHANGED <<driver, position, mountpointTasks>>
  BY DEF OnSharingUpdated
<1>2. \A r \in DOMAIN runners : runners[r] \in RunnerSet  BY RunnerFacts
<1>a. ASSUME NEW r \in DOMAIN runners
      PROVE  /\ F[r] \in RunnerSet
             /\ F[r].thread = runners[r].thread /\ F[r].phase = runners[r].phase
             /\ F[r].path = runners[r].path /\ F[r].started = runners[r].started
             /\ F[r].loop = runners[r].loop /\ F[r].readOnly = runners[r].readOnly
             /\ F[r].noted \/ driver # "winfsp" \/ runners[r].phase # "running"
  <2>1. CASE driver = "winfsp" /\ runners[r].phase = "running"
    <3>1. F[r] = [runners[r] EXCEPT !.noted = TRUE]  BY <2>1
    <3> HIDE DEF F
    <3>2. QED  BY <1>2, <3>1, NotingRunner
  <2>2. CASE ~(driver = "winfsp" /\ runners[r].phase = "running")  BY <1>2, <2>2
  <2>3. QED  BY <2>1, <2>2
<1>3. F \in [DOMAIN runners -> RunnerSet]  BY <1>a
<1>4. \A r \in DOMAIN runners :
        /\ F[r].thread = runners[r].thread /\ F[r].phase = runners[r].phase
        /\ F[r].path = runners[r].path /\ F[r].started = runners[r].started
        /\ F[r].loop = runners[r].loop /\ F[r].readOnly = runners[r].readOnly
        /\ F[r].noted \/ driver # "winfsp" \/ runners[r].phase # "running"
  BY <1>a
<1>5. \/ /\ 0 \in DOMAIN mountpointTasks
         /\ runners' = [F EXCEPT ![mountpointTasks[0]].cancelled = TRUE]
         /\ mountCalls' = [mountCalls EXCEPT ![c] =
              [NoCall EXCEPT !.op = "joining", !.runner = mountpointTasks[0]]]
      \/ /\ Len(runners) < MaxRunners /\ runners' = Append(F, NewRunner(0))
         /\ mountCalls' = [mountCalls EXCEPT ![c] =
              [NoCall EXCEPT !.op = "starting", !.runner = Len(runners) + 1]]
      \/ runners' = F /\ UNCHANGED mountCalls
  BY DEF OnSharingUpdated
<1> HIDE DEF F
<1>6. /\ RunnersOK(F, driver, b) /\ DOMAIN F = DOMAIN runners /\ Len(F) = Len(runners)
      /\ RecordsOK(mountpointTasks, F) /\ CallsOK(mountCalls, F)
  BY <1>3, <1>4, ManyOK
<1>7. CASE runners' = F /\ UNCHANGED mountCalls  BY <1>1, <1>6, <1>7 DEF MountInv
<1>8. ASSUME 0 \in DOMAIN mountpointTasks,
             runners' = [F EXCEPT ![mountpointTasks[0]].cancelled = TRUE],
             mountCalls' = [mountCalls EXCEPT ![c] =
               [NoCall EXCEPT !.op = "joining", !.runner = mountpointTasks[0]]]
      PROVE  MountInv'
  <2> DEFINE k == mountpointTasks[0]
             x == [F[k] EXCEPT !.cancelled = TRUE]
             y == [NoCall EXCEPT !.op = "joining", !.runner = k]
  <2>1. k \in DOMAIN F  BY <1>6, <1>8 DEF RecordsOK
  <2>2. k \in Nat /\ F[k] \in RunnerSet  BY <1>3, <1>6, <2>1, LenProperties DEF RunnersOK
  <2>3. runners' = [F EXCEPT ![k] = x] /\ mountCalls' = [mountCalls EXCEPT ![c] = y]
    BY <1>8
  <2> HIDE DEF k
  <2>4. /\ x \in RunnerSet /\ x.thread = F[k].thread /\ x.phase = F[k].phase
        /\ x.path = F[k].path /\ x.started = F[k].started
        /\ x.loop = F[k].loop /\ x.noted = F[k].noted /\ x.readOnly = F[k].readOnly
    BY <2>2 DEF RunnerSet
  <2>5. y \in CallSet /\ y.runner = k  BY <2>2, NoCallFacts DEF CallSet
  <2> HIDE DEF x, y
  <2>6. RunnerOK(F[k]) /\ RoleOK(F[k], driver, b)  BY <1>6, <2>1 DEF RunnersOK
  <2>7. RunnerOK(x) /\ RoleOK(x, driver, b)  BY <2>4, <2>6 DEF RunnerOK, RoleOK
  <2>8. /\ RunnersOK(runners', driver, b) /\ DOMAIN runners' = DOMAIN F
        /\ runners'[k] = x /\ \A q \in DOMAIN F : q # k => runners'[q] = F[q]
    BY <1>6, <2>1, <2>3, <2>4, <2>7, OneRunner
  <2>9. RecordsOK(mountpointTasks, runners') /\ CallsOK(mountCalls, runners')
    BY <1>6, <2>4, <2>8, RefersToSame
  <2>10. CallsOK(mountCalls', runners')  BY <2>1, <2>3, <2>5, <2>8, <2>9, OneCall
  <2>11. QED  BY <1>1, <2>8, <2>9, <2>10 DEF MountInv
<1>9. ASSUME Len(runners) < MaxRunners, runners' = Append(F, NewRunner(0)),
             mountCalls' = [mountCalls EXCEPT ![c] =
               [NoCall EXCEPT !.op = "starting", !.runner = Len(runners) + 1]]
      PROVE  MountInv'
  <2> DEFINE n == Len(runners) + 1
             y == [NoCall EXCEPT !.op = "starting", !.runner = n]
  <2>1. Len(runners) \in Nat /\ Len(F) \in Nat /\ Len(F) = Len(runners)
    <3>1. runners \in Seq(RunnerSet)  BY DEF MountInv, RunnersOK
    <3>2. QED  BY <1>6, <3>1, LenProperties
  <2>2. OneMore(runners', F, 0) /\ Len(F) < MaxRunners /\ 0 \in MountKeys
    BY <1>9, <2>1, MountAssumption DEF OneMore
  <2>3. /\ RunnersOK(runners', driver, b) /\ Len(F) + 1 \in DOMAIN runners'
        /\ DOMAIN F \subseteq DOMAIN runners' /\ \A q \in DOMAIN F : runners'[q] = F[q]
    BY <1>6, <2>2, RunnerBegins
  <2>4. RecordsOK(mountpointTasks, runners') /\ CallsOK(mountCalls, runners')
    BY <1>6, <2>3, RefersToSame
  <2>5. n \in Nat /\ n \in DOMAIN runners'  BY <2>1, <2>3
  <2> HIDE DEF n
  <2>6. y \in CallSet /\ y.runner = n  BY <2>5, NoCallFacts DEF CallSet
  <2>7. mountCalls' = [mountCalls EXCEPT ![c] = y]  BY <1>9 DEF n
  <2> HIDE DEF y
  <2>8. CallsOK(mountCalls', runners')  BY <2>4, <2>5, <2>6, <2>7, OneCall
  <2>9. QED  BY <1>1, <2>3, <2>4, <2>8 DEF MountInv
<1>10. QED  BY <1>5, <1>7, <1>8, <1>9

-----------------------------------------------------------------------------
(* The mountpoints: what the invariant shows *)

LEMMA MountShown == ASSUME MountInv PROVE DriversAreSound
<1>1. \A r \in DOMAIN runners : /\ RunnerOK(runners[r]) /\ RoleOK(runners[r], driver, access)
  BY DEF MountInv, RunnersOK
<1>2. MountTypeOK  BY <1>1 DEF MountTypeOK, MountInv, RecordsOK, RunnerOK
<1>3. NoOrphanDriver  BY <1>1 DEF NoOrphanDriver, RunnerOK
<1>4. ReadOnlyFollowsRole  BY <1>1 DEF ReadOnlyFollowsRole, RoleOK, ReadOnly
<1>5. EveryDriveIsTried  BY AllLettersTried DEF MountInv
<1>6. QED  BY <1>2, <1>3, <1>4, <1>5 DEF DriversAreSound

\* However mounts, remounts, changes of the role and the exit of the program interleave, the
\* driver of a runner that has ended does not serve, a volume that waits for the next event is
\* read-only exactly when the user is a reader, and every letter is tried before a mount fails
\* for the want of a drive, for any number of workspaces that the assertion accepts.
THEOREM DriversStaySound == MountSpec => []DriversAreSound
<1>1. MountInit => MountInv  BY MountInitOK
<1>2. MountInv /\ [MountNext]_mountVars => MountInv'
  <2> SUFFICES ASSUME MountInv, [MountNext]_mountVars PROVE MountInv'
    OBVIOUS
  <2>1. ASSUME NEW c \in MountApps,
               \/ MountWorkspace(c) \/ LoadTimestamped(c)
               \/ \E key \in MountKeys : UnmountWorkspace(c, key)
               \/ \E old, key \in MountKeys : RemountWorkspace(c, old, key)
        PROVE  MountInv'
    <3>1. c \in MountCallers  BY DEF MountCallers
    <3>2. QED  BY <2>1, <3>1, MountsBeginOK, UnmountWorkspaceOK
  <2>2. ASSUME NEW c \in MountEvents, NEW b \in {"OWNER", "READER", "NONE"},
               OnSharingUpdated(c, b)
        PROVE  MountInv'
    <3>1. c \in MountCallers  BY DEF MountCallers
    <3>2. QED  BY <2>2, <3>1, OnSharingUpdatedOK
  <2>3. CASE \E c \in MountCallers : RecordMount(c) \/ MountFailed(c) \/ JoinRunner(c)
    BY <2>3, RecordMountOK, CallsEndOK
  <2>4. CASE CloseManager \/ CancelRunners \/ \E key \in MountKeys : SafeUnmountAll(key)
    BY <2>4, CloseManagerOK, CancelRunnersOK, SafeUnmountAllOK
  <2>5. ASSUME NEW r \in DOMAIN runners, RunnerStep(r)  PROVE  MountInv'
    BY <2>5, BootstrapOK, ThreadsOK, DriverReadyOK, VolumesOK, TearDownOK, StopDriverOK
    DEF RunnerStep
  <2>6. CASE UNCHANGED mountVars  BY <2>6 DEF mountVars, MountInv
  <2>7. QED  BY <2>1, <2>2, <2>3, <2>4, <2>5, <2>6 DEF MountNext
<1>3. MountInv => DriversAreSound  BY MountShown
<1>4. QED  BY <1>1, <1>2, <1>3, PTL DEF MountSpec
=============================================================================

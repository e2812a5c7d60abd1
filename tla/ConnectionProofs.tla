-------------------------- MODULE ConnectionProofs --------------------------
(***************************************************************************)
(* Proofs about module Connection: whatever is cancelled, lost or          *)
(* connected again, a transport has one user, a command gets the answer to *)
(* its own request, and the client is ready while it listens.              *)
(***************************************************************************)
EXTENDS Connection, FiniteSetTheorems, TLAPS

-----------------------------------------------------------------------------
(* The inductive invariant *)

Places == Holding \cup {"idle", "permit", "done", "failed", "cooldown", "stopped", "assertion"}
TaskRecords == [at : Places, on : Nat, wake : {"", "ok", "lost", "refused", "crash"},
                cancelled : BOOLEAN, got : Tasks \cup {NoTransport}]
Transports == [state : {"open", "broken", "closed"}, asked : Seq(Tasks), answers : Seq(Tasks)]

ConnType == task \in [Tasks -> TaskRecords] /\ transports \in Seq(Transports) /\ pool \in Seq(Nat)

\* A transport on which nothing is pending, or at most the request or the answer of c.
Quiet(tr) == tr.asked = <<>> /\ tr.answers = <<>>
Own(tr, c) ==
  /\ tr.asked \in {<<>>, <<c>>} /\ tr.answers \in {<<>>, <<c>>}
  /\ tr.asked = <<>> \/ tr.answers = <<>>

\* What is known of the task x of a: it has a transport of ts from the connection on.  For a
\* command, only its own request is pending there, and nothing once it has been answered.
TaskOK(a, x, ts) ==
  /\ x.wake # "" => x.at \in Holding
  /\ x.at \in Holding => x.on = 0 \/ x.on \in DOMAIN ts
  /\ x.at \in Holding /\ (x.at # "connect" \/ x.wake = "ok") => x.on # 0
  /\ a \in Commands =>
       /\ x.at = "connect" /\ x.wake = "ok" => Quiet(ts[x.on])
       /\ x.at = "recv" /\ x.wake = "" => Own(ts[x.on], a)
       /\ x.at = "recv" /\ x.wake = "ok" => Quiet(ts[x.on]) /\ x.got = a
       /\ x.at = "done" => x.got = a

\* The transports of the pool are known, and nothing is pending on them.
PoolOK(p, ts) == \A i \in DOMAIN p : p[i] \in DOMAIN ts /\ Quiet(ts[p[i]])

PoolInv ==
  /\ ConnType /\ IsFiniteSet(Holders) /\ ConnTypeOK
  /\ \A a \in Tasks : TaskOK(a, task[a], transports)
  /\ PoolOK(pool, transports)

ConnInv == PoolInv /\ ReadyIsListening

-----------------------------------------------------------------------------
(* The pool *)

\* Two tasks that use their transports in the same way.
SameUse(x, y) == x.at = y.at /\ x.on = y.on /\ x.wake = y.wake /\ x.got = y.got

\* Nothing new is pending on a transport.
Calmer(new, old) == new.answers = old.answers /\ new.asked \in {old.asked, <<>>}

LEMMA TaskStaysOK ==
  ASSUME NEW a \in Tasks, NEW x, NEW y, NEW ts, NEW us, TaskOK(a, x, ts), SameUse(y, x),
         DOMAIN ts \subseteq DOMAIN us,
         x.at \in Holding /\ x.on # 0 => Calmer(us[x.on], ts[x.on])
  PROVE  TaskOK(a, y, us)
<1>1. {"connect", "recv"} \subseteq Holding
  BY DEF Holding
<1>2. QED
  BY <1>1 DEF TaskOK, SameUse, Calmer, Quiet, Own

LEMMA PoolStaysOK ==
  ASSUME NEW p, NEW ts, NEW us, PoolOK(p, ts), DOMAIN ts \subseteq DOMAIN us,
         \A i \in DOMAIN p : Calmer(us[p[i]], ts[p[i]])
  PROVE  PoolOK(p, us)
BY DEF PoolOK, Calmer, Quiet

\* A step of one task a, which may take a transport when a permit is left.
LEMMA OneTaskStep ==
  ASSUME PoolInv, NEW a \in Tasks, ConnType',
         \A b \in Tasks \ {a} : SameUse(task'[b], task[b]),
         DOMAIN transports \subseteq DOMAIN transports',
         \A b \in Holders \ {a} : task[b].on # 0 => Calmer(transports'[task[b].on], transports[task[b].on]),
         TaskOK(a, task'[a], transports'), PoolOK(pool', transports'),
         \A i, j \in DOMAIN pool' : i # j => pool'[i] # pool'[j],
         \A b \in Holders \ {a} : task[b].on # 0 => \A i \in DOMAIN pool' : pool'[i] # task[b].on,
         task'[a].at \in Holding => a \in Holders \/ HasPermit,
         task'[a].at \in Holding /\ task'[a].on # 0 =>
           /\ \A i \in DOMAIN pool' : pool'[i] # task'[a].on
           /\ \A b \in Holders \ {a} : task[b].on # task'[a].on
  PROVE  PoolInv'
<1>1. \A b \in Tasks : TaskOK(b, task'[b], transports')
  <2> SUFFICES ASSUME NEW b \in Tasks, b # a PROVE TaskOK(b, task'[b], transports')
    OBVIOUS
  <2>1. TaskOK(b, task[b], transports) /\ SameUse(task'[b], task[b])
    BY DEF PoolInv
  <2>2. task[b].at \in Holding /\ task[b].on # 0 => Calmer(transports'[task[b].on], transports[task[b].on])
    BY DEF Holders
  <2>3. QED
    BY <2>1, <2>2, TaskStaysOK
<1>2. Holders' \subseteq Holders \cup {a} /\ \A b \in Tasks \ {a} : b \in Holders' <=> b \in Holders
  BY DEF Holders, SameUse
<1>3. IsFiniteSet(Holders') /\ Cardinality(Holders') <= MaxPool
  <2>1. IsFiniteSet(Holders) /\ Cardinality(Holders) \in Nat /\ Cardinality(Holders) <= MaxPool
    BY FS_CardinalityType DEF PoolInv, ConnTypeOK
  <2>2. CASE Holders' \subseteq Holders
    <3>1. IsFiniteSet(Holders') /\ Cardinality(Holders') <= Cardinality(Holders)
      BY <2>1, <2>2, FS_Subset
    <3>2. Cardinality(Holders') \in Nat
      BY <3>1, FS_CardinalityType
    <3>3. QED
      BY <2>1, <3>1, <3>2, PoolAssumption
  <2>3. CASE ~ (Holders' \subseteq Holders)
    <3>1. a \notin Holders /\ a \in Holders' /\ Cardinality(Holders) < MaxPool
      BY <1>2, <2>3 DEF Holders, HasPermit
    <3>2. Holders' = Holders \cup {a}
      BY <1>2, <3>1 DEF Holders
    <3>3. IsFiniteSet(Holders') /\ Cardinality(Holders') = Cardinality(Holders) + 1
      BY <2>1, <3>1, <3>2, FS_AddElement
    <3>4. QED
      BY <2>1, <3>1, <3>3, PoolAssumption
  <2>4. QED
    BY <2>2, <2>3
<1>4. ASSUME NEW b \in Holders', task'[b].on # 0
      PROVE  /\ \A i \in DOMAIN pool' : pool'[i] # task'[b].on
             /\ \A c \in Holders' \ {b} : task'[c].on # task'[b].on
  <2>1. b \in Tasks /\ \A c \in Holders' : c \in Tasks
    BY DEF Holders
  <2>2. \A c \in Tasks \ {a} : task'[c].on = task[c].on /\ (c \in Holders' <=> c \in Holders)
    BY <1>2 DEF SameUse
  <2>3. CASE b = a
    <3>1. task'[a].at \in Holding
      BY <2>3 DEF Holders
    <3>2. QED
      BY <1>4, <2>1, <2>2, <2>3, <3>1
  <2>4. CASE b # a
    <3>1. b \in Holders \ {a} /\ task'[b].on = task[b].on
      BY <2>1, <2>2, <2>4
    <3>2. \A i \in DOMAIN pool' : pool'[i] # task'[b].on
      BY <1>4, <3>1
    <3>3. ASSUME NEW c \in Holders' \ {b} PROVE task'[c].on # task'[b].on
      <4>1. CASE c = a
        <5>1. task'[a].at \in Holding
          BY <4>1 DEF Holders
        <5>2. QED
          BY <1>4, <3>1, <4>1, <5>1
      <4>2. CASE c # a
        <5>1. c \in Holders \ {b} /\ task'[c].on = task[c].on
          BY <2>1, <2>2, <4>2
        <5>2. QED
          BY <1>4, <3>1, <5>1 DEF PoolInv, ConnTypeOK, NoTransport
      <4>3. QED
        BY <4>1, <4>2
    <3>4. QED
      BY <3>2, <3>3
  <2>5. QED
    BY <2>3, <2>4
<1>5. ConnTypeOK'
  BY <1>3, <1>4 DEF ConnTypeOK, NoTransport
<1>6. QED
  BY <1>1, <1>3, <1>5 DEF PoolInv

LEMMA NoneFits == 0 <= MaxPool
BY PoolAssumption

\* All of the tasks end at once.
LEMMA AllTasksEnd ==
  ASSUME PoolInv, ConnType', \A b \in Tasks : task'[b].at \in {"assertion", "failed"} /\ task'[b].wake = "",
         DOMAIN transports \subseteq DOMAIN transports',
         \A i \in DOMAIN pool : Calmer(transports'[pool[i]], transports[pool[i]]), pool' = pool
  PROVE  PoolInv'
<1>1. Holders' = {}
  BY DEF Holders, Holding
<1>2. \A b \in Tasks : TaskOK(b, task'[b], transports')
  BY DEF TaskOK, Holding
<1>3. PoolOK(pool', transports')
  BY PoolStaysOK DEF PoolInv
<1>4. ConnTypeOK'
  <2>1. Cardinality(Holders') <= MaxPool
    <3>1. Cardinality(Holders') = 0
      BY <1>1, FS_EmptySet
    <3>2. QED
      BY <3>1, NoneFits
  <2>2. \A i, j \in DOMAIN pool' : i # j => pool'[i] # pool'[j]
    BY DEF PoolInv, ConnTypeOK
  <2>3. QED
    BY <1>1, <2>1, <2>2 DEF ConnTypeOK
<1>5. QED
  BY <1>1, <1>2, <1>3, <1>4, FS_EmptySet DEF PoolInv

\* What is known of a task, and of the transport it holds.
TaskFact(a) ==
  /\ task[a] \in TaskRecords
  /\ task[a].at \in Places /\ task[a].on \in Nat /\ task[a].wake \in {"", "ok", "lost", "refused", "crash"}
  /\ task[a].cancelled \in BOOLEAN /\ task[a].got \in Tasks \cup {NoTransport}
  /\ TaskOK(a, task[a], transports)

LEMMA TaskFacts == ASSUME PoolInv, NEW a \in Tasks PROVE TaskFact(a)
<1>1. task[a] \in TaskRecords /\ TaskOK(a, task[a], transports)
  BY DEF PoolInv, ConnType
<1>2. QED
  BY <1>1 DEF TaskFact, TaskRecords

LEMMA HasOneUser ==
  ASSUME PoolInv, NEW a \in Tasks, task[a].at \in Holding, task[a].on # 0
  PROVE  /\ task[a].on \in DOMAIN transports
         /\ \A i \in DOMAIN pool : pool[i] # task[a].on
         /\ \A b \in Holders \ {a} : task[b].on # task[a].on
<1>1. a \in Holders
  BY DEF Holders
<1>2. QED
  BY <1>1 DEF PoolInv, ConnTypeOK, TaskOK, NoTransport

\* Only the task a changes.
LEMMA OneTaskType ==
  ASSUME PoolInv, NEW a \in Tasks, NEW r \in TaskRecords, task' = [task EXCEPT ![a] = r]
  PROVE  /\ task' \in [Tasks -> TaskRecords] /\ task'[a] = r
         /\ \A b \in Tasks \ {a} : task'[b] = task[b] /\ SameUse(task'[b], task[b])
BY DEF PoolInv, ConnType, SameUse

\* The task a changes, and no transport: it keeps its own or has none.
LEMMA TaskAloneStep ==
  ASSUME PoolInv, NEW a \in Tasks, NEW r \in TaskRecords, task' = [task EXCEPT ![a] = r],
         UNCHANGED <<transports, pool>>, TaskOK(a, r, transports),
         r.at \in Holding => a \in Holders \/ HasPermit,
         r.at \in Holding /\ r.on # 0 => a \in Holders /\ r.on = task[a].on
  PROVE  PoolInv'
<1>1. /\ task' \in [Tasks -> TaskRecords] /\ task'[a] = r
      /\ \A b \in Tasks \ {a} : SameUse(task'[b], task[b])
  BY OneTaskType
<1>2. ConnType'
  BY <1>1 DEF PoolInv, ConnType
<1>3. \A b \in Holders \ {a} : Calmer(transports'[task[b].on], transports[task[b].on])
  BY DEF Calmer
<1>4. PoolOK(pool', transports') /\ \A i, j \in DOMAIN pool' : i # j => pool'[i] # pool'[j]
  BY DEF PoolInv, ConnTypeOK
<1>5. \A b \in Holders \ {a} : task[b].on # 0 => \A i \in DOMAIN pool' : pool'[i] # task[b].on
  BY DEF PoolInv, ConnTypeOK, NoTransport
<1>6. task'[a].at \in Holding /\ task'[a].on # 0 =>
           /\ \A i \in DOMAIN pool' : pool'[i] # task'[a].on
           /\ \A b \in Holders \ {a} : task[b].on # task'[a].on
  BY <1>1, HasOneUser DEF Holders
<1>7. QED
  BY <1>1, <1>2, <1>3, <1>4, <1>5, <1>6, OneTaskStep

\* A task ends.
LEMMA OneTaskEnds ==
  ASSUME PoolInv, NEW a \in Tasks, NEW at \in {"failed", "cooldown", "stopped", "assertion"},
         task' = [task EXCEPT ![a] = At(at)], UNCHANGED <<transports, pool>>
  PROVE  PoolInv'
<1>1. At(at) \in TaskRecords /\ At(at).at \notin Holding /\ TaskOK(a, At(at), transports)
  BY DEF At, TaskRecords, Places, Holding, TaskOK, NoTransport
<1>2. QED
  BY <1>1, TaskAloneStep

\* An operation completes.
LEMMA WakeStep ==
  ASSUME PoolInv, NEW a \in Tasks, NEW w \in {"ok", "lost", "refused", "crash"},
         task[a].at \in Holding, w = "ok" => task[a].at = "bootstrap",
         WakeTask(a, w), UNCHANGED <<transports, pool>>
  PROVE  PoolInv'
<1> DEFINE r == [task[a] EXCEPT !.wake = w]
<1>1. TaskFact(a)
  BY TaskFacts
<1>2. /\ r \in TaskRecords /\ r.at = task[a].at /\ r.on = task[a].on /\ r.wake = w
      /\ r.got = task[a].got
  BY <1>1 DEF TaskFact, TaskRecords
<1>3. TaskOK(a, r, transports)
  <2> HIDE DEF r
  <2>1. QED
    BY <1>1, <1>2 DEF TaskFact, TaskOK, Holding
<1>4. r.at = task[a].at /\ r.on = task[a].on /\ a \in Holders
  BY <1>2 DEF Holders
<1>5. task' = [task EXCEPT ![a] = r]
  BY DEF WakeTask
<1> HIDE DEF r
<1>6. QED
  BY <1>2, <1>3, <1>4, <1>5, TaskAloneStep

-----------------------------------------------------------------------------
(* The steps and the pool *)

\* A request on a transport on which nothing is pending.
LEMMA AskedFacts ==
  ASSUME PoolInv, NEW t \in DOMAIN transports, NEW a \in Tasks
  PROVE  /\ Asked(transports, t, a) \in Seq(Transports)
         /\ DOMAIN Asked(transports, t, a) = DOMAIN transports
         /\ Quiet(transports[t]) => Own(Asked(transports, t, a)[t], a)
         /\ \A u \in DOMAIN transports \ {t} : Asked(transports, t, a)[u] = transports[u]
<1>1. /\ transports \in Seq(Transports) /\ transports[t] \in Transports
      /\ transports[t].asked \in Seq(Tasks)
  <2>1. transports \in Seq(Transports)
    BY DEF PoolInv, ConnType
  <2>2. transports[t] \in Transports
    BY <2>1
  <2>3. QED
    BY <2>1, <2>2 DEF Transports
<1>2. [transports[t] EXCEPT !.asked = Append(@, a)] \in Transports
  <2> DEFINE s == Append(transports[t].asked, a)
  <2>1. s \in Seq(Tasks)
    BY <1>1
  <2> HIDE DEF s
  <2>2. [transports[t] EXCEPT !.asked = s] \in Transports
    BY <1>1, <2>1 DEF Transports
  <2>3. QED
    BY <2>2 DEF s
<1>3. Asked(transports, t, a) = [transports EXCEPT ![t] = [transports[t] EXCEPT !.asked = Append(@, a)]]
  BY DEF Asked
<1>4. Asked(transports, t, a) \in Seq(Transports)
  BY <1>1, <1>2, <1>3
<1>5. Quiet(transports[t]) => Own(Asked(transports, t, a)[t], a)
  <2>1. Append(<<>>, a) = <<a>>
    OBVIOUS
  <2>2. Asked(transports, t, a)[t] = [transports[t] EXCEPT !.asked = Append(@, a)]
    BY <1>3
  <2>3. /\ Asked(transports, t, a)[t].asked = Append(transports[t].asked, a)
        /\ Asked(transports, t, a)[t].answers = transports[t].answers
    BY <1>1, <2>2 DEF Transports
  <2>4. QED
    BY <2>1, <2>3 DEF Quiet, Own
<1>6. QED
  BY <1>3, <1>4, <1>5

\* The transports of other tasks and of the pool are not touched by a change of the one of a.
LEMMA OthersAreCalm ==
  ASSUME PoolInv, NEW t, NEW us, DOMAIN transports \subseteq DOMAIN us,
         \A u \in DOMAIN transports \ {t} : us[u] = transports[u]
  PROVE  /\ \A b \in Holders : task[b].on # 0 /\ task[b].on # t => Calmer(us[task[b].on], transports[task[b].on])
         /\ \A i \in DOMAIN pool : pool[i] # t => Calmer(us[pool[i]], transports[pool[i]])
<1>1. \A b \in Holders : task[b].on # 0 => task[b].on \in DOMAIN transports
  BY DEF PoolInv, Holders, TaskOK
<1>2. \A i \in DOMAIN pool : pool[i] \in DOMAIN transports
  BY DEF PoolInv, PoolOK
<1>3. QED
  BY <1>1, <1>2 DEF Calmer

LEMMA AcquireKeepsPool ==
  ASSUME PoolInv, NEW c \in Commands, Acquire(c)
  PROVE  PoolInv'
<1>0. c \in Tasks /\ TaskFact(c) /\ task[c].at \in {"idle", "permit"}
  BY TaskFacts DEF Tasks, Acquire
<1>1. CASE task' = [task EXCEPT ![c] = At("failed")] /\ UNCHANGED <<transports, pool>>
  BY <1>0, <1>1, OneTaskEnds
<1>2. CASE task' = [task EXCEPT ![c].at = "permit"] /\ UNCHANGED <<transports, pool>>
  <2> DEFINE r == [task[c] EXCEPT !.at = "permit"]
  <2>1. r \in TaskRecords /\ r.at = "permit" /\ r.wake = ""
    <3>1. task[c].wake = ""
      BY <1>0 DEF TaskFact, TaskOK, Holding
    <3>2. QED
      BY <1>0, <3>1 DEF TaskFact, TaskRecords, Places
  <2>2. task' = [task EXCEPT ![c] = r]
    BY <1>2
  <2> HIDE DEF r
  <2>3. r.at \notin Holding /\ TaskOK(c, r, transports)
    BY <2>1 DEF TaskOK, Holding
  <2>4. QED
    BY <1>0, <1>2, <2>1, <2>2, <2>3, TaskAloneStep
<1>3. CASE HasPermit /\ task' = [task EXCEPT ![c] = Await(c, "connect", NoTransport)]
             /\ UNCHANGED <<transports, pool>>
  <2> DEFINE r == Await(c, "connect", NoTransport)
  <2>1. r \in TaskRecords /\ r.at = "connect" /\ r.on = 0 /\ r.wake = ""
    BY <1>0 DEF Await, TaskFact, TaskRecords, Places, Holding, NoTransport
  <2> HIDE DEF r
  <2>2. TaskOK(c, r, transports)
    BY <2>1 DEF TaskOK, Holding
  <2>3. task' = [task EXCEPT ![c] = r]
    BY <1>3 DEF r
  <2>4. QED
    BY <1>0, <1>3, <2>1, <2>2, <2>3, TaskAloneStep
<1>4. CASE /\ HasPermit /\ pool # <<>> /\ task' = [task EXCEPT ![c] = Await(c, "recv", Head(pool))]
           /\ transports' = Asked(transports, Head(pool), c) /\ pool' = Tail(pool)
  <2> DEFINE t == Head(pool)
             r == Await(c, "recv", t)
  <2>1. /\ pool \in Seq(Nat) /\ 1 \in DOMAIN pool /\ t = pool[1]
        /\ \A i \in DOMAIN pool' : i + 1 \in DOMAIN pool /\ pool'[i] = pool[i + 1] /\ i + 1 # 1
        /\ \A i, j \in DOMAIN pool' : i # j => i + 1 # j + 1
        /\ pool' \in Seq(Nat)
    BY <1>4 DEF PoolInv, ConnType
  <2>2. t \in DOMAIN transports /\ t \in Nat /\ t # 0 /\ Quiet(transports[t])
    BY <2>1 DEF PoolInv, PoolOK, ConnType
  <2> HIDE DEF t
  <2>3. r \in TaskRecords /\ r.at = "recv" /\ r.on = t /\ r.wake = ""
    BY <1>0, <2>2 DEF Await, TaskFact, TaskRecords, Places, Holding, NoTransport
  <2>4. task' = [task EXCEPT ![c] = r] /\ transports' = Asked(transports, t, c)
    BY <1>4 DEF t
  <2> HIDE DEF r
  <2>5. /\ transports' \in Seq(Transports) /\ DOMAIN transports' = DOMAIN transports
        /\ Own(transports'[t], c)
        /\ \A u \in DOMAIN transports \ {t} : transports'[u] = transports[u]
    BY <1>0, <2>2, <2>4, AskedFacts
  <2>6. /\ task' \in [Tasks -> TaskRecords] /\ task'[c] = r
        /\ \A b \in Tasks \ {c} : SameUse(task'[b], task[b])
    BY <1>0, <2>3, <2>4, OneTaskType
  <2>7. \A b \in Holders : task[b].on # 0 => task[b].on # t /\ \A i \in DOMAIN pool' : pool'[i] # task[b].on
    BY <2>1 DEF PoolInv, ConnTypeOK, NoTransport
  <2>8. \A b \in Holders : task[b].on # 0 => Calmer(transports'[task[b].on], transports[task[b].on])
    BY <2>5, <2>7, OthersAreCalm
  <2>9. TaskOK(c, task'[c], transports')
    BY <2>2, <2>3, <2>5, <2>6 DEF TaskOK
  <2>10. \A i \in DOMAIN pool' : pool'[i] # t
    BY <2>1 DEF PoolInv, ConnTypeOK
  <2>11. PoolOK(pool', transports')
    BY <2>1, <2>5, <2>10 DEF PoolInv, PoolOK
  <2>12. \A i, j \in DOMAIN pool' : i # j => pool'[i] # pool'[j]
    BY <2>1 DEF PoolInv, ConnTypeOK
  <2>13. ConnType'
    BY <2>1, <2>5, <2>6 DEF ConnType
  <2>14. task'[c].on # 0 => \A b \in Holders \ {c} : task[b].on # task'[c].on
    BY <2>3, <2>6, <2>7
  <2>15. QED
    BY <1>0, <1>4, <2>3, <2>5, <2>6, <2>7, <2>8, <2>9, <2>10, <2>11, <2>12, <2>13, <2>14, OneTaskStep
<1>5. QED
  BY <1>1, <1>2, <1>3, <1>4 DEF Acquire

LEMMA ConnectsKeepsPool ==
  ASSUME PoolInv, NEW a \in Tasks, Connects(a)
  PROVE  PoolInv'
<1>0. TaskFact(a) /\ task[a].at = "connect" /\ a \in Holders
  BY TaskFacts DEF Connects, Holders, Holding
<1>1. CASE \E w \in {"lost", "refused"} : WakeTask(a, w) /\ UNCHANGED <<transports, pool>>
  <2>1. PICK w \in {"lost", "refused"} : WakeTask(a, w) /\ UNCHANGED <<transports, pool>>
    BY <1>1
  <2>2. w \in {"ok", "lost", "refused", "crash"} /\ w # "ok" /\ task[a].at \in Holding
    BY <1>0 DEF Holding
  <2>3. QED
    BY <2>1, <2>2, WakeStep
<1>2. CASE /\ transports' = Append(transports, [state |-> "open", asked |-> <<>>, answers |-> <<>>])
           /\ task' = [task EXCEPT ![a].wake = "ok", ![a].on = Len(transports) + 1] /\ UNCHANGED pool
  <2> DEFINE n == Len(transports) + 1
             r == [task[a] EXCEPT !.wake = "ok", !.on = n]
             tr == [state |-> "open", asked |-> <<>>, answers |-> <<>>]
  <2>1. tr \in Transports /\ Quiet(tr)
    BY DEF Transports, Quiet
  <2>2. transports \in Seq(Transports) /\ n \in Nat \ {0} /\ DOMAIN transports = 1 .. Len(transports)
        /\ n \notin DOMAIN transports
    BY DEF PoolInv, ConnType
  <2> HIDE DEF tr
  <2>3. /\ transports' \in Seq(Transports) /\ DOMAIN transports \subseteq DOMAIN transports'
        /\ n \in DOMAIN transports' /\ transports'[n] = tr
        /\ \A u \in DOMAIN transports \ {n} : transports'[u] = transports[u]
    BY <1>2, <2>1, <2>2 DEF tr
  <2> HIDE DEF n
  <2>4. r \in TaskRecords /\ r.at = "connect" /\ r.on = n /\ r.wake = "ok"
    BY <1>0, <2>2 DEF TaskFact, TaskRecords
  <2>5. task' = [task EXCEPT ![a] = r]
    BY <1>2 DEF n
  <2> HIDE DEF r
  <2>6. /\ task' \in [Tasks -> TaskRecords] /\ task'[a] = r
        /\ \A b \in Tasks \ {a} : SameUse(task'[b], task[b])
    BY <2>4, <2>5, OneTaskType
  <2>7. /\ \A b \in Holders : task[b].on # 0 => task[b].on # n
        /\ \A i \in DOMAIN pool : pool[i] # n
    BY <2>2 DEF PoolInv, PoolOK, TaskOK, Holders
  <2>8. /\ \A b \in Holders : task[b].on # 0 => Calmer(transports'[task[b].on], transports[task[b].on])
        /\ \A i \in DOMAIN pool : Calmer(transports'[pool[i]], transports[pool[i]])
    BY <2>3, <2>7, OthersAreCalm
  <2>9. TaskOK(a, task'[a], transports')
    BY <2>1, <2>2, <2>3, <2>4, <2>6 DEF TaskOK, Holding
  <2>10. PoolOK(pool', transports')
    BY <1>2, <2>3, <2>8, PoolStaysOK DEF PoolInv
  <2>11. ConnType'
    BY <1>2, <2>3, <2>6 DEF PoolInv, ConnType
  <2>12. /\ \A i, j \in DOMAIN pool' : i # j => pool'[i] # pool'[j]
         /\ \A b \in Holders \ {a} : task[b].on # 0 => \A i \in DOMAIN pool' : pool'[i] # task[b].on
    BY <1>2 DEF PoolInv, ConnTypeOK, NoTransport
  <2>13. /\ \A i \in DOMAIN pool' : pool'[i] # task'[a].on
         /\ \A b \in Holders \ {a} : task[b].on # task'[a].on
    BY <1>2, <2>2, <2>4, <2>6, <2>7
  <2>14. QED
    BY <1>0, <2>3, <2>6, <2>8, <2>9, <2>10, <2>11, <2>12, <2>13, OneTaskStep
<1>3. QED
  BY <1>1, <1>2 DEF Connects

\* A step that changes the transport t, which a has or nobody.
LEMMA OneTransportStep ==
  ASSUME PoolInv, NEW a \in Tasks, NEW r \in TaskRecords, task' = [task EXCEPT ![a] = r],
         NEW t \in DOMAIN transports, transports' \in Seq(Transports), DOMAIN transports' = DOMAIN transports,
         \A u \in DOMAIN transports \ {t} : transports'[u] = transports[u],
         \A b \in Holders \ {a} : task[b].on # t, UNCHANGED pool,
         \A i \in DOMAIN pool : pool[i] # t,
         TaskOK(a, r, transports'),
         r.at \in Holding => a \in Holders /\ r.on = task[a].on
  PROVE  PoolInv'
<1>1. /\ task' \in [Tasks -> TaskRecords] /\ task'[a] = r
      /\ \A b \in Tasks \ {a} : SameUse(task'[b], task[b])
  BY OneTaskType
<1>2. ConnType'
  BY <1>1 DEF PoolInv, ConnType
<1>3. /\ \A b \in Holders \ {a} : task[b].on # 0 => Calmer(transports'[task[b].on], transports[task[b].on])
      /\ \A i \in DOMAIN pool : Calmer(transports'[pool[i]], transports[pool[i]])
  BY OthersAreCalm
<1>4. PoolOK(pool', transports')
  BY <1>3, PoolStaysOK DEF PoolInv
<1>5. /\ \A i, j \in DOMAIN pool' : i # j => pool'[i] # pool'[j]
      /\ \A b \in Holders \ {a} : task[b].on # 0 => \A i \in DOMAIN pool' : pool'[i] # task[b].on
  BY DEF PoolInv, ConnTypeOK, NoTransport
<1>6. task'[a].at \in Holding /\ task'[a].on # 0 =>
        /\ \A i \in DOMAIN pool' : pool'[i] # task'[a].on
        /\ \A b \in Holders \ {a} : task[b].on # task'[a].on
  BY <1>1, HasOneUser DEF Holders
<1>7. QED
  BY <1>1, <1>2, <1>3, <1>4, <1>5, <1>6, OneTaskStep

LEMMA ServeKeepsPool ==
  ASSUME PoolInv, NEW t \in DOMAIN transports, Serve(t)
  PROVE  PoolInv'
<1> DEFINE tr == transports[t]
           new == [tr EXCEPT !.asked = Tail(@), !.answers = Append(@, Head(tr.asked))]
<1>1. /\ tr.asked # <<>> /\ transports' = [transports EXCEPT ![t] = new]
      /\ UNCHANGED <<task, pool>>
  BY DEF Serve
<1>2. transports \in Seq(Transports)
  BY DEF PoolInv, ConnType
<1>3. tr \in Transports /\ tr.asked \in Seq(Tasks) /\ tr.answers \in Seq(Tasks)
  <2>1. tr \in Transports
    BY <1>2
  <2>2. QED
    BY <2>1 DEF Transports
<1>4. Tail(tr.asked) \in Seq(Tasks) /\ Append(tr.answers, Head(tr.asked)) \in Seq(Tasks)
  BY <1>1, <1>3
<1>5. new \in Transports /\ new.asked = Tail(tr.asked) /\ new.answers = Append(tr.answers, Head(tr.asked))
  BY <1>3, <1>4 DEF Transports
<1>6. \A c \in Commands : Own(tr, c) => Own(new, c)
  <2> SUFFICES ASSUME NEW c \in Commands, Own(tr, c) PROVE Own(new, c)
    OBVIOUS
  <2>1. tr.asked = <<c>> /\ tr.answers = <<>>
    BY <1>1 DEF Own
  <2>2. Tail(<<c>>) = <<>> /\ Append(<<>>, Head(<<c>>)) = <<c>>
    OBVIOUS
  <2>3. new.asked = <<>> /\ new.answers = <<c>>
    BY <1>5, <2>1, <2>2
  <2>4. QED
    BY <2>3 DEF Own
<1>7. ~ Quiet(tr)
  BY <1>1 DEF Quiet
<1> HIDE DEF new
<1>8. /\ transports' \in Seq(Transports) /\ DOMAIN transports' = DOMAIN transports
      /\ transports'[t] = new /\ \A u \in DOMAIN transports \ {t} : transports'[u] = transports[u]
  BY <1>1, <1>2, <1>5
<1>9. \A i \in DOMAIN pool : pool[i] # t
  BY <1>7 DEF PoolInv, PoolOK
<1>10. PICK a \in Tasks : \A b \in Holders \ {a} : task[b].on # t
  <2>1. CASE \E a \in Holders : task[a].on = t
    <3>1. PICK a \in Holders : task[a].on = t
      BY <2>1
    <3>2. t # 0 /\ a \in Tasks
      BY <1>2 DEF Holders
    <3>3. \A b \in Holders \ {a} : task[b].on # t
      BY <3>1, <3>2 DEF PoolInv, ConnTypeOK, NoTransport
    <3>4. QED
      BY <3>2, <3>3
  <2>2. CASE ~ \E a \in Holders : task[a].on = t
    BY <2>2 DEF Tasks
  <2>3. QED
    BY <2>1, <2>2
<1>11. TaskFact(a)
  BY TaskFacts
<1>12. TaskOK(a, task[a], transports')
  <2>1. CASE task[a].at \in Holding /\ task[a].on = t
    BY <1>6, <1>7, <1>8, <1>11, <2>1 DEF TaskFact, TaskOK, Holding
  <2>2. CASE task[a].at \in Holding /\ task[a].on # t /\ task[a].on # 0
    <3>1. task[a].on \in DOMAIN transports
      BY <1>11, <2>2 DEF TaskFact, TaskOK
    <3>2. QED
      BY <1>8, <1>11, <2>2, <3>1 DEF TaskFact, TaskOK, Holding
  <2>3. CASE task[a].at \notin Holding \/ task[a].on = 0
    BY <1>8, <1>11, <2>3 DEF TaskFact, TaskOK, Holding
  <2>4. QED
    BY <2>1, <2>2, <2>3
<1>13. task' = [task EXCEPT ![a] = task[a]] /\ task[a] \in TaskRecords
  BY <1>1, <1>11 DEF TaskFact, PoolInv, ConnType
<1>14. task[a].at \in Holding => a \in Holders
  BY DEF Holders
<1>15. QED
  BY <1>1, <1>8, <1>9, <1>10, <1>12, <1>13, <1>14, OneTransportStep

LEMMA ReceiveKeepsPool ==
  ASSUME PoolInv, NEW a \in Tasks, Receive(a)
  PROVE  PoolInv'
<1> DEFINE t == task[a].on
           tr == transports[t]
           r == [task[a] EXCEPT !.wake = "ok", !.got = Head(tr.answers)]
           new == [tr EXCEPT !.answers = Tail(@)]
<1>1. /\ task[a].at \in {"recv", "subscribe"} /\ task[a].wake = "" /\ tr.answers # <<>>
      /\ task' = [task EXCEPT ![a] = r] /\ transports' = [transports EXCEPT ![t] = new]
      /\ UNCHANGED pool
  BY DEF Receive
<1>2. TaskFact(a) /\ a \in Holders /\ task[a].at \in Holding
  BY <1>1, TaskFacts DEF Holders, Holding
<1>3. t # 0 /\ t \in DOMAIN transports
  BY <1>1, <1>2 DEF TaskFact, TaskOK
<1>4. transports \in Seq(Transports)
  BY DEF PoolInv, ConnType
<1> HIDE DEF t
<1>5. tr \in Transports
  BY <1>3, <1>4
<1>6. tr.answers \in Seq(Tasks)
  BY <1>5 DEF Transports
<1>7. Head(tr.answers) \in Tasks /\ Tail(tr.answers) \in Seq(Tasks)
  <2>1. tr.answers # <<>>
    BY <1>1
  <2> HIDE DEF tr
  <2>2. QED
    BY <1>6, <2>1
<1>8. new \in Transports /\ new.asked = tr.asked /\ new.answers = Tail(tr.answers)
  BY <1>5, <1>7 DEF Transports
<1>9. r \in TaskRecords /\ r.at = task[a].at /\ r.on = t /\ r.wake = "ok" /\ r.got = Head(tr.answers)
  BY <1>2, <1>7 DEF TaskFact, TaskRecords, t
<1> HIDE DEF new, r
<1>10. /\ transports' \in Seq(Transports) /\ DOMAIN transports' = DOMAIN transports
       /\ transports'[t] = new /\ \A u \in DOMAIN transports \ {t} : transports'[u] = transports[u]
  <2>1. transports' = [transports EXCEPT ![t] = new]
    BY <1>1
  <2>2. QED
    BY <1>3, <1>4, <1>8, <2>1
<1>11. TaskOK(a, r, transports')
  <2>1. CASE a \in Commands /\ task[a].at = "recv"
    <3>1. Own(tr, a)
      BY <1>1, <1>2, <2>1 DEF TaskFact, TaskOK, t
    <3>2. tr.answers = <<a>> /\ tr.asked = <<>>
      BY <1>1, <3>1 DEF Own
    <3>3. Head(<<a>>) = a /\ Tail(<<a>>) = <<>>
      OBVIOUS
    <3>4. Quiet(new) /\ r.got = a
      BY <1>8, <1>9, <3>2, <3>3 DEF Quiet
    <3>5. QED
      BY <1>2, <1>3, <1>9, <1>10, <2>1, <3>4 DEF TaskOK
  <2>2. CASE ~ (a \in Commands /\ task[a].at = "recv")
    BY <1>1, <1>2, <1>3, <1>9, <1>10, <2>2 DEF TaskOK
  <2>3. QED
    BY <2>1, <2>2
<1>12. /\ \A i \in DOMAIN pool : pool[i] # t
       /\ \A b \in Holders \ {a} : task[b].on # t
  BY <1>2, <1>3, HasOneUser DEF t
<1>13. r.on = task[a].on
  BY <1>9 DEF t
<1>14. QED
  BY <1>1, <1>2, <1>3, <1>9, <1>10, <1>11, <1>12, <1>13, OneTransportStep

\* A closed transport has nothing pending.
LEMMA ClosedFacts ==
  ASSUME PoolInv, NEW t \in DOMAIN transports
  PROVE  /\ t # NoTransport /\ Closed(transports, t) \in Seq(Transports)
         /\ DOMAIN Closed(transports, t) = DOMAIN transports
         /\ \A u \in DOMAIN transports \ {t} : Closed(transports, t)[u] = transports[u]
<1> DEFINE tr == [state |-> "closed", asked |-> <<>>, answers |-> <<>>]
<1>1. transports \in Seq(Transports) /\ t # 0
  BY DEF PoolInv, ConnType
<1>2. tr \in Transports
  BY DEF Transports
<1>3. Closed(transports, t) = [transports EXCEPT ![t] = tr]
  BY <1>1 DEF Closed, NoTransport
<1> HIDE DEF tr
<1>4. QED
  BY <1>1, <1>2, <1>3 DEF NoTransport

\* A command fails: its transport is closed, and the manager is cancelled.
LEMMA CommandFailsKeepsPool ==
  ASSUME PoolInv, NEW c \in Commands, task[c].at \in {"connect", "recv"}, UNCHANGED pool,
         task' = [CancelManager EXCEPT ![c] = At("failed")],
         transports' = Closed(transports, task[c].on)
  PROVE  PoolInv'
<1>0. c \in Tasks /\ Manager \in Tasks /\ c # Manager /\ TaskFact(c) /\ TaskFact(Manager)
  BY TaskFacts, PoolAssumption DEF Tasks
<1> DEFINE m == [task[Manager] EXCEPT !.cancelled = TRUE]
<1>1. m \in TaskRecords /\ SameUse(m, task[Manager])
  BY <1>0 DEF TaskFact, TaskRecords, SameUse
<1>2. At("failed") \in TaskRecords /\ At("failed").at \notin Holding /\ TaskOK(c, At("failed"), transports')
  BY DEF At, TaskRecords, Places, Holding, TaskOK, NoTransport
<1>3. CancelManager = task \/ CancelManager = [task EXCEPT ![Manager] = m]
  BY DEF CancelManager
<1> HIDE DEF m
<1>4. /\ CancelManager \in [Tasks -> TaskRecords]
      /\ \A b \in Tasks : SameUse(CancelManager[b], task[b])
  BY <1>0, <1>1, <1>3 DEF PoolInv, ConnType, SameUse
<1>5. /\ task' \in [Tasks -> TaskRecords] /\ task'[c] = At("failed")
      /\ \A b \in Tasks \ {c} : SameUse(task'[b], task[b])
  BY <1>0, <1>2, <1>4
<1>6. /\ transports' \in Seq(Transports) /\ DOMAIN transports' = DOMAIN transports
      /\ \A u \in DOMAIN transports \ {task[c].on} : transports'[u] = transports[u]
  <2>1. CASE task[c].on = 0
    BY <2>1 DEF Closed, NoTransport, PoolInv, ConnType
  <2>2. CASE task[c].on # 0
    <3>1. task[c].on \in DOMAIN transports
      BY <1>0, <2>2 DEF TaskFact, TaskOK, Holding
    <3>2. QED
      BY <3>1, ClosedFacts
  <2>3. QED
    BY <2>1, <2>2
<1>7. task[c].on # 0 => /\ \A i \in DOMAIN pool : pool[i] # task[c].on
                        /\ \A b \in Holders \ {c} : task[b].on # task[c].on
  BY <1>0, HasOneUser DEF Holding
<1>8. \A i \in DOMAIN pool : pool[i] # 0
  BY DEF PoolInv, PoolOK, ConnType
<1>9. /\ \A b \in Holders \ {c} : task[b].on # 0 => Calmer(transports'[task[b].on], transports[task[b].on])
      /\ \A i \in DOMAIN pool : Calmer(transports'[pool[i]], transports[pool[i]])
  BY <1>6, <1>7, <1>8, OthersAreCalm
<1>10. PoolOK(pool', transports')
  BY <1>6, <1>9, PoolStaysOK DEF PoolInv
<1>11. ConnType'
  BY <1>5, <1>6 DEF PoolInv, ConnType
<1>12. /\ \A i, j \in DOMAIN pool' : i # j => pool'[i] # pool'[j]
       /\ \A b \in Holders \ {c} : task[b].on # 0 => \A i \in DOMAIN pool' : pool'[i] # task[b].on
  BY DEF PoolInv, ConnTypeOK, NoTransport
<1>13. QED
  BY <1>0, <1>2, <1>5, <1>6, <1>9, <1>10, <1>11, <1>12, OneTaskStep

LEMMA ResumeCommandKeepsPool ==
  ASSUME PoolInv, NEW c \in Commands, ResumeCommand(c)
  PROVE  PoolInv'
<1>0. /\ c \in Tasks /\ TaskFact(c) /\ task[c].at \in {"connect", "recv"} /\ c \in Holders
      /\ task[c].at \in Holding
  BY TaskFacts DEF Tasks, ResumeCommand, Holders, Holding
<1> DEFINE t == task[c].on
<1>1. CASE /\ task[c].wake = "ok" /\ task[c].at = "connect"
           /\ task' = [task EXCEPT ![c] = Await(c, "recv", t)]
           /\ transports' = Asked(transports, t, c) /\ UNCHANGED pool
  <2> DEFINE r == Await(c, "recv", t)
  <2>1. t # 0 /\ t \in DOMAIN transports /\ Quiet(transports[t]) /\ t \in Nat
    BY <1>0, <1>1 DEF TaskFact, TaskOK
  <2>2. r \in TaskRecords /\ r.at = "recv" /\ r.on = t /\ r.wake = ""
    BY <1>0 DEF Await, TaskFact, TaskRecords, Places, Holding, NoTransport
  <2>3. task' = [task EXCEPT ![c] = r]
    BY <1>1
  <2> HIDE DEF r
  <2>4. /\ \A i \in DOMAIN pool : pool[i] # t
        /\ \A b \in Holders \ {c} : task[b].on # t
    BY <1>0, <2>1, HasOneUser
  <2>5. r.on = task[c].on
    BY <2>2
  <2> HIDE DEF t
  <2>6. /\ transports' \in Seq(Transports) /\ DOMAIN transports' = DOMAIN transports
        /\ Own(transports'[t], c)
        /\ \A u \in DOMAIN transports \ {t} : transports'[u] = transports[u]
    BY <1>0, <1>1, <2>1, AskedFacts
  <2>7. TaskOK(c, r, transports')
    BY <2>1, <2>2, <2>6 DEF TaskOK
  <2>8. QED
    BY <1>0, <1>1, <2>1, <2>2, <2>3, <2>4, <2>5, <2>6, <2>7, OneTransportStep
<1>2. CASE /\ task[c].wake = "ok" /\ task[c].at = "recv"
           /\ task' = [task EXCEPT ![c] = [At("done") EXCEPT !.got = task[c].got]]
           /\ pool' = Append(pool, t) /\ UNCHANGED transports
  <2> DEFINE r == [At("done") EXCEPT !.got = task[c].got]
  <2>1. /\ t # 0 /\ t \in DOMAIN transports /\ Quiet(transports[t]) /\ t \in Nat
        /\ task[c].got = c
    BY <1>0, <1>2 DEF TaskFact, TaskOK
  <2>2. r \in TaskRecords /\ r.at = "done" /\ r.wake = "" /\ r.got = c
    <3>1. At("done") \in TaskRecords /\ At("done").at = "done" /\ At("done").wake = ""
      BY DEF At, TaskRecords, Places, NoTransport
    <3>2. QED
      BY <1>0, <2>1, <3>1 DEF TaskRecords
  <2>3. task' = [task EXCEPT ![c] = r]
    BY <1>2
  <2> HIDE DEF r
  <2>4. /\ \A i \in DOMAIN pool : pool[i] # t
        /\ \A b \in Holders \ {c} : task[b].on # t
    BY <1>0, <2>1, HasOneUser
  <2>5. /\ task' \in [Tasks -> TaskRecords] /\ task'[c] = r
        /\ \A b \in Tasks \ {c} : SameUse(task'[b], task[b])
    BY <1>0, <2>2, <2>3, OneTaskType
  <2> DEFINE n == Len(pool)
  <2>6. /\ pool \in Seq(Nat) /\ n \in Nat /\ DOMAIN pool = 1 .. n
        /\ \A i, j \in DOMAIN pool : i # j => pool[i] # pool[j]
        /\ \A i \in DOMAIN pool : pool[i] \in DOMAIN transports /\ Quiet(transports[pool[i]])
        /\ \A b \in Holders : task[b].on # 0 => \A i \in DOMAIN pool : pool[i] # task[b].on
    BY DEF PoolInv, ConnType, ConnTypeOK, PoolOK, NoTransport
  <2> HIDE DEF t
  <2>7. /\ pool' \in Seq(Nat) /\ DOMAIN pool' = 1 .. n + 1 /\ pool'[n + 1] = t
        /\ \A i \in DOMAIN pool : pool'[i] = pool[i]
    BY <1>2, <2>1, <2>6
  <2> HIDE DEF n
  <2>8. \A i \in DOMAIN pool' : i = n + 1 \/ i \in DOMAIN pool
    BY <2>6, <2>7
  <2>9. PoolOK(pool', transports')
    BY <1>2, <2>1, <2>6, <2>7, <2>8 DEF PoolOK
  <2>10. \A i, j \in DOMAIN pool' : i # j => pool'[i] # pool'[j]
    BY <2>4, <2>6, <2>7, <2>8
  <2>11. \A b \in Holders \ {c} : task[b].on # 0 => \A i \in DOMAIN pool' : pool'[i] # task[b].on
    BY <2>4, <2>6, <2>7, <2>8
  <2>12. ConnType'
    BY <1>2, <2>5, <2>7 DEF PoolInv, ConnType
  <2>13. TaskOK(c, task'[c], transports') /\ task'[c].at \notin Holding
    BY <2>2, <2>5 DEF TaskOK, Holding
  <2>14. \A b \in Holders \ {c} : Calmer(transports'[task[b].on], transports[task[b].on])
    BY <1>2 DEF Calmer
  <2>15. QED
    BY <1>0, <1>2, <2>5, <2>9, <2>10, <2>11, <2>12, <2>13, <2>14, OneTaskStep
<1>3. CASE /\ task' = [CancelManager EXCEPT ![c] = At("failed")]
           /\ transports' = Closed(transports, t) /\ UNCHANGED pool
  BY <1>0, <1>3, CommandFailsKeepsPool
<1>4. QED
  BY <1>1, <1>2, <1>3 DEF ResumeCommand

\* The manager ends, and with it the client when the assertion fails.
LEMMA ManagerEndsKeepsPool ==
  ASSUME PoolInv, NEW s, ManagerEnds(s), UNCHANGED pool,
         transports' \in Seq(Transports), DOMAIN transports' = DOMAIN transports,
         \/ transports' = transports
         \/ /\ task[Manager].at \in Holding /\ task[Manager].on \in DOMAIN transports
            /\ \A u \in DOMAIN transports \ {task[Manager].on} : transports'[u] = transports[u]
  PROVE  PoolInv'
<1>1. Manager \in Tasks /\ TaskFact(Manager)
  BY TaskFacts DEF Tasks
<1>2. \A at \in {"failed", "cooldown", "stopped", "assertion"} :
        At(at) \in TaskRecords /\ At(at).at = at /\ At(at).wake = ""
  BY DEF At, TaskRecords, Places, Holding, NoTransport
<1>3. /\ DOMAIN transports \subseteq DOMAIN transports'
      /\ \A i \in DOMAIN pool : Calmer(transports'[pool[i]], transports[pool[i]])
  <2>1. CASE transports' = transports
    BY <2>1 DEF Calmer
  <2>2. CASE /\ task[Manager].at \in Holding /\ task[Manager].on \in DOMAIN transports
             /\ \A u \in DOMAIN transports \ {task[Manager].on} : transports'[u] = transports[u]
    <3>1. task[Manager].on # 0
      BY <2>2 DEF PoolInv, ConnType
    <3>2. \A i \in DOMAIN pool : pool[i] # task[Manager].on
      BY <1>1, <2>2, <3>1, HasOneUser
    <3>3. QED
      BY <2>2, <3>2, OthersAreCalm
  <2>3. QED
    BY <2>1, <2>2
<1>4. CASE AfterConnect(s) = "assertion"
  <2>1. task' = [a \in Tasks |-> At(IF a = Manager THEN "assertion" ELSE "failed")]
    BY <1>4 DEF ManagerEnds
  <2>2. \A b \in Tasks : task'[b] = At("assertion") \/ task'[b] = At("failed")
    BY <2>1
  <2>3. /\ task' \in [Tasks -> TaskRecords]
        /\ \A b \in Tasks : task'[b].at \in {"assertion", "failed"} /\ task'[b].wake = ""
    BY <1>2, <2>1, <2>2
  <2>4. ConnType'
    BY <2>3 DEF PoolInv, ConnType
  <2>5. QED
    BY <1>3, <2>3, <2>4, AllTasksEnd
<1>5. CASE AfterConnect(s) # "assertion"
  <2> DEFINE at == AfterConnect(s)
  <2>1. at \in {"failed", "cooldown", "stopped", "assertion"} /\ at \notin Holding
    BY <1>5 DEF AfterConnect, Holding
  <2>2. task' = [task EXCEPT ![Manager] = At(at)]
    BY <1>5 DEF ManagerEnds
  <2> HIDE DEF at
  <2>3. CASE transports' = transports
    BY <1>1, <2>1, <2>2, <2>3, OneTaskEnds
  <2>4. CASE /\ task[Manager].at \in Holding /\ task[Manager].on \in DOMAIN transports
             /\ \A u \in DOMAIN transports \ {task[Manager].on} : transports'[u] = transports[u]
    <3>1. task[Manager].on # 0
      BY <2>4 DEF PoolInv, ConnType
    <3>2. /\ \A i \in DOMAIN pool : pool[i] # task[Manager].on
          /\ \A b \in Holders \ {Manager} : task[b].on # task[Manager].on
      BY <1>1, <2>4, <3>1, HasOneUser
    <3>3. At(at) \in TaskRecords /\ At(at).at \notin Holding
      BY <1>2, <2>1
    <3>4. TaskOK(Manager, At(at), transports')
      BY <1>2, <2>1, PoolAssumption DEF TaskOK
    <3>5. QED
      BY <1>1, <2>2, <2>4, <3>2, <3>3, <3>4, OneTransportStep
  <2>5. QED
    BY <2>3, <2>4
<1>6. QED
  BY <1>4, <1>5

\* The manager awaits elsewhere, with the transport it has.
LEMMA ManagerMovesKeepsPool ==
  ASSUME PoolInv, task[Manager].at \in Holding \ {"connect"}, NEW at \in {"bootstrap", "listen"}, NEW s, NEW exc,
         ManagerAwaits(at, s, exc), UNCHANGED <<transports, pool>>
  PROVE  PoolInv'
<1>1. Manager \in Tasks /\ TaskFact(Manager) /\ Manager \in Holders /\ Manager \notin Commands
  BY TaskFacts, PoolAssumption DEF Tasks, Holders
<1>2. CASE ManagerEnds(s)
  <2>1. transports' \in Seq(Transports)
    BY DEF PoolInv, ConnType
  <2>2. QED
    BY <1>2, <2>1, ManagerEndsKeepsPool
<1>3. CASE task' = [task EXCEPT ![Manager] = Await(Manager, at, @.on)]
  <2> DEFINE r == Await(Manager, at, task[Manager].on)
  <2>1. r \in TaskRecords /\ r.at = at /\ r.on = task[Manager].on /\ r.wake = ""
    BY <1>1 DEF Await, TaskFact, TaskRecords, Places, Holding, NoTransport
  <2>2. task' = [task EXCEPT ![Manager] = r]
    BY <1>3
  <2> HIDE DEF r
  <2>3. r.on # 0 /\ r.on \in DOMAIN transports
    BY <1>1, <2>1 DEF TaskFact, TaskOK
  <2>4. TaskOK(Manager, r, transports)
    BY <1>1, <2>1, <2>3 DEF TaskOK
  <2>5. QED
    BY <1>1, <2>1, <2>2, <2>4, TaskAloneStep
<1>4. QED
  BY <1>2, <1>3 DEF ManagerAwaits

LEMMA ResumeManagerKeepsPool ==
  ASSUME PoolInv, ResumeManager
  PROVE  PoolInv'
<1>0. Manager \in Tasks /\ TaskFact(Manager) /\ Manager \notin Commands
  BY TaskFacts, PoolAssumption DEF Tasks
<1>1. task[Manager].at \in Holding /\ Manager \in Holders /\ UNCHANGED pool
  BY <1>0 DEF ResumeManager, TaskFact, TaskOK, Holders
<1> DEFINE t == task[Manager].on
<1>2. transports \in Seq(Transports)
  BY DEF PoolInv, ConnType
<1>3. CASE /\ task[Manager].wake = "ok" /\ task[Manager].at = "connect"
           /\ ManagerAwaits("subscribe", "INITIALIZING", FALSE)
           /\ transports' = IF task[Manager].cancelled THEN transports ELSE Asked(transports, t, Manager)
  <2>1. CASE task[Manager].cancelled
    <3>1. ManagerEnds("INITIALIZING") /\ transports' = transports
      BY <1>3, <2>1 DEF ManagerAwaits
    <3>2. QED
      BY <1>1, <1>2, <3>1, ManagerEndsKeepsPool
  <2>2. CASE ~ task[Manager].cancelled
    <3> DEFINE r == Await(Manager, "subscribe", t)
    <3>1. t # 0 /\ t \in DOMAIN transports /\ t \in Nat
      BY <1>0, <1>1, <1>3 DEF TaskFact, TaskOK
    <3>2. r \in TaskRecords /\ r.at = "subscribe" /\ r.on = t /\ r.wake = ""
      BY <1>0 DEF Await, TaskFact, TaskRecords, Places, Holding, NoTransport
    <3>3. task' = [task EXCEPT ![Manager] = r] /\ transports' = Asked(transports, t, Manager)
      BY <1>3, <2>2 DEF ManagerAwaits
    <3> HIDE DEF r
    <3>4. /\ \A i \in DOMAIN pool : pool[i] # t
          /\ \A b \in Holders \ {Manager} : task[b].on # t
      BY <1>0, <1>1, <3>1, HasOneUser
    <3>5. r.on = task[Manager].on /\ r.at \in Holding
      BY <3>2 DEF Holding
    <3> HIDE DEF t
    <3>6. /\ transports' \in Seq(Transports) /\ DOMAIN transports' = DOMAIN transports
          /\ \A u \in DOMAIN transports \ {t} : transports'[u] = transports[u]
      BY <1>0, <3>1, <3>3, AskedFacts
    <3>7. TaskOK(Manager, r, transports')
      BY <1>0, <3>1, <3>2, <3>5, <3>6 DEF TaskOK
    <3>8. QED
      BY <1>0, <1>1, <3>1, <3>2, <3>3, <3>4, <3>5, <3>6, <3>7, OneTransportStep
  <2>3. QED
    BY <2>1, <2>2
<1>4. CASE /\ task[Manager].at = "subscribe"
           /\ ManagerAwaits("bootstrap", connStatus, statusExc) /\ UNCHANGED transports
  BY <1>1, <1>4, ManagerMovesKeepsPool
<1>5. CASE /\ task[Manager].at = "bootstrap"
           /\ ManagerAwaits("listen", "READY", FALSE) /\ UNCHANGED transports
  BY <1>1, <1>5, ManagerMovesKeepsPool
<1>6. CASE ManagerEnds(StatusOf(task[Manager].wake)) /\ transports' = Closed(transports, t)
  <2>1. CASE t = 0
    <3>1. transports' = transports
      BY <1>6, <2>1 DEF Closed, NoTransport
    <3>2. QED
      BY <1>1, <1>2, <1>6, <3>1, ManagerEndsKeepsPool
  <2>2. CASE t # 0
    <3>1. t \in DOMAIN transports
      BY <1>0, <1>1, <2>2 DEF TaskFact, TaskOK
    <3>2. /\ transports' \in Seq(Transports) /\ DOMAIN transports' = DOMAIN transports
          /\ \A u \in DOMAIN transports \ {t} : transports'[u] = transports[u]
      BY <1>6, <3>1, ClosedFacts
    <3>3. QED
      BY <1>1, <1>6, <3>1, <3>2, ManagerEndsKeepsPool
  <2>3. QED
    BY <2>1, <2>2
<1>7. QED
  BY <1>3, <1>4, <1>5, <1>6 DEF ResumeManager

LEMMA ManagerConnectsKeepsPool ==
  ASSUME PoolInv, ManagerConnects
  PROVE  PoolInv'
<1>0. Manager \in Tasks /\ TaskFact(Manager) /\ Manager \notin Commands
  BY TaskFacts, PoolAssumption DEF Tasks
<1> DEFINE at == IF HasPermit THEN "connect" ELSE "permit"
           r == Await(Manager, at, NoTransport)
<1>1. at \in {"connect", "permit"} /\ (at \in Holding => HasPermit)
  BY DEF Holding
<1>2. task' = [task EXCEPT ![Manager] = r] /\ UNCHANGED <<transports, pool>>
  BY DEF ManagerConnects
<1> HIDE DEF at
<1>3. r \in TaskRecords /\ r.at = at /\ r.on = 0 /\ r.wake = ""
  BY <1>0, <1>1 DEF Await, TaskFact, TaskRecords, Places, Holding, NoTransport
<1> HIDE DEF r
<1>4. TaskOK(Manager, r, transports)
  BY <1>0, <1>1, <1>3 DEF TaskOK, Holding
<1>5. QED
  BY <1>0, <1>1, <1>2, <1>3, <1>4, TaskAloneStep

\* The network breaks transports: nothing new is pending on them.
LEMMA NetworkFaultKeepsPool ==
  ASSUME PoolInv, NetworkFault
  PROVE  PoolInv'
<1>1. UNCHANGED <<task, pool>> /\ \E which : transports' = Break(transports, which)
  BY DEF NetworkFault
<1>2. PICK which : transports' = Break(transports, which)
  BY <1>1
<1>3. transports \in Seq(Transports)
  BY DEF PoolInv, ConnType
<1>4. ASSUME NEW t \in DOMAIN transports
      PROVE  transports'[t] \in Transports /\ Calmer(transports'[t], transports[t])
  <2> DEFINE tr == transports[t]
  <2>1. tr \in Transports
    BY <1>3
  <2>2. [tr EXCEPT !.state = "broken", !.asked = <<>>] \in Transports
    <3> HIDE DEF tr
    <3>1. <<>> \in Seq(Tasks)
      OBVIOUS
    <3>2. QED
      BY <2>1, <3>1 DEF Transports
  <2>3. Calmer([tr EXCEPT !.state = "broken", !.asked = <<>>], tr) /\ Calmer(tr, tr)
    BY <2>1 DEF Calmer, Transports
  <2>4. transports'[t] \in {tr, [tr EXCEPT !.state = "broken", !.asked = <<>>]}
    BY <1>2 DEF Break
  <2>5. QED
    BY <2>1, <2>2, <2>3, <2>4
<1>5. DOMAIN transports' = DOMAIN transports /\ transports' \in Seq(Transports)
  <2>1. DOMAIN transports' = DOMAIN transports /\ transports' = [t \in DOMAIN transports |-> transports'[t]]
    BY <1>2 DEF Break
  <2>2. DOMAIN transports = 1 .. Len(transports) /\ Len(transports) \in Nat
    BY <1>3
  <2>3. QED
    BY <1>4, <2>1, <2>2
<1>6. ConnType'
  BY <1>1, <1>5 DEF PoolInv, ConnType
<1>7. Manager \in Tasks /\ \A b \in Tasks : SameUse(task'[b], task[b])
  BY <1>1 DEF Tasks, SameUse
<1>8. /\ \A b \in Holders : b \in Tasks /\ task[b].on # 0 => task[b].on \in DOMAIN transports
      /\ \A i \in DOMAIN pool : pool[i] \in DOMAIN transports
  BY DEF PoolInv, Holders, TaskOK, PoolOK
<1>9. /\ \A b \in Holders : task[b].on # 0 => Calmer(transports'[task[b].on], transports[task[b].on])
      /\ \A i \in DOMAIN pool : Calmer(transports'[pool[i]], transports[pool[i]])
  <2>1. \A b \in Holders : b \in Tasks
    BY DEF Holders
  <2>2. QED
    BY <1>4, <1>8, <2>1
<1>10. TaskOK(Manager, task'[Manager], transports')
  <2>1. TaskOK(Manager, task[Manager], transports)
    BY <1>7 DEF PoolInv
  <2>2. task[Manager].at \in Holding /\ task[Manager].on # 0 =>
          Calmer(transports'[task[Manager].on], transports[task[Manager].on])
    BY <1>7, <1>9 DEF Holders
  <2>3. QED
    BY <1>5, <1>7, <2>1, <2>2, TaskStaysOK
<1>11. PoolOK(pool', transports')
  BY <1>1, <1>5, <1>9, PoolStaysOK DEF PoolInv
<1>12. /\ \A i, j \in DOMAIN pool' : i # j => pool'[i] # pool'[j]
       /\ \A b \in Holders : task[b].on # 0 => \A i \in DOMAIN pool' : pool'[i] # task[b].on
  BY <1>1 DEF PoolInv, ConnTypeOK, NoTransport
<1>13. task'[Manager].at \in Holding => Manager \in Holders
  BY <1>1, <1>7 DEF Holders
<1>14. task'[Manager].at \in Holding /\ task'[Manager].on # 0 =>
         \A b \in Holders \ {Manager} : task[b].on # task'[Manager].on
  BY <1>1, <1>7, HasOneUser
<1>15. task'[Manager].at \in Holding /\ task'[Manager].on # 0 =>
         \A i \in DOMAIN pool' : pool'[i] # task'[Manager].on
  BY <1>1, <1>7, HasOneUser
<1>16. QED
  BY <1>5, <1>6, <1>7, <1>9, <1>10, <1>11, <1>12, <1>13, <1>14, <1>15, OneTaskStep

LEMMA PoolInvStep ==
  ASSUME PoolInv, [ConnNext]_connVars
  PROVE  PoolInv'
<1>0. Manager \in Tasks /\ Commands \subseteq Tasks
  BY DEF Tasks
<1>1. CASE ManagerConnects
  BY <1>1, ManagerConnectsKeepsPool
<1>2. CASE ResumeManager
  BY <1>2, ResumeManagerKeepsPool
<1>3. CASE ManagerCancelled
  <2>1. ManagerEnds(connStatus) /\ UNCHANGED <<transports, pool>>
    BY <1>3 DEF ManagerCancelled, GivenBack
  <2>2. transports' \in Seq(Transports)
    BY <2>1 DEF PoolInv, ConnType
  <2>3. QED
    BY <2>1, <2>2, ManagerEndsKeepsPool
<1>4. CASE MonitorsStarted
  <2>1. PICK w \in {"ok", "crash"} : WakeTask(Manager, w)
    BY <1>4 DEF MonitorsStarted
  <2>2. /\ task[Manager].at = "bootstrap" /\ task[Manager].at \in Holding
        /\ w \in {"ok", "lost", "refused", "crash"} /\ UNCHANGED <<transports, pool>>
    BY <1>4 DEF MonitorsStarted, Holding
  <2>3. QED
    BY <1>0, <2>1, <2>2, WakeStep
<1>5. ASSUME NEW a \in Tasks, Broken(a) PROVE PoolInv'
  <2>1. task[a].at \in Holding /\ WakeTask(a, "lost") /\ UNCHANGED <<transports, pool>>
    BY <1>5 DEF Broken, Holding
  <2>2. QED
    BY <2>1, WakeStep
<1>6. ASSUME NEW c \in Commands, CancelCommand(c) PROVE PoolInv'
  <2>1. task' = [task EXCEPT ![c] = At("failed")] /\ UNCHANGED <<transports, pool>>
    BY <1>6 DEF CancelCommand, GivenBack
  <2>2. QED
    BY <1>0, <2>1, OneTaskEnds
<1>7. ASSUME UNCHANGED <<task, transports, pool>> PROVE PoolInv'
  BY <1>7 DEF PoolInv, ConnType, ConnTypeOK, Holders
<1>8. CASE ManagerStep
  BY <1>0, <1>1, <1>2, <1>3, <1>4, <1>5, <1>8, ConnectsKeepsPool, ReceiveKeepsPool DEF ManagerStep
<1>9. ASSUME NEW c \in Commands, CommandStep(c) PROVE PoolInv'
  BY <1>0, <1>5, <1>9, AcquireKeepsPool, ConnectsKeepsPool, ReceiveKeepsPool, ResumeCommandKeepsPool
     DEF CommandStep
<1>10. CASE NetworkFault
  BY <1>10, NetworkFaultKeepsPool
<1>11. CASE ServerBack \/ UNCHANGED connVars
  BY <1>7, <1>11 DEF ServerBack, connVars
<1>12. QED
  BY <1>6, <1>8, <1>9, <1>10, <1>11, ServeKeepsPool DEF ConnNext

-----------------------------------------------------------------------------
(* The status *)

\* The manager is where it was, with the same status.
ManagerIsLeft ==
  /\ task'[Manager].at = task[Manager].at /\ task'[Manager].cancelled = task[Manager].cancelled
  /\ connStatus' = connStatus

LEMMA CommandsLeaveManager ==
  ASSUME PoolInv, NEW c \in Commands,
         \/ Acquire(c) \/ Connects(c) \/ Receive(c) \/ Broken(c) \/ CancelCommand(c)
         \/ ResumeCommand(c) /\ task[c].wake = "ok"
  PROVE  ManagerIsLeft
<1>1. Manager \in Tasks /\ c # Manager /\ task \in [Tasks -> TaskRecords]
  BY PoolAssumption DEF Tasks, PoolInv, ConnType
<1>2. connStatus' = connStatus
  BY DEF Acquire, Connects, Receive, Broken, CancelCommand, ResumeCommand, KeepStatus
<1>3. task'[Manager] = task[Manager]
  <2>1. CASE Acquire(c)
    BY <1>1, <2>1 DEF Acquire
  <2>2. CASE Connects(c)
    BY <1>1, <2>2 DEF Connects, WakeTask
  <2>3. CASE Receive(c)
    BY <1>1, <2>3 DEF Receive
  <2>4. CASE Broken(c) \/ CancelCommand(c)
    BY <1>1, <2>4 DEF Broken, CancelCommand, WakeTask
  <2>5. CASE ResumeCommand(c) /\ task[c].wake = "ok"
    BY <1>1, <2>5 DEF ResumeCommand
  <2>6. QED
    BY <2>1, <2>2, <2>3, <2>4, <2>5
<1>4. QED
  BY <1>2, <1>3 DEF ManagerIsLeft

LEMMA WakeLeavesManager ==
  ASSUME PoolInv, Connects(Manager) \/ Receive(Manager) \/ Broken(Manager) \/ MonitorsStarted
  PROVE  ManagerIsLeft
<1>1. Manager \in Tasks /\ task \in [Tasks -> TaskRecords] /\ task[Manager] \in TaskRecords
  BY DEF Tasks, PoolInv, ConnType
<1>2. connStatus' = connStatus
  BY DEF Connects, Receive, Broken, MonitorsStarted
<1>w. ASSUME NEW w, WakeTask(Manager, w) PROVE ManagerIsLeft
  <2>1. task'[Manager] = [task[Manager] EXCEPT !.wake = w]
    BY <1>1, <1>w DEF WakeTask
  <2>2. QED
    BY <1>1, <1>2, <2>1 DEF ManagerIsLeft, TaskRecords
<1>3. CASE Connects(Manager)
  <2>1. CASE \E w : WakeTask(Manager, w)
    BY <1>w, <2>1
  <2>2. CASE task' = [task EXCEPT ![Manager].wake = "ok", ![Manager].on = Len(transports) + 1]
    <3>1. task'[Manager] = [task[Manager] EXCEPT !.wake = "ok", !.on = Len(transports) + 1]
      BY <1>1, <2>2
    <3>2. QED
      BY <1>1, <1>2, <3>1 DEF ManagerIsLeft, TaskRecords
  <2>3. QED
    BY <1>3, <2>1, <2>2 DEF Connects
<1>4. CASE Receive(Manager)
  BY <1>1, <1>2, <1>4 DEF Receive, ManagerIsLeft, TaskRecords
<1>5. CASE Broken(Manager) \/ MonitorsStarted
  BY <1>w, <1>5 DEF Broken, MonitorsStarted
<1>6. QED
  BY <1>3, <1>4, <1>5

\* An error never sets READY.
LEMMA ErrorStatus == \A w \in {"lost", "refused", "crash"} : StatusOf(w) \in {"LOST", "REFUSED", "CRASHED"}
BY DEF StatusOf

\* A manager that ends does not listen any more.
LEMMA EndedFacts ==
  ASSUME PoolInv, NEW s, ManagerEnds(s)
  PROVE  /\ task'[Manager].at # "listen"
         /\ s \in {"READY", "INITIALIZING"} => task'[Manager].at = "assertion"
<1>1. Manager \in Tasks /\ task \in [Tasks -> TaskRecords]
  BY DEF Tasks, PoolInv, ConnType
<1>2. CASE AfterConnect(s) = "assertion"
  <2>1. task'[Manager] = At("assertion")
    BY <1>1, <1>2 DEF ManagerEnds
  <2>2. At("assertion").at = "assertion"
    BY DEF At
  <2>3. QED
    BY <2>1, <2>2
<1>3. CASE AfterConnect(s) # "assertion"
  <2>1. task'[Manager] = At(AfterConnect(s))
    BY <1>1, <1>3 DEF ManagerEnds
  <2>2. task'[Manager].at = AfterConnect(s)
    <3>1. At(AfterConnect(s)).at = AfterConnect(s)
      BY DEF At
    <3>2. QED
      BY <2>1, <3>1
  <2>3. QED
    BY <1>3, <2>2 DEF AfterConnect
<1>4. QED
  BY <1>2, <1>3

LEMMA ReadyAfterResume ==
  ASSUME PoolInv, ReadyIsListening, ResumeManager
  PROVE  ReadyIsListening'
<1>0. Manager \in Tasks /\ task \in [Tasks -> TaskRecords] /\ TaskFact(Manager)
  BY TaskFacts DEF Tasks, PoolInv, ConnType
<1>1. task[Manager].at \in Holding /\ task[Manager].at # "assertion"
  BY <1>0 DEF ResumeManager, TaskFact, TaskOK, Holding
<1>2. ASSUME NEW at \in {"subscribe", "bootstrap", "listen"}, NEW s, NEW exc, ManagerAwaits(at, s, exc),
             at = "listen" <=> s = "READY"
      PROVE  ReadyIsListening'
  <2>1. CASE task[Manager].cancelled
    <3>1. ManagerEnds(s) /\ connStatus' = s
      BY <1>2, <2>1 DEF ManagerAwaits, SetStatus
    <3>2. QED
      BY <3>1, EndedFacts DEF ReadyIsListening
  <2>2. CASE ~ task[Manager].cancelled
    <3>1. task'[Manager] = Await(Manager, at, task[Manager].on) /\ connStatus' = s
      BY <1>0, <1>2, <2>2 DEF ManagerAwaits, SetStatus
    <3>2. task'[Manager].at = at /\ task'[Manager].cancelled = task[Manager].cancelled
      <4> DEFINE r == Await(Manager, at, task[Manager].on)
      <4>1. r.at = at /\ r.cancelled = task[Manager].cancelled
        BY DEF Await
      <4> HIDE DEF r
      <4>2. task'[Manager] = r
        BY <3>1 DEF r
      <4>3. QED
        BY <4>1, <4>2
    <3>3. QED
      BY <1>2, <2>2, <3>1, <3>2 DEF ReadyIsListening
  <2>3. QED
    BY <2>1, <2>2
<1>3. CASE ManagerAwaits("subscribe", "INITIALIZING", FALSE)
  BY <1>2, <1>3
<1>4. CASE task[Manager].at = "subscribe" /\ ManagerAwaits("bootstrap", connStatus, statusExc)
  <2>1. connStatus # "READY"
    BY <1>4 DEF ReadyIsListening
  <2>2. QED
    BY <1>2, <1>4, <2>1
<1>5. CASE ManagerAwaits("listen", "READY", FALSE)
  BY <1>2, <1>5
<1>6. CASE /\ task[Manager].wake # "ok"
           /\ SetStatus(StatusOf(task[Manager].wake), TRUE) /\ ManagerEnds(StatusOf(task[Manager].wake))
  <2>1. task[Manager].wake \in {"lost", "refused", "crash"}
    BY <1>0, <1>6 DEF TaskFact, ResumeManager
  <2>2. connStatus' # "READY"
    BY <1>6, <2>1, ErrorStatus DEF SetStatus
  <2>3. task'[Manager].at # "listen"
    BY <1>6, EndedFacts
  <2>4. QED
    BY <2>2, <2>3 DEF ReadyIsListening
<1>7. QED
  BY <1>3, <1>4, <1>5, <1>6 DEF ResumeManager

LEMMA ReadyAfterFailure ==
  ASSUME PoolInv, ReadyIsListening, NEW c \in Commands, ResumeCommand(c), task[c].wake # "ok"
  PROVE  ReadyIsListening'
<1>0. /\ c \in Tasks /\ Manager \in Tasks /\ c # Manager /\ TaskFact(c) /\ TaskFact(Manager)
      /\ task \in [Tasks -> TaskRecords]
  BY TaskFacts, PoolAssumption DEF Tasks, PoolInv, ConnType
<1>1. task[c].wake \in {"lost", "refused", "crash"}
  BY <1>0 DEF ResumeCommand, TaskFact
<1>2. connStatus' # "READY" /\ task' = [CancelManager EXCEPT ![c] = At("failed")]
  BY <1>1, ErrorStatus DEF ResumeCommand, SetStatus
<1>3. CASE Scoped
  <2> DEFINE m == [task[Manager] EXCEPT !.cancelled = TRUE]
  <2>1. m.cancelled = TRUE
    BY <1>0 DEF TaskFact, TaskRecords
  <2>2. CancelManager = [task EXCEPT ![Manager] = m]
    BY <1>3 DEF CancelManager
  <2> HIDE DEF m
  <2>3. task'[Manager] = m
    BY <1>0, <1>2, <2>2
  <2>4. QED
    BY <1>2, <2>1, <2>3 DEF ReadyIsListening
<1>4. CASE ~ Scoped
  <2>1. task'[Manager] = task[Manager]
    BY <1>0, <1>2, <1>4 DEF CancelManager
  <2>2. task[Manager].at # "listen"
    BY <1>4 DEF Scoped, Holding
  <2>3. QED
    BY <1>2, <2>1, <2>2 DEF ReadyIsListening
<1>5. QED
  BY <1>3, <1>4

LEMMA ReadyStep ==
  ASSUME PoolInv, ReadyIsListening, [ConnNext]_connVars
  PROVE  ReadyIsListening'
<1>1. ASSUME ManagerIsLeft PROVE ReadyIsListening'
  BY <1>1 DEF ManagerIsLeft, ReadyIsListening
<1>2. CASE ManagerConnects
  <2>1. Manager \in Tasks /\ task \in [Tasks -> TaskRecords]
    BY DEF Tasks, PoolInv, ConnType
  <2>2. connStatus # "READY" /\ connStatus' = connStatus
    BY <1>2 DEF ManagerConnects, ReadyIsListening
  <2>3. task'[Manager] = Await(Manager, IF HasPermit THEN "connect" ELSE "permit", NoTransport)
    BY <1>2, <2>1 DEF ManagerConnects
  <2>4. task'[Manager].at # "listen"
    <3> DEFINE r == Await(Manager, IF HasPermit THEN "connect" ELSE "permit", NoTransport)
    <3>1. r.at # "listen"
      BY DEF Await
    <3> HIDE DEF r
    <3>2. task'[Manager] = r
      BY <2>3 DEF r
    <3>3. QED
      BY <3>1, <3>2
  <2>5. QED
    BY <2>2, <2>4 DEF ReadyIsListening
<1>3. CASE ManagerCancelled
  <2>1. ManagerEnds(connStatus) /\ connStatus' = connStatus
    BY <1>3 DEF ManagerCancelled
  <2>2. connStatus # "READY"
    BY <1>3 DEF ManagerCancelled, ReadyIsListening, Scoped, Holding
  <2>3. QED
    BY <2>1, <2>2, EndedFacts DEF ReadyIsListening
<1>4. CASE ManagerStep
  BY <1>1, <1>2, <1>3, <1>4, ReadyAfterResume, WakeLeavesManager DEF ManagerStep
<1>5. ASSUME NEW c \in Commands, CommandStep(c) \/ CancelCommand(c) PROVE ReadyIsListening'
  BY <1>1, <1>5, CommandsLeaveManager, ReadyAfterFailure DEF CommandStep
<1>6. CASE NetworkFault \/ ServerBack \/ UNCHANGED connVars \/ \E t \in DOMAIN transports : Serve(t)
  BY <1>1, <1>6 DEF NetworkFault, ServerBack, Serve, connVars, ManagerIsLeft
<1>7. QED
  BY <1>4, <1>5, <1>6 DEF ConnNext

-----------------------------------------------------------------------------
(* The theorem *)

LEMMA ConnInvInit == ConnInit => ConnInv
<1> SUFFICES ASSUME ConnInit PROVE ConnInv
  OBVIOUS
<1> DEFINE first(a) == At(IF a = Manager THEN "cooldown" ELSE "idle")
<1>1. /\ task = [a \in Tasks |-> first(a)] /\ transports = <<>> /\ pool = <<>> /\ connStatus = "LOST"
  BY DEF ConnInit
<1>2. \A a \in Tasks : first(a) \in TaskRecords /\ first(a).at \in {"cooldown", "idle"} /\ first(a).wake = ""
  BY DEF At, TaskRecords, Places, NoTransport
<1> HIDE DEF first
<1>3. \A a \in Tasks : task[a] \in TaskRecords /\ task[a].at \in {"cooldown", "idle"} /\ task[a].wake = ""
  BY <1>1, <1>2
<1>4. ConnType
  <2>1. task \in [Tasks -> TaskRecords]
    BY <1>1, <1>2
  <2>2. QED
    BY <1>1, <2>1 DEF ConnType
<1>5. Holders = {}
  BY <1>3 DEF Holders, Holding
<1>6. IsFiniteSet(Holders) /\ Cardinality(Holders) = 0
  BY <1>5, FS_EmptySet
<1>7. ConnTypeOK
  BY <1>1, <1>5, <1>6, NoneFits DEF ConnTypeOK
<1>8. \A a \in Tasks : TaskOK(a, task[a], transports)
  BY <1>3 DEF TaskOK, Holding
<1>9. PoolOK(pool, transports)
  BY <1>1 DEF PoolOK
<1>10. Manager \in Tasks
  BY DEF Tasks
<1>11. ReadyIsListening
  BY <1>1, <1>3, <1>10 DEF ReadyIsListening
<1>12. QED
  BY <1>4, <1>6, <1>7, <1>8, <1>9, <1>11 DEF ConnInv, PoolInv

\* A transport has one user, a command that is done has the answer to its own request, and
\* the status is READY exactly while the manager listens: for any number of commands, of
\* transports and of faults of the network.
THEOREM ConnectionsAreSound == ConnSpec => []ConnectionIsSound
<1>1. ConnInit => ConnInv
  BY ConnInvInit
<1>2. ConnInv /\ [ConnNext]_connVars => ConnInv'
  BY PoolInvStep, ReadyStep DEF ConnInv
<1>3. ConnInv => ConnectionIsSound
  <2>1. ASSUME ConnInv PROVE RepliesMatch
    BY <2>1 DEF ConnInv, PoolInv, TaskOK, RepliesMatch, Tasks
  <2>2. QED
    BY <2>1 DEF ConnInv, PoolInv, ConnectionIsSound
<1>4. QED
  BY <1>1, <1>2, <1>3, PTL DEF ConnSpec
=============================================================================

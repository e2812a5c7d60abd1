----------------------------- MODULE Connection -----------------------------
(***************************************************************************)
(* The connection of a device to the server: the pool of transports that   *)
(* the commands of the client share, and the manager that keeps one of     *)
(* them to listen to events and says whether the server can be reached.    *)
(* An awaited operation ends in two steps: it completes, which schedules   *)
(* the task (wake), and the task resumes.  A cancellation ends an          *)
(* operation that has not completed; otherwise it is kept until the task   *)
(* awaits again.                                                           *)
(***************************************************************************)
EXTENDS Naturals, Sequences, FiniteSets

CONSTANTS
  Commands,       \* commands of the client, each sent once
  Manager,        \* the task of _run_manager
  MaxPool,        \* max_pool
  MaxTransports,  \* bound: transports opened
  MaxFaults       \* bound: faults of the network and of the monitors

ASSUME PoolAssumption == MaxPool \in Nat \ {0, 1} /\ Manager \notin Commands

VARIABLES
  task,        \* task of each command and of the manager
  transports,  \* the transports: state, requests not served yet, answers not received yet
  pool,        \* _transports: those no task uses, the oldest first
  connStatus, statusExc,  \* status and status_exc of the connection
  server,      \* "up", "down", or "revoked": it refuses the device
  faults       \* faults so far

connVars == <<task, transports, pool, connStatus, statusExc, server, faults>>

Tasks == Commands \cup {Manager}
NoTransport == 0
OpenTransports == {t \in DOMAIN transports : transports[t].state = "open"}

\* Where a task awaits while it has a transport or makes one.
Holding == {"connect", "recv", "subscribe", "bootstrap", "listen"}
Holders == {a \in Tasks : task[a].at \in Holding}
HasPermit == Cardinality(Holders) < MaxPool

Await(a, at, t) == [at |-> at, on |-> t, wake |-> "", cancelled |-> task[a].cancelled, got |-> NoTransport]
At(at) == [at |-> at, on |-> NoTransport, wake |-> "", cancelled |-> FALSE, got |-> NoTransport]

-----------------------------------------------------------------------------
(* The pool *)

Asked(ts, t, a) == [ts EXCEPT ![t].asked = Append(@, a)]
Closed(ts, t) == IF t = NoTransport THEN ts ELSE [ts EXCEPT ![t] = [state |-> "closed", asked |-> <<>>, answers |-> <<>>]]

\* A task that is cancelled neither closes its transport nor gives it back: Cancelled is not
\* an Exception.
GivenBackAlways(t) == IF t = NoTransport THEN pool ELSE Append(pool, t)
GivenBack(t) == pool

\* acquire: the oldest transport of the pool, or a new one.
Acquire(c) ==
  /\ task[c].at \in {"idle", "permit"}
  /\ \/ /\ task[c].at = "idle" /\ statusExc
        /\ task' = [task EXCEPT ![c] = At("failed")] /\ UNCHANGED <<transports, pool>>
     \/ /\ task[c].at = "idle" /\ ~ statusExc /\ ~ HasPermit
        /\ task' = [task EXCEPT ![c].at = "permit"] /\ UNCHANGED <<transports, pool>>
     \/ /\ ~ (task[c].at = "idle" /\ statusExc) /\ HasPermit /\ pool # <<>>
        /\ task' = [task EXCEPT ![c] = Await(c, "recv", Head(pool))]
        /\ transports' = Asked(transports, Head(pool), c) /\ pool' = Tail(pool)
     \/ /\ ~ (task[c].at = "idle" /\ statusExc) /\ HasPermit /\ pool = <<>>
        /\ task' = [task EXCEPT ![c] = Await(c, "connect", NoTransport)] /\ UNCHANGED <<transports, pool>>
  /\ UNCHANGED <<connStatus, statusExc, server, faults>>

-----------------------------------------------------------------------------
(* Operations that complete *)

WakeTask(a, w) == task' = [task EXCEPT ![a].wake = w]

\* _connect and _do_handshake, within the time they are given
Connects(a) ==
  /\ task[a].at = "connect" /\ task[a].wake = ""
  /\ \/ server = "down" /\ WakeTask(a, "lost") /\ UNCHANGED transports
     \/ server = "revoked" /\ WakeTask(a, "refused") /\ UNCHANGED transports
     \/ /\ server = "up" /\ Len(transports) < MaxTransports
        /\ transports' = Append(transports, [state |-> "open", asked |-> <<>>, answers |-> <<>>])
        /\ task' = [task EXCEPT ![a].wake = "ok", ![a].on = Len(transports) + 1]
  /\ UNCHANGED <<pool, connStatus, statusExc, server, faults>>

\* The server takes the requests of a transport in order.
Serve(t) ==
  /\ t \in OpenTransports /\ transports[t].asked # <<>>
  /\ transports' = [transports EXCEPT ![t].asked = Tail(@), ![t].answers = Append(@, Head(transports[t].asked))]
  /\ UNCHANGED <<task, pool, connStatus, statusExc, server, faults>>

Receive(a) ==
  /\ task[a].at \in {"recv", "subscribe"} /\ task[a].wake = "" /\ transports[task[a].on].answers # <<>>
  /\ task' = [task EXCEPT ![a].wake = "ok", ![a].got = Head(transports[task[a].on].answers)]
  /\ transports' = [transports EXCEPT ![task[a].on].answers = Tail(@)]
  /\ UNCHANGED <<pool, connStatus, statusExc, server, faults>>

\* The peer has closed the connection.
Broken(a) ==
  /\ task[a].at \in {"recv", "subscribe", "listen"} /\ task[a].wake = "" /\ task[a].on \notin OpenTransports
  /\ WakeTask(a, "lost")
  /\ UNCHANGED <<transports, pool, connStatus, statusExc, server, faults>>

MonitorsStarted ==
  /\ task[Manager].at = "bootstrap" /\ task[Manager].wake = ""
  /\ \/ WakeTask(Manager, "ok") /\ UNCHANGED faults
     \/ faults < MaxFaults /\ WakeTask(Manager, "crash") /\ faults' = faults + 1
  /\ UNCHANGED <<transports, pool, connStatus, statusExc, server>>

-----------------------------------------------------------------------------
(* Tasks that resume *)

SetStatus(s, exc) == connStatus' = s /\ statusExc' = exc
KeepStatus == UNCHANGED <<connStatus, statusExc>>

\* _acquire_transport: the status that an error of the transport sets.  The manager is
\* cancelled while it has a scope to cancel.
StatusOf(w) == CASE w = "lost" -> "LOST" [] w = "refused" -> "REFUSED" [] w = "crash" -> "CRASHED"
Scoped == task[Manager].at \in Holding \cup {"permit"}
CancelManagerNot == task
CancelManager == IF Scoped THEN [task EXCEPT ![Manager].cancelled = TRUE] ELSE task

ResumeCommand(c) ==
  /\ task[c].at \in {"connect", "recv"} /\ task[c].wake # ""
  /\ \/ /\ task[c].wake = "ok" /\ task[c].at = "connect"
        /\ task' = [task EXCEPT ![c] = Await(c, "recv", task[c].on)]
        /\ transports' = Asked(transports, task[c].on, c) /\ KeepStatus /\ UNCHANGED pool
     \/ /\ task[c].wake = "ok" /\ task[c].at = "recv"
        /\ task' = [task EXCEPT ![c] = [At("done") EXCEPT !.got = task[c].got]]
        /\ pool' = Append(pool, task[c].on) /\ KeepStatus /\ UNCHANGED transports
     \/ /\ task[c].wake # "ok"
        /\ SetStatus(StatusOf(task[c].wake), TRUE)
        /\ task' = [CancelManager EXCEPT ![c] = At("failed")]
        /\ transports' = Closed(transports, task[c].on) /\ UNCHANGED pool
  /\ UNCHANGED <<server, faults>>

\* _run_manager when _manager_connect has ended; the assertion it makes of the status.
AfterConnect(s) ==
  CASE s \in {"READY", "INITIALIZING"} -> "assertion" [] s = "LOST" -> "cooldown" [] OTHER -> "stopped"

\* The failure of the assertion ends the client and its tasks.
ManagerEnds(s) ==
  task' = IF AfterConnect(s) = "assertion" THEN [a \in Tasks |-> At(IF a = Manager THEN "assertion" ELSE "failed")]
          ELSE [task EXCEPT ![Manager] = At(AfterConnect(s))]

\* The manager awaits again, or is cancelled there.
ManagerAwaits(at, s, exc) ==
  /\ SetStatus(s, exc)
  /\ IF task[Manager].cancelled THEN ManagerEnds(s) ELSE task' = [task EXCEPT ![Manager] = Await(Manager, at, @.on)]

ResumeManager ==
  /\ task[Manager].wake # ""
  /\ \/ /\ task[Manager].wake = "ok" /\ task[Manager].at = "connect"
        /\ ManagerAwaits("subscribe", "INITIALIZING", FALSE)
        /\ transports' = IF task[Manager].cancelled THEN transports ELSE Asked(transports, task[Manager].on, Manager)
     \/ /\ task[Manager].wake = "ok" /\ task[Manager].at = "subscribe"
        /\ ManagerAwaits("bootstrap", connStatus, statusExc) /\ UNCHANGED transports
     \/ /\ task[Manager].wake = "ok" /\ task[Manager].at = "bootstrap"
        /\ ManagerAwaits("listen", "READY", FALSE) /\ UNCHANGED transports
     \/ /\ task[Manager].wake # "ok"
        /\ SetStatus(StatusOf(task[Manager].wake), TRUE) /\ ManagerEnds(StatusOf(task[Manager].wake))
        /\ transports' = Closed(transports, task[Manager].on)
  /\ UNCHANGED <<pool, server, faults>>

\* A cancelled manager that awaits; its transport is left behind.
ManagerCancelled ==
  /\ task[Manager].cancelled /\ task[Manager].wake = "" /\ Scoped
  /\ ManagerEnds(connStatus) /\ pool' = GivenBack(task[Manager].on)
  /\ UNCHANGED <<transports, connStatus, statusExc, server, faults>>

\* After the cooldown, _manager_connect with a fresh transport.
ManagerConnects ==
  /\ task[Manager].at \in {"cooldown", "permit"} /\ ~ task[Manager].cancelled
  /\ task' = [task EXCEPT ![Manager] = Await(Manager, IF HasPermit THEN "connect" ELSE "permit", NoTransport)]
  /\ UNCHANGED <<transports, pool, connStatus, statusExc, server, faults>>

-----------------------------------------------------------------------------
(* Faults *)

\* The user of the client gives up a command.
CancelCommand(c) ==
  /\ task[c].at \in {"permit", "connect", "recv"} /\ task[c].wake = ""
  /\ task' = [task EXCEPT ![c] = At("failed")] /\ pool' = GivenBack(task[c].on)
  /\ UNCHANGED <<transports, connStatus, statusExc, server, faults>>

Break(ts, which) == [t \in DOMAIN ts |-> IF t \in which THEN [ts[t] EXCEPT !.state = "broken", !.asked = <<>>] ELSE ts[t]]
NetworkFault ==
  /\ faults < MaxFaults /\ faults' = faults + 1
  /\ \/ /\ server = "up" /\ server' \in {"down", "revoked"} /\ transports' = Break(transports, OpenTransports)
     \/ \E t \in OpenTransports : transports' = Break(transports, {t}) /\ UNCHANGED server
  /\ UNCHANGED <<task, pool, connStatus, statusExc>>
ServerBack ==
  /\ server = "down" /\ server' = "up"
  /\ UNCHANGED <<task, transports, pool, connStatus, statusExc, faults>>

-----------------------------------------------------------------------------
ConnInit ==
  /\ task = [a \in Tasks |-> At(IF a = Manager THEN "cooldown" ELSE "idle")]
  /\ transports = <<>> /\ pool = <<>> /\ connStatus = "LOST" /\ statusExc = FALSE /\ server = "up" /\ faults = 0

ManagerStep == ManagerConnects \/ ResumeManager \/ ManagerCancelled \/ MonitorsStarted \/ Connects(Manager)
                 \/ Receive(Manager) \/ Broken(Manager)
CommandStep(c) == Acquire(c) \/ Connects(c) \/ Receive(c) \/ Broken(c) \/ ResumeCommand(c)

ConnNext ==
  \/ ManagerStep \/ NetworkFault \/ ServerBack
  \/ \E c \in Commands : CommandStep(c) \/ CancelCommand(c)
  \/ \E t \in DOMAIN transports : Serve(t)

ConnSpec == ConnInit /\ [][ConnNext]_connVars

\* Tasks that can go on do, a server that is reached answers, and it comes back.  A permit
\* is given to those that wait for it in turn.
ConnFairSpec ==
  /\ ConnSpec /\ WF_connVars(ManagerStep) /\ SF_connVars(ManagerConnects) /\ WF_connVars(ServerBack)
  /\ \A c \in Commands : WF_connVars(CommandStep(c) /\ task[c].at # "idle") /\ SF_connVars(task[c].at = "permit" /\ Acquire(c))
  /\ \A t \in 1 .. MaxTransports : WF_connVars(t \in DOMAIN transports /\ Serve(t))

-----------------------------------------------------------------------------
(* Properties *)

\* A transport has one user: it is in the pool once or held by one task, and no more tasks
\* hold one than the pool allows.
ConnTypeOK ==
  /\ Cardinality(Holders) <= MaxPool
  /\ \A i, j \in DOMAIN pool : i # j => pool[i] # pool[j]
  /\ \A a \in Holders : task[a].on # NoTransport =>
       (\A i \in DOMAIN pool : pool[i] # task[a].on) /\ \A b \in Holders \ {a} : task[b].on # task[a].on

\* Whatever is cancelled, lost or connected again, a command gets the answer to its own
\* request.
RepliesMatch == \A c \in Commands : task[c].at = "done" => task[c].got = c

\* The status is READY exactly while the manager listens to the events of the server.
ReadyIsListening ==
  task[Manager].at # "assertion" =>
    (connStatus = "READY" <=> task[Manager].at = "listen" /\ ~ task[Manager].cancelled)

\* What _run_manager asserts when the connection has ended.
ManagerAssertionHolds == task[Manager].at # "assertion"

\* A client whose connection is lost connects again, unless the server refuses it, a
\* monitor has crashed or no transport is left.
Recovers ==
  []<>(connStatus = "READY" \/ task[Manager].at \in {"stopped", "assertion"} \/ Len(transports) = MaxTransports)

\* Every command that is sent returns or fails.
CommandsReturn ==
  \A c \in Commands : task[c].at = "permit" ~> task[c].at \in {"done", "failed"} \/ Len(transports) = MaxTransports

\* The connection: the answer a command gets is its own, and a client that shows itself as
\* connected listens to events.
ConnectionIsSound == ConnTypeOK /\ RepliesMatch /\ ReadyIsListening
=============================================================================

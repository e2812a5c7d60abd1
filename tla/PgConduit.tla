----------------------------- MODULE PgConduit -----------------------------
(***************************************************************************)
(* The conduit of an invitation as the PostgreSQL implementation keeps it: *)
(* four columns of a row that a transaction locks (FOR UPDATE), so that a  *)
(* talk or a listen is one step.  Next to it runs the conduit of the       *)
(* memory implementation, the one InviteConduit models with the whole      *)
(* enrollment.  Both get the same calls, in any order and from any number  *)
(* of handlers; what is shown of the one then holds for the other.         *)
(***************************************************************************)
EXTENDS Naturals, FiniteSets

CONSTANTS
  Payloads,   \* what clients may say
  MaxCalls    \* bound: calls of the API

ASSUME PgConduitAssumption == MaxCalls \in Nat

VARIABLES
  row,       \* PostgreSQL: [state, greeter, claimer, deleted]
  store,     \* memory: [conduit, deleted], the conduit with its own fields
  listens,   \* the contexts of handlers that wait, with the peer payload of each
  replies,   \* what the two implementations answered to the last call
  calls

pgConduitVars == <<row, store, listens, replies, calls>>

ConduitStates == 1 .. 7   \* STATE_1_WAIT_PEERS .. STATE_4_COMMUNICATE
Null == <<>>              \* no payload
Parties == {"greeter", "claimer", "stranger"}   \* a stranger is another user, as a greeter
Column(side) == IF side = "claimer" THEN "claimer" ELSE "greeter"
Other(side) == IF side = "claimer" THEN "greeter" ELSE "claimer"
NextConduitState(s) == IF s = 7 THEN 7 ELSE s + 1
Reply(status, payload) == [status |-> status, payload |-> payload]

-----------------------------------------------------------------------------
(* PostgreSQL: r is the row that the query has locked *)

\* _q_conduit_greeter_info finds the row by its greeter, _q_conduit_claimer_info by the
\* token alone.
PgFound(side) == side # "stranger"

\* _conduit_talk on an open invitation: the row, the answer, and the peer payload seen.
PgTalk(r, side, state, payload) ==
  LET out == r.state # state \/ r[side] # Null
  IN  IF out /\ state # 1 THEN <<r, Reply("invalid_state", Null), Null>>
      ELSE LET base == IF out THEN [r EXCEPT !.state = state, !.greeter = Null, !.claimer = Null]
                              ELSE r
           IN  <<[base EXCEPT ![side] = payload], Reply("wait", Null), base[Other(side)]>>

\* _conduit_listen on an open invitation.
PgListen(r, l) ==
  LET side == Column(l.side)
      peer == r[Other(side)]
      next == NextConduitState(l.state)
  IN  IF l.pgPeer = Null
        THEN IF r.state # l.state \/ r[side] # l.payload THEN <<r, Reply("invalid_state", Null)>>
             ELSE IF peer = Null THEN <<r, Reply("wait", Null)>>
             ELSE <<[r EXCEPT !.state = next, !.greeter = Null, !.claimer = Null],
                    Reply("ok", peer)>>
        ELSE IF r.state = next /\ r[side] = Null THEN <<r, Reply("ok", l.pgPeer)>>
             ELSE IF r.state # l.state \/ r[side] # l.payload \/ peer # l.pgPeer
               THEN <<r, Reply("invalid_state", Null)>> ELSE <<r, Reply("wait", Null)>>

-----------------------------------------------------------------------------
(* Memory: the conduit is changed field by field *)

\* _get_invitation_and_conduit: the error, if any.
MemoryRefusal(side) ==
  IF side = "stranger" THEN "not_found" ELSE IF store.deleted THEN "already_deleted" ELSE "none"

\* The error of the queries: no row, or deleted_on is set.
PgRefusal(side) ==
  IF ~PgFound(side) THEN "not_found" ELSE IF row.deleted THEN "already_deleted" ELSE "none"

\* _conduit_talk of the memory implementation.
MemoryTalk(c, side, state, payload) ==
  LET ours == c.said[side]
      theirs == c.said[Other(side)]
      reset == c.state # state \/ ours # Null
      after == [state |-> state,
                said |-> [s \in {"greeter", "claimer"} |->
                            IF s = side THEN payload ELSE IF reset THEN Null ELSE c.said[s]]]
  IN  IF reset /\ state # 1
        THEN <<c, Reply("invalid_state", Null), Null>>
        ELSE <<after, Reply("wait", Null), IF reset THEN Null ELSE theirs>>

\* _conduit_listen of the memory implementation.
MemoryListen(c, l) ==
  LET side == Column(l.side)
      ours == c.said[side]
      theirs == c.said[Other(side)]
      same == c.state = l.state /\ ours = l.payload
      moved == c.state = NextConduitState(l.state) /\ ours = Null
  IN  CASE l.memPeer = Null /\ same /\ theirs # Null ->
             <<[state |-> NextConduitState(l.state),
                said |-> [s \in {"greeter", "claimer"} |-> Null]], Reply("ok", theirs)>>
        [] l.memPeer # Null /\ moved -> <<c, Reply("ok", l.memPeer)>>
        [] \/ l.memPeer = Null /\ same /\ theirs = Null
           \/ l.memPeer # Null /\ ~moved /\ same /\ theirs = l.memPeer -> <<c, Reply("wait", Null)>>
        [] OTHER -> <<c, Reply("invalid_state", Null)>>

-----------------------------------------------------------------------------
(* The calls *)

PgConduitInit ==
  /\ \E s \in ConduitStates :
       /\ row = [state |-> s, greeter |-> Null, claimer |-> Null, deleted |-> FALSE]
       /\ store = [conduit |-> [state |-> s, said |-> [x \in {"greeter", "claimer"} |-> Null]],
                   deleted |-> FALSE]
  /\ listens = {}
  /\ replies = [pg |-> Reply("wait", Null), memory |-> Reply("wait", Null)]
  /\ calls = 0

\* A handler talks on the conduit; it listens next unless it is refused.
CallTalk(side, state, payload) ==
  LET pg == IF PgRefusal(side) # "none" THEN <<row, Reply(PgRefusal(side), Null), Null>>
                                       ELSE PgTalk(row, side, state, payload)
      mem == IF MemoryRefusal(side) # "none"
               THEN <<store.conduit, Reply(MemoryRefusal(side), Null), Null>>
               ELSE MemoryTalk(store.conduit, side, state, payload)
  IN  /\ calls < MaxCalls /\ calls' = calls + 1
      /\ row' = pg[1]
      /\ store' = [store EXCEPT !.conduit = mem[1]]
      /\ replies' = [pg |-> pg[2], memory |-> mem[2]]
      /\ listens' = IF "wait" \in {pg[2].status, mem[2].status}
           THEN listens \cup {[side |-> side, state |-> state, payload |-> payload,
                               pgPeer |-> pg[3], memPeer |-> mem[3]]}
           ELSE listens

\* A handler that waits is woken by INVITE_CONDUIT_UPDATED and looks again.
CallListen(l) ==
  LET pg == IF PgRefusal(l.side) # "none" THEN <<row, Reply(PgRefusal(l.side), Null)>>
                                         ELSE PgListen(row, l)
      mem == IF MemoryRefusal(l.side) # "none"
               THEN <<store.conduit, Reply(MemoryRefusal(l.side), Null)>>
               ELSE MemoryListen(store.conduit, l)
  IN  /\ row' = pg[1]
      /\ store' = [store EXCEPT !.conduit = mem[1]]
      /\ replies' = [pg |-> pg[2], memory |-> mem[2]]
      /\ listens' = IF "wait" \in {pg[2].status, mem[2].status} THEN listens ELSE listens \ {l}
      /\ UNCHANGED calls

\* invite_delete, by the greeter.
CallDelete ==
  /\ calls < MaxCalls /\ calls' = calls + 1
  /\ row' = [row EXCEPT !.deleted = TRUE]
  /\ store' = [store EXCEPT !.deleted = TRUE]
  /\ UNCHANGED <<listens, replies>>

PgConduitNext ==
  \/ \E side \in Parties, state \in ConduitStates, payload \in Payloads :
       CallTalk(side, state, payload)
  \/ \E l \in listens : CallListen(l)
  \/ CallDelete

PgConduitSpec == PgConduitInit /\ [][PgConduitNext]_pgConduitVars

-----------------------------------------------------------------------------
(* Properties *)

\* The two implementations of _conduit_talk and _conduit_listen answer every sequence of
\* calls alike and leave the conduit in the same state, with lingering handlers, resets
\* and deletions in between: the tests run on one of them at a time.
ConduitsAgree ==
  /\ replies.pg = replies.memory
  /\ row.state = store.conduit.state /\ row.deleted = store.deleted
  /\ \A s \in {"greeter", "claimer"} : row[s] = store.conduit.said[s]
  /\ \A l \in listens : l.pgPeer = l.memPeer
=============================================================================

------------------------------ MODULE PgRealm ------------------------------
(***************************************************************************)
(* One realm of the server with PostgreSQL: its roles, its vlobs, its      *)
(* changes and the messages it sends.  Realm and Vlob model the server in  *)
(* memory, where a command is one step.  Here a command is a transaction   *)
(* at the level READ COMMITTED: each statement sees what was committed     *)
(* before it, no row is locked by a read, an UPDATE waits for an open      *)
(* transaction that updated the same row, and an INSERT waits for one that *)
(* inserted the same unique key.  An exception of a unique constraint that *)
(* the query does not catch ends the connection of the client.             *)
(***************************************************************************)
EXTENDS Naturals, FiniteSets

CONSTANTS
  PgUsers,     \* the users, none of them revoked
  PgVlobs,     \* the vlobs
  Txns,        \* the transactions; each serves one command
  PgSetups     \* the initial states considered: [roles, exists, atoms, ops, limit]

Roles == {"OWNER", "MANAGER", "CONTRIBUTOR", "READER"}
NoRoleRow == "none"
Ops == {"realm_create", "update_roles", "start", "save", "finish",
        "vlob_create", "vlob_update", "vlob_read", "list_versions", "poll",
        "get_role_certificates"}
ReadOps == {"vlob_read", "list_versions", "get_role_certificates"}

ASSUME PgAssumption ==
  \A s \in PgSetups :
    /\ s.roles \in [PgUsers -> Roles \cup {NoRoleRow}]
    /\ s.exists \in BOOLEAN /\ s.ops \subseteq Ops /\ s.limit \in Nat
    /\ s.atoms \subseteq (1 .. 1) \X PgVlobs \X (1 .. 1)
    /\ s.atoms # {} => s.exists

VARIABLES
  pgSetup,    \* the commands that clients send, and how many (never changes)
  realmRow,   \* the row of the realm
  roleRows,   \* realm_user_role
  revisions,  \* vlob_encryption_revision
  atoms,      \* vlob_atom: <<encryption_revision, vlob_id, version>> -> its author
  updates,    \* realm_vlob_update: index -> <<vlob_id, version>>
  messages,   \* the messages with a key: [to, revision, by]
  txns,       \* the transactions
  polled      \* user -> the checkpoint and the changes its client has

pgVars == <<pgSetup, realmRow, roleRows, revisions, atoms, updates, messages, txns, polled>>
tables == <<realmRow, roleRows, revisions, atoms, updates, messages>>

Versions == Nat \ {0}
AtomKeys == Versions \X PgVlobs \X Versions
Empty == [x \in {} |-> x]

\* A command, as the API handler passes it to the queries, with the current
\* revision (a stale one is refused by the same statement that reads it); on is
\* the place of its timestamp among those of the certificates.
Commands(on) ==
  [op : {"realm_create", "start", "finish", "poll", "save", "get_role_certificates"},
   by : PgUsers, on : {on}]
    \cup [op : {"update_roles"}, by : PgUsers, on : {on}, to : PgUsers,
          role : Roles \cup {NoRoleRow}]
    \cup [op : {"vlob_create", "vlob_update", "vlob_read", "list_versions"}, by : PgUsers, on : {on}, vlob : PgVlobs]

IdleTxn == [st |-> "idle"]
Answered(status) == [st |-> "done", rep |-> status]

PgInit ==
  \E s \in PgSetups :
    /\ pgSetup = [ops |-> s.ops, limit |-> s.limit]
    /\ realmRow = [exists |-> s.exists, revision |-> 1, maintenance |-> FALSE]
    /\ roleRows = {[user |-> u, role |-> s.roles[u], on |-> 0]
                     : u \in {v \in PgUsers : s.roles[v] # NoRoleRow}}
    /\ revisions = IF s.exists THEN {1} ELSE {}
    /\ atoms = [k \in s.atoms |-> "before"]
    /\ updates = Empty
    /\ messages = {}
    /\ txns = [t \in Txns |-> IdleTxn]
    /\ polled = [u \in PgUsers |-> [checkpoint |-> 0, changes |-> {}]]

-----------------------------------------------------------------------------
(* The queries.                                                            *)

\* The role of the last certificate (ORDER BY certified_on DESC).
CurrentRole(u) ==
  LET mine == {r \in roleRows : r.user = u}
  IN  IF mine = {} THEN NoRoleRow
      ELSE (CHOOSE r \in mine : \A q \in mine : q.on <= r.on).role

Participants == {u \in PgUsers : CurrentRole(u) # NoRoleRow}
LastVersion(v) ==
  LET vs == {k[3] : k \in {a \in DOMAIN atoms : a[2] = v}}
  IN  IF vs = {} THEN 0 ELSE CHOOSE n \in vs : \A m \in vs : m <= n
AtomsAt(r) == {k \in DOMAIN atoms : k[1] = r}
Count(r) == Cardinality(AtomsAt(r))
LastIndex == IF DOMAIN updates = {} THEN 0
             ELSE CHOOSE i \in DOMAIN updates : \A j \in DOMAIN updates : j <= i

\* Mutant: the index comes from a sequence, which open transactions advance.
NextIndexOfSequence ==
  LET taken == DOMAIN updates
                 \cup {txns[t].index : t \in {s \in Txns : txns[s].st = "written"
                                                /\ txns[s].index # 0}}
  IN  Cardinality(taken) + 1

\* SELECT COALESCE(MAX(index) + 1, 1)
NextIndex == LastIndex + 1

IsWrite(c) == c.op \in {"vlob_create", "vlob_update"}
WriteRoles == {"OWNER", "MANAGER", "CONTRIBUTOR"}
NeedsMaintenance(c) == c.op \in {"save", "finish"}

\* The role that a command needs.
MayDo(c) ==
  LET mine == CurrentRole(c.by)
      atStake == c.op = "update_roles"
                   /\ {CurrentRole(c.to), c.role} \cap {"OWNER", "MANAGER"} # {}
  IN  CASE c.op = "update_roles" -> mine \in IF atStake THEN {"OWNER"} ELSE {"OWNER", "MANAGER"}
        [] c.op \in {"start", "save", "finish"} -> mine = "OWNER"
        [] IsWrite(c) -> mine \in WriteRoles
        [] OTHER -> mine # NoRoleRow

\* The status of the realm, as every command first reads it.
StatusRefusal(c) ==
  CASE c.op \in {"realm_create", "get_role_certificates"} -> "ok"
    [] ~ realmRow.exists -> "not_found"
    [] NeedsMaintenance(c) /\ ~ realmRow.maintenance -> "not_in_maintenance"
    [] ~ NeedsMaintenance(c) /\ realmRow.maintenance -> "in_maintenance"
    [] OTHER -> "ok"

\* What the statements after it find, given the revision r that was read.
Refusal(c, r) ==
  CASE c.op = "realm_create" -> "ok"
    [] ~ MayDo(c) -> "not_allowed"
    [] c.op = "update_roles" /\ CurrentRole(c.to) = c.role -> "already_granted"
    [] c.op = "vlob_update" /\ LastVersion(c.vlob) = 0 -> "not_found"
    [] c.op = "finish" /\ (Count(r - 1) # Count(r) \/ Count(r) = 0) -> "not_over"
    [] OTHER -> "ok"

-----------------------------------------------------------------------------
(* A transaction: its first statement, its other reads, its writes, its    *)
(* commit.                                                                 *)

Stamp == Cardinality({t \in Txns : txns[t].st # "idle"}) + 1

\* A client never asks to change its own role.
Sendable(c) == c.op = "update_roles" => c.by # c.to

Begin(t, c) ==
  /\ txns[t].st = "idle"
  /\ c.op \in pgSetup.ops /\ Stamp <= pgSetup.limit /\ Sendable(c)
  /\ txns' = [txns EXCEPT ![t] =
       IF StatusRefusal(c) = "ok"
       THEN [st |-> "open", cmd |-> c, revision |-> realmRow.revision]
       ELSE Answered(StatusRefusal(c))]
  /\ UNCHANGED <<pgSetup, tables, polled>>

\* The number of a version: one for a new vlob, else the next of those read.
NewVersion(c) == IF c.op = "vlob_create" THEN 1 ELSE LastVersion(c.vlob) + 1

CheckAccess(t) ==
  LET c == txns[t].cmd
  IN  /\ txns[t].st = "open" /\ c.op \notin ReadOps \cup {"poll"}
      /\ txns' = [txns EXCEPT ![t] =
           IF Refusal(c, txns[t].revision) = "ok"
           THEN [st |-> "checked", cmd |-> c, revision |-> txns[t].revision,
                 version |-> IF IsWrite(c) THEN NewVersion(c) ELSE 0,
                 recipients |-> IF c.op = "start" THEN Participants ELSE {}]
           ELSE Answered(Refusal(c, txns[t].revision))]
      /\ UNCHANGED <<pgSetup, tables, polled>>

\* query_poll_changes reads only; the client keeps what it gets.
PollChanges(t) ==
  LET c == txns[t].cmd
  IN  /\ txns[t].st = "open" /\ c.op = "poll"
      /\ txns' = [txns EXCEPT ![t] =
                    Answered(IF MayDo(c) THEN "ok" ELSE "not_allowed")]
      /\ polled' = IF ~ MayDo(c) THEN polled
                   ELSE [polled EXCEPT ![c.by] =
                          [checkpoint |-> LastIndex,
                           changes |-> @.changes
                             \cup {i \in DOMAIN updates : i > @.checkpoint}]]
      /\ UNCHANGED <<pgSetup, tables>>

\* What a read answers.  The certificates are those of all times.
CertificatesAnswer(c) ==
  IF roleRows = {} THEN "not_found" ELSE IF MayDo(c) THEN "ok" ELSE "not_allowed"

\* The versions of all revisions.
ListAnswer(c) ==
  IF LastVersion(c.vlob) = 0 THEN "not_found" ELSE IF MayDo(c) THEN "ok" ELSE "not_allowed"

\* A version is looked for at the revision that was read; the query asserts
\* that there is one.
ReadAnswer(c, r) ==
  IF ListAnswer(c) = "ok" /\ ~ \E k \in AtomsAt(r) : k[2] = c.vlob
  THEN "assertion" ELSE ListAnswer(c)

ReadRows(t) ==
  /\ txns[t].st = "open" /\ txns[t].cmd.op \in ReadOps
  /\ txns' = [txns EXCEPT ![t] = Answered(
       CASE txns[t].cmd.op = "vlob_read" -> ReadAnswer(txns[t].cmd, txns[t].revision)
         [] txns[t].cmd.op = "list_versions" -> ListAnswer(txns[t].cmd)
         [] OTHER -> CertificatesAnswer(txns[t].cmd))]
  /\ UNCHANGED <<pgSetup, tables, polled>>

Writers == {t \in Txns : txns[t].st = "written"}
Atom(t) == <<txns[t].revision, txns[t].cmd.vlob, txns[t].version>>

\* The rows of vlob_atom that a transaction has inserted, and the others wait for
\* until it ends.
Inserted(s) == IF IsWrite(txns[s].cmd) THEN {Atom(s)} ELSE txns[s].batch
AreHeld(t, rows) == \E s \in Writers \ {t} : Inserted(s) \cap rows # {}
RealmRowIsHeld(t) ==
  \E s \in Writers \ {t} : txns[s].cmd.op \in {"realm_create", "start", "finish"}

Written(t, index, batch) ==
  [st |-> "written", cmd |-> txns[t].cmd, revision |-> txns[t].revision,
   version |-> txns[t].version, recipients |-> txns[t].recipients, index |-> index, batch |-> batch]

\* Mutant: the row is inserted whatever is there.
InsertAtomOverwrites(t) == "ok"

\* INSERT INTO vlob_atom: what the unique constraint says of it.
InsertAtom(t) ==
  CASE Atom(t) \notin DOMAIN atoms -> "ok"
    [] txns[t].cmd.op = "vlob_create" -> "already_exists"
    [] OTHER -> "bad_version"

\* The vlob, then the change with its index.  The index is computed before the
\* statement waits for a transaction that holds it.
WriteVlob(t) ==
  /\ txns[t].st = "checked" /\ IsWrite(txns[t].cmd)
  /\ ~ AreHeld(t, {Atom(t)})
  /\ txns' = [txns EXCEPT ![t] =
                IF InsertAtom(t) = "ok" THEN Written(t, 0, {}) ELSE Answered(InsertAtom(t))]
  /\ UNCHANGED <<pgSetup, tables, polled>>

InsertUpdate(t) ==
  /\ txns[t].st = "written" /\ IsWrite(txns[t].cmd) /\ txns[t].index = 0
  /\ txns' = [txns EXCEPT ![t].index = NextIndex]
  /\ UNCHANGED <<pgSetup, tables, polled>>

\* Of several that computed one index, the one that inserted it first goes on;
\* any of them may be that one.
HoldsIndex(t) == txns[t].index \notin DOMAIN updates

WriteRole(t) ==
  /\ txns[t].st = "checked" /\ txns[t].cmd.op = "update_roles"
  /\ txns' = [txns EXCEPT ![t] = Written(t, 0, {})]
  /\ UNCHANGED <<pgSetup, tables, polled>>

\* INSERT INTO realm ON CONFLICT DO NOTHING.
WriteRealm(t) ==
  /\ txns[t].st = "checked" /\ txns[t].cmd.op = "realm_create"
  /\ ~ RealmRowIsHeld(t)
  /\ txns' = [txns EXCEPT ![t] =
                IF realmRow.exists THEN Answered("already_exists") ELSE Written(t, 0, {})]
  /\ UNCHANGED <<pgSetup, tables, polled>>

RevisionIsTaken(t) == txns[t].revision + 1 \in revisions

\* UPDATE realm, then INSERT INTO vlob_encryption_revision, whose unique
\* constraint stops a maintenance that another one overtook.  The messages go
\* to the participants that the client named, checked against the roles.
WriteStart(t) ==
  /\ txns[t].st = "checked" /\ txns[t].cmd.op = "start"
  /\ ~ RealmRowIsHeld(t)
  /\ txns' = [txns EXCEPT ![t] =
                IF RevisionIsTaken(t) THEN Answered("crash") ELSE Written(t, 0, {})]
  /\ UNCHANGED <<pgSetup, tables, polled>>

WriteFinish(t) ==
  /\ txns[t].st = "checked" /\ txns[t].cmd.op = "finish"
  /\ ~ RealmRowIsHeld(t)
  /\ txns' = [txns EXCEPT ![t] = Written(t, 0, {})]
  /\ UNCHANGED <<pgSetup, tables, polled>>

\* INSERT INTO vlob_atom ... ON CONFLICT DO NOTHING: the rows that are not there yet.
Copied(t, batch) == {<<txns[t].revision, k[2], k[3]>> : k \in batch} \ DOMAIN atoms

\* The client re-encrypted a batch of versions of the revision before.
WriteBatch(t, batch) ==
  /\ txns[t].st = "checked" /\ txns[t].cmd.op = "save"
  /\ batch # {} /\ batch \subseteq AtomsAt(txns[t].revision - 1)
  /\ ~ AreHeld(t, Copied(t, batch))
  /\ txns' = [txns EXCEPT ![t] = Written(t, 0, Copied(t, batch))]
  /\ UNCHANGED <<pgSetup, tables, polled>>

\* send_message, for each participant.
SentKeys(t) ==
  {[to |-> u, revision |-> txns[t].revision + 1, by |-> t] : u \in txns[t].recipients}

\* What the commit makes visible.
Commit(t) ==
  LET c == txns[t].cmd
      Row(u, role) == [user |-> u, role |-> role, on |-> c.on]
  IN  /\ txns[t].st = "written"
      /\ IsWrite(c) => txns[t].index # 0 /\ HoldsIndex(t)
      /\ txns' = [txns EXCEPT ![t] = Answered("ok")]
      /\ realmRow' =
           CASE c.op = "realm_create" -> [realmRow EXCEPT !.exists = TRUE]
             [] c.op = "start" -> [realmRow EXCEPT !.revision = txns[t].revision + 1,
                                                   !.maintenance = TRUE]
             [] c.op = "finish" -> [realmRow EXCEPT !.maintenance = FALSE]
             [] OTHER -> realmRow
      /\ roleRows' = roleRows \cup
           CASE c.op = "realm_create" -> {Row(c.by, "OWNER")}
             [] c.op = "update_roles" -> {Row(c.to, c.role)}
             [] OTHER -> {}
      /\ revisions' = revisions \cup
           CASE c.op = "realm_create" -> {1}
             [] c.op = "start" -> {txns[t].revision + 1}
             [] OTHER -> {}
      /\ messages' = messages \cup IF c.op = "start" THEN SentKeys(t) ELSE {}
      /\ atoms' = [k \in DOMAIN atoms \cup Inserted(t) |->
                     IF k \in Inserted(t) THEN t ELSE atoms[k]]
      /\ updates' = IF ~ IsWrite(c) THEN updates
                    ELSE [i \in DOMAIN updates \cup {txns[t].index} |->
                            IF i = txns[t].index THEN <<c.vlob, txns[t].version>> ELSE updates[i]]
      /\ UNCHANGED <<pgSetup, polled>>

\* The index was committed by another transaction: nothing catches the error.
IndexIsTaken(t) ==
  /\ txns[t].st = "written" /\ IsWrite(txns[t].cmd)
  /\ txns[t].index \in DOMAIN updates
  /\ txns' = [txns EXCEPT ![t] = Answered("crash")]
  /\ UNCHANGED <<pgSetup, tables, polled>>

\* The client or the database goes away: the transaction is rolled back.
Rollback(t) ==
  /\ txns[t].st \in {"open", "checked", "written"}
  /\ txns' = [txns EXCEPT ![t] = Answered("lost")]
  /\ UNCHANGED <<pgSetup, tables, polled>>

TxnStep(t) ==
  \/ \E c \in Commands(Stamp) : Begin(t, c)
  \/ CheckAccess(t) \/ PollChanges(t) \/ ReadRows(t)
  \/ WriteVlob(t) \/ InsertUpdate(t) \/ WriteRole(t) \/ WriteRealm(t)
  \/ WriteStart(t) \/ WriteFinish(t)
  \/ \E batch \in SUBSET DOMAIN atoms : WriteBatch(t, batch)
  \/ Commit(t) \/ IndexIsTaken(t) \/ Rollback(t)

PgNext == \E t \in Txns : TxnStep(t)

PgSpec == PgInit /\ [][PgNext]_pgVars

-----------------------------------------------------------------------------

\* Everything has its type, and the rows of vlob_encryption_revision are those
\* up to the revision of the realm.
PgTypeOK ==
  /\ realmRow \in [exists : BOOLEAN, revision : Versions, maintenance : BOOLEAN]
  /\ \A r \in roleRows : r.user \in PgUsers /\ r.role \in Roles \cup {NoRoleRow}
  /\ revisions = IF realmRow.exists THEN 1 .. realmRow.revision ELSE {}
  /\ DOMAIN atoms \subseteq AtomKeys /\ \A k \in DOMAIN atoms : k[1] \in revisions
  /\ \A i \in DOMAIN updates : updates[i] \in PgVlobs \X Versions
  /\ \A t \in Txns : txns[t].st \in {"idle", "open", "checked", "written", "done"}

\* A client that polls from its checkpoint misses no change: no transaction
\* commits an index below one that was committed before it
\* (q_vlob_updated computes MAX + 1 from what is committed).
PollMissesNoUpdate ==
  \A u \in PgUsers : \A i \in DOMAIN updates :
    i <= polled[u].checkpoint => i \in polled[u].changes

\* A version that was committed, and answered ok, is never replaced by what a
\* concurrent writer of the same version sends (query_create, query_update,
\* and the batches of a re-encryption).
CommittedVersionsStay ==
  [][\A k \in DOMAIN atoms : k \in DOMAIN atoms' /\ atoms'[k] = atoms[k]]_pgVars

\* Two owners that start a re-encryption at once, each with a key of its own,
\* never both give a key for the same revision to the participants
\* (query_start_reencryption_maintenance).
OneKeyPerRevision ==
  \A m, n \in messages : m.revision = n.revision => m.by = n.by

\* "Existing group must have at least one owner user"
\* (query_get_current_roles, query_get_role_certificates).
RealmKeepsOwner ==
  realmRow.exists => \E u \in PgUsers : CurrentRole(u) = "OWNER"

\* The tables of a realm under transactions that overlap: a poll misses no update that was
\* committed before the checkpoint it returns, and a revision has one key.
TablesAreSound == PgTypeOK /\ PollMissesNoUpdate /\ OneKeyPerRevision
====

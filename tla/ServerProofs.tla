---------------------------- MODULE ServerProofs ----------------------------
(***************************************************************************)
(* Proofs about the server: the transactions of PostgreSQL on a realm      *)
(* (module PgRealm), where a version that is committed stays, a poll       *)
(* misses no change and each revision has one key; the organization with   *)
(* its trustchain (modules Organization and Trustchain); and the           *)
(* invitations (modules InviteServer, PgConduit and Invitations).          *)
(***************************************************************************)
EXTENDS PgRealm, Trustchain, Invitations, SequenceTheorems, FiniteSetTheorems, WellFoundedInduction,
        TLAPS

-----------------------------------------------------------------------------
(* The inductive invariant *)

\* What is known of a command.
CommandOK(c) ==
  /\ c.by \in PgUsers
  /\ c.op = "update_roles" => c.to \in PgUsers /\ c.role \in Roles \cup {NoRoleRow}
  /\ IsWrite(c) => c.vlob \in PgVlobs

\* A transaction has the shape of its state, and the revision it read is one of the realm.
CheckedTxn(x) == [st |-> "checked", cmd |-> x.cmd, revision |-> x.revision,
                  version |-> x.version, recipients |-> x.recipients]
WrittenTxn(x) == [st |-> "written", cmd |-> x.cmd, revision |-> x.revision, version |-> x.version,
                  recipients |-> x.recipients, index |-> x.index, batch |-> x.batch]

TxnOK(x, line) ==
  /\ x.st \in {"idle", "open", "checked", "written", "done"}
  /\ x.st \in {"open", "checked", "written"} =>
       /\ CommandOK(x.cmd) /\ x.revision \in Versions
       /\ x.cmd.op \notin {"realm_create", "get_role_certificates"} =>
            line.exists /\ x.revision <= line.revision
  /\ x.st = "checked" => x = CheckedTxn(x)
  /\ x.st = "written" => x = WrittenTxn(x)
  /\ x.st \in {"checked", "written"} /\ IsWrite(x.cmd) => x.version \in Versions

TxnInv == txns = [t \in Txns |-> txns[t]] /\ \A t \in Txns : TxnOK(txns[t], realmRow)

\* The rows of vlob_atom: those inserted by an open transaction are neither committed nor
\* inserted by another one, and the numbers of versions have a bound.
RowsOK(rows) ==
  /\ rows \subseteq AtomKeys
  /\ rows \cap DOMAIN atoms = {}
  /\ \A k \in rows : k[1] \in revisions

AtomInv ==
  /\ \A t \in Writers : RowsOK(Inserted(t))
  /\ \A s, t \in Writers : s # t => Inserted(s) \cap Inserted(t) = {}
  /\ \E b \in Nat : /\ \A k \in DOMAIN atoms : k[3] <= b
                    /\ \A t \in Writers : \A k \in Inserted(t) : k[3] <= b

\* The row of the realm: one open transaction at most has written it, and what it read of the
\* realm is still true.
HoldsRealmRow(x) == x.cmd.op \in {"realm_create", "start", "finish"}
RealmRowInv ==
  /\ \A s, t \in Writers : HoldsRealmRow(txns[s]) /\ HoldsRealmRow(txns[t]) => s = t
  /\ \A t \in Writers : txns[t].cmd.op = "start" => ~ RevisionIsTaken(t)
  /\ \A t \in Writers : txns[t].cmd.op = "realm_create" => ~ realmRow.exists
  /\ ~ realmRow.exists => realmRow.revision = 1
  /\ \A m \in messages : m.revision \in revisions

\* The indexes of the changes leave no gap, and a change to come takes the next one or none.
IndexInv ==
  /\ LastIndex \in Nat /\ DOMAIN updates = 1 .. LastIndex
  /\ \A t \in Writers : txns[t].index \in Nat /\ txns[t].index <= LastIndex + 1

\* What the clients have polled.
PollInv ==
  /\ polled = [u \in PgUsers |-> polled[u]]
  /\ \A u \in PgUsers :
       /\ polled[u] = [checkpoint |-> polled[u].checkpoint, changes |-> polled[u].changes]
       /\ polled[u].checkpoint \in Nat /\ polled[u].checkpoint <= LastIndex
  /\ PollMissesNoUpdate

PgInv ==
  /\ PgTypeOK /\ TxnInv /\ AtomInv /\ RealmRowInv /\ IndexInv /\ PollInv /\ OneKeyPerRevision

-----------------------------------------------------------------------------
(* Numbers *)

\* Every nonempty set of numbers has a least one.
LEMMA LeastNumber ==
  ASSUME NEW S \in SUBSET Nat, S # {}
  PROVE  \E m \in S : \A n \in S : m <= n
<1> DEFINE R == OpToRel(<, Nat)
<1>1. PICK m \in S : \A n \in S : ~ (<<n, m>> \in R)
  <2> HIDE DEF R
  <2>1. IsWellFoundedOn(R, Nat)
    BY NatLessThanWellFounded DEF R
  <2> QED BY <2>1, WFMin
<1>2. \A n \in S : <<n, m>> \in R <=> n < m
  BY DEF OpToRel
<1>3. \A n \in S : ~ (n < m)
  BY <1>1, <1>2
<1>4. QED
  BY <1>3

\* A bounded set of numbers has a greatest one.
LEMMA GreatestNumber ==
  ASSUME NEW S \in SUBSET Nat, S # {}, NEW b \in Nat, \A n \in S : n <= b
  PROVE  \E m \in S : \A n \in S : n <= m
<1> DEFINE U == {u \in Nat : \A n \in S : n <= u}
<1>1. PICK m \in U : \A u \in U : m <= u
  BY LeastNumber
<1>2. CASE m \in S
  BY <1>1, <1>2
<1>3. CASE m \notin S
  <2>1. \A n \in S : n < m
    BY <1>1, <1>3
  <2>2. m > 0
    <3>1. PICK n \in S : TRUE
      OBVIOUS
    <3>2. n \in Nat /\ n < m /\ m \in Nat
      BY <2>1, <3>1
    <3>3. QED
      BY <3>2
  <2>3. m - 1 \in U
    BY <1>1, <2>1, <2>2
  <2>4. QED
    BY <1>1, <2>2, <2>3
<1>4. QED
  BY <1>2, <1>3

\* The number of the last version is a number.
LEMMA LastVersionType ==
  ASSUME PgInv, NEW v
  PROVE  LastVersion(v) \in Nat
<1> DEFINE vs == {k[3] : k \in {a \in DOMAIN atoms : a[2] = v}}
<1>1. DOMAIN atoms \subseteq Versions \X PgVlobs \X Versions
  BY DEF PgInv, PgTypeOK, AtomKeys
<1>2. vs \in SUBSET Nat
  BY <1>1 DEF Versions
<1>3. PICK b \in Nat : \A k \in DOMAIN atoms : k[3] <= b
  BY DEF PgInv, AtomInv
<1>4. \A n \in vs : n <= b
  BY <1>3
<1>5. CASE vs = {}
  BY <1>5 DEF LastVersion
<1>6. CASE vs # {}
  <2> HIDE DEF vs
  <2>1. \E m \in vs : \A n \in vs : n <= m
    BY <1>2, <1>4, <1>6, GreatestNumber
  <2>2. (CHOOSE n \in vs : \A m \in vs : m <= n) \in vs
    BY <2>1
  <2>3. LastVersion(v) = CHOOSE n \in vs : \A m \in vs : m <= n
    BY <1>6 DEF LastVersion, vs
  <2>4. QED
    BY <1>2, <2>2, <2>3
<1>7. QED
  BY <1>5, <1>6

-----------------------------------------------------------------------------
(* One transaction *)

\* The step of one transaction leaves the others alone.
LEMMA OthersStay ==
  ASSUME TxnInv, NEW t \in Txns, NEW x, txns' = [txns EXCEPT ![t] = x]
  PROVE  /\ txns'[t] = x
         /\ txns' = [s \in Txns |-> txns'[s]]
         /\ \A s \in Txns : s # t => txns'[s] = txns[s]
         /\ \A s \in Txns : s # t => Inserted(s)' = Inserted(s)
         /\ \A s \in Writers' : s # t => s \in Writers
         /\ \A s \in Writers : s # t => s \in Writers'
<1>1. DOMAIN txns = Txns
  BY DEF TxnInv
<1>2. /\ txns'[t] = x /\ txns' = [s \in Txns |-> txns'[s]]
      /\ \A s \in Txns : s # t => txns'[s] = txns[s]
  BY <1>1
<1>3. \A s \in Txns : s # t => Inserted(s)' = Inserted(s)
  BY <1>2 DEF Inserted, Atom
<1>4. QED
  BY <1>2, <1>3 DEF Writers

\* A step of a transaction that writes nothing yet, or ends, changes none of the tables.
LEMMA QuietStep ==
  ASSUME PgInv, NEW t \in Txns, NEW x, txns' = [txns EXCEPT ![t] = x], UNCHANGED tables,
         x.st # "written", TxnOK(x, realmRow), PollInv'
  PROVE  PgInv'
<1> USE DEF PgInv, tables
<1>0. TxnInv
  OBVIOUS
<1>1. /\ txns'[t] = x
      /\ txns' = [s \in Txns |-> txns'[s]]
      /\ \A s \in Txns : s # t => txns'[s] = txns[s]
      /\ \A s \in Txns : s # t => Inserted(s)' = Inserted(s)
      /\ \A s \in Writers' : s # t => s \in Writers
  BY <1>0, OthersStay
<1>2. t \notin Writers'
  BY <1>1 DEF Writers
<1>3. \A s \in Writers' : s \in Writers /\ s \in Txns /\ txns'[s] = txns[s] /\ Inserted(s)' = Inserted(s)
  BY <1>1, <1>2 DEF Writers
<1>4. \A s \in Txns : TxnOK(txns'[s], realmRow')
  BY <1>0, <1>1 DEF TxnInv
<1>5. TxnInv'
  BY <1>1, <1>4 DEF TxnInv
<1>6. PgTypeOK'
  <2>1. \A s \in Txns : txns'[s].st \in {"idle", "open", "checked", "written", "done"}
    BY <1>4 DEF TxnOK
  <2>2. QED
    BY <2>1 DEF PgTypeOK
<1>7. AtomInv'
  BY <1>3 DEF AtomInv, RowsOK
<1>8. RealmRowInv'
  BY <1>3 DEF RealmRowInv, HoldsRealmRow, RevisionIsTaken
<1>9. IndexInv'
  <2>1. LastIndex' = LastIndex
    BY DEF LastIndex
  <2>2. QED
    BY <1>3, <2>1 DEF IndexInv
<1>10. OneKeyPerRevision'
  BY DEF OneKeyPerRevision
<1>11. QED
  BY <1>5, <1>6, <1>7, <1>8, <1>9, <1>10

\* A transaction writes: rows that no other one holds and that are not there, or the row of
\* the realm when no other one holds it.
LEMMA WriteStep ==
  ASSUME PgInv, NEW t \in Txns, NEW x, txns' = [txns EXCEPT ![t] = x], UNCHANGED <<tables, polled>>,
         x.st = "written", TxnOK(x, realmRow),
         x.index \in Nat, x.index <= LastIndex + 1,
         NEW rows, rows = IF IsWrite(x.cmd) THEN {<<x.revision, x.cmd.vlob, x.version>>} ELSE x.batch,
         RowsOK(rows), NEW b \in Nat, \A k \in rows : k[3] <= b,
         \A s \in Writers \ {t} : Inserted(s) \cap rows = {},
         HoldsRealmRow(x) => \A s \in Writers \ {t} : ~ HoldsRealmRow(txns[s]),
         x.cmd.op = "start" => x.revision + 1 \notin revisions,
         x.cmd.op = "realm_create" => ~ realmRow.exists
  PROVE  PgInv'
<1> USE DEF PgInv, tables
<1>0. TxnInv
  OBVIOUS
<1>1. /\ txns'[t] = x
      /\ txns' = [s \in Txns |-> txns'[s]]
      /\ \A s \in Txns : s # t => txns'[s] = txns[s]
      /\ \A s \in Txns : s # t => Inserted(s)' = Inserted(s)
      /\ \A s \in Writers' : s # t => s \in Writers
  BY <1>0, OthersStay
<1>2. Inserted(t)' = rows
  BY <1>1 DEF Inserted, Atom
<1>3. \A s \in Writers' : s # t => s \in Writers /\ s \in Txns /\ txns'[s] = txns[s] /\ Inserted(s)' = Inserted(s)
  BY <1>1 DEF Writers
<1>4. \A s \in Txns : TxnOK(txns'[s], realmRow')
  BY <1>0, <1>1 DEF TxnInv
<1>5. TxnInv'
  BY <1>1, <1>4 DEF TxnInv
<1>6. PgTypeOK'
  <2>1. \A s \in Txns : txns'[s].st \in {"idle", "open", "checked", "written", "done"}
    BY <1>4 DEF TxnOK
  <2>2. QED
    BY <2>1 DEF PgTypeOK
<1>7. AtomInv'
  <2>1. \A s \in Writers' : RowsOK(Inserted(s))'
    BY <1>2, <1>3 DEF AtomInv, RowsOK
  <2>2. \A s, r \in Writers' : s # r => Inserted(s)' \cap Inserted(r)' = {}
    BY <1>2, <1>3 DEF AtomInv
  <2>3. PICK b2 \in Nat : /\ \A k \in DOMAIN atoms : k[3] <= b2
                          /\ \A s \in Writers : \A k \in Inserted(s) : k[3] <= b2
    BY DEF AtomInv
  <2>4. /\ \A k \in DOMAIN atoms : k[3] \in Nat
        /\ \A s \in Writers : \A k \in Inserted(s) : k[3] \in Nat
        /\ \A k \in rows : k[3] \in Nat
    <3>1. \A k \in AtomKeys : k[3] \in Nat
      BY DEF AtomKeys, Versions
    <3>2. QED
      BY <3>1 DEF AtomInv, RowsOK, PgTypeOK
  <2>5. b + b2 \in Nat /\ \A n \in Nat : n <= b \/ n <= b2 => n <= b + b2
    OBVIOUS
  <2>6. /\ \A k \in DOMAIN atoms : k[3] <= b + b2
        /\ \A s \in Writers' : \A k \in Inserted(s)' : k[3] <= b + b2
    BY <1>2, <1>3, <2>3, <2>4, <2>5
  <2>7. QED
    BY <2>1, <2>2, <2>5, <2>6 DEF AtomInv
<1>8. RealmRowInv'
  BY <1>1, <1>3 DEF RealmRowInv, HoldsRealmRow, RevisionIsTaken
<1>9. IndexInv'
  <2>1. LastIndex' = LastIndex
    BY DEF LastIndex
  <2>2. QED
    BY <1>1, <1>3, <2>1 DEF IndexInv
<1>10. OneKeyPerRevision'
  BY DEF OneKeyPerRevision
<1>11. PollInv'
  BY DEF PollInv, PollMissesNoUpdate, LastIndex
<1>12. QED
  BY <1>5, <1>6, <1>7, <1>8, <1>9, <1>10, <1>11

\* The greatest index, when the indexes leave no gap.
Greatest(S) == IF S = {} THEN 0 ELSE CHOOSE i \in S : \A j \in S : j <= i

LEMMA GreatestIndex ==
  ASSUME NEW n \in Nat
  PROVE  Greatest(1 .. n) = n
<1>1. CASE n = 0
  <2>1. 1 .. n = {}
    BY <1>1
  <2>2. QED
    BY <1>1, <2>1 DEF Greatest
<1>2. CASE n > 0
  <2>1. n \in 1 .. n /\ (\A j \in 1 .. n : j <= n) /\ 1 .. n # {}
    BY <1>2
  <2>2. \A i \in 1 .. n : (\A j \in 1 .. n : j <= i) => i = n
    BY <1>2
  <2>3. (CHOOSE i \in 1 .. n : \A j \in 1 .. n : j <= i) = n
    BY <2>1, <2>2
  <2>4. QED
    BY <2>1, <2>3 DEF Greatest
<1>3. QED
  BY <1>1, <1>2

\* What a commit makes of the tables keeps everything in place.
LEMMA CommitStep ==
  ASSUME PgInv, NEW t \in Txns, Commit(t)
  PROVE  PgInv'
<1> DEFINE x == txns[t]
           c == x.cmd
           done == Answered("ok")
<1>0. /\ t \in Writers /\ x.st = "written" /\ TxnOK(x, realmRow) /\ TxnInv
      /\ txns' = [txns EXCEPT ![t] = done] /\ done.st = "done"
  BY DEF Commit, Writers, PgInv, TxnInv, Answered
<1>1. /\ txns'[t] = done
      /\ txns' = [s \in Txns |-> txns'[s]]
      /\ \A s \in Txns : s # t => txns'[s] = txns[s]
      /\ \A s \in Txns : s # t => Inserted(s)' = Inserted(s)
      /\ \A s \in Writers' : s # t => s \in Writers
  <2> HIDE DEF done, x, c
  <2>1. QED
    BY <1>0, OthersStay
<1>2. \A s \in Writers' : /\ s # t /\ s \in Writers /\ s \in Txns
                          /\ txns'[s] = txns[s] /\ Inserted(s)' = Inserted(s)
  BY <1>0, <1>1 DEF Writers
<1>3. /\ CommandOK(c) /\ x.revision \in Versions
      /\ c.op \notin {"realm_create", "get_role_certificates"} =>
           realmRow.exists /\ x.revision <= realmRow.revision
      /\ IsWrite(c) => x.version \in Versions
  BY <1>0 DEF TxnOK
<1>4. /\ RowsOK(Inserted(t))
      /\ c.op = "start" => x.revision + 1 \notin revisions
      /\ c.op = "realm_create" => ~ realmRow.exists
      /\ ~ realmRow.exists => realmRow.revision = 1
      /\ realmRow \in [exists : BOOLEAN, revision : Versions, maintenance : BOOLEAN]
      /\ revisions = IF realmRow.exists THEN 1 .. realmRow.revision ELSE {}
  BY <1>0 DEF PgInv, AtomInv, RealmRowInv, RevisionIsTaken, PgTypeOK
<1>5. /\ realmRow' \in [exists : BOOLEAN, revision : Versions, maintenance : BOOLEAN]
      /\ realmRow'.exists <=> realmRow.exists \/ c.op = "realm_create"
      /\ realmRow'.revision = IF c.op = "start" THEN x.revision + 1 ELSE realmRow.revision
  <2>1. CASE c.op = "realm_create"
    <3>1. realmRow' = [realmRow EXCEPT !.exists = TRUE]
      BY <2>1 DEF Commit
    <3>2. QED
      BY <1>4, <2>1, <3>1
  <2>2. CASE c.op = "start"
    <3>1. realmRow' = [realmRow EXCEPT !.revision = x.revision + 1, !.maintenance = TRUE]
      BY <2>2 DEF Commit
    <3>2. x.revision + 1 \in Versions
      BY <1>3 DEF Versions
    <3>3. QED
      BY <1>4, <2>2, <3>1, <3>2
  <2>3. CASE c.op = "finish"
    <3>1. realmRow' = [realmRow EXCEPT !.maintenance = FALSE]
      BY <2>3 DEF Commit
    <3>2. QED
      BY <1>4, <2>3, <3>1
  <2>4. CASE c.op \notin {"realm_create", "start", "finish"}
    <3>1. realmRow' = realmRow
      BY <2>4 DEF Commit
    <3>2. QED
      BY <1>4, <2>4, <3>1
  <2>5. QED
    BY <2>1, <2>2, <2>3, <2>4
<1>6. revisions' = IF realmRow'.exists THEN 1 .. realmRow'.revision ELSE {}
  <2>1. CASE c.op = "realm_create"
    <3>1. revisions' = revisions \cup {1}
      BY <2>1 DEF Commit
    <3>2. 1 .. 1 = {1}
      OBVIOUS
    <3>3. QED
      BY <1>4, <1>5, <2>1, <3>1, <3>2
  <2>2. CASE c.op = "start"
    <3>1. revisions' = revisions \cup {x.revision + 1}
      BY <2>2 DEF Commit
    <3>2. /\ realmRow.exists /\ x.revision <= realmRow.revision /\ x.revision + 1 \notin 1 .. realmRow.revision
          /\ x.revision \in Nat /\ realmRow.revision \in Nat
      BY <1>3, <1>4, <2>2 DEF Versions
    <3>3. x.revision = realmRow.revision
      BY <3>2
    <3>4. \A n \in Nat : 1 .. (n + 1) = (1 .. n) \cup {n + 1}
      OBVIOUS
    <3>5. QED
      BY <1>4, <1>5, <2>2, <3>1, <3>2, <3>3, <3>4
  <2>3. CASE c.op \notin {"realm_create", "start"}
    <3>1. revisions' = revisions \cup {}
      BY <2>3 DEF Commit
    <3>2. QED
      BY <1>4, <1>5, <2>3, <3>1
  <2>4. QED
    BY <2>1, <2>2, <2>3
<1>7. revisions \subseteq revisions'
  BY DEF Commit
<1>8. /\ DOMAIN atoms' = DOMAIN atoms \cup Inserted(t)
      /\ \A k \in DOMAIN atoms' : k \in AtomKeys /\ k[1] \in revisions'
  <2>1. DOMAIN atoms' = DOMAIN atoms \cup Inserted(t)
    BY DEF Commit
  <2>2. \A k \in DOMAIN atoms : k \in AtomKeys /\ k[1] \in revisions
    BY DEF PgInv, PgTypeOK
  <2>3. QED
    BY <1>4, <1>7, <2>1, <2>2 DEF RowsOK
<1>9. \A r \in roleRows' : r.user \in PgUsers /\ r.role \in Roles \cup {NoRoleRow}
  <2> DEFINE Row(u, role) == [user |-> u, role |-> role, on |-> c.on]
  <2>1. CASE c.op = "realm_create"
    <3>1. roleRows' = roleRows \cup {Row(c.by, "OWNER")}
      BY <2>1 DEF Commit
    <3>2. QED
      BY <1>3, <3>1 DEF PgInv, PgTypeOK, CommandOK, Roles
  <2>2. CASE c.op = "update_roles"
    <3>1. roleRows' = roleRows \cup {Row(c.to, c.role)}
      BY <2>2 DEF Commit
    <3>2. QED
      BY <1>3, <2>2, <3>1 DEF PgInv, PgTypeOK, CommandOK
  <2>3. CASE c.op \notin {"realm_create", "update_roles"}
    <3>1. roleRows' = roleRows \cup {}
      BY <2>3 DEF Commit
    <3>2. QED
      BY <3>1 DEF PgInv, PgTypeOK
  <2>4. QED
    BY <2>1, <2>2, <2>3
<1>10. /\ LastIndex \in Nat /\ LastIndex' \in Nat /\ DOMAIN updates' = 1 .. LastIndex'
       /\ DOMAIN updates = 1 .. LastIndex /\ LastIndex <= LastIndex'
       /\ \A i \in DOMAIN updates' : updates'[i] \in PgVlobs \X Versions
  <2>0. /\ LastIndex \in Nat /\ DOMAIN updates = 1 .. LastIndex
        /\ x.index \in Nat /\ x.index <= LastIndex + 1
        /\ \A i \in DOMAIN updates : updates[i] \in PgVlobs \X Versions
    BY <1>0 DEF PgInv, IndexInv, PgTypeOK
  <2>1. CASE ~ IsWrite(c)
    <3>1. updates' = updates
      BY <2>1 DEF Commit
    <3>2. LastIndex' = LastIndex
      BY <3>1 DEF LastIndex
    <3>3. QED
      BY <2>0, <3>1, <3>2
  <2>2. CASE IsWrite(c)
    <3>1. /\ x.index # 0 /\ x.index \notin DOMAIN updates
          /\ updates' = [i \in DOMAIN updates \cup {x.index} |->
                           IF i = x.index THEN <<c.vlob, x.version>> ELSE updates[i]]
      BY <2>2 DEF Commit, HoldsIndex
    <3>2. x.index = LastIndex + 1
      BY <2>0, <3>1
    <3>3. DOMAIN updates' = 1 .. (LastIndex + 1)
      <4>1. \A n \in Nat : 1 .. (n + 1) = (1 .. n) \cup {n + 1}
        OBVIOUS
      <4>2. QED
        BY <2>0, <3>1, <3>2, <4>1
    <3>4. LastIndex' = Greatest(DOMAIN updates')
      BY DEF LastIndex, Greatest
    <3>5. LastIndex' = LastIndex + 1
      BY <2>0, <3>3, <3>4, GreatestIndex
    <3>6. c.vlob \in PgVlobs /\ x.version \in Versions
      BY <1>3, <2>2 DEF CommandOK
    <3>7. \A i \in DOMAIN updates' : updates'[i] \in PgVlobs \X Versions
      BY <2>0, <3>1, <3>6
    <3>8. QED
      BY <2>0, <3>3, <3>5, <3>7
  <2>3. QED
    BY <2>1, <2>2
<1>11. TxnInv'
  <2>1. ASSUME NEW y, TxnOK(y, realmRow)
        PROVE  TxnOK(y, realmRow')
    <3>1. realmRow.exists => realmRow'.exists
      BY <1>5
    <3>2. realmRow.exists => realmRow.revision <= realmRow'.revision
      <4>1. realmRow.revision \in Nat /\ x.revision \in Nat /\ realmRow'.revision \in Nat
        BY <1>3, <1>4, <1>5 DEF Versions
      <4>2. c.op = "start" => realmRow.exists /\ x.revision + 1 \notin 1 .. realmRow.revision
                              /\ x.revision + 1 >= 1
        BY <1>3, <1>4, <4>1
      <4>3. QED
        BY <1>5, <4>1, <4>2
    <3>3. \A r \in Versions : realmRow.exists /\ r <= realmRow.revision => r <= realmRow'.revision
      BY <1>4, <1>5, <3>2 DEF Versions
    <3>4. QED
      BY <2>1, <3>1, <3>3 DEF TxnOK
  <2>2. TxnOK(done, realmRow')
    BY DEF TxnOK, Answered
  <2>3. \A s \in Txns : TxnOK(txns'[s], realmRow')
    BY <1>0, <1>1, <2>1, <2>2 DEF TxnInv
  <2>4. QED
    BY <1>1, <2>3 DEF TxnInv
<1>12. PgTypeOK'
  <2>1. \A s \in Txns : txns'[s].st \in {"idle", "open", "checked", "written", "done"}
    BY <1>11 DEF TxnInv, TxnOK
  <2>2. QED
    BY <1>5, <1>6, <1>8, <1>9, <1>10, <2>1 DEF PgTypeOK
<1>13. AtomInv'
  <2>1. ASSUME NEW s \in Writers'
        PROVE  RowsOK(Inserted(s))'
    <3>1. s \in Writers /\ s # t /\ Inserted(s)' = Inserted(s)
      BY <1>2
    <3>2. RowsOK(Inserted(s)) /\ Inserted(s) \cap Inserted(t) = {}
      BY <1>0, <3>1 DEF PgInv, AtomInv
    <3>3. QED
      BY <1>7, <1>8, <3>1, <3>2 DEF RowsOK
  <2>2. \A s, r \in Writers' : s # r => Inserted(s)' \cap Inserted(r)' = {}
    BY <1>2 DEF PgInv, AtomInv
  <2>3. \E b \in Nat : /\ \A k \in DOMAIN atoms' : k[3] <= b
                       /\ \A s \in Writers' : \A k \in Inserted(s)' : k[3] <= b
    BY <1>0, <1>2, <1>8 DEF PgInv, AtomInv
  <2>4. QED
    BY <2>1, <2>2, <2>3 DEF AtomInv
<1>14. RealmRowInv' /\ OneKeyPerRevision'
  <2>1. ASSUME NEW s \in Writers', txns'[s].cmd.op = "start"
        PROVE  ~ RevisionIsTaken(s)'
    <3>1. s \in Writers /\ s # t /\ txns'[s] = txns[s] /\ txns[s].cmd.op = "start"
      BY <1>2, <2>1
    <3>2. ~ RevisionIsTaken(s) /\ ~ HoldsRealmRow(x)
      BY <1>0, <3>1 DEF PgInv, RealmRowInv, HoldsRealmRow
    <3>3. revisions' = revisions
      BY <3>2 DEF HoldsRealmRow, Commit
    <3>4. QED
      BY <3>1, <3>2, <3>3 DEF RevisionIsTaken
  <2>2. ASSUME NEW s \in Writers', txns'[s].cmd.op = "realm_create"
        PROVE  ~ realmRow'.exists
    <3>1. s \in Writers /\ s # t /\ txns'[s] = txns[s] /\ txns[s].cmd.op = "realm_create"
      BY <1>2, <2>2
    <3>2. ~ realmRow.exists /\ ~ HoldsRealmRow(x)
      BY <1>0, <3>1 DEF PgInv, RealmRowInv, HoldsRealmRow
    <3>3. QED
      BY <1>5, <3>2 DEF HoldsRealmRow
  <2>3. ~ realmRow'.exists => realmRow'.revision = 1
    BY <1>3, <1>4, <1>5
  <2>4. \A s, r \in Writers' : HoldsRealmRow(txns'[s]) /\ HoldsRealmRow(txns'[r]) => s = r
    BY <1>2 DEF PgInv, RealmRowInv
  <2>5. (\A m \in messages' : m.revision \in revisions')
          /\ \A m, n \in messages' : m.revision = n.revision => m.by = n.by
    <3>0. /\ \A m \in messages : m.revision \in revisions
          /\ \A m, n \in messages : m.revision = n.revision => m.by = n.by
      BY DEF PgInv, RealmRowInv, OneKeyPerRevision
    <3>1. CASE c.op # "start"
      <4>1. messages' = messages \cup {}
        BY <3>1 DEF Commit
      <4>2. QED
        BY <1>7, <3>0, <4>1
    <3>2. CASE c.op = "start"
      <4>1. messages' = messages \cup SentKeys(t) /\ revisions' = revisions \cup {x.revision + 1}
        BY <3>2 DEF Commit
      <4>2. \A m \in SentKeys(t) : m.revision = x.revision + 1 /\ m.by = t
        BY DEF SentKeys
      <4>3. \A m \in messages : m.revision # x.revision + 1
        BY <1>4, <3>0, <3>2
      <4>4. \A m \in messages' : m \in messages \/ (m.revision = x.revision + 1 /\ m.by = t)
        BY <4>1, <4>2
      <4>5. \A m \in messages' : m.revision \in revisions'
        BY <1>7, <3>0, <4>1, <4>4
      <4>6. \A m, n \in messages' : m.revision = n.revision => m.by = n.by
        BY <3>0, <4>3, <4>4
      <4>7. QED
        BY <4>5, <4>6
    <3>3. QED
      BY <3>1, <3>2
  <2>6. QED
    BY <2>1, <2>2, <2>3, <2>4, <2>5 DEF RealmRowInv, OneKeyPerRevision, HoldsRealmRow
<1>15. IndexInv'
  <2>1. ASSUME NEW s \in Writers'
        PROVE  txns'[s].index \in Nat /\ txns'[s].index <= LastIndex' + 1
    <3>1. s \in Writers /\ txns'[s] = txns[s]
      BY <1>2
    <3>2. txns[s].index \in Nat /\ txns[s].index <= LastIndex + 1
      BY <3>1 DEF PgInv, IndexInv
    <3>3. QED
      BY <1>10, <3>1, <3>2
  <2>2. QED
    BY <1>10, <2>1 DEF IndexInv
<1>16. PollInv'
  <2>0. polled' = polled
    BY DEF Commit
  <2>1. ASSUME NEW u \in PgUsers
        PROVE  /\ polled[u] = [checkpoint |-> polled[u].checkpoint, changes |-> polled[u].changes]
               /\ polled[u].checkpoint \in Nat /\ polled[u].checkpoint <= LastIndex'
               /\ \A i \in 1 .. LastIndex' : i <= polled[u].checkpoint => i \in polled[u].changes
    <3>1. /\ polled[u] = [checkpoint |-> polled[u].checkpoint, changes |-> polled[u].changes]
          /\ polled[u].checkpoint \in Nat /\ polled[u].checkpoint <= LastIndex
          /\ \A i \in 1 .. LastIndex : i <= polled[u].checkpoint => i \in polled[u].changes
      BY <1>10 DEF PgInv, PollInv, PollMissesNoUpdate
    <3>2. QED
      BY <1>10, <3>1
  <2>2. polled' = [u \in PgUsers |-> polled'[u]]
    BY <2>0 DEF PgInv, PollInv
  <2>3. PollMissesNoUpdate'
    BY <1>10, <2>0, <2>1 DEF PollMissesNoUpdate
  <2>4. QED
    BY <2>0, <2>1, <2>2, <2>3 DEF PollInv
<1>17. QED
  BY <1>11, <1>12, <1>13, <1>14, <1>15, <1>16 DEF PgInv

-----------------------------------------------------------------------------
(* Every step *)

\* A command that is sent is one.
LEMMA CommandType ==
  ASSUME NEW on, NEW c \in Commands(on)
  PROVE  CommandOK(c) /\ c.op \in Ops
  BY DEF Commands, CommandOK, IsWrite, Ops

\* What the clients have polled depends on the changes only.
LEMMA PolledStays ==
  ASSUME PgInv, UNCHANGED <<updates, polled>>
  PROVE  PollInv'
  BY DEF PgInv, PollInv, PollMissesNoUpdate, LastIndex

\* A transaction that ends changes nothing more.
LEMMA AnswerStep ==
  ASSUME PgInv, NEW t \in Txns, NEW status, txns' = [txns EXCEPT ![t] = Answered(status)],
         UNCHANGED tables, PollInv'
  PROVE  PgInv'
<1> DEFINE x == Answered(status)
<1>1. x.st = "done" /\ TxnOK(x, realmRow)
  BY DEF Answered, TxnOK
<1> HIDE DEF x
<1>2. txns' = [txns EXCEPT ![t] = x]
  BY DEF x
<1>3. QED
  BY <1>1, <1>2, QuietStep

\* The command under way and the revision that was read.
LEMMA ActiveTxn ==
  ASSUME PgInv, NEW t \in Txns, txns[t].st \in {"open", "checked", "written"}
  PROVE  /\ CommandOK(txns[t].cmd) /\ txns[t].revision \in Versions
         /\ txns[t].cmd.op \notin {"realm_create", "get_role_certificates"} =>
              realmRow.exists /\ txns[t].revision <= realmRow.revision
         /\ txns[t].st \in {"checked", "written"} /\ IsWrite(txns[t].cmd) =>
              txns[t].version \in Versions
         /\ txns[t].st = "written" => txns[t] = WrittenTxn(txns[t])
  BY DEF PgInv, TxnInv, TxnOK

\* Of the revisions of the realm.
LEMMA ReadRevision ==
  ASSUME PgInv, realmRow.exists, NEW r \in Versions, r <= realmRow.revision
  PROVE  r \in revisions
  BY DEF PgInv, PgTypeOK, Versions

\* A transaction begins.
LEMMA BeginStep ==
  ASSUME PgInv, NEW t \in Txns, NEW c \in Commands(Stamp), Begin(t, c)
  PROVE  PgInv'
<1>0. UNCHANGED tables /\ PollInv'
  BY PolledStays DEF Begin, tables
<1>1. CASE StatusRefusal(c) # "ok"
  <2>1. txns' = [txns EXCEPT ![t] = Answered(StatusRefusal(c))]
    BY <1>1 DEF Begin
  <2>2. QED
    BY <1>0, <2>1, AnswerStep
<1>2. CASE StatusRefusal(c) = "ok"
  <2> DEFINE x == [st |-> "open", cmd |-> c, revision |-> realmRow.revision]
  <2>1. txns' = [txns EXCEPT ![t] = x]
    BY <1>2 DEF Begin
  <2>2. c.op \notin {"realm_create", "get_role_certificates"} => realmRow.exists
    BY <1>2 DEF StatusRefusal
  <2>3. realmRow.revision \in Versions /\ realmRow.revision <= realmRow.revision
    BY DEF PgInv, PgTypeOK, Versions
  <2>4. CommandOK(c)
    BY CommandType
  <2>5. TxnOK(x, realmRow) /\ x.st # "written"
    BY <2>2, <2>3, <2>4 DEF TxnOK
  <2> HIDE DEF x
  <2>6. QED
    BY <1>0, <2>1, <2>5, QuietStep
<1>3. QED
  BY <1>1, <1>2

\* The checks of a transaction.
LEMMA CheckStep ==
  ASSUME PgInv, NEW t \in Txns, CheckAccess(t)
  PROVE  PgInv'
<1> DEFINE c == txns[t].cmd
           refusal == Refusal(c, txns[t].revision)
<1>0. UNCHANGED tables /\ PollInv' /\ txns[t].st = "open"
  BY PolledStays DEF CheckAccess, tables
<1>1. CASE refusal # "ok"
  <2>1. txns' = [txns EXCEPT ![t] = Answered(refusal)]
    BY <1>1 DEF CheckAccess
  <2> HIDE DEF refusal
  <2>2. QED
    BY <1>0, <2>1, AnswerStep
<1>2. CASE refusal = "ok"
  <2> DEFINE version == IF IsWrite(c) THEN NewVersion(c) ELSE 0
             recipients == IF c.op = "start" THEN Participants ELSE {}
             x == [st |-> "checked", cmd |-> c, revision |-> txns[t].revision,
                   version |-> version, recipients |-> recipients]
  <2>1. txns' = [txns EXCEPT ![t] = x]
    BY <1>2 DEF CheckAccess
  <2>2. IsWrite(c) => version \in Versions
    <3>1. LastVersion(c.vlob) \in Nat
      BY LastVersionType
    <3>2. QED
      BY <3>1 DEF NewVersion, Versions
  <2> HIDE DEF version, recipients
  <2>3. TxnOK(x, realmRow) /\ x.st # "written"
    BY <1>0, <2>2, ActiveTxn DEF TxnOK, CheckedTxn
  <2> HIDE DEF x
  <2>4. QED
    BY <1>0, <2>1, <2>3, QuietStep
<1>3. QED
  BY <1>1, <1>2

\* A poll.
LEMMA PollStep ==
  ASSUME PgInv, NEW t \in Txns, PollChanges(t)
  PROVE  PgInv'
<1> DEFINE c == txns[t].cmd
           status == IF MayDo(c) THEN "ok" ELSE "not_allowed"
<1>0. UNCHANGED tables /\ txns[t].st = "open" /\ txns' = [txns EXCEPT ![t] = Answered(status)]
  BY DEF PollChanges
<1>1. CASE ~ MayDo(c)
  <2>1. PollInv'
    BY <1>0, <1>1, PolledStays DEF PollChanges, tables
  <2> HIDE DEF status
  <2>2. QED
    BY <1>0, <2>1, AnswerStep
<1>2. CASE MayDo(c)
  <2> DEFINE mine == polled[c.by]
             new == [checkpoint |-> LastIndex,
                     changes |-> mine.changes \cup {i \in DOMAIN updates : i > mine.checkpoint}]
  <2>1. polled' = [polled EXCEPT ![c.by] = new]
    BY <1>2 DEF PollChanges
  <2>2. c.by \in PgUsers
    BY <1>0, ActiveTxn DEF CommandOK
  <2>3. LastIndex' = LastIndex /\ LastIndex \in Nat /\ DOMAIN updates = 1 .. LastIndex /\ updates' = updates
    <3>1. updates' = updates
      BY <1>0 DEF tables
    <3>2. LastIndex' = LastIndex
      BY <3>1 DEF LastIndex
    <3>3. QED
      BY <3>1, <3>2 DEF PgInv, IndexInv
  <2>4. /\ new.checkpoint = LastIndex
        /\ \A i \in DOMAIN updates : i <= new.checkpoint => i \in new.changes
    <3>1. mine.checkpoint \in Nat /\ \A i \in DOMAIN updates : i <= mine.checkpoint => i \in mine.changes
      BY <2>2 DEF PgInv, PollInv, PollMissesNoUpdate
    <3>2. \A i \in DOMAIN updates : i <= mine.checkpoint \/ i > mine.checkpoint
      BY <2>3, <3>1
    <3>3. QED
      BY <3>1, <3>2
  <2>5. new = [checkpoint |-> new.checkpoint, changes |-> new.changes]
    OBVIOUS
  <2> HIDE DEF new
  <2>6. /\ DOMAIN polled = PgUsers /\ polled' = [u \in PgUsers |-> polled'[u]]
        /\ polled'[c.by] = new /\ \A u \in PgUsers : u # c.by => polled'[u] = polled[u]
    BY <2>1, <2>2 DEF PgInv, PollInv
  <2>7. LastIndex <= LastIndex
    BY <2>3
  <2>8. ASSUME NEW u \in PgUsers
        PROVE  /\ polled'[u] = [checkpoint |-> polled'[u].checkpoint, changes |-> polled'[u].changes]
               /\ polled'[u].checkpoint \in Nat /\ polled'[u].checkpoint <= LastIndex
               /\ \A i \in DOMAIN updates : i <= polled'[u].checkpoint => i \in polled'[u].changes
    <3>1. CASE u = c.by
      BY <2>3, <2>4, <2>5, <2>6, <2>7, <3>1
    <3>2. CASE u # c.by
      BY <2>6, <3>2 DEF PgInv, PollInv, PollMissesNoUpdate
    <3>3. QED
      BY <3>1, <3>2
  <2>9. PollInv'
    BY <2>3, <2>6, <2>8 DEF PollInv, PollMissesNoUpdate
  <2> HIDE DEF status
  <2>10. QED
    BY <1>0, <2>9, AnswerStep
<1>3. QED
  BY <1>1, <1>2

\* A transaction that writes no vlob: a role, the realm or a batch.
LEMMA OtherWriteStep ==
  ASSUME PgInv, NEW t \in Txns, txns[t].st = "checked", NEW rows,
         txns' = [txns EXCEPT ![t] = Written(t, 0, rows)], UNCHANGED <<tables, polled>>,
         ~ IsWrite(txns[t].cmd), RowsOK(rows), NEW b \in Nat, \A k \in rows : k[3] <= b,
         ~ AreHeld(t, rows),
         HoldsRealmRow(txns[t]) => ~ RealmRowIsHeld(t),
         txns[t].cmd.op = "start" => ~ RevisionIsTaken(t),
         txns[t].cmd.op = "realm_create" => ~ realmRow.exists
  PROVE  PgInv'
<1> DEFINE x == Written(t, 0, rows)
<1>1. /\ x.st = "written" /\ x = WrittenTxn(x) /\ x.index = 0 /\ x.batch = rows
      /\ x.cmd = txns[t].cmd /\ x.revision = txns[t].revision /\ x.version = txns[t].version
  BY DEF Written, WrittenTxn
<1> HIDE DEF x
<1>2. TxnOK(x, realmRow)
  BY <1>1, ActiveTxn DEF TxnOK
<1>3. x.index \in Nat /\ x.index <= LastIndex + 1
  BY <1>1 DEF PgInv, IndexInv
<1>4. rows = IF IsWrite(x.cmd) THEN {<<x.revision, x.cmd.vlob, x.version>>} ELSE x.batch
  BY <1>1
<1>5. \A s \in Writers \ {t} : Inserted(s) \cap rows = {}
  BY DEF AreHeld
<1>6. HoldsRealmRow(x) => \A s \in Writers \ {t} : ~ HoldsRealmRow(txns[s])
  BY <1>1 DEF HoldsRealmRow, RealmRowIsHeld
<1>7. /\ x.cmd.op = "start" => x.revision + 1 \notin revisions
      /\ x.cmd.op = "realm_create" => ~ realmRow.exists
  BY <1>1 DEF RevisionIsTaken
<1>8. txns' = [txns EXCEPT ![t] = x]
  BY DEF x
<1>9. QED
  BY <1>1, <1>2, <1>3, <1>4, <1>5, <1>6, <1>7, <1>8, WriteStep

\* A vlob is written when no other transaction holds its row and it is not there.
LEMMA WriteVlobStep ==
  ASSUME PgInv, NEW t \in Txns, WriteVlob(t)
  PROVE  PgInv'
<1> DEFINE c == txns[t].cmd
<1>0. /\ UNCHANGED <<tables, polled>> /\ PollInv' /\ txns[t].st = "checked"
      /\ IsWrite(c) /\ ~ AreHeld(t, {Atom(t)})
  BY PolledStays DEF WriteVlob, tables
<1>1. CASE InsertAtom(t) # "ok"
  <2>1. txns' = [txns EXCEPT ![t] = Answered(InsertAtom(t))]
    BY <1>1 DEF WriteVlob
  <2>2. QED
    BY <1>0, <2>1, AnswerStep
<1>2. CASE InsertAtom(t) = "ok"
  <2> DEFINE x == Written(t, 0, {})
  <2>1. txns' = [txns EXCEPT ![t] = x]
    BY <1>2 DEF WriteVlob
  <2>2. /\ x.st = "written" /\ x = WrittenTxn(x) /\ x.index = 0
        /\ x.cmd = txns[t].cmd /\ x.revision = txns[t].revision /\ x.version = txns[t].version
    BY DEF Written, WrittenTxn
  <2> HIDE DEF x
  <2>3. TxnOK(x, realmRow)
    BY <1>0, <2>2, ActiveTxn DEF TxnOK
  <2>4. x.index \in Nat /\ x.index <= LastIndex + 1
    BY <2>2 DEF PgInv, IndexInv
  <2>5. {Atom(t)} = IF IsWrite(x.cmd) THEN {<<x.revision, x.cmd.vlob, x.version>>} ELSE x.batch
    BY <1>0, <2>2 DEF Atom
  <2>6. /\ c.vlob \in PgVlobs /\ txns[t].version \in Versions /\ txns[t].revision \in Versions
        /\ realmRow.exists /\ txns[t].revision <= realmRow.revision
    BY <1>0, ActiveTxn DEF CommandOK, IsWrite
  <2>7. Atom(t) \in AtomKeys /\ Atom(t)[1] = txns[t].revision /\ Atom(t)[3] = txns[t].version
    BY <2>6 DEF Atom, AtomKeys
  <2>8. Atom(t) \notin DOMAIN atoms
    BY <1>2 DEF InsertAtom
  <2>9. txns[t].revision \in revisions
    BY <2>6, ReadRevision
  <2>10. RowsOK({Atom(t)})
    BY <2>7, <2>8, <2>9 DEF RowsOK
  <2>11. txns[t].version \in Nat /\ \A k \in {Atom(t)} : k[3] <= txns[t].version
    BY <2>6, <2>7 DEF Versions
  <2>12. \A s \in Writers \ {t} : Inserted(s) \cap {Atom(t)} = {}
    BY <1>0 DEF AreHeld
  <2>13. /\ ~ HoldsRealmRow(x) /\ x.cmd.op # "start" /\ x.cmd.op # "realm_create"
    BY <1>0, <2>2 DEF HoldsRealmRow, IsWrite
  <2>14. QED
    BY <1>0, <2>1, <2>2, <2>3, <2>4, <2>5, <2>10, <2>11, <2>12, <2>13, WriteStep
<1>3. QED
  BY <1>1, <1>2

\* The index of a change is computed.
LEMMA InsertUpdateStep ==
  ASSUME PgInv, NEW t \in Txns, InsertUpdate(t)
  PROVE  PgInv'
<1> DEFINE x == [txns[t] EXCEPT !.index = NextIndex]
<1>0. /\ UNCHANGED <<tables, polled>> /\ txns[t].st = "written" /\ IsWrite(txns[t].cmd)
      /\ t \in Writers /\ txns[t] = WrittenTxn(txns[t])
  BY ActiveTxn DEF InsertUpdate, Writers
<1>1. txns' = [txns EXCEPT ![t] = x]
  BY DEF InsertUpdate
<1>2. /\ x.st = "written" /\ x = WrittenTxn(x) /\ x.index = LastIndex + 1
      /\ x.cmd = txns[t].cmd /\ x.revision = txns[t].revision /\ x.version = txns[t].version
  BY <1>0 DEF WrittenTxn, NextIndex
<1> HIDE DEF x
<1>3. TxnOK(x, realmRow)
  BY <1>0, <1>2, ActiveTxn DEF TxnOK
<1>4. x.index \in Nat /\ x.index <= LastIndex + 1
  BY <1>2 DEF PgInv, IndexInv
<1>5. Inserted(t) = IF IsWrite(x.cmd) THEN {<<x.revision, x.cmd.vlob, x.version>>} ELSE x.batch
  BY <1>0, <1>2 DEF Inserted, Atom
<1>6. RowsOK(Inserted(t)) /\ \A s \in Writers \ {t} : Inserted(s) \cap Inserted(t) = {}
  BY <1>0 DEF PgInv, AtomInv
<1>7. PICK b \in Nat : \A k \in Inserted(t) : k[3] <= b
  BY <1>0 DEF PgInv, AtomInv
<1>8. ~ HoldsRealmRow(x) /\ x.cmd.op # "start" /\ x.cmd.op # "realm_create"
  BY <1>0, <1>2 DEF HoldsRealmRow, IsWrite
<1>9. QED
  BY <1>0, <1>1, <1>2, <1>3, <1>4, <1>5, <1>6, <1>7, <1>8, WriteStep

\* The rows of a batch that are not there yet.
LEMMA WriteBatchStep ==
  ASSUME PgInv, NEW t \in Txns, NEW batch, WriteBatch(t, batch)
  PROVE  PgInv'
<1> DEFINE rows == Copied(t, batch)
<1>0. /\ UNCHANGED <<tables, polled>> /\ txns[t].st = "checked" /\ txns[t].cmd.op = "save"
      /\ batch \subseteq DOMAIN atoms /\ ~ AreHeld(t, rows)
      /\ txns' = [txns EXCEPT ![t] = Written(t, 0, rows)]
  BY DEF WriteBatch, AtomsAt
<1>1. /\ txns[t].revision \in Versions /\ realmRow.exists /\ txns[t].revision <= realmRow.revision
  BY <1>0, ActiveTxn
<1>2. txns[t].revision \in revisions
  BY <1>1, ReadRevision
<1>3. DOMAIN atoms \subseteq Versions \X PgVlobs \X Versions
  BY DEF PgInv, PgTypeOK, AtomKeys
<1>4. PICK b \in Nat : \A k \in DOMAIN atoms : k[3] <= b
  BY DEF PgInv, AtomInv
<1>5. ASSUME NEW k \in rows
      PROVE  k \in AtomKeys /\ k \notin DOMAIN atoms /\ k[1] \in revisions /\ k[3] <= b
  <2>1. PICK a \in batch : k = <<txns[t].revision, a[2], a[3]>>
    BY DEF Copied
  <2>2. a \in DOMAIN atoms /\ a[2] \in PgVlobs /\ a[3] \in Versions /\ a[3] <= b
    BY <1>0, <1>3, <1>4, <2>1
  <2>3. k \in AtomKeys /\ k[1] = txns[t].revision /\ k[3] = a[3]
    BY <1>1, <2>1, <2>2 DEF AtomKeys
  <2>4. QED
    BY <1>2, <2>2, <2>3 DEF Copied
<1> HIDE DEF rows
<1>6. RowsOK(rows) /\ \A k \in rows : k[3] <= b
  BY <1>5 DEF RowsOK
<1>7. ~ IsWrite(txns[t].cmd) /\ ~ HoldsRealmRow(txns[t])
  BY <1>0 DEF IsWrite, HoldsRealmRow
<1>8. QED
  BY <1>0, <1>6, <1>7, OtherWriteStep

\* Roles, the realm, and the start and the end of a maintenance.
LEMMA RowlessWriteStep ==
  ASSUME PgInv, NEW t \in Txns, WriteRole(t) \/ WriteRealm(t) \/ WriteStart(t) \/ WriteFinish(t)
  PROVE  PgInv'
<1>0. /\ UNCHANGED <<tables, polled>> /\ PollInv' /\ txns[t].st = "checked"
      /\ txns[t].cmd.op \in {"update_roles", "realm_create", "start", "finish"}
  BY PolledStays DEF WriteRole, WriteRealm, WriteStart, WriteFinish, tables
<1>1. RowsOK({}) /\ (\A k \in {} : k[3] <= 0) /\ ~ AreHeld(t, {}) /\ ~ IsWrite(txns[t].cmd)
  BY <1>0 DEF RowsOK, AreHeld, IsWrite
<1>2. HoldsRealmRow(txns[t]) => ~ RealmRowIsHeld(t)
  BY <1>0 DEF WriteRole, WriteRealm, WriteStart, WriteFinish, HoldsRealmRow
<1>3. CASE WriteRealm(t) /\ realmRow.exists
  <2>1. txns' = [txns EXCEPT ![t] = Answered("already_exists")]
    BY <1>3 DEF WriteRealm
  <2>2. QED
    BY <1>0, <2>1, AnswerStep
<1>4. CASE WriteStart(t) /\ RevisionIsTaken(t)
  <2>1. txns' = [txns EXCEPT ![t] = Answered("crash")]
    BY <1>4 DEF WriteStart
  <2>2. QED
    BY <1>0, <2>1, AnswerStep
<1>5. CASE ~ (WriteRealm(t) /\ realmRow.exists) /\ ~ (WriteStart(t) /\ RevisionIsTaken(t))
  <2>1. txns' = [txns EXCEPT ![t] = Written(t, 0, {})]
    BY <1>5 DEF WriteRole, WriteRealm, WriteStart, WriteFinish
  <2>2. /\ txns[t].cmd.op = "start" => ~ RevisionIsTaken(t)
        /\ txns[t].cmd.op = "realm_create" => ~ realmRow.exists
    BY <1>5 DEF WriteRole, WriteRealm, WriteStart, WriteFinish
  <2>3. PICK rows : rows = {} /\ RowsOK(rows) /\ (\A k \in rows : k[3] <= 0) /\ ~ AreHeld(t, rows)
    BY <1>1
  <2>4. txns' = [txns EXCEPT ![t] = Written(t, 0, rows)]
    BY <2>1, <2>3
  <2>5. QED
    BY <1>0, <1>1, <1>2, <2>2, <2>3, <2>4, OtherWriteStep
<1>6. QED
  BY <1>3, <1>4, <1>5

\* Every step keeps the invariant.
LEMMA PgInvStep ==
  ASSUME PgInv, [PgNext]_pgVars
  PROVE  PgInv'
<1>1. ASSUME NEW t \in Txns, TxnStep(t)
      PROVE  PgInv'
  <2>1. CASE \E c \in Commands(Stamp) : Begin(t, c)
    BY <2>1, BeginStep
  <2>2. CASE CheckAccess(t)
    BY <2>2, CheckStep
  <2>3. CASE PollChanges(t)
    BY <2>3, PollStep
  <2>4. CASE ReadRows(t) \/ IndexIsTaken(t) \/ Rollback(t)
    <3>1. UNCHANGED tables /\ PollInv'
      BY <2>4, PolledStays DEF ReadRows, IndexIsTaken, Rollback, tables
    <3>2. PICK status : txns' = [txns EXCEPT ![t] = Answered(status)]
      BY <2>4 DEF ReadRows, IndexIsTaken, Rollback
    <3>3. QED
      BY <3>1, <3>2, AnswerStep
  <2>5. CASE WriteVlob(t)
    BY <2>5, WriteVlobStep
  <2>6. CASE InsertUpdate(t)
    BY <2>6, InsertUpdateStep
  <2>7. CASE WriteRole(t) \/ WriteRealm(t) \/ WriteStart(t) \/ WriteFinish(t)
    BY <2>7, RowlessWriteStep
  <2>8. CASE \E batch \in SUBSET DOMAIN atoms : WriteBatch(t, batch)
    BY <2>8, WriteBatchStep
  <2>9. CASE Commit(t)
    BY <2>9, CommitStep
  <2>10. QED
    BY <1>1, <2>1, <2>2, <2>3, <2>4, <2>5, <2>6, <2>7, <2>8, <2>9 DEF TxnStep
<1>2. CASE UNCHANGED pgVars
  <2> USE <1>2 DEF pgVars
  <2>1. PgTypeOK' /\ TxnInv'
    BY DEF PgInv, PgTypeOK, TxnInv
  <2>2. AtomInv'
    BY DEF PgInv, AtomInv, RowsOK, Writers, Inserted, Atom
  <2>3. RealmRowInv' /\ OneKeyPerRevision'
    BY DEF PgInv, RealmRowInv, HoldsRealmRow, Writers, RevisionIsTaken, OneKeyPerRevision
  <2>4. LastIndex' = LastIndex
    BY DEF LastIndex
  <2>5. IndexInv'
    BY <2>4 DEF PgInv, IndexInv, Writers
  <2>6. PollInv'
    BY PolledStays
  <2>7. QED
    BY <2>1, <2>2, <2>3, <2>5, <2>6 DEF PgInv
<1>3. QED
  BY <1>1, <1>2 DEF PgNext

\* The invariant holds at the start, with the tables of any of the situations considered.
LEMMA PgInvInit ==
  ASSUME PgInit
  PROVE  PgInv
<1>1. PICK s \in PgSetups :
        /\ realmRow = [exists |-> s.exists, revision |-> 1, maintenance |-> FALSE]
        /\ roleRows = {[user |-> u, role |-> s.roles[u], on |-> 0]
                         : u \in {v \in PgUsers : s.roles[v] # NoRoleRow}}
        /\ revisions = IF s.exists THEN {1} ELSE {}
        /\ atoms = [k \in s.atoms |-> "before"]
        /\ updates = Empty /\ messages = {}
        /\ txns = [t \in Txns |-> IdleTxn]
        /\ polled = [u \in PgUsers |-> [checkpoint |-> 0, changes |-> {}]]
  BY DEF PgInit
<1>2. /\ s.roles \in [PgUsers -> Roles \cup {NoRoleRow}] /\ s.exists \in BOOLEAN
      /\ s.atoms \subseteq (1 .. 1) \X PgVlobs \X (1 .. 1) /\ (s.atoms # {} => s.exists)
  BY PgAssumption
<1>3. \A t \in Txns : txns[t].st = "idle"
  BY <1>1 DEF IdleTxn
<1>4. Writers = {}
  BY <1>3 DEF Writers
<1>5. DOMAIN updates = 1 .. 0 /\ DOMAIN updates = {} /\ LastIndex = 0
  BY <1>1 DEF Empty, LastIndex
<1>6. \A k \in DOMAIN atoms : k \in AtomKeys /\ k[1] = 1 /\ k[3] = 1 /\ s.exists
  <2>1. DOMAIN atoms = s.atoms
    BY <1>1
  <2>2. \A k \in s.atoms : k[1] = 1 /\ k[3] = 1 /\ k \in (1 .. 1) \X PgVlobs \X (1 .. 1)
    BY <1>2
  <2>3. (1 .. 1) \X PgVlobs \X (1 .. 1) \subseteq AtomKeys
    BY DEF AtomKeys, Versions
  <2>4. QED
    BY <1>2, <2>1, <2>2, <2>3
<1>7. PgTypeOK
  <2>1. realmRow \in [exists : BOOLEAN, revision : Versions, maintenance : BOOLEAN]
    BY <1>1, <1>2 DEF Versions
  <2>2. \A r \in roleRows : r.user \in PgUsers /\ r.role \in Roles \cup {NoRoleRow}
    BY <1>1, <1>2
  <2>3. revisions = IF realmRow.exists THEN 1 .. realmRow.revision ELSE {}
    <3>1. 1 .. 1 = {1}
      OBVIOUS
    <3>2. QED
      BY <1>1, <3>1
  <2>4. QED
    BY <1>1, <1>3, <1>5, <1>6, <2>1, <2>2, <2>3 DEF PgTypeOK
<1>8. TxnInv
  BY <1>1, <1>3 DEF TxnInv, TxnOK
<1>9. AtomInv
  BY <1>4, <1>6 DEF AtomInv
<1>10. RealmRowInv /\ OneKeyPerRevision
  BY <1>1, <1>4 DEF RealmRowInv, OneKeyPerRevision
<1>11. IndexInv
  BY <1>4, <1>5 DEF IndexInv
<1>12. PollInv
  BY <1>1, <1>5 DEF PollInv, PollMissesNoUpdate
<1>13. QED
  BY <1>7, <1>8, <1>9, <1>10, <1>11, <1>12 DEF PgInv

-----------------------------------------------------------------------------
(* The theorems *)

\* The invariant holds from the start on.
LEMMA PgInvariant == PgSpec => []PgInv
<1>1. PgInit => PgInv
  BY PgInvInit
<1>2. QED
  BY <1>1, PgInvStep, PTL DEF PgSpec

\* With any number of transactions that overlap, fail or are rolled back at any statement,
\* the tables keep their types, a client that polls from its checkpoint misses no change that
\* was committed, and the keys of a revision come from one transaction.
THEOREM TablesAreAlwaysSound == PgSpec => []TablesAreSound
<1>1. PgInv => TablesAreSound
  BY DEF PgInv, PollInv, TablesAreSound
<1>2. QED
  BY <1>1, PgInvariant, PTL

\* A version that was committed is never replaced, whatever writers and batches of a
\* re-encryption insert the same row at the same time.
THEOREM CommittedVersionsAreKept == PgSpec => CommittedVersionsStay
<1>1. ASSUME PgInv, [PgNext]_pgVars
      PROVE  [\A k \in DOMAIN atoms : k \in DOMAIN atoms' /\ atoms'[k] = atoms[k]]_pgVars
  <2>1. ASSUME NEW t \in Txns, Commit(t), NEW k \in DOMAIN atoms
        PROVE  k \in DOMAIN atoms' /\ atoms'[k] = atoms[k]
    <3>1. t \in Writers
      BY <2>1 DEF Commit, Writers
    <3>2. k \notin Inserted(t)
      BY <1>1, <3>1 DEF PgInv, AtomInv, RowsOK
    <3>3. QED
      BY <2>1, <3>2 DEF Commit
  <2>2. ASSUME NEW t \in Txns, TxnStep(t), ~ Commit(t)
        PROVE  atoms' = atoms
    BY <2>2 DEF TxnStep, Begin, CheckAccess, PollChanges, ReadRows, WriteVlob, InsertUpdate,
       WriteRole, WriteRealm, WriteStart, WriteFinish, WriteBatch, IndexIsTaken, Rollback, tables
  <2>3. QED
    BY <1>1, <2>1, <2>2 DEF PgNext, pgVars
<1>2. QED
  BY <1>1, PgInvariant, PTL DEF PgSpec, CommittedVersionsStay

-----------------------------------------------------------------------------
(* The organization and its trustchain: the inductive invariant *)

OrgRows ==
  [created : BOOLEAN, token : 0 .. MaxTokens, issued : 0 .. MaxTokens,
   root : UserIds \cup {NoRoot}, expired : BOOLEAN]
WorkRows ==
  [kind : {"bootstrap", "user_create"}, st : {"inserted", "counted"}, user : UserIds,
   rec : UserRecords, org : OrgRows]
ConnRows == [st : {"none", "anonymous", "checked", "open"}, dev : DeviceIds \cup {NoDevice}]

OrgTyped ==
  /\ setup \in Setups /\ org \in OrgRows /\ now \in 1 .. MaxNow
  /\ DOMAIN users \subseteq UserIds /\ users \in [DOMAIN users -> UserRecords]
  /\ DOMAIN devices \subseteq DeviceIds /\ devices \in [DOMAIN devices -> DeviceRecords]
  /\ IsFiniteSet(DOMAIN devices)
  /\ conns \in [Conns -> ConnRows]
  /\ DOMAIN work \subseteq Conns /\ work \in [DOMAIN work -> WorkRows]

\* A device of an administrator.
ByAdmin(a) == a \in DOMAIN devices /\ a[1] \in DOMAIN users /\ users[a[1]].profile = "ADMIN"

\* The certificates of a user are of the root key, or of an administrator other than the user.
UserOK(u, rec) ==
  /\ rec.author = Root(rec.root) \/ (ByAdmin(rec.author) /\ rec.author[1] # u)
  /\ rec.revoked # 0 => ByAdmin(rec.revoker) /\ rec.revoker[1] # u

\* The certificate of a device is of the root key of its user, of an administrator, or of
\* another device of the user.
DeviceOK(d, line) ==
  /\ d[1] \in DOMAIN users
  /\ \/ line.author = Root(users[d[1]].root)
     \/ line.author \in DOMAIN devices /\ (line.author[1] # d[1] => ByAdmin(line.author))

RegistryInv ==
  /\ \A u \in DOMAIN users : UserOK(u, users[u]) /\ <<u, 1>> \in DOMAIN devices
  /\ \A d \in DOMAIN devices : DeviceOK(d, devices[d])
  /\ \A c \in DOMAIN work : UserOK(work[c].user, work[c].rec) /\ work[c].rec.revoked = 0

\* The signatures of a device lead to a root key.
LeadsToRoot(d) == \E r \in UserIds : Root(r) \in SignChain(d)
ChainInv == \A d \in DOMAIN devices : LeadsToRoot(d)

\* The users to come hang from the root key of the organization, too.
RootInv ==
  setup.impl = "POSTGRESQL" =>
    /\ \A u \in DOMAIN users : users[u].root = org.root
    /\ \A c \in DOMAIN work :
         IF work[c].kind = "bootstrap" THEN work[c].rec.root = work[c].user
         ELSE org.root # NoRoot /\ work[c].rec.root = org.root

IsOpen(c) == conns[c].st = "open"
RevokedOnes == {u \in DOMAIN users : users[u].revoked # 0}
SessionInv ==
  /\ \A c \in Conns :
       /\ conns[c].st \in {"none", "anonymous"} <=> conns[c].dev = NoDevice
       /\ conns[c].dev # NoDevice => conns[c].dev \in DOMAIN devices
  /\ signals \subseteq RevokedOnes
  /\ late \subseteq {c \in Conns : IsOpen(c)}
  /\ RevokedSessionsEnd

OrgInv == OrgTyped /\ RegistryInv /\ ChainInv /\ RootInv /\ HumanIsUnique /\ SessionInv

\* The client: what it has is of what the server has.
ClientTyped ==
  /\ client = [me |-> client.me, cache |-> client.cache, answer |-> client.answer,
               revoking |-> client.revoking, mine |-> client.mine, raced |-> client.raced]
  /\ client.cache = [users |-> client.cache.users, revoked |-> client.cache.revoked,
                     devices |-> client.cache.devices]
  /\ client.answer = [user |-> client.answer.user, users |-> client.answer.users,
                      revoked |-> client.answer.revoked, devices |-> client.answer.devices]
  /\ fetches \in 0 .. MaxFetches

Stamps(f, S) == DOMAIN f \subseteq S /\ f \in [DOMAIN f -> Nat]
CacheOK(cache) ==
  /\ Stamps(cache.users, DOMAIN users) /\ Stamps(cache.devices, DOMAIN devices)
  /\ Stamps(cache.revoked, RevokedOnes)
AnswerOK(a) ==
  /\ a.users \subseteq DOMAIN users /\ a.devices \subseteq DOMAIN devices
  /\ a.revoked \subseteq RevokedOnes /\ a.revoked \subseteq a.users
KnownInv ==
  /\ client.me \subseteq DOMAIN users
  /\ client.mine \cup client.raced \cup client.revoking \subseteq RevokedOnes
  /\ CacheOK(client.cache) /\ AnswerOK(client.answer)

\* The certificates of a user that the client revoked, and of the revocation, came together.
IsFresh(t) == now - t < CacheValidity
Together(u, cache) ==
  /\ u \in DOMAIN cache.users => u \in DOMAIN cache.revoked /\ cache.revoked[u] = cache.users[u]
  /\ u \in DOMAIN cache.revoked /\ IsFresh(cache.revoked[u]) => u \in DOMAIN cache.users
Noted(u) ==
  /\ Together(u, client.cache)
  /\ u \in client.answer.users => u \in client.answer.revoked
NotedInv == \A u \in client.mine \ client.raced : Noted(u)

TrustInv == OrgInv /\ ClientTyped /\ KnownInv /\ NotedInv

-----------------------------------------------------------------------------
(* What is reached from a set *)

\* What is reached from a set has the set and what each element leads to.
LEMMA ReachedIsClosed ==
  ASSUME NEW f, NEW S \in SUBSET DOMAIN f, \A y \in DOMAIN f : f[y] \subseteq DOMAIN f
  PROVE  /\ Reached(S, f) \subseteq DOMAIN f /\ S \subseteq Reached(S, f)
         /\ \A y \in Reached(S, f) : f[y] \subseteq Reached(S, f)
<1>1. Reached(S, f) \subseteq DOMAIN f /\ S \subseteq Reached(S, f)  BY DEF Reached
<1>2. ASSUME NEW y \in Reached(S, f), NEW x \in f[y] PROVE x \in Reached(S, f)
  <2>1. x \in DOMAIN f  BY <1>1, <1>2
  <2>2. ASSUME NEW T \in SUBSET DOMAIN f, S \subseteq T, \A z \in T : f[z] \subseteq T PROVE x \in T
    <3>1. y \in T  BY <1>2, <2>2 DEF Reached
    <3>2. QED  BY <1>2, <2>2, <3>1
  <2>3. QED  BY <2>1, <2>2 DEF Reached
<1>3. QED  BY <1>1, <1>2

\* It is in every set that has the set and what each element leads to.
LEMMA ReachedIsLeast ==
  ASSUME NEW f, NEW S, NEW T \in SUBSET DOMAIN f, S \subseteq T, \A y \in T : f[y] \subseteq T
  PROVE  Reached(S, f) \subseteq T
BY DEF Reached

\* An answer that has a creator has those who certified it.
LEMMA CreatorsAreClosed ==
  ASSUME NEW S \in SUBSET DOMAIN devices
  PROVE  /\ Creators(S) \subseteq DOMAIN devices /\ S \subseteq Creators(S)
         /\ \A d \in Creators(S) : Certifiers(d) \subseteq Creators(S)
<1> DEFINE f == [d \in DOMAIN devices |-> Certifiers(d)]
<1>1. DOMAIN f = DOMAIN devices /\ \A d \in DOMAIN devices : f[d] = Certifiers(d)  OBVIOUS
<1>2. \A d : Certifiers(d) \subseteq DOMAIN devices  BY DEF Certifiers, IsDevice
<1>3. Creators(S) = Reached(S, f)  BY DEF Creators
<1> HIDE DEF f
<1>4. /\ Reached(S, f) \subseteq DOMAIN f /\ S \subseteq Reached(S, f)
      /\ \A y \in Reached(S, f) : f[y] \subseteq Reached(S, f)
  BY <1>1, <1>2, ReachedIsClosed
<1>5. QED  BY <1>1, <1>3, <1>4

\* The devices from which the signatures of a device come.
SignersIn(d, T, ds) ==
  /\ d \in DOMAIN ds => d \in T
  /\ \A x \in T : ds[x].author \in DOMAIN ds => ds[x].author \in T
AuthorsIn(ds) == [x \in DOMAIN ds |-> {y \in {ds[x].author} : y \in DOMAIN ds}]
SignersOf(d, ds) == Reached({x \in {d} : x \in DOMAIN ds}, AuthorsIn(ds))

\* The signers of a device are devices, and have the author of each of them.
LEMMA SignersOfAreClosed ==
  ASSUME NEW ds, NEW d
  PROVE  SignersOf(d, ds) \subseteq DOMAIN ds /\ SignersIn(d, SignersOf(d, ds), ds)
<1> DEFINE S == {x \in {d} : x \in DOMAIN ds}
           f == AuthorsIn(ds)
<1>1. /\ DOMAIN f = DOMAIN ds
      /\ \A x \in DOMAIN ds : f[x] = {y \in {ds[x].author} : y \in DOMAIN ds}
  BY DEF AuthorsIn
<1>2. S \in SUBSET DOMAIN ds  OBVIOUS
<1>3. SignersOf(d, ds) = Reached(S, f)  BY DEF SignersOf
<1>4. d \in DOMAIN ds => d \in S  OBVIOUS
<1> HIDE DEF S, f
<1>5. \A x \in DOMAIN f : f[x] \subseteq DOMAIN f  BY <1>1
<1>6. /\ Reached(S, f) \subseteq DOMAIN f /\ S \subseteq Reached(S, f)
      /\ \A y \in Reached(S, f) : f[y] \subseteq Reached(S, f)
  BY <1>1, <1>2, <1>5, ReachedIsClosed
<1>7. QED  BY <1>1, <1>3, <1>4, <1>6 DEF SignersIn

\* They are in every such set of devices.
LEMMA SignersOfAreLeast ==
  ASSUME NEW ds, NEW d, NEW T \in SUBSET DOMAIN ds, SignersIn(d, T, ds)
  PROVE  SignersOf(d, ds) \subseteq T
<1> DEFINE S == {x \in {d} : x \in DOMAIN ds}
           f == AuthorsIn(ds)
<1>1. /\ DOMAIN f = DOMAIN ds
      /\ \A x \in DOMAIN ds : f[x] = {y \in {ds[x].author} : y \in DOMAIN ds}
  BY DEF AuthorsIn
<1>2. S \subseteq T  BY DEF SignersIn
<1>3. SignersOf(d, ds) = Reached(S, f)  BY DEF SignersOf
<1> HIDE DEF S, f
<1>4. \A x \in T : f[x] \subseteq T  BY <1>1 DEF SignersIn
<1>5. Reached(S, f) \subseteq T  BY <1>1, <1>2, <1>4, ReachedIsLeast
<1>6. QED  BY <1>3, <1>5

\* The signers depend on the table of devices alone.
LEMMA SignersAreSigners ==
  ASSUME NEW d
  PROVE  Signers(d) = SignersOf(d, devices) /\ Signers(d)' = SignersOf(d, devices')
BY DEF Signers, SignersOf, AuthorsIn, IsDevice

\* The signers are closed, before a step and after it.
LEMMA SignersAreClosed ==
  ASSUME NEW d
  PROVE  /\ Signers(d) \subseteq DOMAIN devices /\ SignersIn(d, Signers(d), devices)
         /\ Signers(d)' \subseteq DOMAIN devices' /\ SignersIn(d, Signers(d)', devices')
BY SignersAreSigners, SignersOfAreClosed

\* They are the least such set, before a step and after it.
LEMMA SignersAreLeast ==
  ASSUME NEW d
  PROVE  /\ \A T \in SUBSET DOMAIN devices : SignersIn(d, T, devices) => Signers(d) \subseteq T
         /\ \A T \in SUBSET DOMAIN devices' : SignersIn(d, T, devices') => Signers(d)' \subseteq T
BY SignersAreSigners, SignersOfAreLeast

\* A device of a chain is one of the signers.
LEMMA ChainFacts ==
  ASSUME NEW d
  PROVE  /\ \A x \in SignChain(d) : IsDevice(x) => x \in Signers(d)
         /\ \A x \in SignChain(d) : x = d \/ \E y \in Signers(d) : x = devices[y].author
         /\ \A x \in Signers(d) : devices[x].author \in SignChain(d)
BY SignersAreClosed DEF SignChain, SignersIn, IsDevice

-----------------------------------------------------------------------------
(* The answers of user_get *)

\* user_get answers with a user, the devices of the user, and all who certified or revoked them.
LEMMA AnswerFacts ==
  ASSUME OrgInv, NEW u \in DOMAIN users, NEW a, a = UserGet(u)
  PROVE  /\ a.devices \subseteq DOMAIN devices /\ a.users \subseteq DOMAIN users /\ u \in a.users
         /\ a.revoked = {v \in a.users : users[v].revoked # 0}
         /\ \A d \in a.devices : d[1] \in a.users
         /\ \A d \in a.devices : IsDevice(devices[d].author) => devices[d].author \in a.devices
         /\ \A v \in a.users : /\ IsDevice(users[v].author) => users[v].author \in a.devices
                               /\ IsDevice(users[v].revoker) => users[v].revoker \in a.devices
<1> DEFINE own == DevicesOf(u)
           S == {x \in {users[u].author, users[u].revoker} \cup {devices[d].author : d \in own} :
                   IsDevice(x)}
           chain == Creators(S)
           met == {u} \cup {d[1] : d \in chain}
<1>1. /\ a = [user |-> {u}, users |-> met, devices |-> own \cup chain,
              revoked |-> {v \in met : users[v].revoked # 0}]
  BY DEF UserGet
<1>2. /\ a.users = met /\ a.devices = own \cup chain
      /\ a.revoked = {v \in met : users[v].revoked # 0}
  BY <1>1
<1>3. S \in SUBSET DOMAIN devices  BY DEF IsDevice
<1>4. own \subseteq DOMAIN devices /\ \A d \in own : d[1] = u  BY DEF DevicesOf
<1>5. \A d \in own : IsDevice(devices[d].author) => devices[d].author \in S  OBVIOUS
<1>6. /\ IsDevice(users[u].author) => users[u].author \in S
      /\ IsDevice(users[u].revoker) => users[u].revoker \in S
  OBVIOUS
<1> HIDE DEF S, own
<1>7. /\ chain \subseteq DOMAIN devices /\ S \subseteq chain
      /\ \A d \in chain : Certifiers(d) \subseteq chain
  BY <1>3, CreatorsAreClosed
<1> HIDE DEF chain
<1>8. \A d \in chain : /\ IsDevice(devices[d].author) => devices[d].author \in chain
                       /\ IsDevice(users[d[1]].author) => users[d[1]].author \in chain
                       /\ IsDevice(users[d[1]].revoker) => users[d[1]].revoker \in chain
  BY <1>7 DEF Certifiers
<1>9. \A d \in DOMAIN devices : d[1] \in DOMAIN users
  BY DEF OrgInv, RegistryInv, DeviceOK
<1>10. \A v \in met : v = u \/ \E d \in chain : v = d[1]  OBVIOUS
<1>11. u \in met /\ \A d \in chain : d[1] \in met  OBVIOUS
<1> HIDE DEF met
<1>12. a.devices \subseteq DOMAIN devices /\ a.users \subseteq DOMAIN users
  BY <1>2, <1>4, <1>7, <1>9, <1>10
<1>13. \A d \in a.devices : d[1] \in a.users  BY <1>2, <1>4, <1>11
<1>14. \A d \in a.devices : IsDevice(devices[d].author) => devices[d].author \in a.devices
  BY <1>2, <1>5, <1>7, <1>8
<1>15. ASSUME NEW v \in a.users
       PROVE  /\ IsDevice(users[v].author) => users[v].author \in a.devices
              /\ IsDevice(users[v].revoker) => users[v].revoker \in a.devices
  <2>1. CASE v = u  BY <1>2, <1>6, <1>7, <2>1
  <2>2. CASE \E d \in chain : v = d[1]  BY <1>2, <1>8, <2>2
  <2>3. QED  BY <1>2, <1>10, <1>15, <2>1, <2>2
<1>16. QED  BY <1>2, <1>11, <1>12, <1>13, <1>14, <1>15

\* Roots are not devices.
LEMMA RootIsNoDevice ==
  ASSUME OrgInv, NEW r
  PROVE  ~ IsDevice(Root(r)) /\ \A q : Root(q) = Root(r) => q = r
<1>1. \A d \in DOMAIN devices : d[2] \in 1 .. MaxDevices
  BY DEF OrgInv, OrgTyped, DeviceIds
<1>2. Root(r)[2] = 0  BY DEF Root
<1>3. 0 \notin 1 .. MaxDevices  OBVIOUS
<1>4. QED  BY <1>1, <1>2, <1>3 DEF IsDevice, Root

\* The invariant makes every answer complete, for a client that has nothing yet.
LEMMA AnswersAreAlwaysComplete ==
  ASSUME OrgInv
  PROVE  AnswersAreComplete
<1> SUFFICES ASSUME \A u, v \in DOMAIN users : users[u].root = users[v].root, NEW u \in DOMAIN users
             PROVE  IsSigned(UserGet(u), Unverified(UserGet(u), EmptyCache), users[u].root)
  BY DEF AnswersAreComplete
<1> DEFINE a == UserGet(u)
           new == Unverified(a, EmptyCache)
           root == users[u].root
<1>1. /\ a.devices \subseteq DOMAIN devices /\ a.users \subseteq DOMAIN users /\ u \in a.users
      /\ a.revoked = {v \in a.users : users[v].revoked # 0}
      /\ \A d \in a.devices : d[1] \in a.users
      /\ \A d \in a.devices : IsDevice(devices[d].author) => devices[d].author \in a.devices
      /\ \A v \in a.users : /\ IsDevice(users[v].author) => users[v].author \in a.devices
                            /\ IsDevice(users[v].revoker) => users[v].revoker \in a.devices
  BY AnswerFacts
<1>2. new.devices = a.devices /\ new.users = a.users /\ new.revoked = a.revoked
  BY DEF Unverified, EmptyCache, NoneYet
<1>3. \A v \in DOMAIN users : users[v].root = root  OBVIOUS
<1> HIDE DEF a, new, root
<1>4. ASSUME NEW d \in DOMAIN devices, ~ IsDevice(devices[d].author)
      PROVE  devices[d].author = Root(root)
  BY <1>3, <1>4 DEF OrgInv, RegistryInv, DeviceOK, IsDevice
<1>5. ASSUME NEW d \in a.devices PROVE DeviceIsSigned(a, d, root)
  <2>1. SignersIn(d, a.devices, devices)  BY <1>1, <1>5 DEF SignersIn, IsDevice
  <2>2. Signers(d) \subseteq a.devices  BY <1>1, <2>1, SignersAreLeast
  <2>3. d \in DOMAIN devices /\ IsDevice(d)  BY <1>1, <1>5 DEF IsDevice
  <2>4. ASSUME NEW x \in SignChain(d), ~ IsDevice(x) PROVE x = Root(root)
    <3>1. PICK y \in Signers(d) : x = devices[y].author  BY <2>3, <2>4, ChainFacts
    <3>2. y \in DOMAIN devices  BY <1>1, <2>2
    <3>3. QED  BY <1>4, <2>4, <3>1, <3>2
  <2>5. ASSUME NEW x \in SignChain(d), IsDevice(x), devices[x].author # Root(root)
        PROVE  AuthorIsEntitled(a, devices[x].author, x[1])
    <3>1. x \in a.devices /\ x \in DOMAIN devices  BY <1>1, <2>2, <2>5, ChainFacts
    <3>2. IsDevice(devices[x].author)  BY <1>4, <2>5, <3>1
    <3>3. devices[x].author \in a.devices /\ devices[x].author[1] \in a.users  BY <1>1, <3>1, <3>2
    <3>4. DeviceOK(x, devices[x])  BY <3>1 DEF OrgInv, RegistryInv
    <3>5. devices[x].author # Root(users[x[1]].root)  BY <2>5, <1>3, <3>4 DEF DeviceOK
    <3>6. devices[x].author[1] # x[1] => users[devices[x].author[1]].profile = "ADMIN"
      BY <3>4, <3>5 DEF DeviceOK, ByAdmin
    <3>7. QED  BY <3>3, <3>6 DEF AuthorIsEntitled
  <2>6. Root(root) \in SignChain(d)
    <3>1. PICK r \in UserIds : Root(r) \in SignChain(d)  BY <2>3 DEF OrgInv, ChainInv, LeadsToRoot
    <3>2. Root(r) = Root(root)  BY <2>4, <3>1, RootIsNoDevice
    <3>3. QED  BY <3>1, <3>2
  <2>7. QED  BY <2>4, <2>5, <2>6 DEF DeviceIsSigned
<1>6. ASSUME NEW v \in a.users, NEW x, x \in DOMAIN devices, x \in a.devices, ByAdmin(x), x[1] # v
      PROVE  SignedBy(a, x, v, root)
  <2>1. AuthorIsEntitled(a, x, v)  BY <1>1, <1>6 DEF AuthorIsEntitled, ByAdmin
  <2>2. QED  BY <1>5, <1>6, <2>1 DEF SignedBy
<1>7. ASSUME NEW v \in a.users PROVE SignedBy(a, users[v].author, v, root)
  <2>1. UserOK(v, users[v]) /\ users[v].root = root  BY <1>1, <1>3 DEF OrgInv, RegistryInv
  <2>2. CASE users[v].author = Root(root)  BY <2>2 DEF SignedBy
  <2>3. CASE ByAdmin(users[v].author) /\ users[v].author[1] # v
    <3>1. users[v].author \in DOMAIN devices /\ users[v].author \in a.devices
      BY <1>1, <2>3 DEF ByAdmin, IsDevice
    <3>2. QED  BY <1>6, <2>3, <3>1
  <2>4. QED  BY <2>1, <2>2, <2>3 DEF UserOK
<1>8. ASSUME NEW v \in a.revoked PROVE SignedBy(a, users[v].revoker, v, root)
  <2>1. v \in a.users /\ users[v].revoked # 0 /\ v \in DOMAIN users  BY <1>1
  <2>2. ByAdmin(users[v].revoker) /\ users[v].revoker[1] # v
    BY <2>1 DEF OrgInv, RegistryInv, UserOK
  <2>3. users[v].revoker \in DOMAIN devices /\ users[v].revoker \in a.devices
    BY <1>1, <2>1, <2>2 DEF ByAdmin, IsDevice
  <2>4. QED  BY <1>6, <2>1, <2>2, <2>3
<1>9. IsSigned(a, new, root)  BY <1>2, <1>5, <1>7, <1>8 DEF IsSigned
<1>10. QED  BY <1>9 DEF a, new, root

-----------------------------------------------------------------------------
(* The registry grows *)

\* What the invariant says of each variable.
LEMMA OrgFacts ==
  ASSUME OrgInv
  PROVE  /\ setup \in Setups /\ org \in OrgRows /\ now \in 1 .. MaxNow
         /\ DOMAIN users \subseteq UserIds /\ DOMAIN devices \subseteq DeviceIds
         /\ IsFiniteSet(DOMAIN devices)
         /\ conns \in [Conns -> ConnRows] /\ DOMAIN work \subseteq Conns
         /\ users \in [DOMAIN users -> UserRecords] /\ devices \in [DOMAIN devices -> DeviceRecords]
         /\ work \in [DOMAIN work -> WorkRows]
         /\ \A u \in DOMAIN users : users[u] \in UserRecords /\ UserOK(u, users[u])
                                    /\ <<u, 1>> \in DOMAIN devices
         /\ \A d \in DOMAIN devices : devices[d] \in DeviceRecords /\ DeviceOK(d, devices[d])
         /\ \A c \in DOMAIN work : /\ work[c] \in WorkRows /\ UserOK(work[c].user, work[c].rec)
                                   /\ work[c].rec.revoked = 0
         /\ MaxTokens \in Nat /\ MaxNow \in Nat \ {0} /\ MaxDevices \in Nat \ {0}
         /\ setup.impl \in {"MEMORY", "POSTGRESQL"}
<1>1. /\ MaxTokens \in Nat /\ MaxNow \in Nat \ {0} /\ MaxDevices \in Nat \ {0}
      /\ setup.impl \in {"MEMORY", "POSTGRESQL"}
  BY OrgAssumption DEF OrgInv, OrgTyped, MaxTokens, MaxNow, MaxDevices
<1>2. QED  BY <1>1 DEF OrgInv, OrgTyped, RegistryInv

\* The bounds and with them the types are those of the setup.
LEMMA TypesStay ==
  ASSUME setup' = setup
  PROVE  /\ UserRecords' = UserRecords /\ DeviceRecords' = DeviceRecords /\ DeviceIds' = DeviceIds
         /\ WorkRows' = WorkRows /\ OrgRows' = OrgRows /\ ConnRows' = ConnRows
         /\ MaxNow' = MaxNow /\ MaxTokens' = MaxTokens /\ MaxDevices' = MaxDevices
<1>1. MaxNow' = MaxNow /\ MaxTokens' = MaxTokens /\ MaxDevices' = MaxDevices
  BY DEF MaxNow, MaxTokens, MaxDevices
<1>2. DeviceIds' = DeviceIds  BY <1>1 DEF DeviceIds
<1>3. Authors' = Authors  BY <1>2 DEF Authors
<1>4. UserRecords' = UserRecords  BY <1>2, <1>3 DEF UserRecords
<1>5. DeviceRecords' = DeviceRecords  BY <1>3 DEF DeviceRecords
<1>6. OrgRows' = OrgRows  BY <1>1 DEF OrgRows
<1>7. WorkRows' = WorkRows  BY <1>4, <1>6 DEF WorkRows
<1>8. ConnRows' = ConnRows  BY <1>2 DEF ConnRows
<1>9. QED  BY <1>1, <1>2, <1>4, <1>5, <1>6, <1>7, <1>8

\* A user that is registered can only be revoked, once; a device stays as it is.
SameUser(r, s) ==
  /\ s.profile = r.profile /\ s.author = r.author /\ s.root = r.root
  /\ r.revoked # 0 => s = r
Grows ==
  /\ setup' = setup /\ DOMAIN users \subseteq DOMAIN users'
  /\ \A u \in DOMAIN users : SameUser(users[u], users'[u])
  /\ DOMAIN devices \subseteq DOMAIN devices'
  /\ \A d \in DOMAIN devices : devices'[d] = devices[d]

\* A step that leaves the tables alone is one under which they grow.
LEMMA SameRegistryGrows ==
  ASSUME UNCHANGED <<setup, users, devices>>
  PROVE  Grows
BY DEF Grows, SameUser

\* Whoever could sign a certificate still can when the registry has grown.
LEMMA GrowthKeepsRows ==
  ASSUME Grows
  PROVE  /\ \A a : ByAdmin(a) => ByAdmin(a)'
         /\ \A u, rec : UserOK(u, rec) => UserOK(u, rec)'
         /\ \A d, line : DeviceOK(d, line) => DeviceOK(d, line)'
<1>1. ASSUME NEW a, ByAdmin(a) PROVE ByAdmin(a)'
  BY <1>1 DEF ByAdmin, Grows, SameUser
<1>2. ASSUME NEW u, NEW rec, UserOK(u, rec) PROVE UserOK(u, rec)'
  BY <1>1, <1>2 DEF UserOK, Root
<1>3. ASSUME NEW d, NEW line, DeviceOK(d, line) PROVE DeviceOK(d, line)'
  <2>1. d[1] \in DOMAIN users' /\ users'[d[1]].root = users[d[1]].root
    BY <1>3 DEF DeviceOK, Grows, SameUser
  <2>2. line.author \in DOMAIN devices => line.author \in DOMAIN devices'  BY DEF Grows
  <2>3. ByAdmin(line.author) => ByAdmin(line.author)'  BY <1>1
  <2>4. QED  BY <1>3, <2>1, <2>2, <2>3 DEF DeviceOK, Root
<1>4. QED  BY <1>1, <1>2, <1>3

\* The chain of signatures of a device that was there still leads to a root key.
LEMMA GrowthKeepsChains ==
  ASSUME OrgInv, Grows, NEW d \in DOMAIN devices
  PROVE  LeadsToRoot(d)'
<1> DEFINE T == Signers(d)' \cap DOMAIN devices
<1>1. Signers(d)' \subseteq DOMAIN devices' /\ SignersIn(d, Signers(d)', devices')
  BY SignersAreClosed
<1>2. d \in Signers(d)'  BY <1>1 DEF SignersIn, IsDevice, Grows
<1>3. ASSUME NEW x \in T, IsDevice(devices[x].author) PROVE devices[x].author \in T
  BY <1>1, <1>3 DEF SignersIn, IsDevice, Grows
<1>4. T \in SUBSET DOMAIN devices /\ SignersIn(d, T, devices)  BY <1>2, <1>3 DEF SignersIn, IsDevice
<1> HIDE DEF T
<1>5. Signers(d) \subseteq T  BY <1>4, SignersAreLeast
<1>6. PICK r \in UserIds : Root(r) \in SignChain(d)  BY DEF OrgInv, ChainInv, LeadsToRoot
<1>7. Root(r) # d  BY <1>6, RootIsNoDevice DEF IsDevice
<1>8. PICK y \in Signers(d) : Root(r) = devices[y].author  BY <1>6, <1>7, ChainFacts
<1>9. y \in Signers(d)' /\ y \in DOMAIN devices /\ devices'[y].author = Root(r)
  BY <1>5, <1>8 DEF T, Grows
<1>10. Root(r) \in SignChain(d)'  BY <1>9 DEF SignChain
<1>11. QED  BY <1>10 DEF LeadsToRoot, Root

\* A new device, too, as the one that signs it does.
LEMMA NewDeviceLeadsToRoot ==
  ASSUME OrgInv, Grows, NEW d \in DOMAIN devices',
         (\E r \in UserIds : devices'[d].author = Root(r)) \/ devices'[d].author \in DOMAIN devices
  PROVE  LeadsToRoot(d)'
<1>1. Signers(d)' \subseteq DOMAIN devices' /\ SignersIn(d, Signers(d)', devices')
  BY SignersAreClosed
<1>2. d \in Signers(d)'  BY <1>1 DEF SignersIn, IsDevice
<1>3. CASE \E r \in UserIds : devices'[d].author = Root(r)
  <2>1. PICK r \in UserIds : devices'[d].author = Root(r)  BY <1>3
  <2>2. Root(r) \in SignChain(d)'  BY <1>2, <2>1 DEF SignChain
  <2>3. QED  BY <2>2 DEF LeadsToRoot, Root
<1>4. CASE devices'[d].author \in DOMAIN devices
  <2>1. PICK b \in DOMAIN devices : b = devices'[d].author  BY <1>4
  <2>2. b \in DOMAIN devices' /\ b \in Signers(d)'
    BY <1>1, <1>2, <2>1 DEF SignersIn, IsDevice, Grows
  <2>3. LeadsToRoot(b)'  BY GrowthKeepsChains
  <2>4. Signers(b)' \subseteq Signers(d)'
    <3>1. SignersIn(b, Signers(d)', devices')  BY <1>1, <2>2 DEF SignersIn
    <3>2. QED  BY <1>1, <3>1, SignersAreLeast
  <2>5. PICK r \in UserIds : Root(r) \in SignChain(b)'  BY <2>3 DEF LeadsToRoot, Root
  <2>6. Root(r) \in SignChain(d)'
    <3>1. CASE Root(r) = b  BY <1>2, <2>1, <3>1 DEF SignChain
    <3>2. CASE \E y \in Signers(b)' : Root(r) = devices'[y].author
      BY <2>4, <3>2 DEF SignChain
    <3>3. QED  BY <2>5, <3>1, <3>2 DEF SignChain
  <2>7. QED  BY <2>6 DEF LeadsToRoot, Root
<1>5. QED  BY <1>3, <1>4

-----------------------------------------------------------------------------
(* Steps that leave the registry alone *)

\* The commands under way carry rows that can be stored.
WorkIsOK(w) ==
  /\ DOMAIN w \subseteq Conns /\ w \in [DOMAIN w -> WorkRows]
  /\ \A c \in DOMAIN w : UserOK(w[c].user, w[c].rec) /\ w[c].rec.revoked = 0

\* No command is new, and none is of another user.
NoNewWork(w) ==
  \A c \in DOMAIN w : /\ c \in DOMAIN work /\ w[c].kind = work[c].kind
                      /\ w[c].user = work[c].user /\ w[c].rec = work[c].rec

\* Commands that end leave the others as they are.
LEMMA WorkFacts ==
  ASSUME OrgInv, NEW S
  PROVE  /\ WorkIsOK(work) /\ NoNewWork(work)
         /\ WorkIsOK(Drop(work, S)) /\ NoNewWork(Drop(work, S))
         /\ WorkIsOK(NoneYet) /\ NoNewWork(NoneYet)
BY OrgFacts DEF WorkIsOK, NoNewWork, Drop, NoneYet

\* The users and the organization keep their root key when no command is new.
LEMMA RootsStay ==
  ASSUME OrgInv, NoNewWork(work'), org'.root = org.root, UNCHANGED <<setup, users>>
  PROVE  RootInv'
BY DEF OrgInv, RootInv, NoNewWork

\* What a step that registers somebody or something leaves.
Registered ==
  /\ DOMAIN users \subseteq UserIds /\ users \in [DOMAIN users -> UserRecords]
  /\ DOMAIN devices \subseteq DeviceIds /\ devices \in [DOMAIN devices -> DeviceRecords]
  /\ IsFiniteSet(DOMAIN devices)
  /\ \A u \in DOMAIN users : UserOK(u, users[u]) /\ <<u, 1>> \in DOMAIN devices
  /\ \A d \in DOMAIN devices : DeviceOK(d, devices[d])
  /\ ChainInv /\ HumanIsUnique

\* A step under which the registry grows keeps the invariant if its new rows are good.
LEMMA RegistrationKeeps ==
  ASSUME OrgInv, Grows, Registered', now' \in 1 .. MaxNow, org' \in OrgRows,
         conns' \in [Conns -> ConnRows], WorkIsOK(work'), RootInv', SessionInv'
  PROVE  OrgInv'
<1>1. setup' = setup /\ setup \in Setups  BY OrgFacts DEF Grows
<1>2. OrgTyped'  BY <1>1, TypesStay DEF OrgTyped, WorkIsOK, Registered
<1>3. ASSUME NEW c \in DOMAIN work'
      PROVE  (UserOK(work[c].user, work[c].rec) /\ work[c].rec.revoked = 0)'
  <2>1. PICK w : w = work'[c]  OBVIOUS
  <2>2. UserOK(w.user, w.rec) /\ w.rec.revoked = 0  BY <2>1 DEF WorkIsOK
  <2>3. UserOK(w.user, w.rec)'  BY <2>2, GrowthKeepsRows
  <2>4. QED  BY <2>1, <2>2, <2>3
<1>4. RegistryInv'  BY <1>3 DEF RegistryInv, Registered
<1>5. QED  BY <1>2, <1>4 DEF OrgInv, Registered

\* The rows that were there are as good as before.
LEMMA OldRowsStay ==
  ASSUME OrgInv, Grows
  PROVE  /\ \A u \in DOMAIN users : users'[u] = users[u] =>
              UserOK(u, users[u])' /\ <<u, 1>> \in DOMAIN devices'
         /\ \A d \in DOMAIN devices : DeviceOK(d, devices[d])' /\ LeadsToRoot(d)'
<1>1. ASSUME NEW u \in DOMAIN users, users'[u] = users[u]
      PROVE  UserOK(u, users[u])' /\ <<u, 1>> \in DOMAIN devices'
  <2>1. UserOK(u, users[u]) /\ <<u, 1>> \in DOMAIN devices  BY OrgFacts
  <2>2. PICK rec : rec = users[u]  OBVIOUS
  <2>3. UserOK(u, rec)'  BY <2>1, <2>2, GrowthKeepsRows
  <2>4. QED  BY <1>1, <2>1, <2>2, <2>3 DEF Grows
<1>2. ASSUME NEW d \in DOMAIN devices PROVE DeviceOK(d, devices[d])' /\ LeadsToRoot(d)'
  <2>1. PICK line : line = devices[d]  OBVIOUS
  <2>2. DeviceOK(d, line)'  BY <2>1, OrgFacts, GrowthKeepsRows
  <2>3. devices'[d] = line  BY <2>1 DEF Grows
  <2>4. QED  BY <2>2, <2>3, GrowthKeepsChains
<1>3. QED  BY <1>1, <1>2

\* A step that leaves the tables alone keeps what the invariant says of them.
LEMMA RowsStay ==
  ASSUME OrgInv, UNCHANGED <<setup, users, devices>>, now' \in 1 .. MaxNow, org' \in OrgRows,
         conns' \in [Conns -> ConnRows], WorkIsOK(work'), RootInv', SessionInv'
  PROVE  OrgInv'
<1>1. Grows  BY SameRegistryGrows
<1>2. /\ \A u \in DOMAIN users : UserOK(u, users[u])' /\ <<u, 1>> \in DOMAIN devices'
      /\ \A d \in DOMAIN devices : DeviceOK(d, devices[d])' /\ LeadsToRoot(d)'
  BY <1>1, OldRowsStay
<1>3. HumanIsUnique'  BY DEF OrgInv, HumanIsUnique, OneUserPerHuman
<1>4. Registered'  BY <1>2, <1>3, OrgFacts, TypesStay DEF Registered, ChainInv
<1>5. QED  BY <1>1, <1>4, RegistrationKeeps

\* The sessions stay, and nobody that has one is revoked.
LEMMA SessionsStay ==
  ASSUME OrgInv, Grows, UNCHANGED <<conns, signals, late>>,
         \A u \in DOMAIN users : users'[u].revoked # 0 => users[u].revoked # 0
  PROVE  SessionInv'
<1>1. \A d \in DOMAIN devices : d[1] \in DOMAIN users  BY OrgFacts DEF DeviceOK
<1>2. RevokedOnes \subseteq RevokedOnes'  BY DEF RevokedOnes, Grows, SameUser
<1>3. RevokedSessionsEnd'
  <2>1. SUFFICES ASSUME NEW c \in Conns, conns[c].st = "open", users'[conns[c].dev[1]].revoked # 0
                 PROVE  conns[c].dev[1] \in signals \/ c \in late
    BY DEF RevokedSessionsEnd
  <2>2. conns[c].dev \in DOMAIN devices  BY <2>1 DEF OrgInv, SessionInv
  <2>3. users[conns[c].dev[1]].revoked # 0  BY <1>1, <2>1, <2>2
  <2>4. QED  BY <2>1, <2>3 DEF OrgInv, SessionInv, RevokedSessionsEnd
<1>4. \A c \in Conns : /\ conns'[c].st \in {"none", "anonymous"} <=> conns'[c].dev = NoDevice
                       /\ conns'[c].dev # NoDevice => conns'[c].dev \in DOMAIN devices'
  BY DEF OrgInv, SessionInv, Grows
<1>5. signals' \subseteq RevokedOnes' /\ late' \subseteq {c \in Conns : IsOpen(c)'}
  BY <1>2 DEF OrgInv, SessionInv, IsOpen
<1>6. QED  BY <1>3, <1>4, <1>5 DEF SessionInv, IsOpen

\* organization_create, organization_update and the clock keep the invariant.
LEMMA AdministrationKeeps ==
  ASSUME OrgInv, CreateOrganization \/ SetExpirationDate \/ TimePasses
  PROVE  OrgInv'
<1>1. UNCHANGED <<setup, users, devices, conns, work, signals, late>>
  BY DEF CreateOrganization, SetExpirationDate, TimePasses
<1>2. now' \in 1 .. MaxNow  BY OrgFacts DEF CreateOrganization, SetExpirationDate, TimePasses
<1>3. org' \in OrgRows /\ org'.root = org.root
  <2>1. /\ org.issued \in 0 .. MaxTokens /\ org.token \in 0 .. MaxTokens /\ org.created \in BOOLEAN
        /\ org.expired \in BOOLEAN /\ MaxTokens \in Nat
    BY OrgFacts DEF OrgRows
  <2>2. org.issued < MaxTokens => org.issued + 1 \in 0 .. MaxTokens  BY <2>1
  <2>3. CASE CreateOrganization  BY <2>1, <2>2, <2>3, OrgFacts DEF CreateOrganization, OrgRows
  <2>4. CASE SetExpirationDate  BY <2>1, <2>2, <2>4, OrgFacts DEF SetExpirationDate, OrgRows
  <2>5. CASE TimePasses  BY <2>5, OrgFacts DEF TimePasses
  <2>6. QED  BY <2>3, <2>4, <2>5
<1>4. WorkIsOK(work') /\ NoNewWork(work')  BY <1>1, WorkFacts
<1>5. RootInv'  BY <1>1, <1>3, <1>4, RootsStay
<1>6. SessionInv'  BY <1>1, SameRegistryGrows, SessionsStay
<1>7. QED  BY <1>1, <1>2, <1>3, <1>4, <1>5, <1>6, OrgFacts, RowsStay

\* A connection that gets a new state.
LEMMA IdleIsARow ==
  Idle \in ConnRows
BY DEF Idle, ConnRows

\* An anonymous handshake keeps the invariant.
LEMMA AnonymousAnswerKeeps ==
  ASSUME OrgInv, NEW c \in Conns, AnonymousAnswer(c)
  PROVE  OrgInv'
<1> DEFINE line == [st |-> "anonymous", dev |-> NoDevice]
<1>1. /\ conns[c].st = "none" /\ org' = [org EXCEPT !.created = TRUE]
      /\ conns' = [conns EXCEPT ![c] = line]
      /\ UNCHANGED <<setup, users, devices, work, signals, late, now>>
  BY DEF AnonymousAnswer
<1>2. line \in ConnRows /\ line.st = "anonymous" /\ line.dev = NoDevice  BY DEF ConnRows
<1>3. org' \in OrgRows /\ org'.root = org.root  BY <1>1, OrgFacts DEF OrgRows
<1> HIDE DEF line
<1>4. /\ conns' \in [Conns -> ConnRows] /\ conns'[c] = line
      /\ \A o \in Conns : o # c => conns'[o] = conns[o]
  BY <1>1, <1>2, OrgFacts
<1>5. WorkIsOK(work') /\ NoNewWork(work')  BY <1>1, WorkFacts
<1>6. RootInv'  BY <1>1, <1>3, <1>5, RootsStay
<1>7. c \notin late  BY <1>1 DEF OrgInv, SessionInv, IsOpen
<1>8. SessionInv'
  <2>1. \A o \in Conns : /\ conns'[o].st \in {"none", "anonymous"} <=> conns'[o].dev = NoDevice
                         /\ conns'[o].dev # NoDevice => conns'[o].dev \in DOMAIN devices'
    BY <1>1, <1>2, <1>4 DEF OrgInv, SessionInv
  <2>2. signals' \subseteq RevokedOnes'  BY <1>1 DEF OrgInv, SessionInv, RevokedOnes
  <2>3. late' \subseteq {o \in Conns : IsOpen(o)'}
    BY <1>1, <1>4, <1>7 DEF OrgInv, SessionInv, IsOpen
  <2>4. RevokedSessionsEnd'
    BY <1>1, <1>2, <1>4 DEF OrgInv, SessionInv, RevokedSessionsEnd
  <2>5. QED  BY <2>1, <2>2, <2>3, <2>4 DEF SessionInv, IsOpen
<1>9. QED  BY <1>1, <1>3, <1>4, <1>5, <1>6, <1>8, OrgFacts, RowsStay

\* An authenticated handshake keeps it: the device was looked up.
LEMMA AuthenticatedAnswerKeeps ==
  ASSUME OrgInv, NEW c \in Conns, NEW d \in DeviceIds, AuthenticatedAnswer(c, d)
  PROVE  OrgInv'
<1> DEFINE line == [st |-> "checked", dev |-> d]
<1>1. /\ conns[c].st = "none" /\ conns' = [conns EXCEPT ![c] = line]
      /\ UNCHANGED <<setup, org, users, devices, work, signals, late, now>>
  BY DEF AuthenticatedAnswer
<1>2. d \in DOMAIN devices
  BY DEF AuthenticatedAnswer, HandshakeResult, Identity
<1>3. line \in ConnRows /\ line.st = "checked" /\ line.dev = d  BY DEF ConnRows
<1>4. d # NoDevice
  <2>1. d[1] \in UserIds /\ Len(d) = 2  BY DEF DeviceIds
  <2>2. Len(NoDevice) = 0  BY DEF NoDevice
  <2>3. QED  BY <2>1, <2>2
<1> HIDE DEF line
<1>5. /\ conns' \in [Conns -> ConnRows] /\ conns'[c] = line
      /\ \A o \in Conns : o # c => conns'[o] = conns[o]
  BY <1>1, <1>3, OrgFacts
<1>6. WorkIsOK(work') /\ NoNewWork(work')  BY <1>1, WorkFacts
<1>7. RootInv'  BY <1>1, <1>6, RootsStay
<1>8. c \notin late  BY <1>1 DEF OrgInv, SessionInv, IsOpen
<1>9. SessionInv'
  <2>1. \A o \in Conns : /\ conns'[o].st \in {"none", "anonymous"} <=> conns'[o].dev = NoDevice
                         /\ conns'[o].dev # NoDevice => conns'[o].dev \in DOMAIN devices'
    BY <1>1, <1>2, <1>3, <1>4, <1>5 DEF OrgInv, SessionInv
  <2>2. signals' \subseteq RevokedOnes'  BY <1>1 DEF OrgInv, SessionInv, RevokedOnes
  <2>3. late' \subseteq {o \in Conns : IsOpen(o)'}
    BY <1>1, <1>5, <1>8 DEF OrgInv, SessionInv, IsOpen
  <2>4. RevokedSessionsEnd'
    BY <1>1, <1>3, <1>5 DEF OrgInv, SessionInv, RevokedSessionsEnd
  <2>5. QED  BY <2>1, <2>2, <2>3, <2>4 DEF SessionInv, IsOpen
<1>10. QED  BY <1>1, <1>5, <1>6, <1>7, <1>9, OrgFacts, RowsStay

\* A session that opens after the event of the revocation was sent is late.
LEMMA OpenSessionKeeps ==
  ASSUME OrgInv, NEW c \in Conns, OpenSession(c)
  PROVE  OrgInv'
<1>1. /\ conns[c].st = "checked" /\ conns' = [conns EXCEPT ![c].st = "open"]
      /\ UNCHANGED <<setup, org, users, devices, work, signals, now>>
      /\ late' = IF users[conns[c].dev[1]].revoked # 0 /\ conns[c].dev[1] \notin signals
                   THEN late \cup {c} ELSE late
  BY DEF OpenSession
<1>2. /\ conns' \in [Conns -> ConnRows] /\ conns'[c].st = "open" /\ conns'[c].dev = conns[c].dev
      /\ \A o \in Conns : o # c => conns'[o] = conns[o]
  BY <1>1, OrgFacts DEF ConnRows
<1>3. WorkIsOK(work') /\ NoNewWork(work')  BY <1>1, WorkFacts
<1>4. RootInv'  BY <1>1, <1>3, RootsStay
<1>5. SessionInv'
  <2>1. \A o \in Conns : /\ conns'[o].st \in {"none", "anonymous"} <=> conns'[o].dev = NoDevice
                         /\ conns'[o].dev # NoDevice => conns'[o].dev \in DOMAIN devices'
    BY <1>1, <1>2 DEF OrgInv, SessionInv
  <2>2. signals' \subseteq RevokedOnes'  BY <1>1 DEF OrgInv, SessionInv, RevokedOnes
  <2>3. late' \subseteq {o \in Conns : IsOpen(o)'}
    BY <1>1, <1>2 DEF OrgInv, SessionInv, IsOpen
  <2>4. RevokedSessionsEnd'
    BY <1>1, <1>2 DEF OrgInv, SessionInv, RevokedSessionsEnd
  <2>5. QED  BY <2>1, <2>2, <2>3, <2>4 DEF SessionInv, IsOpen
<1>6. QED  BY <1>1, <1>2, <1>3, <1>4, <1>5, OrgFacts, RowsStay

\* Sessions that end, one or many, and the events that are dispatched.
LEMMA ClosedSessionsKeep ==
  ASSUME OrgInv, NEW S \in SUBSET Conns, UNCHANGED <<setup, org, users, devices, now>>,
         conns' = [c \in Conns |-> IF c \in S THEN Idle ELSE conns[c]],
         WorkIsOK(work'), NoNewWork(work'), late' = late \ S, signals' \subseteq signals,
         \A c \in Conns \ S :
           IsOpen(c) /\ conns[c].dev[1] \in signals => conns[c].dev[1] \in signals'
  PROVE  OrgInv'
<1>1. Idle.st = "none" /\ Idle.dev = NoDevice  BY DEF Idle
<1>2. /\ conns' \in [Conns -> ConnRows] /\ \A c \in S : conns'[c] = Idle
      /\ \A c \in Conns \ S : conns'[c] = conns[c]
  BY OrgFacts, IdleIsARow
<1>3. RootInv'  BY RootsStay
<1>4. SessionInv'
  <2>1. \A o \in Conns : /\ conns'[o].st \in {"none", "anonymous"} <=> conns'[o].dev = NoDevice
                         /\ conns'[o].dev # NoDevice => conns'[o].dev \in DOMAIN devices'
    BY <1>1, <1>2 DEF OrgInv, SessionInv
  <2>2. signals' \subseteq RevokedOnes'  BY DEF OrgInv, SessionInv, RevokedOnes
  <2>3. late' \subseteq {o \in Conns : IsOpen(o)'}
    BY <1>2 DEF OrgInv, SessionInv, IsOpen
  <2>4. RevokedSessionsEnd'
    BY <1>1, <1>2 DEF OrgInv, SessionInv, RevokedSessionsEnd, IsOpen
  <2>5. QED  BY <2>1, <2>2, <2>3, <2>4 DEF SessionInv, IsOpen
<1>5. QED  BY <1>2, <1>3, <1>4, OrgFacts, RowsStay

\* A client that leaves keeps the invariant.
LEMMA CloseSessionKeeps ==
  ASSUME OrgInv, NEW c \in Conns, CloseSession(c)
  PROVE  OrgInv'
<1>1. conns' = [o \in Conns |-> IF o \in {c} THEN Idle ELSE conns[o]]
  BY OrgFacts DEF CloseSession
<1>2. /\ UNCHANGED <<setup, org, users, devices, work, signals, now>> /\ late' = late \ {c}
  BY DEF CloseSession
<1>3. WorkIsOK(work') /\ NoNewWork(work')  BY <1>2, WorkFacts
<1>4. QED  BY <1>1, <1>2, <1>3, ClosedSessionsKeep

\* A restart of the server keeps the invariant.
LEMMA ServerRestartKeeps ==
  ASSUME OrgInv, ServerRestart
  PROVE  OrgInv'
<1>1. /\ conns' = [c \in Conns |-> Idle] /\ work' = NoneYet /\ signals' = {} /\ late' = {}
      /\ UNCHANGED <<setup, org, users, devices, now>>
  BY DEF ServerRestart
<1>2. WorkIsOK(work') /\ NoNewWork(work')  BY <1>1, WorkFacts
<1>3. conns' = [c \in Conns |-> IF c \in Conns THEN Idle ELSE conns[c]]  BY <1>1
<1>4. late' = late \ Conns  BY <1>1 DEF OrgInv, SessionInv
<1>5. QED  BY <1>1, <1>2, <1>3, <1>4, ClosedSessionsKeep

\* The dispatch of a revocation closes all the sessions of the user.
LEMMA UserRevokedKeeps ==
  ASSUME OrgInv, NEW u \in UserIds, UserRevoked(u)
  PROVE  OrgInv'
<1>1. /\ signals' = signals \ {u} /\ late' = late \ ClosedBy(u) /\ work' = Drop(work, ClosedBy(u))
      /\ conns' = [c \in Conns |-> IF c \in ClosedBy(u) THEN Idle ELSE conns[c]]
      /\ UNCHANGED <<setup, org, users, devices, now>>
  BY DEF UserRevoked
<1>2. ClosedBy(u) \in SUBSET Conns  BY DEF ClosedBy
<1>3. WorkIsOK(work') /\ NoNewWork(work')  BY <1>1, WorkFacts
<1>4. \A c \in Conns \ ClosedBy(u) :
        IsOpen(c) /\ conns[c].dev[1] \in signals => conns[c].dev[1] \in signals'
  BY <1>1 DEF ClosedBy, IsOpen
<1>5. QED  BY <1>1, <1>2, <1>3, <1>4, ClosedSessionsKeep

-----------------------------------------------------------------------------
(* Steps that register a user or a device *)

\* A table with one more row of its type.
LEMMA RowAddedIsTyped ==
  ASSUME NEW R, NEW f, f \in [DOMAIN f -> R], NEW x, NEW line \in R
  PROVE  WithRow(f, x, line) \in [DOMAIN f \cup {x} -> R]
BY DEF WithRow

\* A user that is stored with its first device makes the registry grow by good rows.
LEMMA StoreUserKeeps ==
  ASSUME OrgInv, setup' = setup, NEW u \in UserIds, NEW rec \in UserRecords,
         UserOK(u, rec), rec.revoked = 0, StoreUser(u, rec),
         setup.impl = "MEMORY" => CanCreate(u, rec.human)
  PROVE  /\ Grows /\ Registered'
         /\ DOMAIN users' = DOMAIN users \cup {u}
         /\ \A v \in DOMAIN users : users'[v] = users[v]
         /\ u \notin DOMAIN users => users'[u] = rec
<1> DEFINE d == <<u, 1>>
           line == [author |-> rec.author, created |-> rec.created]
<1>1. /\ DOMAIN users' = DOMAIN users \cup {u} /\ \A v \in DOMAIN users : users'[v] = users[v]
      /\ u \notin DOMAIN users => users'[u] = rec
      /\ users' \in [DOMAIN users' -> UserRecords]
  <2>1. users' = WithRow(users, u, rec)  BY DEF StoreUser
  <2>2. users' \in [DOMAIN users \cup {u} -> UserRecords]  BY <2>1, OrgFacts, RowAddedIsTyped
  <2>3. QED  BY <2>1, <2>2 DEF WithRow
<1>2. /\ rec.author \in Authors /\ rec.created \in Nat  BY DEF UserRecords
<1>3. line \in DeviceRecords /\ line.author = rec.author  BY <1>2 DEF DeviceRecords
<1>4. d \in DeviceIds /\ d[1] = u  BY OrgFacts DEF DeviceIds
<1>5. devices' = WithRow(devices, d, line)  BY DEF StoreUser
<1> HIDE DEF d, line
<1>6. /\ DOMAIN devices' = DOMAIN devices \cup {d}
      /\ \A x \in DOMAIN devices : devices'[x] = devices[x]
      /\ d \notin DOMAIN devices => devices'[d] = line
      /\ devices' \in [DOMAIN devices' -> DeviceRecords]
  <2>1. devices' \in [DOMAIN devices \cup {d} -> DeviceRecords]
    BY <1>3, <1>5, OrgFacts, RowAddedIsTyped
  <2>2. QED  BY <1>5, <2>1 DEF WithRow
<1>7. Grows  BY <1>1, <1>6 DEF Grows, SameUser
<1>8. IsFiniteSet(DOMAIN devices')  BY <1>6, OrgFacts, FS_AddElement
<1>9. /\ \A v \in DOMAIN users : UserOK(v, users[v])' /\ <<v, 1>> \in DOMAIN devices'
      /\ \A x \in DOMAIN devices : DeviceOK(x, devices[x])' /\ LeadsToRoot(x)'
  BY <1>1, <1>7, OldRowsStay
<1>10. UserOK(u, rec)' /\ d \in DOMAIN devices'  BY <1>6, <1>7, GrowthKeepsRows
<1>11. \A v \in DOMAIN users' : UserOK(v, users[v])' /\ <<v, 1>> \in DOMAIN devices'
  <2>1. CASE u \in DOMAIN users  BY <1>1, <1>9, <2>1
  <2>2. CASE u \notin DOMAIN users  BY <1>1, <1>9, <1>10, <2>2 DEF d
  <2>3. QED  BY <2>1, <2>2
<1>12. ASSUME d \notin DOMAIN devices PROVE DeviceOK(d, devices[d])' /\ LeadsToRoot(d)'
  <2>1. devices'[d] = line /\ u \notin DOMAIN users  BY <1>6, <1>12, OrgFacts DEF d
  <2>2. users'[u] = rec /\ u \in DOMAIN users'  BY <1>1, <2>1
  <2>3. CASE rec.author = Root(rec.root)
    <3>1. rec.root \in UserIds  BY DEF UserRecords
    <3>2. DeviceOK(d, devices[d])'  BY <1>3, <1>4, <2>1, <2>2, <2>3 DEF DeviceOK, Root
    <3>3. LeadsToRoot(d)'  BY <1>3, <1>7, <1>10, <2>1, <2>3, <3>1, NewDeviceLeadsToRoot
    <3>4. QED  BY <3>2, <3>3
  <2>4. CASE ByAdmin(rec.author) /\ rec.author[1] # u
    <3>1. rec.author \in DOMAIN devices  BY <2>4 DEF ByAdmin
    <3>2. ByAdmin(rec.author)' /\ rec.author \in DOMAIN devices'
      BY <1>6, <1>7, <2>4, <3>1, GrowthKeepsRows
    <3>3. DeviceOK(d, devices[d])'  BY <1>3, <1>4, <2>1, <2>2, <3>2 DEF DeviceOK
    <3>4. LeadsToRoot(d)'  BY <1>3, <1>7, <1>10, <2>1, <3>1, NewDeviceLeadsToRoot
    <3>5. QED  BY <3>3, <3>4
  <2>5. QED  BY <2>3, <2>4 DEF UserOK
<1>13. \A x \in DOMAIN devices' : DeviceOK(x, devices[x])' /\ LeadsToRoot(x)'
  BY <1>6, <1>9, <1>12
<1>14. HumanIsUnique'
  <2>1. SUFFICES ASSUME setup.impl = "MEMORY", NEW v \in DOMAIN users', NEW w \in DOMAIN users',
                        users'[v].revoked = 0, users'[w].revoked = 0,
                        users'[v].human = users'[w].human
                 PROVE  v = w
    BY DEF HumanIsUnique, OneUserPerHuman
  <2>2. u \notin DOMAIN users /\ users'[u] = rec
        /\ \A x \in DOMAIN users : users[x].human = rec.human => users[x].revoked # 0
    BY <1>1, <2>1 DEF CanCreate, HumanIsTaken
  <2>3. CASE v \in DOMAIN users /\ w \in DOMAIN users
    BY <1>1, <2>1, <2>3 DEF OrgInv, HumanIsUnique, OneUserPerHuman
  <2>4. CASE v = u \/ w = u  BY <1>1, <2>1, <2>2, <2>4
  <2>5. QED  BY <1>1, <2>1, <2>3, <2>4
<1>15. Registered'
  <2>1. DOMAIN users' \subseteq UserIds /\ DOMAIN devices' \subseteq DeviceIds
    BY <1>1, <1>4, <1>6, OrgFacts
  <2>2. ChainInv'  BY <1>13 DEF ChainInv
  <2>3. QED  BY <1>1, <1>6, <1>8, <1>11, <1>13, <1>14, <2>1, <2>2, TypesStay DEF Registered
<1>16. QED  BY <1>1, <1>7, <1>15

\* The record of a new user has its type.
LEMMA NewUserIsARow ==
  ASSUME NEW h \in Humans, NEW p \in Profiles, NEW a \in Authors, NEW k \in Nat \ {0},
         NEW r \in UserIds
  PROVE  LET rec == NewUser(h, p, a, k, r)
         IN  /\ rec \in UserRecords /\ rec.human = h /\ rec.profile = p /\ rec.author = a
             /\ rec.revoked = 0 /\ rec.root = r
BY DEF NewUser, UserRecords

\* A command that starts carries rows that can be stored.
LEMMA NewWorkIsOK ==
  ASSUME OrgInv, NEW c \in Conns, NEW w \in WorkRows, UserOK(w.user, w.rec), w.rec.revoked = 0
  PROVE  WorkIsOK(WithRow(work, c, w))
<1>1. WithRow(work, c, w) \in [DOMAIN work \cup {c} -> WorkRows]  BY OrgFacts, RowAddedIsTyped
<1>2. \A o \in DOMAIN work \cup {c} :
        WithRow(work, c, w)[o] = IF o \in DOMAIN work THEN work[o] ELSE w
  BY DEF WithRow
<1>3. QED  BY <1>1, <1>2, OrgFacts DEF WorkIsOK

\* The row that the transaction of a creation has to show.
IsOfRoot(w) == IF w.kind = "bootstrap" THEN w.rec.root = w.user
               ELSE org.root # NoRoot /\ w.rec.root = org.root

\* A transaction that starts with such a row keeps the roots.
LEMMA NewWorkIsOfRoot ==
  ASSUME OrgInv, NEW c \in Conns, NEW w, IsOfRoot(w), work' = WithRow(work, c, w),
         UNCHANGED <<setup, users, org>>
  PROVE  RootInv'
<1>1. /\ DOMAIN work' = DOMAIN work \cup {c}
      /\ \A o \in DOMAIN work' : work'[o] = IF o \in DOMAIN work THEN work[o] ELSE w
  BY DEF WithRow
<1>2. ASSUME setup.impl = "POSTGRESQL" PROVE \A o \in DOMAIN work' : IsOfRoot(work'[o])
  BY <1>1, <1>2 DEF OrgInv, RootInv, IsOfRoot
<1>3. QED  BY <1>2 DEF OrgInv, RootInv, IsOfRoot

\* The first half of a bootstrap keeps the invariant.
LEMMA BootstrapStartKeeps ==
  ASSUME OrgInv, NEW c \in Conns, NEW u \in UserIds, NEW h \in Humans, NEW t, NEW k \in Nat \ {0},
         BootstrapStart(c, u, h, t, k)
  PROVE  OrgInv'
<1> DEFINE rec == NewUser(h, "ADMIN", Root(u), k, u)
           w == [kind |-> "bootstrap", st |-> "inserted", user |-> u, rec |-> rec, org |-> org]
<1>1. /\ work' = WithRow(work, c, w) /\ UNCHANGED <<setup, org, conns, signals, late, now>>
      /\ IF setup.impl = "MEMORY" THEN CanCreate(u, h) /\ StoreUser(u, rec)
         ELSE UNCHANGED <<users, devices>>
  BY DEF BootstrapStart
<1>2. /\ rec \in UserRecords /\ rec.human = h /\ rec.author = Root(u) /\ rec.revoked = 0
      /\ rec.root = u
  <2>1. Root(u) \in Authors /\ "ADMIN" \in Profiles  BY DEF Authors, Profiles
  <2>2. QED  BY <2>1, NewUserIsARow
<1> HIDE DEF rec
<1>3. UserOK(u, rec)  BY <1>2 DEF UserOK
<1>4. /\ w \in WorkRows /\ w.user = u /\ w.rec = rec /\ IsOfRoot(w)
  BY <1>2, OrgFacts DEF WorkRows, IsOfRoot
<1> HIDE DEF w
<1>5. WorkIsOK(work')  BY <1>1, <1>2, <1>3, <1>4, NewWorkIsOK
<1>6. CASE setup.impl = "MEMORY"
  <2>1. /\ Grows /\ Registered' /\ \A v \in DOMAIN users : users'[v] = users[v]
    BY <1>1, <1>2, <1>3, <1>6, StoreUserKeeps
  <2>2. RootInv'  BY <1>1, <1>6 DEF RootInv
  <2>3. SessionInv'  BY <1>1, <2>1, SessionsStay
  <2>4. QED  BY <1>1, <1>5, <2>1, <2>2, <2>3, OrgFacts, RegistrationKeeps
<1>7. CASE setup.impl = "POSTGRESQL"
  <2>1. UNCHANGED <<setup, users, devices>>  BY <1>1, <1>7
  <2>2. RootInv'  BY <1>1, <1>4, <2>1, NewWorkIsOfRoot
  <2>3. SessionInv'  BY <1>1, <2>1, SameRegistryGrows, SessionsStay
  <2>4. QED  BY <1>1, <1>5, <2>1, <2>2, <2>3, OrgFacts, RowsStay
<1>8. QED  BY <1>6, <1>7, OrgFacts

\* The second half of a bootstrap in memory, which writes the row it read before, keeps it.
LEMMA BootstrapEndKeeps ==
  ASSUME OrgInv, NEW c \in Conns, BootstrapEnd(c)
  PROVE  OrgInv'
<1>1. /\ setup.impl = "MEMORY" /\ c \in DOMAIN work /\ work' = Drop(work, {c})
      /\ org' = [work[c].org EXCEPT !.root = work[c].user, !.issued = org.issued]
      /\ UNCHANGED <<setup, users, devices, conns, signals, late, now>>
  BY DEF BootstrapEnd
<1>2. work[c].org \in OrgRows /\ work[c].user \in UserIds  BY <1>1, OrgFacts DEF WorkRows
<1>3. org.issued \in 0 .. MaxTokens  BY OrgFacts DEF OrgRows
<1>4. org' \in OrgRows  BY <1>1, <1>2, <1>3 DEF OrgRows
<1>5. WorkIsOK(work')  BY <1>1, WorkFacts
<1>6. RootInv'  BY <1>1 DEF RootInv
<1>7. SessionInv'  BY <1>1, SameRegistryGrows, SessionsStay
<1>8. QED  BY <1>1, <1>4, <1>5, <1>6, <1>7, OrgFacts, RowsStay

\* A transaction that is rolled back keeps the invariant.
LEMMA RollbackKeeps ==
  ASSUME OrgInv, NEW c, RollbackCreation(c), UNCHANGED <<setup, conns, signals, late, now>>
  PROVE  OrgInv'
<1>1. work' = Drop(work, {c}) /\ UNCHANGED <<setup, org, users, devices, conns, signals, late, now>>
  BY DEF RollbackCreation
<1>2. WorkIsOK(work') /\ NoNewWork(work')  BY <1>1, WorkFacts
<1>3. RootInv'  BY <1>1, <1>2, RootsStay
<1>4. SessionInv'  BY <1>1, SameRegistryGrows, SessionsStay
<1>5. QED  BY <1>1, <1>2, <1>3, <1>4, OrgFacts, RowsStay

\* The last check of a transaction keeps the invariant.
LEMMA CountUsersKeeps ==
  ASSUME OrgInv, NEW c \in Conns, CountUsers(c)
  PROVE  OrgInv'
<1>1. c \in DOMAIN work /\ UNCHANGED <<setup, conns, signals, late, now>>  BY DEF CountUsers
<1>2. CASE RollbackCreation(c)  BY <1>1, <1>2, RollbackKeeps
<1>3. CASE work' = [work EXCEPT ![c].st = "counted"] /\ UNCHANGED <<org, users, devices>>
  <2>1. /\ DOMAIN work' = DOMAIN work /\ \A o \in DOMAIN work : o # c => work'[o] = work[o]
        /\ work'[c] = [work[c] EXCEPT !.st = "counted"]
    BY <1>1, <1>3, OrgFacts
  <2>2. work[c] \in WorkRows  BY <1>1, OrgFacts
  <2>3. /\ work'[c] \in WorkRows /\ work'[c].kind = work[c].kind /\ work'[c].user = work[c].user
        /\ work'[c].rec = work[c].rec
    BY <2>1, <2>2 DEF WorkRows
  <2>4. work' \in [DOMAIN work -> WorkRows]
    <3>1. [work[c] EXCEPT !.st = "counted"] \in WorkRows  BY <2>1, <2>3
    <3>2. QED  BY <1>3, <3>1, OrgFacts
  <2>5. WorkIsOK(work') /\ NoNewWork(work')
    BY <1>1, <2>1, <2>3, <2>4, OrgFacts DEF WorkIsOK, NoNewWork
  <2>6. RootInv'  BY <1>1, <1>3, <2>5, RootsStay
  <2>7. SessionInv'  BY <1>1, <1>3, SameRegistryGrows, SessionsStay
  <2>8. QED  BY <1>1, <1>3, <2>5, <2>6, <2>7, OrgFacts, RowsStay
<1>4. QED  BY <1>2, <1>3 DEF CountUsers

\* The end of a transaction that creates a user.
LEMMA CommitKeeps ==
  ASSUME OrgInv, NEW c \in DOMAIN work, StoreUser(work[c].user, work[c].rec),
         setup.impl = "POSTGRESQL", work' = Drop(work, {c}), org' \in OrgRows,
         UNCHANGED <<setup, conns, signals, late, now>>,
         \/ work[c].kind = "user_create" /\ org' = org
         \/ work[c].kind = "bootstrap" /\ org.root = NoRoot /\ org'.root = work[c].user
  PROVE  OrgInv'
<1>1. /\ work[c].user \in UserIds /\ work[c].rec \in UserRecords
      /\ UserOK(work[c].user, work[c].rec) /\ work[c].rec.revoked = 0
  BY OrgFacts DEF WorkRows
<1>2. PICK u \in UserIds, rec \in UserRecords : u = work[c].user /\ rec = work[c].rec  BY <1>1
<1>3. /\ Grows /\ Registered' /\ DOMAIN users' = DOMAIN users \cup {u}
      /\ \A v \in DOMAIN users : users'[v] = users[v]
      /\ u \notin DOMAIN users => users'[u] = rec
  BY <1>1, <1>2, StoreUserKeeps
<1>4. WorkIsOK(work') /\ NoNewWork(work')  BY WorkFacts
<1>5. SessionInv'  BY <1>3, SessionsStay
<1>6. RootInv'
  <2>1. CASE work[c].kind = "user_create" /\ org' = org
    <3>1. rec.root = org.root  BY <1>2, <2>1 DEF OrgInv, RootInv
    <3>2. \A v \in DOMAIN users' : users'[v].root = org.root
      BY <1>3, <3>1 DEF OrgInv, RootInv
    <3>3. \A o \in DOMAIN work : IsOfRoot(work[o])  BY DEF OrgInv, RootInv, IsOfRoot
    <3>4. ASSUME NEW o \in DOMAIN work' PROVE IsOfRoot(work'[o])
      <4>1. /\ o \in DOMAIN work /\ work'[o].kind = work[o].kind
            /\ work'[o].user = work[o].user /\ work'[o].rec = work[o].rec
        BY <1>4 DEF NoNewWork
      <4>2. QED  BY <3>3, <4>1 DEF IsOfRoot
    <3>5. QED  BY <2>1, <3>2, <3>4 DEF RootInv, IsOfRoot
  <2>2. CASE work[c].kind = "bootstrap" /\ org.root = NoRoot /\ org'.root = work[c].user
    <3>1. rec.root = u  BY <1>2, <2>2 DEF OrgInv, RootInv
    <3>2. ASSUME NEW v \in DOMAIN users PROVE FALSE
      <4>1. users[v].root \in UserIds  BY OrgFacts DEF UserRecords
      <4>2. users[v].root = NoRoot  BY <2>2 DEF OrgInv, RootInv
      <4>3. QED  BY <4>1, <4>2, OrgAssumption DEF NoRoot
    <3>3. \A v \in DOMAIN users' : users'[v].root = org'.root  BY <1>2, <1>3, <2>2, <3>1, <3>2
    <3>4. \A o \in DOMAIN work : work[o].kind = "bootstrap" /\ work[o].rec.root = work[o].user
      BY <2>2 DEF OrgInv, RootInv
    <3>5. QED  BY <1>4, <3>3, <3>4 DEF RootInv, NoNewWork
  <2>3. QED  BY <2>1, <2>2
<1>7. QED  BY <1>3, <1>4, <1>5, <1>6, OrgFacts, RegistrationKeeps

\* A bootstrap commits only if the organization has no root key, so that it has no users.
LEMMA BootstrapCommitKeeps ==
  ASSUME OrgInv, NEW c \in Conns, BootstrapCommit(c)
  PROVE  OrgInv'
<1>1. /\ setup.impl = "POSTGRESQL" /\ c \in DOMAIN work /\ work[c].kind = "bootstrap"
      /\ UNCHANGED <<setup, conns, signals, late, now>>
  BY DEF BootstrapCommit
<1>2. CASE RollbackCreation(c)  BY <1>1, <1>2, RollbackKeeps
<1>3. CASE /\ org.root = NoRoot /\ org' = [org EXCEPT !.root = work[c].user]
           /\ StoreUser(work[c].user, work[c].rec) /\ work' = Drop(work, {c})
  <2>1. work[c].user \in UserIds  BY <1>1, OrgFacts DEF WorkRows
  <2>2. org' \in OrgRows /\ org'.root = work[c].user  BY <1>3, <2>1, OrgFacts DEF OrgRows
  <2>3. QED  BY <1>1, <1>3, <2>2, CommitKeeps
<1>4. QED  BY <1>2, <1>3 DEF BootstrapCommit

\* The commit of a user_create keeps the invariant.
LEMMA CommitUserKeeps ==
  ASSUME OrgInv, NEW c \in Conns, CommitUser(c)
  PROVE  OrgInv'
BY CommitKeeps, OrgFacts DEF CommitUser

\* Who gives a command on a session is a device of a user.
LEMMA AuthorFacts ==
  ASSUME OrgInv, NEW c \in Conns, CanCommand(c)
  PROVE  /\ Author(c) \in DOMAIN devices /\ Author(c) \in DeviceIds /\ Author(c) \in Authors
         /\ Author(c)[1] \in DOMAIN users
         /\ CanAdminister(c) => ByAdmin(Author(c))
<1>1. conns[c].dev # NoDevice /\ conns[c].dev \in DOMAIN devices
  BY DEF CanCommand, OrgInv, SessionInv
<1>2. conns[c].dev[1] \in DOMAIN users  BY <1>1, OrgFacts DEF DeviceOK
<1>3. QED  BY <1>1, <1>2, OrgFacts DEF Author, Authors, CanAdminister, ByAdmin

\* user_create keeps the invariant: its author is an administrator, and not the new user.
LEMMA UserCreateKeeps ==
  ASSUME OrgInv, NEW c \in Conns, NEW u \in UserIds, NEW h \in Humans, NEW p \in Profiles,
         NEW k \in Nat \ {0}, UserCreate(c, u, h, p, k)
  PROVE  OrgInv'
<1> DEFINE rec == NewUser(h, p, Author(c), k, users[Author(c)[1]].root)
           w == [kind |-> "user_create", st |-> "inserted", user |-> u, rec |-> rec, org |-> org]
<1>1. /\ CanAdminister(c) /\ u \notin DOMAIN users
      /\ UNCHANGED <<setup, org, conns, signals, late, now>>
      /\ \/ setup.impl = "MEMORY" /\ CanCreate(u, h) /\ StoreUser(u, rec) /\ work' = work
         \/ setup.impl = "POSTGRESQL" /\ work' = WithRow(work, c, w) /\ UNCHANGED <<users, devices>>
  BY DEF UserCreate, CanCreate
<1>2. Author(c) \in Authors /\ Author(c)[1] \in DOMAIN users /\ ByAdmin(Author(c))
  BY <1>1, AuthorFacts DEF CanAdminister
<1>3. users[Author(c)[1]].root \in UserIds  BY <1>2, OrgFacts DEF UserRecords
<1>4. /\ rec \in UserRecords /\ rec.human = h /\ rec.author = Author(c) /\ rec.revoked = 0
      /\ rec.root = users[Author(c)[1]].root
  BY <1>2, <1>3, NewUserIsARow
<1> HIDE DEF rec
<1>5. UserOK(u, rec)  BY <1>1, <1>2, <1>4 DEF UserOK
<1>6. /\ w \in WorkRows /\ w.user = u /\ w.rec = rec /\ w.kind = "user_create"
  BY <1>4, OrgFacts DEF WorkRows
<1> HIDE DEF w
<1>7. CASE setup.impl = "MEMORY" /\ CanCreate(u, h) /\ StoreUser(u, rec) /\ work' = work
  <2>1. /\ Grows /\ Registered' /\ \A v \in DOMAIN users : users'[v] = users[v]
    BY <1>1, <1>4, <1>5, <1>7, StoreUserKeeps
  <2>2. RootInv'  BY <1>1, <1>7 DEF RootInv
  <2>3. SessionInv'  BY <1>1, <2>1, SessionsStay
  <2>4. WorkIsOK(work')  BY <1>7, WorkFacts
  <2>5. QED  BY <1>1, <2>1, <2>2, <2>3, <2>4, OrgFacts, RegistrationKeeps
<1>8. CASE setup.impl = "POSTGRESQL" /\ work' = WithRow(work, c, w) /\ UNCHANGED <<users, devices>>
  <2>1. rec.root = org.root  BY <1>2, <1>4, <1>8 DEF OrgInv, RootInv
  <2>2. org.root # NoRoot  BY <1>3, <1>4, <2>1, OrgAssumption DEF NoRoot
  <2>3. IsOfRoot(w)  BY <1>6, <2>1, <2>2 DEF IsOfRoot
  <2>4. WorkIsOK(work')  BY <1>4, <1>5, <1>6, <1>8, NewWorkIsOK
  <2>5. RootInv'  BY <1>1, <1>8, <2>3, NewWorkIsOfRoot
  <2>6. SessionInv'  BY <1>1, <1>8, SameRegistryGrows, SessionsStay
  <2>7. QED  BY <1>1, <1>8, <2>4, <2>5, <2>6, OrgFacts, RowsStay
<1>9. QED  BY <1>1, <1>7, <1>8

\* device_create keeps the invariant: its author is a device of the same user.
LEMMA DeviceCreateKeeps ==
  ASSUME OrgInv, NEW c \in Conns, NEW k \in Nat, DeviceCreate(c, k)
  PROVE  OrgInv' /\ Grows
<1> DEFINE u == Author(c)[1]
           own == {x \in DOMAIN devices : x[1] = u}
           d == <<u, Cardinality(own) + 1>>
           line == [author |-> Author(c), created |-> k]
<1>1. /\ CanCommand(c) /\ Cardinality(DOMAIN devices) < MaxDevices
      /\ devices' = WithRow(devices, d, line)
      /\ UNCHANGED <<setup, org, users, conns, work, signals, late, now>>
  BY DEF DeviceCreate
<1>2. Author(c) \in DOMAIN devices /\ Author(c) \in Authors /\ u \in DOMAIN users
  BY <1>1, AuthorFacts
<1>3. Cardinality(own) + 1 \in 1 .. MaxDevices
  <2>1. own \subseteq DOMAIN devices /\ IsFiniteSet(DOMAIN devices)  BY OrgFacts
  <2> HIDE DEF own
  <2>2. IsFiniteSet(own) /\ Cardinality(own) <= Cardinality(DOMAIN devices)  BY <2>1, FS_Subset
  <2>3. Cardinality(own) \in Nat /\ Cardinality(DOMAIN devices) \in Nat
    BY <2>1, <2>2, FS_CardinalityType
  <2>4. QED  BY <1>1, <2>2, <2>3, OrgFacts
<1>4. d \in DeviceIds /\ d[1] = u  BY <1>2, <1>3, OrgFacts DEF DeviceIds
<1>5. line \in DeviceRecords /\ line.author = Author(c)  BY <1>2 DEF DeviceRecords
<1>6. Author(c)[1] = d[1] /\ d[1] \in DOMAIN users  BY <1>2, <1>4
<1>7. PICK e \in DeviceIds : e = d  BY <1>4
<1> HIDE DEF u, own, d, line
<1>8. /\ DOMAIN devices' = DOMAIN devices \cup {e}
      /\ \A x \in DOMAIN devices : devices'[x] = devices[x]
      /\ e \notin DOMAIN devices => devices'[e] = line
      /\ devices' \in [DOMAIN devices' -> DeviceRecords]
  <2>1. devices' \in [DOMAIN devices \cup {e} -> DeviceRecords]
    BY <1>1, <1>5, <1>7, OrgFacts, RowAddedIsTyped
  <2>2. QED  BY <1>1, <1>7, <2>1 DEF WithRow
<1>9. Grows  BY <1>1, <1>8 DEF Grows, SameUser
<1>10. /\ \A v \in DOMAIN users : UserOK(v, users[v])' /\ <<v, 1>> \in DOMAIN devices'
      /\ \A x \in DOMAIN devices : DeviceOK(x, devices[x])' /\ LeadsToRoot(x)'
  BY <1>1, <1>9, OldRowsStay
<1>11. ASSUME e \notin DOMAIN devices PROVE DeviceOK(e, devices[e])' /\ LeadsToRoot(e)'
  <2>1. devices'[e] = line /\ e \in DOMAIN devices'  BY <1>8, <1>11
  <2>2. DeviceOK(e, devices[e])'
    BY <1>1, <1>2, <1>5, <1>6, <1>8, <1>7, <2>1 DEF DeviceOK
  <2>3. LeadsToRoot(e)'  BY <1>2, <1>5, <1>9, <2>1, NewDeviceLeadsToRoot
  <2>4. QED  BY <2>2, <2>3
<1>12. Registered'
  <2>1. IsFiniteSet(DOMAIN devices')  BY <1>8, OrgFacts, FS_AddElement
  <2>2. HumanIsUnique'  BY <1>1 DEF OrgInv, HumanIsUnique, OneUserPerHuman
  <2>3. ChainInv' /\ \A x \in DOMAIN devices' : DeviceOK(x, devices[x])'
    BY <1>8, <1>10, <1>11 DEF ChainInv
  <2>4. DOMAIN devices' \subseteq DeviceIds  BY <1>8, OrgFacts
  <2>5. QED  BY <1>1, <1>8, <1>10, <2>1, <2>2, <2>3, <2>4, OrgFacts, TypesStay DEF Registered
<1>13. WorkIsOK(work') /\ NoNewWork(work')  BY <1>1, WorkFacts
<1>14. RootInv'  BY <1>1, <1>13, RootsStay
<1>15. SessionInv'  BY <1>1, <1>9, SessionsStay
<1>16. QED  BY <1>1, <1>9, <1>12, <1>13, <1>14, <1>15, OrgFacts, RegistrationKeeps

\* user_revoke keeps the invariant: the event for the sessions of the user is under way.
LEMMA UserRevokeKeeps ==
  ASSUME OrgInv, NEW c \in Conns, NEW u, NEW k \in Nat \ {0}, UserRevoke(c, u, k)
  PROVE  OrgInv' /\ Grows /\ u \in RevokedOnes'
<1> DEFINE new == RevokedUser(users[u], Author(c), k)
<1>1. /\ CanAdminister(c) /\ u # Author(c)[1] /\ u \in DOMAIN users /\ users[u].revoked = 0
      /\ users' = [users EXCEPT ![u] = new] /\ signals' = signals \cup {u}
      /\ UNCHANGED <<setup, org, devices, conns, work, late, now>>
  BY DEF UserRevoke, Revoke
<1>2. Author(c) \in DeviceIds /\ ByAdmin(Author(c))  BY <1>1, AuthorFacts DEF CanAdminister
<1>3. users[u] \in UserRecords  BY <1>1, OrgFacts
<1>4. /\ new \in UserRecords /\ new.revoked = k /\ new.revoker = Author(c)
      /\ new.human = users[u].human /\ new.profile = users[u].profile
      /\ new.author = users[u].author /\ new.root = users[u].root
  BY <1>2, <1>3 DEF RevokedUser, UserRecords
<1> HIDE DEF new
<1>5. /\ DOMAIN users' = DOMAIN users /\ users'[u] = new
      /\ \A v \in DOMAIN users : v # u => users'[v] = users[v]
      /\ users' \in [DOMAIN users' -> UserRecords]
  BY <1>1, <1>4, OrgFacts
<1>6. Grows  BY <1>1, <1>4, <1>5 DEF Grows, SameUser
<1>7. /\ \A v \in DOMAIN users : v # u => UserOK(v, users[v])'
      /\ \A x \in DOMAIN devices : DeviceOK(x, devices[x])' /\ LeadsToRoot(x)'
  BY <1>5, <1>6, OldRowsStay
<1>8. UserOK(u, users[u])'
  <2>1. UserOK(u, users[u])  BY <1>1, OrgFacts
  <2>2. PICK rec : rec = new  OBVIOUS
  <2>3. UserOK(u, rec)  BY <1>1, <1>2, <1>4, <2>1, <2>2 DEF UserOK
  <2>4. UserOK(u, rec)'  BY <1>6, <2>3, GrowthKeepsRows
  <2>5. QED  BY <1>5, <2>2, <2>4
<1>9. HumanIsUnique'
  BY <1>1, <1>4, <1>5 DEF OrgInv, HumanIsUnique, OneUserPerHuman
<1>10. Registered'
  <2>1. ChainInv'  BY <1>1, <1>7 DEF ChainInv
  <2>2. \A v \in DOMAIN users' : UserOK(v, users[v])' /\ <<v, 1>> \in DOMAIN devices'
    BY <1>1, <1>5, <1>7, <1>8, OrgFacts
  <2>3. QED  BY <1>1, <1>5, <1>7, <1>9, <2>1, <2>2, OrgFacts, TypesStay DEF Registered
<1>11. u \in RevokedOnes' /\ RevokedOnes \subseteq RevokedOnes'
  BY <1>1, <1>4, <1>5 DEF RevokedOnes
<1>12. WorkIsOK(work') /\ NoNewWork(work')  BY <1>1, WorkFacts
<1>13. RootInv'  BY <1>1, <1>4, <1>5, <1>12 DEF OrgInv, RootInv, NoNewWork
<1>14. SessionInv'
  <2>1. signals' \subseteq RevokedOnes' /\ late' \subseteq {o \in Conns : IsOpen(o)'}
    BY <1>1, <1>11 DEF OrgInv, SessionInv, IsOpen
  <2>2. RevokedSessionsEnd'
    <3>1. SUFFICES ASSUME NEW o \in Conns, conns[o].st = "open", users'[conns[o].dev[1]].revoked # 0
                   PROVE  conns[o].dev[1] \in signals' \/ o \in late
      BY <1>1 DEF RevokedSessionsEnd
    <3>2. conns[o].dev[1] \in DOMAIN users
      BY <3>1, OrgFacts DEF OrgInv, SessionInv, DeviceOK
    <3>3. CASE conns[o].dev[1] = u  BY <1>1, <3>3
    <3>4. CASE conns[o].dev[1] # u
      BY <1>1, <1>5, <3>1, <3>2, <3>4 DEF OrgInv, SessionInv, RevokedSessionsEnd
    <3>5. QED  BY <3>3, <3>4
  <2>3. \A o \in Conns : /\ conns'[o].st \in {"none", "anonymous"} <=> conns'[o].dev = NoDevice
                         /\ conns'[o].dev # NoDevice => conns'[o].dev \in DOMAIN devices'
    BY <1>1 DEF OrgInv, SessionInv
  <2>4. QED  BY <2>1, <2>2, <2>3 DEF SessionInv, IsOpen
<1>15. QED  BY <1>1, <1>6, <1>10, <1>11, <1>12, <1>13, <1>14, OrgFacts, RegistrationKeeps

\* The registry grows and time does not run backwards.
Onward == Grows /\ (now' = now \/ now' = now + 1)

\* A step that stores a user, or none.
LEMMA CreationGrows ==
  ASSUME OrgInv, setup' = setup, NEW u, NEW rec, StoreUser(u, rec) \/ UNCHANGED <<users, devices>>
  PROVE  Grows
<1>1. CASE UNCHANGED <<users, devices>>  BY <1>1, SameRegistryGrows
<1>2. CASE StoreUser(u, rec)  BY <1>2 DEF StoreUser, WithRow, Grows, SameUser
<1>3. QED  BY <1>1, <1>2

\* Every step of the organization keeps its invariant and makes the registry grow.
LEMMA OrgStep ==
  ASSUME OrgInv, OrgNext
  PROVE  OrgInv' /\ Onward
<1>1. MaxNow + ClockSkew \in Nat
  <2>1. MaxNow \in Nat  BY OrgFacts
  <2>2. ClockSkew \in Nat  BY OrgAssumption
  <2>3. QED  BY <2>1, <2>2
<1>2. CASE CreateOrganization \/ SetExpirationDate \/ TimePasses
  BY <1>2, AdministrationKeeps, SameRegistryGrows
     DEF Onward, CreateOrganization, SetExpirationDate, TimePasses
<1>3. CASE ServerRestart  BY <1>3, ServerRestartKeeps, SameRegistryGrows DEF Onward, ServerRestart
<1>4. ASSUME NEW u \in UserIds, UserRevoked(u) PROVE OrgInv' /\ Onward
  BY <1>4, UserRevokedKeeps, SameRegistryGrows DEF Onward, UserRevoked
<1>5. ASSUME NEW c \in Conns, AnonymousAnswer(c) PROVE OrgInv' /\ Onward
  BY <1>5, AnonymousAnswerKeeps, SameRegistryGrows DEF Onward, AnonymousAnswer
<1>6. ASSUME NEW c \in Conns, OpenSession(c) PROVE OrgInv' /\ Onward
  BY <1>6, OpenSessionKeeps, SameRegistryGrows DEF Onward, OpenSession
<1>7. ASSUME NEW c \in Conns, CloseSession(c) PROVE OrgInv' /\ Onward
  BY <1>7, CloseSessionKeeps, SameRegistryGrows DEF Onward, CloseSession
<1>8. ASSUME NEW c \in Conns, BootstrapEnd(c) PROVE OrgInv' /\ Onward
  BY <1>8, BootstrapEndKeeps, SameRegistryGrows DEF Onward, BootstrapEnd
<1>9. ASSUME NEW c \in Conns, BootstrapCommit(c) PROVE OrgInv' /\ Onward
  <2>1. /\ setup' = setup /\ now' = now
        /\ StoreUser(work[c].user, work[c].rec) \/ UNCHANGED <<users, devices>>
    BY <1>9 DEF BootstrapCommit, RollbackCreation
  <2>2. QED  BY <1>9, <2>1, CreationGrows, BootstrapCommitKeeps DEF Onward
<1>10. ASSUME NEW c \in Conns, CountUsers(c) PROVE OrgInv' /\ Onward
  BY <1>10, CountUsersKeeps, SameRegistryGrows DEF Onward, CountUsers, RollbackCreation
<1>11. ASSUME NEW c \in Conns, CommitUser(c) PROVE OrgInv' /\ Onward
  BY <1>11, CreationGrows, CommitUserKeeps DEF Onward, CommitUser
<1>12. ASSUME NEW c \in Conns, NEW d \in DeviceIds, AuthenticatedAnswer(c, d)
       PROVE  OrgInv' /\ Onward
  BY <1>12, AuthenticatedAnswerKeeps, SameRegistryGrows DEF Onward, AuthenticatedAnswer
<1>13. ASSUME NEW c \in Conns, NEW k \in 1 .. MaxNow + ClockSkew, DeviceCreate(c, k)
       PROVE  OrgInv' /\ Onward
  <2>1. k \in Nat /\ now' = now  BY <1>1, <1>13 DEF DeviceCreate
  <2>2. QED  BY <1>13, <2>1, DeviceCreateKeeps DEF Onward
<1>14. ASSUME NEW c \in Conns, NEW k \in 1 .. MaxNow + ClockSkew, NEW u, UserRevoke(c, u, k)
       PROVE  OrgInv' /\ Onward
  <2>1. k \in Nat \ {0} /\ now' = now  BY <1>1, <1>14 DEF UserRevoke
  <2>2. QED  BY <1>14, <2>1, UserRevokeKeeps DEF Onward
<1>15. ASSUME NEW c \in Conns, NEW k \in 1 .. MaxNow + ClockSkew, NEW u \in UserIds,
              NEW h \in Humans, NEW t, BootstrapStart(c, u, h, t, k)
       PROVE  OrgInv' /\ Onward
  <2>1. k \in Nat \ {0}  BY <1>1
  <2>2. PICK rec : /\ setup' = setup /\ now' = now
                   /\ StoreUser(u, rec) \/ UNCHANGED <<users, devices>>
    BY <1>15 DEF BootstrapStart
  <2>3. QED  BY <1>15, <2>1, <2>2, CreationGrows, BootstrapStartKeeps DEF Onward
<1>16. ASSUME NEW c \in Conns, NEW k \in 1 .. MaxNow + ClockSkew, NEW u \in UserIds,
              NEW h \in Humans, NEW p \in Profiles, UserCreate(c, u, h, p, k)
       PROVE  OrgInv' /\ Onward
  <2>1. k \in Nat \ {0}  BY <1>1
  <2>2. PICK rec : /\ setup' = setup /\ now' = now
                   /\ StoreUser(u, rec) \/ UNCHANGED <<users, devices>>
    BY <1>16 DEF UserCreate
  <2>3. QED  BY <1>16, <2>1, <2>2, CreationGrows, UserCreateKeeps DEF Onward
<1>17. QED
  BY <1>2, <1>3, <1>4, <1>5, <1>6, <1>7, <1>8, <1>9, <1>10, <1>11, <1>12, <1>13, <1>14, <1>15,
     <1>16 DEF OrgNext

-----------------------------------------------------------------------------
(* The client *)

\* Dates of certificates, seen in a larger table.
LEMMA StampsGrow ==
  ASSUME NEW f, NEW S, NEW T, Stamps(f, S), S \subseteq T
  PROVE  Stamps(f, T)
BY DEF Stamps

\* What the client has stays known to the server when the registry grows.
LEMMA GrowthKeepsKnown ==
  ASSUME Grows
  PROVE  /\ DOMAIN users \subseteq DOMAIN users' /\ DOMAIN devices \subseteq DOMAIN devices'
         /\ RevokedOnes \subseteq RevokedOnes'
         /\ \A cache : CacheOK(cache) => CacheOK(cache)'
         /\ \A a : AnswerOK(a) => AnswerOK(a)'
<1>1. /\ DOMAIN users \subseteq DOMAIN users' /\ DOMAIN devices \subseteq DOMAIN devices'
      /\ RevokedOnes \subseteq RevokedOnes'
  BY DEF Grows, SameUser, RevokedOnes
<1>2. \A cache : CacheOK(cache) => CacheOK(cache)'  BY <1>1, StampsGrow DEF CacheOK, Stamps
<1>3. \A a : AnswerOK(a) => AnswerOK(a)'  BY <1>1 DEF AnswerOK
<1>4. QED  BY <1>1, <1>2, <1>3

\* The steps of others leave what the client has as good as it was.
LEMMA ServerStepKeepsClient ==
  ASSUME TrustInv, Grows, OrgInv', now' \in Nat, now' >= now, UNCHANGED <<client, fetches>>
  PROVE  TrustInv'
<1>1. setup' = setup /\ now \in Nat  BY OrgFacts DEF TrustInv, Grows
<1>2. ClientTyped'  BY <1>1 DEF TrustInv, ClientTyped, MaxFetches
<1>3. KnownInv'
  <2>1. PICK cache, a : cache = client.cache /\ a = client.answer  OBVIOUS
  <2>2. CacheOK(cache)' /\ AnswerOK(a)'  BY <2>1, GrowthKeepsKnown DEF TrustInv, KnownInv
  <2>3. QED  BY <2>1, <2>2, GrowthKeepsKnown DEF TrustInv, KnownInv
<1>4. NotedInv'
  <2>1. SUFFICES ASSUME NEW u \in client.mine \ client.raced PROVE Noted(u)'
    BY DEF NotedInv
  <2>2. Noted(u)  BY <2>1 DEF TrustInv, NotedInv
  <2>3. ASSUME u \in DOMAIN client.cache.revoked, IsFresh(client.cache.revoked[u])'
        PROVE  IsFresh(client.cache.revoked[u])
    <3>1. client.cache.revoked[u] \in Nat  BY <2>3 DEF TrustInv, KnownInv, CacheOK, Stamps
    <3>2. PICK t \in Nat : t = client.cache.revoked[u]  BY <3>1
    <3>3. now' - t < CacheValidity  BY <2>3, <3>2 DEF IsFresh
    <3>4. now - t < CacheValidity  BY <1>1, <3>2, <3>3, TrustAssumption
    <3>5. QED  BY <3>2, <3>4 DEF IsFresh
  <2>4. QED  BY <2>2, <2>3 DEF Noted, Together
<1>5. QED  BY <1>2, <1>3, <1>4 DEF TrustInv

\* The steps of the client that send nothing leave the organization as it is.
LEMMA OrgInvStays ==
  ASSUME OrgInv, UNCHANGED orgVars
  PROVE  OrgInv'
<1>1. UNCHANGED <<setup, org, users, devices, conns, work, signals, late, now>>  BY DEF orgVars
<1>2. WorkIsOK(work') /\ NoNewWork(work')  BY <1>1, WorkFacts
<1>3. RootInv' /\ SessionInv'  BY <1>1, <1>2, RootsStay, SameRegistryGrows, SessionsStay
<1>4. QED  BY <1>1, <1>2, <1>3, OrgFacts, RowsStay

\* The login of the client keeps the invariant.
LEMMA LogInKeeps ==
  ASSUME TrustInv, NEW c \in Conns, LogIn(c)
  PROVE  TrustInv'
<1>1. /\ UNCHANGED orgVars /\ fetches' = fetches /\ conns[c].st = "open"
      /\ client' = [client EXCEPT !.me = {conns[c].dev[1]}]
  BY DEF LogIn
<1>2. UNCHANGED <<setup, users, devices, now>>  BY <1>1 DEF orgVars
<1>3. OrgInv'  BY <1>1, OrgInvStays DEF TrustInv
<1>4. conns[c].dev[1] \in DOMAIN users
  BY <1>1, OrgFacts DEF TrustInv, OrgInv, SessionInv, DeviceOK
<1>5. /\ client' = [me |-> {conns[c].dev[1]}, cache |-> client.cache, answer |-> client.answer,
                    revoking |-> client.revoking, mine |-> client.mine, raced |-> client.raced]
  BY <1>1 DEF TrustInv, ClientTyped
<1>6. /\ client'.me = {conns[c].dev[1]} /\ client'.cache = client.cache
      /\ client'.answer = client.answer /\ client'.revoking = client.revoking
      /\ client'.mine = client.mine /\ client'.raced = client.raced
  BY <1>5
<1>7. ClientTyped'  BY <1>1, <1>2, <1>5, <1>6 DEF TrustInv, ClientTyped, MaxFetches
<1>8. KnownInv'
  BY <1>2, <1>4, <1>6 DEF TrustInv, KnownInv, CacheOK, AnswerOK, RevokedOnes
<1>9. NotedInv'
  BY <1>2, <1>6 DEF TrustInv, NotedInv, Noted, Together, IsFresh
<1>10. QED  BY <1>3, <1>7, <1>8, <1>9 DEF TrustInv

\* A new answer has the revocation of each user it has, if there is one.
LEMMA FetchUserKeeps ==
  ASSUME TrustInv, NEW c \in Conns, NEW u, FetchUser(c, u)
  PROVE  TrustInv'
<1>1. /\ UNCHANGED orgVars /\ fetches < MaxFetches /\ fetches' = fetches + 1 /\ u \in DOMAIN users
      /\ client' = [client EXCEPT !.answer = UserGet(u)]
  BY DEF FetchUser
<1>2. UNCHANGED <<setup, users, devices, now>>  BY <1>1 DEF orgVars
<1>3. OrgInv /\ OrgInv'  BY <1>1, OrgInvStays DEF TrustInv
<1>4. PICK a : a = UserGet(u)  OBVIOUS
<1>5. /\ a.devices \subseteq DOMAIN devices /\ a.users \subseteq DOMAIN users
      /\ a.revoked = {v \in a.users : users[v].revoked # 0}
  BY <1>1, <1>3, <1>4, AnswerFacts
<1>6. a = [user |-> a.user, users |-> a.users, revoked |-> a.revoked, devices |-> a.devices]
  BY <1>4 DEF UserGet
<1>7. client' = [me |-> client.me, cache |-> client.cache, answer |-> a,
                 revoking |-> client.revoking, mine |-> client.mine, raced |-> client.raced]
  BY <1>1, <1>4 DEF TrustInv, ClientTyped
<1>8. /\ client'.me = client.me /\ client'.cache = client.cache
      /\ client'.answer = a /\ client'.revoking = client.revoking
      /\ client'.mine = client.mine /\ client'.raced = client.raced
  BY <1>7
<1>9. ClientTyped'
  <2>1. MaxFetches \in Nat /\ MaxFetches' = MaxFetches
    BY <1>2, <1>3, TrustAssumption, OrgFacts DEF MaxFetches
  <2>2. fetches \in 0 .. MaxFetches  BY DEF TrustInv, ClientTyped
  <2>3. fetches' \in 0 .. MaxFetches'  BY <1>1, <2>1, <2>2
  <2>4. QED  BY <1>6, <1>7, <1>8, <2>3 DEF TrustInv, ClientTyped
<1>10. KnownInv'
  <2>1. AnswerOK(a)'  BY <1>2, <1>5 DEF AnswerOK, RevokedOnes
  <2>2. QED  BY <1>2, <1>8, <2>1 DEF TrustInv, KnownInv, CacheOK, RevokedOnes
<1>11. NotedInv'
  <2>1. SUFFICES ASSUME NEW v \in client.mine \ client.raced PROVE Noted(v)'
    BY <1>8 DEF NotedInv
  <2>2. v \in RevokedOnes  BY <2>1 DEF TrustInv, KnownInv
  <2>3. v \in a.users => v \in a.revoked  BY <1>5, <2>2 DEF RevokedOnes
  <2>4. Together(v, client.cache)  BY <2>1 DEF TrustInv, NotedInv, Noted
  <2>5. QED  BY <1>2, <1>8, <2>3, <2>4 DEF Noted, Together, IsFresh
<1>12. QED  BY <1>3, <1>9, <1>10, <1>11 DEF TrustInv

\* What expires leaves, the rest stays.
LEMMA ExpireFacts ==
  ASSUME NEW cache
  PROVE  LET e == Expire(cache)
         IN  /\ DOMAIN e.users = {y \in DOMAIN cache.users : IsFresh(cache.users[y])}
             /\ DOMAIN e.revoked = {y \in DOMAIN cache.revoked : IsFresh(cache.revoked[y])}
             /\ \A x \in DOMAIN e.users : e.users[x] = cache.users[x]
             /\ \A x \in DOMAIN e.revoked : e.revoked[x] = cache.revoked[x]
BY DEF Expire, IsFresh

\* A cache that expires is still of what the server has.
LEMMA ExpireKeepsStamps ==
  ASSUME OrgInv, NEW cache, CacheOK(cache)
  PROVE  CacheOK(Expire(cache))
<1> DEFINE Fresh(f) == [x \in {y \in DOMAIN f : now - f[y] < CacheValidity} |-> f[x]]
<1>1. \A f, S : Stamps(f, S) => Stamps(Fresh(f), S)  BY DEF Stamps
<1>2. /\ Expire(cache).users = Fresh(cache.users) /\ Expire(cache).revoked = Fresh(cache.revoked)
      /\ Expire(cache).devices = Fresh(cache.devices)
  BY DEF Expire
<1> HIDE DEF Fresh
<1>3. QED  BY <1>1, <1>2 DEF CacheOK

\* So is one that remembers more.
LEMMA RememberKeepsStamps ==
  ASSUME OrgInv, NEW f, NEW S, NEW T, Stamps(f, T), S \subseteq T
  PROVE  Stamps(Remember(f, S), T)
<1>1. now \in Nat  BY OrgFacts
<1>2. QED  BY <1>1 DEF Stamps, Remember

\* So is one that loads an answer.
LEMMA LoadedIsOK ==
  ASSUME OrgInv, NEW a, AnswerOK(a), NEW cache, CacheOK(cache), NEW root
  PROVE  CacheOK(Loaded(a, cache, root))
<1> DEFINE new == Unverified(a, cache)
<1>1. /\ new.users \subseteq a.users /\ new.revoked \subseteq a.revoked
      /\ new.devices \subseteq a.devices
  BY DEF Unverified
<1>2. CASE Loaded(a, cache, root) = cache  BY <1>2
<1>3. CASE Loaded(a, cache, root) = [users |-> Remember(cache.users, new.users),
                                     revoked |-> Remember(cache.revoked, new.revoked),
                                     devices |-> Remember(cache.devices, new.devices)]
  <2> HIDE DEF new
  <2>1. /\ Loaded(a, cache, root).users = Remember(cache.users, new.users)
        /\ Loaded(a, cache, root).revoked = Remember(cache.revoked, new.revoked)
        /\ Loaded(a, cache, root).devices = Remember(cache.devices, new.devices)
    BY <1>3
  <2>2. /\ Stamps(Remember(cache.users, new.users), DOMAIN users)
        /\ Stamps(Remember(cache.revoked, new.revoked), RevokedOnes)
        /\ Stamps(Remember(cache.devices, new.devices), DOMAIN devices)
    BY <1>1, RememberKeepsStamps DEF CacheOK, AnswerOK
  <2>3. QED  BY <2>1, <2>2 DEF CacheOK
<1>4. QED  BY <1>2, <1>3 DEF Loaded

\* Two certificates that came together expire together, and new ones come together.
LEMMA TogetherExpires ==
  ASSUME NEW u, NEW cache, Together(u, cache)
  PROVE  LET e == Expire(cache)
         IN  /\ u \in DOMAIN e.users <=> u \in DOMAIN e.revoked
             /\ u \in DOMAIN e.users => e.users[u] = e.revoked[u]
<1> DEFINE e == Expire(cache)
<1>1. /\ DOMAIN e.users = {y \in DOMAIN cache.users : IsFresh(cache.users[y])}
      /\ DOMAIN e.revoked = {y \in DOMAIN cache.revoked : IsFresh(cache.revoked[y])}
      /\ \A x \in DOMAIN e.users : e.users[x] = cache.users[x]
      /\ \A x \in DOMAIN e.revoked : e.revoked[x] = cache.revoked[x]
  BY ExpireFacts
<1> HIDE DEF e
<1>2. u \in DOMAIN e.users => u \in DOMAIN e.revoked /\ e.users[u] = e.revoked[u]
  BY <1>1 DEF Together
<1>3. u \in DOMAIN e.revoked => u \in DOMAIN e.users  BY <1>1 DEF Together
<1>4. QED  BY <1>2, <1>3 DEF e

\* Certificates that came together are loaded together.
LEMMA LoadedTogether ==
  ASSUME NEW u, NEW cache, NEW a, NEW root, u \in a.users <=> u \in a.revoked,
         u \in DOMAIN cache.users <=> u \in DOMAIN cache.revoked,
         u \in DOMAIN cache.users => cache.users[u] = cache.revoked[u]
  PROVE  Together(u, Loaded(a, cache, root))
<1> DEFINE new == Unverified(a, cache)
<1>1. new.users = a.users \ DOMAIN cache.users /\ new.revoked = a.revoked \ DOMAIN cache.revoked
  BY DEF Unverified
<1>2. CASE Loaded(a, cache, root) = cache  BY <1>2 DEF Together
<1>3. CASE Loaded(a, cache, root) = [users |-> Remember(cache.users, new.users),
                                     revoked |-> Remember(cache.revoked, new.revoked),
                                     devices |-> Remember(cache.devices, new.devices)]
  <2> HIDE DEF new
  <2>1. PICK l : l = Loaded(a, cache, root)  OBVIOUS
  <2>2. /\ l.users = Remember(cache.users, new.users)
        /\ l.revoked = Remember(cache.revoked, new.revoked)
    BY <1>3, <2>1
  <2>3. /\ u \in DOMAIN l.users <=> u \in DOMAIN l.revoked
        /\ u \in DOMAIN l.users => l.users[u] = l.revoked[u]
    BY <1>1, <2>2 DEF Remember
  <2>4. QED  BY <2>1, <2>3 DEF Together
<1>4. QED  BY <1>2, <1>3 DEF Loaded

\* The loading of an answer keeps the invariant, verified or not.
LEMMA LoadAnswerKeeps ==
  ASSUME TrustInv, LoadAnswer
  PROVE  TrustInv'
<1>1. PICK me \in client.me :
        client' = [client EXCEPT !.answer = NoAnswer,
                     !.cache = Loaded(client.answer, Expire(client.cache), users[me].root)]
  BY DEF LoadAnswer
<1>2. UNCHANGED orgVars /\ fetches' = fetches  BY DEF LoadAnswer
<1>3. UNCHANGED <<setup, users, devices, now>>  BY <1>2 DEF orgVars
<1>4. OrgInv /\ OrgInv'  BY <1>2, OrgInvStays DEF TrustInv
<1>5. PICK e, l : e = Expire(client.cache) /\ l = Loaded(client.answer, e, users[me].root)  OBVIOUS
<1>6. client' = [me |-> client.me, cache |-> l, answer |-> NoAnswer,
                 revoking |-> client.revoking, mine |-> client.mine, raced |-> client.raced]
  BY <1>1, <1>5 DEF TrustInv, ClientTyped
<1>7. /\ client'.me = client.me /\ client'.cache = l
      /\ client'.answer = NoAnswer /\ client'.revoking = client.revoking
      /\ client'.mine = client.mine /\ client'.raced = client.raced
  BY <1>6
<1>8. ClientTyped'
  <2>1. l = [users |-> l.users, revoked |-> l.revoked, devices |-> l.devices]
    BY <1>5 DEF Loaded, Expire
  <2>2. NoAnswer = [user |-> NoAnswer.user, users |-> NoAnswer.users,
                    revoked |-> NoAnswer.revoked, devices |-> NoAnswer.devices]
    BY DEF NoAnswer
  <2>3. QED  BY <1>2, <1>3, <1>6, <1>7, <2>1, <2>2 DEF TrustInv, ClientTyped, MaxFetches
<1>9. KnownInv'
  <2>1. CacheOK(e)  BY <1>4, <1>5, ExpireKeepsStamps DEF TrustInv, KnownInv
  <2>2. CacheOK(l)  BY <1>4, <1>5, <2>1, LoadedIsOK DEF TrustInv, KnownInv
  <2>3. AnswerOK(NoAnswer)  BY DEF AnswerOK, NoAnswer
  <2>4. QED
    BY <1>3, <1>7, <2>2, <2>3 DEF TrustInv, KnownInv, CacheOK, AnswerOK, RevokedOnes
<1>10. NotedInv'
  <2>1. SUFFICES ASSUME NEW v \in client.mine \ client.raced PROVE Noted(v)'
    BY <1>7 DEF NotedInv
  <2>2. Together(v, client.cache) /\ (v \in client.answer.users <=> v \in client.answer.revoked)
    BY <2>1 DEF TrustInv, NotedInv, Noted, KnownInv, AnswerOK
  <2>3. /\ v \in DOMAIN e.users <=> v \in DOMAIN e.revoked
        /\ v \in DOMAIN e.users => e.users[v] = e.revoked[v]
    BY <1>5, <2>2, TogetherExpires
  <2>4. Together(v, l)  BY <1>5, <2>2, <2>3, LoadedTogether
  <2>5. v \notin NoAnswer.users  BY DEF NoAnswer
  <2>6. QED  BY <1>3, <1>7, <2>4, <2>5 DEF Noted, Together, IsFresh
<1>11. QED  BY <1>4, <1>8, <1>9, <1>10 DEF TrustInv

\* A revocation by the client keeps the invariant.
LEMMA ClientRevokeKeeps ==
  ASSUME TrustInv, NEW c \in Conns, NEW u, NEW k \in 1 .. MaxNow + ClockSkew, ClientRevoke(c, u, k)
  PROVE  TrustInv'
<1>1. /\ UserRevoke(c, u, k) /\ fetches' = fetches /\ client' = [client EXCEPT !.revoking = {u}]
  BY DEF ClientRevoke
<1>2. OrgInv  BY DEF TrustInv
<1>3. k \in Nat \ {0}
  <2>1. MaxNow \in Nat  BY <1>2, OrgFacts
  <2>2. ClockSkew \in Nat  BY OrgAssumption
  <2>3. QED  BY <2>1, <2>2
<1>4. OrgInv' /\ Grows /\ u \in RevokedOnes'  BY <1>1, <1>2, <1>3, UserRevokeKeeps
<1>5. now' = now /\ setup' = setup  BY <1>1 DEF UserRevoke
<1>6. client' = [me |-> client.me, cache |-> client.cache, answer |-> client.answer,
                 revoking |-> {u}, mine |-> client.mine, raced |-> client.raced]
  BY <1>1 DEF TrustInv, ClientTyped
<1>7. /\ client'.me = client.me /\ client'.cache = client.cache
      /\ client'.answer = client.answer /\ client'.revoking = {u}
      /\ client'.mine = client.mine /\ client'.raced = client.raced
  BY <1>6
<1>8. ClientTyped'  BY <1>1, <1>5, <1>6, <1>7 DEF TrustInv, ClientTyped, MaxFetches
<1>9. KnownInv'
  <2>1. PICK cache, a : cache = client.cache /\ a = client.answer  OBVIOUS
  <2>2. CacheOK(cache)' /\ AnswerOK(a)'  BY <1>4, <2>1, GrowthKeepsKnown DEF TrustInv, KnownInv
  <2>3. QED  BY <1>4, <1>7, <2>1, <2>2, GrowthKeepsKnown DEF TrustInv, KnownInv
<1>10. NotedInv'
  BY <1>5, <1>7 DEF TrustInv, NotedInv, Noted, Together, IsFresh
<1>11. QED  BY <1>4, <1>8, <1>9, <1>10 DEF TrustInv

\* Once its answer is noted the user is not in the cache, and the revocation neither, or it raced.
LEMMA RevokeAnsweredKeeps ==
  ASSUME TrustInv, RevokeAnswered
  PROVE  TrustInv'
<1>1. PICK u \in client.revoking :
        client' = [client EXCEPT !.revoking = {}, !.mine = @ \cup {u},
                     !.cache = InvalidateUserCache(@, u),
                     !.raced = IF \/ u \in client.answer.users \ client.answer.revoked
                                  \/ u \in DOMAIN Expire(client.cache).revoked
                                 THEN @ \cup {u} ELSE @]
  BY DEF RevokeAnswered
<1>2. UNCHANGED orgVars /\ fetches' = fetches  BY DEF RevokeAnswered
<1>3. UNCHANGED <<setup, users, devices, now>>  BY <1>2 DEF orgVars
<1>4. OrgInv /\ OrgInv'  BY <1>2, OrgInvStays DEF TrustInv
<1>5. PICK l, raced :
        /\ l = InvalidateUserCache(client.cache, u)
        /\ raced = IF \/ u \in client.answer.users \ client.answer.revoked
                      \/ u \in DOMAIN Expire(client.cache).revoked
                     THEN client.raced \cup {u} ELSE client.raced
  OBVIOUS
<1>6. client' = [me |-> client.me, cache |-> l, answer |-> client.answer,
                 revoking |-> {}, mine |-> client.mine \cup {u}, raced |-> raced]
  BY <1>1, <1>5 DEF TrustInv, ClientTyped
<1>7. /\ client'.me = client.me /\ client'.cache = l
      /\ client'.answer = client.answer /\ client'.revoking = {}
      /\ client'.mine = client.mine \cup {u} /\ client'.raced = raced
  BY <1>6
<1>8. /\ l.users = Drop(client.cache.users, {u}) /\ l.revoked = client.cache.revoked
      /\ l.devices = client.cache.devices
      /\ l = [users |-> l.users, revoked |-> l.revoked, devices |-> l.devices]
  BY <1>5 DEF InvalidateUserCache, TrustInv, ClientTyped
<1>9. ClientTyped'  BY <1>2, <1>3, <1>6, <1>7, <1>8 DEF TrustInv, ClientTyped, MaxFetches
<1>10. KnownInv'
  <2>1. CacheOK(l)  BY <1>8 DEF TrustInv, KnownInv, CacheOK, Stamps, Drop
  <2>2. u \in RevokedOnes /\ raced \subseteq RevokedOnes  BY <1>1, <1>5 DEF TrustInv, KnownInv
  <2>3. QED  BY <1>3, <1>7, <2>1, <2>2 DEF TrustInv, KnownInv, CacheOK, AnswerOK, RevokedOnes
<1>11. NotedInv'
  <2>1. SUFFICES ASSUME NEW v \in (client.mine \cup {u}) \ raced PROVE Noted(v)'
    BY <1>7 DEF NotedInv
  <2>2. DOMAIN l.users = DOMAIN client.cache.users \ {u}
        /\ \A x \in DOMAIN l.users : l.users[x] = client.cache.users[x]
    BY <1>8 DEF Drop
  <2>3. CASE v = u
    <3>1. /\ u \in client.answer.users => u \in client.answer.revoked
          /\ u \notin DOMAIN Expire(client.cache).revoked
      BY <1>5, <2>1, <2>3
    <3>2. u \in DOMAIN l.revoked => ~ IsFresh(l.revoked[u])  BY <1>8, <3>1, ExpireFacts
    <3>3. Together(v, l)  BY <2>2, <2>3, <3>2 DEF Together
    <3>4. QED  BY <1>3, <1>7, <2>3, <3>1, <3>3 DEF Noted, Together, IsFresh
  <2>4. CASE v # u
    <3>1. v \in client.mine \ client.raced  BY <1>5, <2>1, <2>4
    <3>2. Noted(v)  BY <3>1 DEF TrustInv, NotedInv
    <3>3. Together(v, l)  BY <1>8, <2>2, <2>4, <3>2 DEF Noted, Together
    <3>4. QED  BY <1>3, <1>7, <3>2, <3>3 DEF Noted, Together, IsFresh
  <2>5. QED  BY <2>3, <2>4
<1>12. QED  BY <1>4, <1>9, <1>10, <1>11 DEF TrustInv

-----------------------------------------------------------------------------

\* Every step keeps the invariant.
LEMMA TrustStep ==
  ASSUME TrustInv, [TrustNext]_trustVars
  PROVE  TrustInv'
<1>1. CASE OrgNext /\ UNCHANGED <<client, fetches>>
  <2>1. OrgInv /\ OrgInv' /\ Onward  BY <1>1, OrgStep DEF TrustInv
  <2>2. now \in Nat  BY <2>1, OrgFacts
  <2>3. Grows /\ now' \in Nat /\ now' >= now  BY <2>1, <2>2 DEF Onward
  <2>4. QED  BY <1>1, <2>1, <2>3, ServerStepKeepsClient
<1>2. CASE LoadAnswer  BY <1>2, LoadAnswerKeeps
<1>3. CASE RevokeAnswered  BY <1>3, RevokeAnsweredKeeps
<1>4. ASSUME NEW c \in Conns, LogIn(c) PROVE TrustInv'  BY <1>4, LogInKeeps
<1>5. ASSUME NEW c \in Conns, NEW u \in UserIds, FetchUser(c, u) PROVE TrustInv'
  BY <1>5, FetchUserKeeps
<1>6. ASSUME NEW c \in Conns, NEW u \in UserIds, NEW k \in 1 .. MaxNow + ClockSkew,
             ClientRevoke(c, u, k)
      PROVE  TrustInv'
  BY <1>6, ClientRevokeKeeps
<1>7. CASE UNCHANGED trustVars
  <2>1. UNCHANGED orgVars /\ UNCHANGED <<client, fetches>>  BY <1>7 DEF trustVars
  <2>2. OrgInv' /\ now' = now /\ Grows
    BY <2>1, OrgInvStays, SameRegistryGrows DEF TrustInv, orgVars
  <2>3. now \in Nat  BY OrgFacts DEF TrustInv
  <2>4. QED  BY <2>1, <2>2, <2>3, ServerStepKeepsClient
<1>8. QED  BY <1>1, <1>2, <1>3, <1>4, <1>5, <1>6, <1>7 DEF TrustNext

\* The invariant holds at the start.
LEMMA TrustStarts ==
  ASSUME TrustInit
  PROVE  TrustInv
<1>1. /\ setup \in Setups /\ users = NoneYet /\ devices = NoneYet /\ work = NoneYet
      /\ conns = [c \in Conns |-> Idle] /\ signals = {} /\ late = {} /\ now = 1
      /\ org = [created |-> FALSE, token |-> SpontaneousToken, issued |-> 0,
                root |-> NoRoot, expired |-> FALSE]
  BY DEF TrustInit, OrgInit
<1>2. DOMAIN NoneYet = {}  BY DEF NoneYet
<1>3. OrgTyped
  <2>1. MaxTokens \in Nat /\ MaxNow \in Nat \ {0}  BY <1>1, OrgAssumption DEF MaxTokens, MaxNow
  <2>2. org \in OrgRows  BY <1>1, <2>1 DEF OrgRows, SpontaneousToken
  <2>3. now \in 1 .. MaxNow  BY <1>1, <2>1
  <2>4. conns \in [Conns -> ConnRows]  BY <1>1, IdleIsARow
  <2>5. \A S : NoneYet \in [{} -> S]  BY DEF NoneYet
  <2>6. IsFiniteSet({})  BY FS_EmptySet
  <2>7. QED  BY <1>1, <1>2, <2>2, <2>3, <2>4, <2>5, <2>6 DEF OrgTyped
<1>4. RegistryInv /\ ChainInv /\ RootInv /\ HumanIsUnique
  BY <1>1, <1>2 DEF RegistryInv, ChainInv, RootInv, HumanIsUnique, OneUserPerHuman
<1>5. SessionInv
  BY <1>1 DEF SessionInv, Idle, RevokedSessionsEnd
<1>6. /\ client = [me |-> {}, cache |-> EmptyCache, answer |-> NoAnswer,
                   revoking |-> {}, mine |-> {}, raced |-> {}]
      /\ fetches = 0
  BY DEF TrustInit
<1>7. ClientTyped
  <2>1. MaxFetches \in Nat  BY <1>1, TrustAssumption DEF MaxFetches
  <2>2. QED  BY <1>6, <2>1 DEF ClientTyped, EmptyCache, NoAnswer
<1>8. KnownInv
  <2>1. \A S : Stamps(NoneYet, S)  BY <1>2 DEF Stamps, NoneYet
  <2>2. CacheOK(client.cache)  BY <1>6, <2>1 DEF CacheOK, EmptyCache
  <2>3. QED  BY <1>6, <2>2 DEF KnownInv, AnswerOK, NoAnswer
<1>9. NotedInv  BY <1>6 DEF NotedInv
<1>10. QED  BY <1>3, <1>4, <1>5, <1>7, <1>8, <1>9 DEF TrustInv, OrgInv

\* The invariant makes the trust sound.
LEMMA TrustInvIsSound ==
  ASSUME TrustInv
  PROVE  TrustIsSound
<1>1. OrgInv  BY DEF TrustInv
<1>2. OrgTypeOK
  BY <1>1, OrgFacts DEF OrgTypeOK, OrgInv, SessionInv, OrgRows, DeviceOK, RevokedOnes, IsOpen
<1>3. RootIsUnique /\ HumanIsUnique /\ RevokedSessionsEnd
  BY <1>1 DEF OrgInv, RootInv, RootIsUnique, SessionInv
<1>4. TrustTypeOK
  BY DEF TrustInv, KnownInv, CacheOK, Stamps, AnswerOK, ClientTyped, TrustTypeOK, RevokedOnes
<1>5. AnswersAreComplete  BY <1>1, AnswersAreAlwaysComplete
<1>6. OwnRevocationsShow
  BY TogetherExpires DEF OwnRevocationsShow, TrustInv, NotedInv, Noted
<1>7. QED  BY <1>2, <1>3, <1>4, <1>5, <1>6 DEF TrustIsSound

\* Who is trusted, for any users, humans, connections, clocks and validity of the cache, with both
\* implementations of the server (user.py, organization.py, handshake.py, trustchain.py):
\* whatever bootstraps, creations, revocations, restarts and commands of the client
\* interleave, PostgreSQL registers nobody under a second root key, the server in memory no
\* second active user of a human, a session of a revoked user is about to be cancelled unless
\* it opened after the event, every answer of user_get has all the certificates up to the
\* root key with no loop of signatures, and a client shows the revocations it made itself.
THEOREM TrustStaysSound == TrustSpec => []TrustIsSound
<1>1. TrustInit => TrustInv  BY TrustStarts
<1>2. TrustInv /\ [TrustNext]_trustVars => TrustInv'  BY TrustStep
<1>3. TrustInv => TrustIsSound  BY TrustInvIsSound
<1>4. QED  BY <1>1, <1>2, <1>3, PTL DEF TrustSpec

-----------------------------------------------------------------------------
(* The invitations of the servers: the inductive invariant *)

InviteRows ==
  [greeter : {deployment.greeterOf[s] : s \in DOMAIN deployment.greeterOf},
   target : deployment.targets, deleted : BOOLEAN]
StatusEvents == [token : Nat, status : {"IDLE", "READY", "DELETED"}]
ClaimerStates == {"away", "accepted", "joining", "listening", "leaving", "gone"}
ClaimerRows == [pc : ClaimerStates, at : Backends \cup {""}, token : Nat, late : BOOLEAN]
PendingRows ==
  {Nothing} \cup [pc : {"found"}, target : deployment.targets, at : Backends, found : SUBSET Nat]

InvitesTyped ==
  /\ deployment \in InviteSetups /\ DOMAIN pending = DOMAIN deployment.greeterOf
  /\ invitations \in Seq(InviteRows) /\ members \subseteq deployment.targets \ {Device}
  /\ pending \in [DOMAIN pending -> PendingRows] /\ upBackends \subseteq Backends
  /\ claimersReady \in [Backends -> SUBSET Tokens] /\ wire \in [Backends -> Seq(StatusEvents)]
  /\ claimer \in [Claimers -> ClaimerRows]

\* A process that is down has nothing; who is connected is so to one that is up; tokens exist.
IsConnected(c) == claimer[c].pc \notin {"away", "gone"}
ConnectedInv ==
  /\ \A b \in Backends \ upBackends : wire[b] = <<>> /\ claimersReady[b] = {}
  /\ \A c \in Claimers : IsConnected(c) => claimer[c].at \in upBackends /\ claimer[c].token \in Tokens
  /\ \A b \in Backends : \A i \in DOMAIN wire[b] : wire[b][i].token \in Tokens

\* The only session of a greeter, which found no invitation, is about to add the first one.
Sole(g) == Cardinality({s \in DOMAIN pending : deployment.greeterOf[s] = g}) = 1
FoundNone(s) == pending[s] # Nothing /\ pending[s].found = {}
PendingInv ==
  \A s \in DOMAIN pending :
    /\ pending[s] # Nothing => deployment.impl = "POSTGRESQL" /\ pending[s].found \subseteq Tokens
    /\ FoundNone(s) /\ Sole(deployment.greeterOf[s]) =>
         Compatible(deployment.greeterOf[s], pending[s].target) = {}

\* The last event on its way to a process about an invitation tells whether a claimer is
\* connected; when there is none, the list of the process does.
IsLast(i, t, w) == w[i].token = t /\ \A j \in DOMAIN w : j > i => w[j].token # t
Tells(w, ready, t, connected) ==
  /\ (\A i \in DOMAIN w : w[i].token # t) => (t \in ready <=> connected)
  /\ \A i \in DOMAIN w : IsLast(i, t, w) => (w[i].status = "READY" <=> connected)
Told(b, t) == Tells(wire[b], claimersReady[b], t, Joined(t) # {})
StatusInv ==
  \A b \in upBackends, t \in Tokens : Open(t) /\ <<b, t>> \notin excuses => Told(b, t)

\* A claimer whose invitation is deleted will be told, or was told too early.
IsServed(c) == claimer[c].pc \in {"accepted", "joining", "listening"}
WillBeTold(c) ==
  \E i \in DOMAIN wire[claimer[c].at] :
    wire[claimer[c].at][i] = [token |-> claimer[c].token, status |-> "DELETED"]
DeletedInv ==
  \A c \in Claimers : IsServed(c) /\ ~Open(claimer[c].token) /\ ~claimer[c].late => WillBeTold(c)

InviteInv ==
  /\ InvitesTyped /\ ConnectedInv /\ PendingInv /\ OneInvitationPerTarget
  /\ StatusInv /\ DeletedInv

-----------------------------------------------------------------------------
(* Events on their way *)

\* A sequence with one more event.
LEMMA EventAppended ==
  ASSUME NEW w \in Seq(StatusEvents), NEW e \in StatusEvents
  PROVE  /\ Append(w, e) \in Seq(StatusEvents) /\ Len(w) \in Nat /\ DOMAIN w = 1 .. Len(w)
         /\ DOMAIN Append(w, e) = 1 .. Len(w) + 1 /\ Append(w, e)[Len(w) + 1] = e
         /\ \A i \in 1 .. Len(w) : Append(w, e)[i] = w[i]
OBVIOUS

\* A sequence without its first event.
LEMMA EventTaken ==
  ASSUME NEW w \in Seq(StatusEvents), w # <<>>
  PROVE  /\ Len(w) \in Nat \ {0} /\ DOMAIN w = 1 .. Len(w)
         /\ Head(w) = w[1] /\ Head(w) \in StatusEvents /\ Tail(w) \in Seq(StatusEvents)
         /\ DOMAIN Tail(w) = 1 .. Len(w) - 1
         /\ \A i \in 1 .. Len(w) - 1 : Tail(w)[i] = w[i + 1]
OBVIOUS

\* An event tells what its status says, to whom it concerns.
LEMMA NewEventTells ==
  ASSUME NEW w \in Seq(StatusEvents), NEW e \in StatusEvents, NEW ready
  PROVE  Tells(Append(w, e), ready, e.token, e.status = "READY")
<1>1. PICK v : v = Append(w, e)  OBVIOUS
<1>2. /\ Len(w) \in Nat /\ DOMAIN v = 1 .. Len(w) + 1 /\ v[Len(w) + 1] = e
  BY <1>1, EventAppended
<1>3. Len(w) + 1 \in DOMAIN v  BY <1>2
<1>4. ASSUME NEW i \in DOMAIN v, IsLast(i, e.token, v) PROVE i = Len(w) + 1
  BY <1>2, <1>3, <1>4 DEF IsLast
<1>5. QED  BY <1>1, <1>2, <1>3, <1>4 DEF Tells

\* It changes nothing for the other invitations.
LEMMA OtherEventTells ==
  ASSUME NEW w \in Seq(StatusEvents), NEW e \in StatusEvents, NEW ready, NEW t, e.token # t,
         NEW connected \in BOOLEAN, Tells(w, ready, t, connected)
  PROVE  Tells(Append(w, e), ready, t, connected)
<1>1. PICK v : v = Append(w, e)  OBVIOUS
<1>2. /\ Len(w) \in Nat /\ DOMAIN w = 1 .. Len(w) /\ DOMAIN v = 1 .. Len(w) + 1
      /\ v[Len(w) + 1] = e /\ \A i \in 1 .. Len(w) : v[i] = w[i]
  BY <1>1, EventAppended
<1>3. ASSUME \A i \in DOMAIN v : v[i].token # t PROVE \A i \in DOMAIN w : w[i].token # t
  BY <1>2, <1>3
<1>4. ASSUME NEW i \in DOMAIN v, IsLast(i, t, v) PROVE i \in DOMAIN w /\ v[i] = w[i] /\ IsLast(i, t, w)
  <2>1. i # Len(w) + 1  BY <1>2, <1>4 DEF IsLast
  <2>2. i \in 1 .. Len(w)  BY <1>2, <2>1
  <2>3. QED  BY <1>2, <1>4, <2>2 DEF IsLast
<1>5. QED  BY <1>1, <1>3, <1>4 DEF Tells

\* The component that handles the next event knows as much as before.
LEMMA DispatchTells ==
  ASSUME NEW w \in Seq(StatusEvents), w # <<>>, NEW ready, NEW t, NEW connected \in BOOLEAN,
         Tells(w, ready, t, connected)
  PROVE  Tells(Tail(w), OnStatusChanged(ready, Head(w)), t, connected)
<1>1. PICK v, e : v = Tail(w) /\ e = Head(w)  OBVIOUS
<1>2. /\ Len(w) \in Nat \ {0} /\ DOMAIN w = 1 .. Len(w) /\ e = w[1]
      /\ DOMAIN v = 1 .. Len(w) - 1 /\ \A i \in 1 .. Len(w) - 1 : v[i] = w[i + 1]
  BY <1>1, EventTaken
<1>3. 1 \in DOMAIN w /\ \A j \in DOMAIN w : j > 1 => j - 1 \in DOMAIN v /\ v[j - 1] = w[j]
  BY <1>2
<1>4. ASSUME NEW i \in DOMAIN v, IsLast(i, t, v) PROVE v[i].status = "READY" <=> connected
  <2>1. i \in Nat /\ i + 1 \in DOMAIN w /\ w[i + 1] = v[i]  BY <1>2
  <2>2. ASSUME NEW j \in DOMAIN w, j > i + 1 PROVE w[j].token # t
    <3>1. j - 1 \in DOMAIN v /\ v[j - 1] = w[j] /\ j - 1 > i  BY <1>2, <1>3, <2>1, <2>2
    <3>2. QED  BY <1>4, <3>1 DEF IsLast
  <2>3. IsLast(i + 1, t, w)  BY <1>4, <2>1, <2>2 DEF IsLast
  <2>4. QED  BY <2>1, <2>3 DEF Tells
<1>5. ASSUME \A i \in DOMAIN v : v[i].token # t
      PROVE  t \in OnStatusChanged(ready, e) <=> connected
  <2>1. \A j \in DOMAIN w : j > 1 => w[j].token # t  BY <1>3, <1>5
  <2>2. CASE e.token = t
    <3>1. IsLast(1, t, w)  BY <1>2, <2>1, <2>2 DEF IsLast
    <3>2. e.status = "READY" <=> connected  BY <1>2, <1>3, <3>1 DEF Tells
    <3>3. QED  BY <2>2, <3>2 DEF OnStatusChanged
  <2>3. CASE e.token # t
    <3>1. \A j \in DOMAIN w : w[j].token # t  BY <1>2, <2>1, <2>3
    <3>2. t \in ready <=> connected  BY <3>1 DEF Tells
    <3>3. QED  BY <2>3, <3>2 DEF OnStatusChanged
  <2>4. QED  BY <2>2, <2>3
<1>6. QED  BY <1>1, <1>4, <1>5 DEF Tells

-----------------------------------------------------------------------------
(* Steps of the servers *)

\* What the invariant says of each variable.
LEMMA InviteFacts ==
  ASSUME InviteInv
  PROVE  /\ invitations \in Seq(InviteRows) /\ Tokens = 1 .. Len(invitations)
         /\ Len(invitations) \in Nat /\ \A t \in Tokens : invitations[t] \in InviteRows
         /\ wire \in [Backends -> Seq(StatusEvents)] /\ claimer \in [Claimers -> ClaimerRows]
         /\ claimersReady \in [Backends -> SUBSET Tokens] /\ upBackends \subseteq Backends
         /\ pending \in [DOMAIN pending -> PendingRows]
         /\ DOMAIN pending = DOMAIN deployment.greeterOf
         /\ \A c \in Claimers : claimer[c] \in ClaimerRows
         /\ \A b \in Backends : wire[b] \in Seq(StatusEvents)
BY DEF InviteInv, InvitesTyped, Tokens

\* An event goes to every process that runs.
LEMMA EventIsSent ==
  ASSUME InviteInv, NEW b, NEW t \in Nat, NEW status \in {"IDLE", "READY", "DELETED"},
         SendStatus(b, t, status), NEW e, e = [token |-> t, status |-> status]
  PROVE  /\ e \in StatusEvents /\ wire' \in [Backends -> Seq(StatusEvents)]
         /\ \A x \in upBackends : wire'[x] = Append(wire[x], e)
         /\ \A x \in Backends \ upBackends : wire'[x] = wire[x]
         /\ \A x \in Backends : \A i \in DOMAIN wire[x] : i \in DOMAIN wire'[x] /\ wire'[x][i] = wire[x][i]
         /\ \A x \in upBackends : \E i \in DOMAIN wire'[x] : wire'[x][i] = e
         /\ \A x \in Backends : \A i \in DOMAIN wire'[x] : wire'[x][i] = e \/ (i \in DOMAIN wire[x] /\ wire'[x][i] = wire[x][i])
<1>1. e \in StatusEvents  BY DEF StatusEvents
<1>2. wire' = [x \in Backends |-> IF x \in upBackends THEN Append(wire[x], e) ELSE wire[x]]
  BY DEF SendStatus
<1>3. upBackends \subseteq Backends /\ \A x \in Backends : wire[x] \in Seq(StatusEvents)  BY InviteFacts
<1>4. ASSUME NEW x \in Backends
      PROVE  /\ wire'[x] \in Seq(StatusEvents)
             /\ \A i \in DOMAIN wire[x] : i \in DOMAIN wire'[x] /\ wire'[x][i] = wire[x][i]
             /\ x \in upBackends => \E i \in DOMAIN wire'[x] : wire'[x][i] = e
             /\ \A i \in DOMAIN wire'[x] : wire'[x][i] = e \/ (i \in DOMAIN wire[x] /\ wire'[x][i] = wire[x][i])
  <2>1. CASE x \notin upBackends  BY <1>2, <1>3, <2>1
  <2>2. CASE x \in upBackends
    <3>1. wire'[x] = Append(wire[x], e) /\ wire[x] \in Seq(StatusEvents)  BY <1>2, <1>3, <2>2
    <3>2. PICK w, v : w = wire[x] /\ v = wire'[x]  OBVIOUS
    <3>3. /\ v \in Seq(StatusEvents) /\ Len(w) \in Nat /\ DOMAIN w = 1 .. Len(w)
          /\ DOMAIN v = 1 .. Len(w) + 1 /\ v[Len(w) + 1] = e /\ \A i \in 1 .. Len(w) : v[i] = w[i]
      BY <1>1, <3>1, <3>2, EventAppended
    <3>4. Len(w) + 1 \in DOMAIN v  BY <3>3
    <3>5. \A i \in DOMAIN v : i = Len(w) + 1 \/ i \in DOMAIN w  BY <3>3
    <3>6. /\ \A i \in DOMAIN w : i \in DOMAIN v /\ v[i] = w[i]
          /\ \E i \in DOMAIN v : v[i] = e
          /\ \A i \in DOMAIN v : v[i] = e \/ (i \in DOMAIN w /\ v[i] = w[i])
      BY <3>3, <3>4, <3>5
    <3>7. QED  BY <3>2, <3>3, <3>6
  <2>3. QED  BY <2>1, <2>2
<1>5. wire' \in [Backends -> Seq(StatusEvents)]  BY <1>2, <1>4
<1>6. QED  BY <1>1, <1>2, <1>3, <1>4, <1>5

\* An event that tells the truth about its invitation leaves every process as well informed
\* as it was.
LEMMA SentStatusTells ==
  ASSUME InviteInv, NEW x, NEW t \in Nat, NEW status \in {"IDLE", "READY", "DELETED"},
         SendStatus(x, t, status), claimersReady' = claimersReady, NEW b \in upBackends
  PROVE  /\ (status = "READY" <=> Joined(t)' # {}) => Told(b, t)'
         /\ \A u : u # t /\ Told(b, u) /\ Joined(u)' = Joined(u) => Told(b, u)'
<1>1. PICK e : e = [token |-> t, status |-> status]  OBVIOUS
<1>2. e \in StatusEvents /\ wire'[b] = Append(wire[b], e) /\ wire[b] \in Seq(StatusEvents)
  BY <1>1, EventIsSent, InviteFacts
<1>3. e.token = t /\ e.status = status  BY <1>1
<1>4. ASSUME status = "READY" <=> Joined(t)' # {} PROVE Told(b, t)'
  <2>1. Tells(wire'[b], claimersReady'[b], t, e.status = "READY")  BY <1>2, <1>3, NewEventTells
  <2>2. QED  BY <1>3, <1>4, <2>1 DEF Told, Tells, IsLast
<1>5. ASSUME NEW u, u # t, Told(b, u), Joined(u)' = Joined(u) PROVE Told(b, u)'
  <2>1. PICK j \in BOOLEAN : j = (Joined(u) # {})  OBVIOUS
  <2>2. Tells(wire[b], claimersReady[b], u, j)  BY <1>5, <2>1 DEF Told, Tells, IsLast
  <2>3. Tells(wire'[b], claimersReady'[b], u, j)  BY <1>2, <1>3, <1>5, <2>2, OtherEventTells
  <2>4. QED  BY <1>5, <2>1, <2>3 DEF Told, Tells, IsLast
<1>6. QED  BY <1>4, <1>5

\* The types are those of the deployment.
LEMMA InviteTypesStay ==
  ASSUME deployment' = deployment
  PROVE  InviteRows' = InviteRows /\ PendingRows' = PendingRows
BY DEF InviteRows, PendingRows

\* Steps that touch neither the rows nor the transactions keep what is said of them.
LEMMA RequestsStay ==
  ASSUME InviteInv, UNCHANGED <<deployment, invitations, pending>>
  PROVE  PendingInv' /\ OneInvitationPerTarget' /\ Tokens' = Tokens /\ \A t : Open(t)' = Open(t)
<1>1. Tokens' = Tokens /\ \A t : Open(t)' = Open(t)  BY DEF Tokens, Open
<1>2. PendingInv'
  <2>1. /\ deployment' = deployment /\ pending' = pending
        /\ \A g : Sole(g)' <=> Sole(g)
        /\ \A g, target : Compatible(g, target)' = Compatible(g, target)
    BY <1>1 DEF Sole, Compatible
  <2>2. QED  BY <1>1, <2>1 DEF InviteInv, PendingInv, FoundNone
<1>3. OneInvitationPerTarget'
  BY <1>1 DEF InviteInv, OneInvitationPerTarget, Open
<1>4. QED  BY <1>1, <1>2, <1>3

JoinedStates == {"joining", "listening", "leaving"}

\* The same claimers are connected with an invitation.
LEMMA JoinedStays ==
  ASSUME \A c \in Claimers : /\ claimer'[c].pc \in JoinedStates <=> claimer[c].pc \in JoinedStates
                             /\ claimer[c].pc \in JoinedStates => claimer'[c].token = claimer[c].token
  PROVE  \A t : Joined(t)' = Joined(t)
BY DEF Joined, JoinedStates

\* Nothing is sent and nobody connected joins or leaves.
LEMMA StatusStays ==
  ASSUME InviteInv, UNCHANGED <<invitations, upBackends, claimersReady, wire, excuses>>,
         \A c \in Claimers : /\ claimer'[c].pc \in JoinedStates <=> claimer[c].pc \in JoinedStates
                             /\ claimer[c].pc \in JoinedStates => claimer'[c].token = claimer[c].token
  PROVE  StatusInv'
<1>1. \A t : Joined(t)' = Joined(t)  BY JoinedStays
<1>2. Tokens' = Tokens /\ \A t : Open(t)' = Open(t)  BY DEF Tokens, Open
<1>3. \A b, t : Told(b, t) => Told(b, t)'  BY <1>1 DEF Told, Tells, IsLast
<1>4. QED  BY <1>2, <1>3 DEF InviteInv, StatusInv

\* Nothing is sent, and the same claimers are served or leave.
LEMMA ConnectionsStay ==
  ASSUME InviteInv, UNCHANGED <<invitations, upBackends, claimersReady, wire>>,
         \A c \in Claimers : /\ IsConnected(c)' => IsConnected(c)
                             /\ IsServed(c)' => IsServed(c)
                             /\ claimer'[c].at = claimer[c].at /\ claimer'[c].token = claimer[c].token
                             /\ claimer'[c].late = claimer[c].late
  PROVE  ConnectedInv' /\ DeletedInv'
<1>1. Tokens' = Tokens /\ \A t : Open(t)' = Open(t)  BY DEF Tokens, Open
<1>2. ConnectedInv'  BY <1>1 DEF InviteInv, ConnectedInv
<1>3. DeletedInv'
  <2>1. \A c \in Claimers : WillBeTold(c) => WillBeTold(c)'  BY DEF WillBeTold
  <2>2. \A c \in Claimers : Open(claimer[c].token)' <=> Open(claimer[c].token)  BY DEF Open
  <2>3. QED  BY <2>1, <2>2 DEF InviteInv, DeletedInv
<1>4. QED  BY <1>2, <1>3

\* The bus of a process handles an event.
LEMMA DispatchKeeps ==
  ASSUME InviteInv, NEW b \in Backends, Dispatch(b)
  PROVE  InviteInv'
<1>1. PICK w, e : w = wire[b] /\ e = Head(w)  OBVIOUS
<1>2. /\ b \in upBackends /\ w # <<>> /\ wire' = [wire EXCEPT ![b] = Tail(w)]
      /\ claimersReady' = [claimersReady EXCEPT ![b] = OnStatusChanged(claimersReady[b], e)]
      /\ UNCHANGED <<deployment, invitations, members, pending, upBackends, excuses, restarts>>
  BY <1>1 DEF Dispatch
<1>3. claimer' = [c \in Claimers |->
        CASE DropsClaimer(c, b, e) /\ claimer[c].pc = "listening" ->
               [claimer[c] EXCEPT !.pc = "leaving"]
          [] DropsClaimer(c, b, e) /\ claimer[c].pc \in {"accepted", "joining"} ->
               [claimer[c] EXCEPT !.late = TRUE]
          [] OTHER -> claimer[c]]
  BY <1>1 DEF Dispatch
<1>4. /\ w \in Seq(StatusEvents) /\ Len(w) \in Nat \ {0} /\ DOMAIN w = 1 .. Len(w)
      /\ e = w[1] /\ e \in StatusEvents /\ Tail(w) \in Seq(StatusEvents)
      /\ DOMAIN Tail(w) = 1 .. Len(w) - 1 /\ \A i \in 1 .. Len(w) - 1 : Tail(w)[i] = w[i + 1]
  <2>1. w \in Seq(StatusEvents)  BY <1>1, InviteFacts
  <2>2. QED  BY <1>1, <1>2, <2>1, EventTaken
<1>5. /\ wire' \in [Backends -> Seq(StatusEvents)] /\ wire'[b] = Tail(w)
      /\ \A x \in Backends : x # b => wire'[x] = wire[x]
  BY <1>2, <1>4, InviteFacts
<1>6. /\ Tokens' = Tokens /\ PendingInv' /\ OneInvitationPerTarget' /\ \A t : Open(t)' = Open(t)
  BY <1>2, RequestsStay
<1>7. e.token \in Tokens
  <2>1. 1 \in DOMAIN wire[b]  BY <1>1, <1>4
  <2>2. QED  BY <1>1, <1>4, <2>1 DEF InviteInv, ConnectedInv
<1>8. /\ claimersReady' \in [Backends -> SUBSET Tokens]
      /\ claimersReady'[b] = OnStatusChanged(claimersReady[b], e)
      /\ \A x \in Backends : x # b => claimersReady'[x] = claimersReady[x]
  <2>1. OnStatusChanged(claimersReady[b], e) \in SUBSET Tokens
    BY <1>7, InviteFacts DEF OnStatusChanged
  <2>2. QED  BY <1>2, <2>1, InviteFacts
<1>9. ASSUME NEW c \in Claimers
      PROVE  /\ claimer'[c] \in ClaimerRows /\ claimer'[c].at = claimer[c].at
             /\ claimer'[c].token = claimer[c].token
             /\ claimer'[c].pc \in JoinedStates <=> claimer[c].pc \in JoinedStates
             /\ IsConnected(c)' <=> IsConnected(c)
             /\ IsServed(c)' => IsServed(c)
             /\ IsServed(c)' /\ ~claimer'[c].late => ~claimer[c].late /\ ~DropsClaimer(c, b, e)
  <2>1. claimer[c] \in ClaimerRows  BY InviteFacts
  <2>2. CASE DropsClaimer(c, b, e) /\ claimer[c].pc = "listening"
    <3>1. claimer'[c] = [claimer[c] EXCEPT !.pc = "leaving"]  BY <1>3, <2>2
    <3>2. QED
      BY <2>1, <2>2, <3>1 DEF ClaimerRows, ClaimerStates, JoinedStates, IsConnected, IsServed
  <2>3. CASE DropsClaimer(c, b, e) /\ claimer[c].pc \in {"accepted", "joining"}
    <3>1. claimer'[c] = [claimer[c] EXCEPT !.late = TRUE]  BY <1>3, <2>3
    <3>2. QED
      BY <2>1, <2>3, <3>1 DEF ClaimerRows, ClaimerStates, JoinedStates, IsConnected, IsServed
  <2>4. CASE ~(DropsClaimer(c, b, e) /\ claimer[c].pc \in {"accepted", "joining", "listening"})
    <3>1. claimer'[c] = claimer[c]  BY <1>3, <2>4
    <3>2. QED  BY <2>1, <2>4, <3>1 DEF IsConnected, IsServed
  <2>5. QED  BY <2>2, <2>3, <2>4
<1>10. claimer' \in [Claimers -> ClaimerRows]  BY <1>3, <1>9
<1>11. InvitesTyped'
  BY <1>2, <1>5, <1>6, <1>8, <1>10, InviteTypesStay DEF InviteInv, InvitesTyped
<1>12. ConnectedInv'
  <2>1. \A x \in Backends : \A i \in DOMAIN wire'[x] : wire'[x][i].token \in Tokens
    <3>1. ASSUME NEW i \in DOMAIN wire'[b] PROVE wire'[b][i].token \in Tokens
      <4>1. i + 1 \in DOMAIN w /\ wire'[b][i] = w[i + 1]  BY <1>4, <1>5, <3>1
      <4>2. QED  BY <1>1, <4>1 DEF InviteInv, ConnectedInv
    <3>2. QED  BY <1>5, <3>1 DEF InviteInv, ConnectedInv
  <2>2. QED
    BY <1>2, <1>5, <1>6, <1>8, <1>9, <2>1 DEF InviteInv, ConnectedInv
<1>13. StatusInv'
  <2>1. \A t : Joined(t)' = Joined(t)  BY <1>9, JoinedStays
  <2>2. ASSUME NEW x \in upBackends, NEW t, Told(x, t) PROVE Told(x, t)'
    <3>1. PICK j \in BOOLEAN : j = (Joined(t) # {})  OBVIOUS
    <3>2. Tells(wire[x], claimersReady[x], t, j)  BY <2>2, <3>1 DEF Told, Tells, IsLast
    <3>3. Tells(wire'[x], claimersReady'[x], t, j)
      <4>1. CASE x = b  BY <1>1, <1>2, <1>4, <1>5, <1>8, <3>2, <4>1, DispatchTells
      <4>2. CASE x # b  BY <1>5, <1>8, <2>2, <3>2, <4>2, InviteFacts
      <4>3. QED  BY <4>1, <4>2
    <3>4. QED  BY <2>1, <3>1, <3>3 DEF Told, Tells, IsLast
  <2>3. QED  BY <1>2, <1>6, <2>2 DEF InviteInv, StatusInv
<1>14. DeletedInv'
  <2>1. SUFFICES ASSUME NEW c \in Claimers, IsServed(c)', ~Open(claimer[c].token)', ~claimer'[c].late
                 PROVE  WillBeTold(c)'
    BY DEF DeletedInv
  <2>2. /\ IsServed(c) /\ ~claimer[c].late /\ ~DropsClaimer(c, b, e)
        /\ claimer'[c].at = claimer[c].at /\ claimer'[c].token = claimer[c].token
    BY <1>9, <2>1
  <2>3. ~Open(claimer[c].token)  BY <1>6, <2>1, <2>2 DEF Open
  <2>4. PICK i \in DOMAIN wire[claimer[c].at] :
          wire[claimer[c].at][i] = [token |-> claimer[c].token, status |-> "DELETED"]
    BY <2>2, <2>3 DEF InviteInv, DeletedInv, WillBeTold
  <2>5. claimer[c].at \in Backends
    BY <2>2, InviteFacts DEF InviteInv, ConnectedInv, IsServed, IsConnected
  <2>6. CASE claimer[c].at # b  BY <1>5, <2>2, <2>4, <2>5, <2>6 DEF WillBeTold
  <2>7. CASE claimer[c].at = b
    <3>1. i # 1  BY <1>1, <1>4, <2>2, <2>4, <2>7 DEF DropsClaimer
    <3>2. i \in DOMAIN w  BY <1>1, <2>7
    <3>3. i - 1 \in DOMAIN Tail(w) /\ Tail(w)[i - 1] = w[i]  BY <1>4, <3>1, <3>2
    <3>4. QED  BY <1>1, <1>5, <2>2, <2>4, <2>7, <3>3 DEF WillBeTold
  <2>8. QED  BY <2>6, <2>7
<1>15. QED  BY <1>6, <1>11, <1>12, <1>13, <1>14 DEF InviteInv

\* A row is added to the invitations.
LEMMA RowInserted ==
  ASSUME InviteInv, NEW g \in {deployment.greeterOf[s] : s \in DOMAIN deployment.greeterOf},
         NEW target \in deployment.targets, deployment' = deployment,
         invitations' = Append(invitations, [greeter |-> g, target |-> target, deleted |-> FALSE])
  PROVE  /\ invitations' \in Seq(InviteRows) /\ Tokens' = Tokens \cup {Len(invitations) + 1}
         /\ Len(invitations) + 1 \notin Tokens /\ Len(invitations) + 1 \in Nat
         /\ \A t \in Tokens : invitations'[t] = invitations[t] /\ Open(t)' = Open(t)
         /\ invitations'[Len(invitations) + 1] = [greeter |-> g, target |-> target, deleted |-> FALSE]
<1> DEFINE added == [greeter |-> g, target |-> target, deleted |-> FALSE]
<1>1. added \in InviteRows  BY DEF InviteRows
<1>2. invitations' = Append(invitations, added)  OBVIOUS
<1> HIDE DEF added
<1>3. /\ invitations \in Seq(InviteRows) /\ Tokens = 1 .. Len(invitations) /\ Len(invitations) \in Nat
  BY InviteFacts
<1>4. /\ invitations' \in Seq(InviteRows) /\ DOMAIN invitations' = 1 .. Len(invitations) + 1
      /\ \A t \in 1 .. Len(invitations) : invitations'[t] = invitations[t]
      /\ invitations'[Len(invitations) + 1] = added
  BY <1>1, <1>2, <1>3
<1>5. Tokens' = Tokens \cup {Len(invitations) + 1} /\ Len(invitations) + 1 \notin Tokens
  BY <1>3, <1>4 DEF Tokens
<1>6. QED  BY <1>3, <1>4, <1>5 DEF Open, added

\* Nobody is connected with an invitation that does not exist.
LEMMA NobodyYet ==
  ASSUME InviteInv, NEW t, t \notin Tokens
  PROVE  Joined(t) = {}
BY DEF InviteInv, ConnectedInv, IsConnected, Joined

\* Two sessions of a greeter that has a single one are the same.
LEMMA SoleIsOne ==
  ASSUME InviteInv, NEW s \in DOMAIN pending, NEW o \in DOMAIN pending,
         deployment.greeterOf[s] = deployment.greeterOf[o], Sole(deployment.greeterOf[s])
  PROVE  s = o
<1>1. PICK S : S = {x \in DOMAIN pending : deployment.greeterOf[x] = deployment.greeterOf[s]}  OBVIOUS
<1>2. S \subseteq InviteSessions
  BY <1>1, InviteFacts, InviteSetupsAssumption DEF InviteInv, InvitesTyped
<1>3. IsFiniteSet(InviteSessions)  BY InviteSetupsAssumption
<1>4. IsFiniteSet(S) /\ Cardinality(S) = 1  BY <1>1, <1>2, <1>3, FS_Subset DEF Sole
<1>5. \E x : S = {x}  BY <1>4, FS_Singleton
<1>6. QED  BY <1>1, <1>5

\* Who was connected before an event was sent still is, to the same process.
LEMMA SendKeepsConnections ==
  ASSUME InviteInv, NEW b, NEW t \in Nat, NEW status \in {"IDLE", "READY", "DELETED"},
         SendStatus(b, t, status), t \in Tokens', Tokens \subseteq Tokens',
         UNCHANGED <<upBackends, claimersReady>>,
         \A c \in Claimers : IsConnected(c)' => IsConnected(c) /\ claimer'[c].at = claimer[c].at
                                                /\ claimer'[c].token = claimer[c].token
  PROVE  ConnectedInv'
<1>1. PICK e : e = [token |-> t, status |-> status]  OBVIOUS
<1>2. /\ \A x \in Backends \ upBackends : wire'[x] = wire[x]
      /\ \A x \in Backends : \A i \in DOMAIN wire'[x] :
           wire'[x][i] = e \/ (i \in DOMAIN wire[x] /\ wire'[x][i] = wire[x][i])
  BY <1>1, EventIsSent
<1>3. \A x \in Backends : \A i \in DOMAIN wire'[x] : wire'[x][i].token \in Tokens'
  <2>1. SUFFICES ASSUME NEW x \in Backends, NEW i \in DOMAIN wire'[x] PROVE wire'[x][i].token \in Tokens'
    OBVIOUS
  <2>2. CASE wire'[x][i] = e  BY <1>1, <2>2
  <2>3. CASE i \in DOMAIN wire[x] /\ wire'[x][i] = wire[x][i]
    BY <2>3 DEF InviteInv, ConnectedInv
  <2>4. QED  BY <1>2, <2>2, <2>3
<1>4. QED  BY <1>2, <1>3 DEF InviteInv, ConnectedInv

\* A deletion is told to all, and what was to be told still is.
LEMMA SendKeepsDeletions ==
  ASSUME InviteInv, NEW b, NEW t \in Nat, NEW status \in {"IDLE", "READY", "DELETED"},
         SendStatus(b, t, status),
         \A u \in Tokens : Open(u) /\ ~Open(u)' => u = t /\ status = "DELETED",
         \A c \in Claimers : IsServed(c)' => IsServed(c) /\ claimer'[c].at = claimer[c].at
                               /\ claimer'[c].token = claimer[c].token
                               /\ claimer'[c].late = claimer[c].late
  PROVE  DeletedInv'
<1>1. SUFFICES ASSUME NEW c \in Claimers, IsServed(c)', ~Open(claimer[c].token)', ~claimer'[c].late
               PROVE  WillBeTold(c)'
  BY DEF DeletedInv
<1>2. /\ IsServed(c) /\ ~claimer[c].late /\ claimer'[c].at = claimer[c].at
      /\ claimer'[c].token = claimer[c].token
  BY <1>1
<1>3. claimer[c].at \in upBackends /\ claimer[c].at \in Backends /\ claimer[c].token \in Tokens
  BY <1>2, InviteFacts DEF InviteInv, ConnectedInv, IsConnected, IsServed
<1>4. PICK e : e = [token |-> t, status |-> status]  OBVIOUS
<1>5. CASE Open(claimer[c].token)
  <2>1. claimer[c].token = t /\ status = "DELETED"  BY <1>1, <1>2, <1>3, <1>5 DEF Open
  <2>2. \E i \in DOMAIN wire'[claimer[c].at] : wire'[claimer[c].at][i] = e
    BY <1>3, <1>4, EventIsSent
  <2>3. QED  BY <1>2, <1>4, <2>1, <2>2 DEF WillBeTold
<1>6. CASE ~Open(claimer[c].token)
  <2>1. PICK i \in DOMAIN wire[claimer[c].at] :
          wire[claimer[c].at][i] = [token |-> claimer[c].token, status |-> "DELETED"]
    BY <1>2, <1>6 DEF InviteInv, DeletedInv, WillBeTold
  <2>2. i \in DOMAIN wire'[claimer[c].at] /\ wire'[claimer[c].at][i] = wire[claimer[c].at][i]
    BY <1>3, <1>4, <2>1, EventIsSent
  <2>3. QED  BY <1>2, <2>1, <2>2 DEF WillBeTold
<1>7. QED  BY <1>5, <1>6

\* An invitation is added, where it is the only one or nothing says that it has to be.
LEMMA AddedKeeps ==
  ASSUME InviteInv, NEW g \in {deployment.greeterOf[s] : s \in DOMAIN deployment.greeterOf},
         NEW target \in deployment.targets, NEW b, NEW n, n = Len(invitations) + 1,
         invitations' = Append(invitations, [greeter |-> g, target |-> target, deleted |-> FALSE]),
         SendStatus(b, n, "IDLE"), DOMAIN pending' = DOMAIN pending,
         UNCHANGED <<deployment, members, upBackends, claimersReady, claimer, excuses>>,
         deployment.impl = "MEMORY" \/ Sole(g) => Compatible(g, target) = {}
  PROVE  /\ ConnectedInv' /\ DeletedInv' /\ StatusInv' /\ OneInvitationPerTarget'
         /\ invitations' \in Seq(InviteRows) /\ wire' \in [Backends -> Seq(StatusEvents)]
         /\ Tokens' = Tokens \cup {n} /\ \A t \in Tokens : invitations'[t] = invitations[t]
         /\ invitations'[n].greeter = g
<1>1. /\ invitations' \in Seq(InviteRows) /\ Tokens' = Tokens \cup {n} /\ n \notin Tokens /\ n \in Nat
      /\ \A t \in Tokens : invitations'[t] = invitations[t] /\ Open(t)' = Open(t)
      /\ invitations'[n] = [greeter |-> g, target |-> target, deleted |-> FALSE]
  BY RowInserted
<1>2. wire' \in [Backends -> Seq(StatusEvents)]  BY <1>1, EventIsSent
<1>3. ConnectedInv'  BY <1>1, SendKeepsConnections DEF IsConnected
<1>4. DeletedInv'  BY <1>1, SendKeepsDeletions DEF IsServed
<1>5. invitations'[n].greeter = g /\ invitations'[n].target = target  BY <1>1
<1>6. OneInvitationPerTarget'
  <2>1. SUFFICES ASSUME NEW t \in Tokens', NEW u \in Tokens', t # u, Open(t)', Open(u)',
                        deployment.impl = "MEMORY" \/ Sole(invitations'[t].greeter),
                        invitations'[t].greeter = invitations'[u].greeter,
                        invitations'[t].target = invitations'[u].target
                 PROVE  FALSE
    BY DEF OneInvitationPerTarget, Sole
  <2>2. ASSUME NEW v \in Tokens, Open(v), invitations[v].greeter = g, invitations[v].target = target
        PROVE  v \in Compatible(g, target)
    <3>1. invitations[v] \in InviteRows  BY InviteFacts
    <3>2. invitations[v] = [greeter |-> g, target |-> target, deleted |-> FALSE]
      BY <2>2, <3>1 DEF InviteRows, Open
    <3>3. QED  BY <3>2 DEF Compatible
  <2>3. CASE t = n
    <3>1. u \in Tokens /\ Open(u) /\ invitations'[u] = invitations[u]  BY <1>1, <2>1, <2>3
    <3>2. u \in Compatible(g, target)  BY <1>5, <2>1, <2>2, <2>3, <3>1
    <3>3. QED  BY <1>5, <2>1, <2>3, <3>2
  <2>4. CASE u = n
    <3>1. t \in Tokens /\ Open(t) /\ invitations'[t] = invitations[t]  BY <1>1, <2>1, <2>4
    <3>2. t \in Compatible(g, target)  BY <1>5, <2>1, <2>2, <2>4, <3>1
    <3>3. QED  BY <1>5, <2>1, <2>4, <3>2
  <2>5. CASE t \in Tokens /\ u \in Tokens
    <3>1. /\ Open(t) /\ Open(u) /\ invitations'[t] = invitations[t] /\ invitations'[u] = invitations[u]
      BY <1>1, <2>1, <2>5
    <3>2. deployment.impl = "MEMORY" \/ Sole(invitations[t].greeter)  BY <2>1, <3>1
    <3>3. QED  BY <2>1, <2>5, <3>1, <3>2 DEF InviteInv, OneInvitationPerTarget, Sole
  <2>6. QED  BY <1>1, <2>1, <2>3, <2>4, <2>5
<1>7. StatusInv'
  <2>1. \A t : Joined(t)' = Joined(t)  BY JoinedStays
  <2>2. Joined(n) = {}  BY <1>1, NobodyYet
  <2>3. \A x \in upBackends : Told(x, n)'  BY <1>1, <2>1, <2>2, SentStatusTells
  <2>4. \A x \in upBackends : \A t \in Tokens : Told(x, t) => Told(x, t)'
    BY <1>1, <2>1, SentStatusTells
  <2>5. QED  BY <1>1, <2>3, <2>4 DEF InviteInv, StatusInv
<1>8. QED  BY <1>1, <1>2, <1>3, <1>4, <1>5, <1>6, <1>7

\* invite_new in memory: an invitation is added only if there is none for the target.
LEMMA MemoryNewKeeps ==
  ASSUME InviteInv, NEW s \in DOMAIN pending, NEW target \in deployment.targets, NEW b,
         MemoryNew(s, target, b)
  PROVE  InviteInv'
<1>1. PICK g, found : g = deployment.greeterOf[s] /\ found = Compatible(g, target)  OBVIOUS
<1>2. /\ deployment.impl = "MEMORY" /\ invitations' = InsertInvitation(g, target, found)
      /\ IF found = {} THEN SendStatus(b, Len(invitations) + 1, "IDLE") ELSE UNCHANGED wire
      /\ UNCHANGED <<deployment, members, pending, upBackends, claimersReady, claimer, excuses,
                     restarts>>
  BY <1>1 DEF MemoryNew
<1>3. CASE found # {}
  <2>1. UNCHANGED <<deployment, invitations, members, pending, upBackends, claimersReady, wire,
                    claimer, excuses>>
    BY <1>2, <1>3 DEF InsertInvitation
  <2>2. PendingInv' /\ OneInvitationPerTarget' /\ Tokens' = Tokens /\ \A t : Open(t)' = Open(t)
    BY <2>1, RequestsStay
  <2>3. StatusInv'  BY <2>1, StatusStays
  <2>4. InvitesTyped' /\ ConnectedInv'
    BY <2>1, <2>2, InviteTypesStay DEF InviteInv, InvitesTyped, ConnectedInv, IsConnected
  <2>5. DeletedInv'  BY <2>1, <2>2 DEF InviteInv, DeletedInv, WillBeTold, IsServed, Open
  <2>6. QED  BY <2>2, <2>3, <2>4, <2>5 DEF InviteInv
<1>4. CASE found = {}
  <2>1. PICK n : n = Len(invitations) + 1  OBVIOUS
  <2>2. /\ invitations' = Append(invitations, [greeter |-> g, target |-> target, deleted |-> FALSE])
        /\ SendStatus(b, n, "IDLE")
    BY <1>2, <1>4, <2>1 DEF InsertInvitation
  <2>3. g \in {deployment.greeterOf[x] : x \in DOMAIN deployment.greeterOf}  BY <1>1, InviteFacts
  <2>4. /\ ConnectedInv' /\ DeletedInv' /\ StatusInv' /\ OneInvitationPerTarget'
        /\ invitations' \in Seq(InviteRows) /\ wire' \in [Backends -> Seq(StatusEvents)]
        /\ Tokens' = Tokens \cup {n}
    <3>1. deployment.impl = "MEMORY" \/ Sole(g) => Compatible(g, target) = {}  BY <1>1, <1>4
    <3>2. /\ DOMAIN pending' = DOMAIN pending
          /\ UNCHANGED <<deployment, members, upBackends, claimersReady, claimer, excuses>>
      BY <1>2
    <3>3. QED  BY <2>1, <2>2, <2>3, <3>1, <3>2, AddedKeeps
  <2>5. InvitesTyped'
    BY <1>2, <2>4, InviteTypesStay DEF InviteInv, InvitesTyped
  <2>6. PendingInv'  BY <1>2 DEF InviteInv, PendingInv, FoundNone
  <2>7. QED  BY <2>4, <2>5, <2>6 DEF InviteInv
<1>5. QED  BY <1>3, <1>4

\* The connection of a claimer in another state.
LEMMA ClaimerMoved ==
  ASSUME NEW r \in ClaimerRows, NEW state \in ClaimerStates, NEW n, n = [r EXCEPT !.pc = state]
  PROVE  n \in ClaimerRows /\ n.pc = state /\ n.at = r.at /\ n.token = r.token /\ n.late = r.late
BY DEF ClaimerRows

\* The connection of a claimer that is accepted.
LEMMA ClaimerAccepted ==
  ASSUME NEW b \in Backends, NEW t \in Nat, NEW n,
         n = [pc |-> "accepted", at |-> b, token |-> t, late |-> FALSE]
  PROVE  n \in ClaimerRows /\ n.pc = "accepted" /\ n.at = b /\ n.token = t
BY DEF ClaimerRows, ClaimerStates

\* The connection of a claimer that did not come yet.
LEMMA ClaimerAway ==
  Away \in ClaimerRows /\ Away.pc = "away"
BY DEF Away, ClaimerRows, ClaimerStates

\* A claimer that was accepted, left before it joined, or began to listen.
LEMMA OneClaimerMoves ==
  ASSUME InviteInv, NEW c \in Claimers, NEW state \in ClaimerStates,
         claimer' = [claimer EXCEPT ![c].pc = state],
         UNCHANGED <<deployment, invitations, members, pending, upBackends, claimersReady, wire, excuses>>,
         \/ claimer[c].pc = "joining" /\ state = "listening"
         \/ claimer[c].pc = "accepted" /\ state = "gone"
         \/ claimer[c].pc = "listening" /\ state = "leaving"
  PROVE  InviteInv'
<1>1. /\ claimer'[c] = [claimer[c] EXCEPT !.pc = state]
      /\ \A d \in Claimers : d # c => claimer'[d] = claimer[d]
      /\ claimer[c] \in ClaimerRows
  BY InviteFacts
<1>2. claimer'[c] \in ClaimerRows /\ claimer' \in [Claimers -> ClaimerRows]
  BY <1>1, InviteFacts DEF ClaimerRows
<1>3. /\ claimer'[c].pc = state /\ claimer'[c].at = claimer[c].at /\ claimer'[c].token = claimer[c].token
      /\ claimer'[c].late = claimer[c].late
  <2>1. claimer'[c] = [claimer[c] EXCEPT !.pc = state] /\ claimer[c] \in ClaimerRows  BY <1>1
  <2>2. PICK r, n : r = claimer[c] /\ n = claimer'[c]  OBVIOUS
  <2>3. n = [r EXCEPT !.pc = state] /\ r \in ClaimerRows  BY <2>1, <2>2
  <2>4. n.pc = state /\ n.at = r.at /\ n.token = r.token /\ n.late = r.late
    BY <2>3, ClaimerMoved
  <2>5. QED  BY <2>2, <2>4
<1>4. /\ PendingInv' /\ OneInvitationPerTarget' /\ Tokens' = Tokens  BY RequestsStay
<1>5. InvitesTyped'  BY <1>2, <1>4, InviteTypesStay DEF InviteInv, InvitesTyped
<1>6. ConnectedInv' /\ DeletedInv'
  <2>1. /\ IsConnected(c)' => IsConnected(c)
        /\ IsServed(c)' => IsServed(c)
    BY <1>3 DEF IsConnected, IsServed
  <2>2. \A d \in Claimers : d # c => (IsConnected(d)' => IsConnected(d)) /\ (IsServed(d)' => IsServed(d))
    BY <1>1 DEF IsConnected, IsServed
  <2>3. QED  BY <1>1, <1>3, <2>1, <2>2, ConnectionsStay
<1>7. StatusInv'
  <2>1. claimer'[c].pc \in JoinedStates <=> claimer[c].pc \in JoinedStates  BY <1>3 DEF JoinedStates
  <2>2. QED  BY <1>1, <1>3, <2>1, StatusStays
<1>8. QED  BY <1>4, <1>5, <1>6, <1>7 DEF InviteInv

\* A connection serves the claimer.
LEMMA ServeClaimerKeeps ==
  ASSUME InviteInv, NEW c \in Claimers, ServeClaimer(c) PROVE InviteInv'
BY OneClaimerMoves DEF ServeClaimer, ClaimerStates

\* A claimer closes its connection.
LEMMA ClaimerLeavesKeeps ==
  ASSUME InviteInv, NEW c \in Claimers, ClaimerLeaves(c) PROVE InviteInv'
<1>1. PICK state : state = IF claimer[c].pc = "accepted" THEN "gone" ELSE "leaving"  OBVIOUS
<1>2. claimer' = [claimer EXCEPT ![c].pc = state]  BY <1>1 DEF ClaimerLeaves
<1>3. state \in ClaimerStates  BY <1>1 DEF ClaimerStates
<1>4. QED  BY <1>1, <1>2, <1>3, OneClaimerMoves DEF ClaimerLeaves

\* A claimer is accepted for an invitation that is open.
LEMMA HandshakeKeeps ==
  ASSUME InviteInv, NEW c \in Claimers, NEW t \in Tokens, NEW b \in Backends, Handshake(c, t, b)
  PROVE  InviteInv'
<1>1. /\ claimer[c] = Away /\ b \in upBackends /\ Open(t)
      /\ UNCHANGED <<deployment, invitations, members, pending, upBackends, claimersReady, wire,
                     excuses, restarts>>
  BY DEF Handshake, InfoAccepts
<1>2. /\ claimer'[c] = [pc |-> "accepted", at |-> b, token |-> t, late |-> FALSE]
      /\ \A d \in Claimers : d # c => claimer'[d] = claimer[d]
  BY InviteFacts DEF Handshake
<1>3. t \in Nat  BY InviteFacts
<1>4. /\ claimer'[c] \in ClaimerRows /\ claimer' \in [Claimers -> ClaimerRows]
      /\ claimer'[c].pc = "accepted" /\ claimer'[c].at = b /\ claimer'[c].token = t
  <2>1. claimer'[c] = [pc |-> "accepted", at |-> b, token |-> t, late |-> FALSE]  BY <1>2
  <2>2. /\ claimer'[c] \in ClaimerRows /\ claimer'[c].pc = "accepted" /\ claimer'[c].at = b
        /\ claimer'[c].token = t
    <3>1. PICK n : n = claimer'[c]  OBVIOUS
    <3>2. n = [pc |-> "accepted", at |-> b, token |-> t, late |-> FALSE]  BY <2>1, <3>1
    <3>3. n \in ClaimerRows /\ n.pc = "accepted" /\ n.at = b /\ n.token = t
      BY <1>3, <3>2, ClaimerAccepted
    <3>4. QED  BY <3>1, <3>3
  <2>3. QED  BY <1>2, <2>2, InviteFacts DEF Handshake
<1>5. /\ PendingInv' /\ OneInvitationPerTarget' /\ Tokens' = Tokens /\ \A u : Open(u)' = Open(u)
  BY <1>1, RequestsStay
<1>6. InvitesTyped'  BY <1>1, <1>4, <1>5, InviteTypesStay DEF InviteInv, InvitesTyped
<1>7. ConnectedInv'  BY <1>1, <1>2, <1>4, <1>5 DEF InviteInv, ConnectedInv, IsConnected
<1>8. StatusInv'
  <2>1. ASSUME NEW d \in Claimers
        PROVE  /\ claimer'[d].pc \in JoinedStates <=> claimer[d].pc \in JoinedStates
               /\ claimer[d].pc \in JoinedStates => claimer'[d].token = claimer[d].token
    <3>1. CASE d = c
      <4>1. claimer[d].pc = "away" /\ claimer'[d].pc = "accepted"  BY <1>1, <1>4, <3>1, ClaimerAway
      <4>2. QED  BY <4>1 DEF JoinedStates
    <3>2. CASE d # c  BY <1>2, <3>2
    <3>3. QED  BY <3>1, <3>2
  <2>2. QED  BY <1>1, <2>1, StatusStays
<1>9. DeletedInv'
  <2>1. SUFFICES ASSUME NEW d \in Claimers, IsServed(d)', ~Open(claimer[d].token)', ~claimer'[d].late
                 PROVE  WillBeTold(d)'
    BY DEF DeletedInv
  <2>2. d # c  BY <1>1, <1>4, <1>5, <2>1 DEF Open
  <2>3. claimer'[d] = claimer[d]  BY <1>2, <2>2
  <2>4. WillBeTold(d)  BY <1>1, <2>1, <2>3 DEF InviteInv, DeletedInv, IsServed, Open
  <2>5. QED  BY <1>1, <2>3, <2>4 DEF WillBeTold
<1>10. QED  BY <1>5, <1>6, <1>7, <1>8, <1>9 DEF InviteInv

\* A user is created or revoked.
LEMMA MembersChangeKeeps ==
  ASSUME InviteInv, NEW target \in deployment.targets, MembersChange(target)
  PROVE  InviteInv'
<1>1. /\ target # Device /\ members' \subseteq members \cup {target}
      /\ UNCHANGED <<deployment, invitations, pending, upBackends, claimersReady, wire, claimer,
                     excuses, restarts>>
  BY DEF MembersChange
<1>2. PendingInv' /\ OneInvitationPerTarget' /\ Tokens' = Tokens  BY <1>1, RequestsStay
<1>3. InvitesTyped'  BY <1>1, <1>2, InviteTypesStay DEF InviteInv, InvitesTyped
<1>4. ConnectedInv' /\ DeletedInv'  BY <1>1, ConnectionsStay DEF IsConnected, IsServed
<1>5. StatusInv'  BY <1>1, StatusStays
<1>6. QED  BY <1>2, <1>3, <1>4, <1>5 DEF InviteInv

\* invite_new with PostgreSQL reads what there is.
LEMMA PGNewBeginKeeps ==
  ASSUME InviteInv, NEW s \in DOMAIN pending, NEW target \in deployment.targets, NEW b \in Backends,
         PGNewBegin(s, target, b)
  PROVE  InviteInv'
<1>1. PICK found : found = Compatible(deployment.greeterOf[s], target)  OBVIOUS
<1>2. /\ deployment.impl = "POSTGRESQL"
      /\ pending' = [pending EXCEPT ![s] = [pc |-> "found", target |-> target, at |-> b, found |-> found]]
      /\ UNCHANGED <<deployment, invitations, members, upBackends, claimersReady, wire, claimer,
                     excuses, restarts>>
  BY <1>1 DEF PGNewBegin
<1>3. /\ DOMAIN pending' = DOMAIN pending
      /\ pending'[s] = [pc |-> "found", target |-> target, at |-> b, found |-> found]
      /\ \A o \in DOMAIN pending : o # s => pending'[o] = pending[o]
  BY <1>2, InviteFacts
<1>4. Tokens' = Tokens /\ found \subseteq Tokens /\ \A t : Open(t)' = Open(t)
  BY <1>1, <1>2 DEF Tokens, Compatible, Open
<1>5. InvitesTyped'
  <2>1. found \in SUBSET Nat  BY <1>4, InviteFacts
  <2>2. pending'[s] \in PendingRows  BY <1>3, <2>1 DEF PendingRows
  <2>3. pending' \in [DOMAIN pending' -> PendingRows]  BY <1>2, <1>3, <2>2, InviteFacts
  <2>4. QED  BY <1>2, <1>3, <1>4, <2>3, InviteTypesStay DEF InviteInv, InvitesTyped
<1>6. \A g : /\ {o \in DOMAIN pending' : deployment'.greeterOf[o] = g}
                  = {o \in DOMAIN pending : deployment.greeterOf[o] = g}
             /\ \A x : Compatible(g, x)' = Compatible(g, x)
  BY <1>2, <1>3, <1>4 DEF Compatible
<1>7. PendingInv'
  <2>1. \A g : Sole(g)' <=> Sole(g)  BY <1>6 DEF Sole
  <2>2. ASSUME NEW o \in DOMAIN pending
        PROVE  /\ pending'[o] # Nothing => deployment'.impl = "POSTGRESQL" /\ pending'[o].found \subseteq Tokens'
               /\ FoundNone(o)' /\ Sole(deployment.greeterOf[o])' =>
                    Compatible(deployment.greeterOf[o], pending[o].target)' = {}
    <3>1. CASE o = s  BY <1>1, <1>2, <1>3, <1>4, <1>6, <3>1 DEF FoundNone
    <3>2. CASE o # s
      <4>1. pending'[o] = pending[o]  BY <1>3, <3>2
      <4>2. FoundNone(o)' <=> FoundNone(o)  BY <4>1 DEF FoundNone
      <4>3. QED  BY <1>2, <1>4, <1>6, <2>1, <4>1, <4>2 DEF InviteInv, PendingInv
    <3>3. QED  BY <3>1, <3>2
  <2>3. QED  BY <1>3, <2>2 DEF PendingInv
<1>8. OneInvitationPerTarget'
  BY <1>2, <1>4, <1>6 DEF InviteInv, OneInvitationPerTarget, Open
<1>9. ConnectedInv' /\ DeletedInv'  BY <1>2, ConnectionsStay DEF IsConnected, IsServed
<1>10. StatusInv'  BY <1>2, StatusStays
<1>11. QED  BY <1>5, <1>7, <1>8, <1>9, <1>10 DEF InviteInv

\* A session takes up what it found: no row is added, or the first one of the only session.
LEMMA PGNewCommitKeeps ==
  ASSUME InviteInv, NEW s \in DOMAIN pending, PGNewCommit(s)
  PROVE  InviteInv'
<1>1. PICK p, g, n : p = pending[s] /\ g = deployment.greeterOf[s] /\ n = Len(invitations) + 1  OBVIOUS
<1>2. /\ p.pc = "found" /\ invitations' = InsertInvitation(g, p.target, p.found)
      /\ pending' = [pending EXCEPT ![s] = Nothing]
      /\ UNCHANGED <<deployment, members, upBackends, claimersReady, claimer, restarts>>
  BY <1>1 DEF PGNewCommit
<1>3. PICK t \in 1 .. Len(invitations) + 1 :
        /\ Answers(t, p.found) /\ SendStatus(p.at, t, "IDLE")
        /\ excuses' = excuses \cup
             {<<b, t>> : b \in IF t \in Tokens /\ Joined(t) # {} THEN upBackends ELSE {}}
  BY <1>1 DEF PGNewCommit
<1>4. p # Nothing /\ p \in PendingRows
  <2>1. p # Nothing  BY <1>2 DEF Nothing
  <2>2. QED  BY <1>1, <2>1, InviteFacts
<1>5. p.target \in deployment.targets /\ p.found \subseteq Tokens
  <2>1. p.target \in deployment.targets  BY <1>4 DEF PendingRows
  <2>2. QED  BY <1>1, <1>4, <2>1 DEF InviteInv, PendingInv
<1>6. /\ DOMAIN pending' = DOMAIN pending /\ pending'[s] = Nothing
      /\ \A o \in DOMAIN pending : o # s => pending'[o] = pending[o]
      /\ pending' \in [DOMAIN pending' -> PendingRows]
  <2>1. Nothing \in PendingRows  BY DEF PendingRows
  <2>2. QED  BY <1>2, <2>1, InviteFacts
<1>7. \A h : Sole(h)' <=> Sole(h)  BY <1>2, <1>6 DEF Sole
<1>8. \A x : Joined(x)' = Joined(x)  BY <1>2, JoinedStays
<1>9. CASE p.found # {}
  <2>1. invitations' = invitations /\ t \in p.found /\ t \in Tokens /\ t \in Nat
    BY <1>2, <1>3, <1>5, <1>9 DEF InsertInvitation, Answers
  <2>2. Tokens' = Tokens /\ \A x : Open(x)' = Open(x)  BY <2>1 DEF Tokens, Open
  <2>3. wire' \in [Backends -> Seq(StatusEvents)]  BY <1>3, <2>1, EventIsSent
  <2>4. InvitesTyped'
    BY <1>2, <1>6, <2>1, <2>2, <2>3, InviteTypesStay DEF InviteInv, InvitesTyped
  <2>5. ConnectedInv'  BY <1>2, <1>3, <2>1, <2>2, SendKeepsConnections DEF IsConnected
  <2>6. DeletedInv'  BY <1>2, <1>3, <2>1, <2>2, SendKeepsDeletions DEF IsServed
  <2>7. \A h, x : Compatible(h, x)' = Compatible(h, x)  BY <2>1, <2>2 DEF Compatible
  <2>8. PendingInv'  BY <1>2, <1>6, <1>7, <2>2, <2>7 DEF InviteInv, PendingInv, FoundNone
  <2>9. OneInvitationPerTarget'
    BY <1>2, <1>6, <2>1, <2>2 DEF InviteInv, OneInvitationPerTarget, Open
  <2>10. StatusInv'
    <3>1. SUFFICES ASSUME NEW x \in upBackends, NEW u \in Tokens, Open(u), <<x, u>> \notin excuses'
                   PROVE  Told(x, u)'
      BY <1>2, <2>2 DEF StatusInv
    <3>2. Told(x, u)  BY <1>3, <3>1 DEF InviteInv, StatusInv
    <3>3. CASE u # t  BY <1>2, <1>3, <1>8, <2>1, <3>1, <3>2, <3>3, SentStatusTells
    <3>4. CASE u = t
      <4>1. Joined(t) = {}  BY <1>3, <2>1, <3>1, <3>4
      <4>2. QED  BY <1>2, <1>3, <1>8, <2>1, <3>1, <3>4, <4>1, SentStatusTells
    <3>5. QED  BY <3>3, <3>4
  <2>11. QED  BY <2>4, <2>5, <2>6, <2>8, <2>9, <2>10 DEF InviteInv
<1>10. CASE p.found = {}
  <2>1. t = n /\ n \notin Tokens
    BY <1>1, <1>3, <1>10, InviteFacts DEF Answers
  <2>2. /\ invitations' = Append(invitations, [greeter |-> g, target |-> p.target, deleted |-> FALSE])
        /\ SendStatus(p.at, n, "IDLE") /\ excuses' = excuses
    BY <1>2, <1>3, <1>10, <2>1 DEF InsertInvitation
  <2>3. g \in {deployment.greeterOf[x] : x \in DOMAIN deployment.greeterOf}  BY <1>1, InviteFacts
  <2>4. deployment.impl # "MEMORY" /\ (Sole(g) => Compatible(g, p.target) = {})
    BY <1>1, <1>4, <1>10 DEF InviteInv, PendingInv, FoundNone
  <2>5. /\ ConnectedInv' /\ DeletedInv' /\ StatusInv' /\ OneInvitationPerTarget'
        /\ invitations' \in Seq(InviteRows) /\ wire' \in [Backends -> Seq(StatusEvents)]
        /\ Tokens' = Tokens \cup {n} /\ \A x \in Tokens : invitations'[x] = invitations[x]
        /\ invitations'[n].greeter = g
    <3>1. UNCHANGED <<deployment, members, upBackends, claimersReady, claimer, excuses>>  BY <1>2, <2>2
    <3>2. deployment.impl = "MEMORY" \/ Sole(g) => Compatible(g, p.target) = {}  BY <2>4
    <3>3. PICK target, b : target = p.target /\ b = p.at  OBVIOUS
    <3>4. /\ target \in deployment.targets /\ SendStatus(b, n, "IDLE")
          /\ invitations' = Append(invitations, [greeter |-> g, target |-> target, deleted |-> FALSE])
          /\ deployment.impl = "MEMORY" \/ Sole(g) => Compatible(g, target) = {}
      BY <1>5, <2>2, <3>2, <3>3
    <3>5. DOMAIN pending' = DOMAIN pending /\ n = Len(invitations) + 1  BY <1>1, <1>6
    <3>6. /\ ConnectedInv' /\ DeletedInv' /\ StatusInv' /\ OneInvitationPerTarget'
          /\ invitations' \in Seq(InviteRows) /\ wire' \in [Backends -> Seq(StatusEvents)]
          /\ Tokens' = Tokens \cup {n}
      BY <2>3, <3>1, <3>4, <3>5, AddedKeeps
    <3>7. \A x \in Tokens : invitations'[x] = invitations[x]
      BY <2>3, <3>1, <3>4, <3>5, AddedKeeps
    <3>8. invitations'[n].greeter = g  BY <2>3, <3>1, <3>4, <3>5, AddedKeeps
    <3>9. QED  BY <3>6, <3>7, <3>8
  <2>6. InvitesTyped'
    BY <1>2, <1>6, <2>5, InviteTypesStay DEF InviteInv, InvitesTyped
  <2>7. PendingInv'
    <3>1. SUFFICES ASSUME NEW o \in DOMAIN pending, o # s, pending'[o] = pending[o]
                   PROVE  /\ pending[o] # Nothing => deployment.impl = "POSTGRESQL" /\ pending[o].found \subseteq Tokens'
                          /\ FoundNone(o) /\ Sole(deployment.greeterOf[o]) =>
                               Compatible(deployment.greeterOf[o], pending[o].target)' = {}
      BY <1>2, <1>6, <1>7 DEF PendingInv, FoundNone
    <3>2. pending[o] # Nothing => deployment.impl = "POSTGRESQL" /\ pending[o].found \subseteq Tokens
      BY DEF InviteInv, PendingInv
    <3>3. ASSUME FoundNone(o), Sole(deployment.greeterOf[o]),
                 NEW x \in Compatible(deployment.greeterOf[o], pending[o].target)'
          PROVE  FALSE
      <4>1. /\ x \in Tokens'
            /\ invitations'[x] = [greeter |-> deployment.greeterOf[o], target |-> pending[o].target, deleted |-> FALSE]
        BY <1>2, <3>1, <3>3 DEF Compatible
      <4>2. CASE x = n
        <5>1. g = deployment.greeterOf[o]  BY <2>5, <4>1, <4>2
        <5>2. QED  BY <1>1, <3>1, <3>3, <5>1, SoleIsOne
      <4>3. CASE x \in Tokens
        <5>1. x \in Compatible(deployment.greeterOf[o], pending[o].target)
          BY <2>5, <4>1, <4>3 DEF Compatible
        <5>2. QED  BY <3>3, <5>1 DEF InviteInv, PendingInv
      <4>4. QED  BY <2>5, <4>1, <4>2, <4>3
    <3>4. QED  BY <2>5, <3>2, <3>3
  <2>8. QED  BY <2>5, <2>6, <2>7 DEF InviteInv
<1>11. QED  BY <1>9, <1>10

\* An invitation is deleted, and all processes are told.
LEMMA DeleteKeeps ==
  ASSUME InviteInv, NEW s \in DOMAIN pending, NEW t \in Tokens, NEW b \in Backends,
         DeleteInvitation(s, t, b)
  PROVE  InviteInv'
<1>1. /\ invitations' = [invitations EXCEPT ![t].deleted = TRUE] /\ SendStatus(b, t, "DELETED")
      /\ UNCHANGED <<deployment, members, pending, upBackends, claimersReady, claimer, excuses, restarts>>
  BY DEF DeleteInvitation
<1>2. /\ invitations \in Seq(InviteRows) /\ Tokens = 1 .. Len(invitations) /\ Len(invitations) \in Nat
      /\ invitations[t] \in InviteRows /\ t \in Nat
  BY InviteFacts
<1>3. PICK r : r = [invitations[t] EXCEPT !.deleted = TRUE]  OBVIOUS
<1>4. r \in InviteRows /\ r.deleted /\ r.greeter = invitations[t].greeter /\ r.target = invitations[t].target
  BY <1>2, <1>3 DEF InviteRows
<1>5. invitations' = [invitations EXCEPT ![t] = r]  BY <1>1, <1>3
<1>6. /\ invitations' \in Seq(InviteRows) /\ Tokens' = Tokens /\ invitations'[t] = r
      /\ \A u \in Tokens : u # t => invitations'[u] = invitations[u]
  BY <1>2, <1>4, <1>5 DEF Tokens
<1>7. /\ ~Open(t)' /\ \A u \in Tokens : u # t => (Open(u)' <=> Open(u))
      /\ \A u \in Tokens : /\ Open(u)' => Open(u)
                           /\ invitations'[u].greeter = invitations[u].greeter
                           /\ invitations'[u].target = invitations[u].target
  BY <1>4, <1>6 DEF Open
<1>8. wire' \in [Backends -> Seq(StatusEvents)]  BY <1>1, <1>2, EventIsSent
<1>9. InvitesTyped'
  BY <1>1, <1>6, <1>8, InviteTypesStay DEF InviteInv, InvitesTyped
<1>10. ConnectedInv'  BY <1>1, <1>2, <1>6, SendKeepsConnections DEF IsConnected
<1>11. DeletedInv'  BY <1>1, <1>2, <1>7, SendKeepsDeletions DEF IsServed
<1>12. PendingInv'
  <2>1. \A g, x : Compatible(g, x)' \subseteq Compatible(g, x)
    BY <1>4, <1>6 DEF Compatible
  <2>2. \A g : Sole(g)' <=> Sole(g)  BY <1>1 DEF Sole
  <2>3. QED  BY <1>1, <1>6, <2>1, <2>2 DEF InviteInv, PendingInv, FoundNone
<1>13. OneInvitationPerTarget'
  BY <1>1, <1>6, <1>7 DEF InviteInv, OneInvitationPerTarget
<1>14. StatusInv'
  <2>1. \A x : Joined(x)' = Joined(x)  BY <1>1, JoinedStays
  <2>2. SUFFICES ASSUME NEW x \in upBackends, NEW u \in Tokens, Open(u)', <<x, u>> \notin excuses
                 PROVE  Told(x, u)'
    BY <1>1, <1>6 DEF StatusInv
  <2>3. Open(u) /\ u # t  BY <1>7, <2>2
  <2>4. Told(x, u)  BY <2>2, <2>3 DEF InviteInv, StatusInv
  <2>5. QED  BY <1>1, <1>2, <2>1, <2>2, <2>3, <2>4, SentStatusTells
<1>15. QED  BY <1>9, <1>10, <1>11, <1>12, <1>13, <1>14 DEF InviteInv

\* A claimer joins and tells every process: they all know it again.
LEMMA ClaimerJoinedKeeps ==
  ASSUME InviteInv, NEW c \in Claimers, ClaimerJoined(c)
  PROVE  InviteInv'
<1>1. PICK t, r, n : t = claimer[c].token /\ r = claimer[c] /\ n = claimer'[c]  OBVIOUS
<1>2. /\ r.pc = "accepted" /\ claimer' = [claimer EXCEPT ![c].pc = "joining"]
      /\ SendStatus(claimer[c].at, t, "READY")
      /\ excuses' = {x \in excuses : x[2] # t \/ x[1] \notin upBackends}
      /\ UNCHANGED <<deployment, invitations, members, pending, upBackends, claimersReady, restarts>>
  BY <1>1 DEF ClaimerJoined
<1>3. r \in ClaimerRows /\ n = [r EXCEPT !.pc = "joining"]  BY <1>1, <1>2, InviteFacts
<1>4. n \in ClaimerRows /\ n.pc = "joining" /\ n.at = r.at /\ n.token = t /\ n.late = r.late
  <2>1. "joining" \in ClaimerStates  BY DEF ClaimerStates
  <2>2. QED  BY <1>1, <1>3, <2>1, ClaimerMoved
<1>5. /\ \A d \in Claimers : d # c => claimer'[d] = claimer[d]
      /\ claimer' \in [Claimers -> ClaimerRows]
  BY <1>1, <1>2, <1>4, InviteFacts
<1>6. t \in Tokens /\ t \in Nat
  <2>1. t \in Tokens  BY <1>1, <1>2 DEF InviteInv, ConnectedInv, IsConnected
  <2>2. QED  BY <2>1, InviteFacts
<1>7. PendingInv' /\ OneInvitationPerTarget' /\ Tokens' = Tokens /\ \A u : Open(u)' = Open(u)
  BY <1>2, RequestsStay
<1>8. wire' \in [Backends -> Seq(StatusEvents)]  BY <1>2, <1>6, EventIsSent
<1>9. InvitesTyped'  BY <1>2, <1>5, <1>7, <1>8, InviteTypesStay DEF InviteInv, InvitesTyped
<1>10. ASSUME NEW d \in Claimers
       PROVE  /\ IsConnected(d)' => IsConnected(d) /\ claimer'[d].at = claimer[d].at
                                     /\ claimer'[d].token = claimer[d].token
              /\ IsServed(d)' => IsServed(d) /\ claimer'[d].at = claimer[d].at
                                   /\ claimer'[d].token = claimer[d].token
                                   /\ claimer'[d].late = claimer[d].late
  <2>1. CASE d = c  BY <1>1, <1>2, <1>4, <2>1 DEF IsConnected, IsServed
  <2>2. CASE d # c  BY <1>5, <2>2 DEF IsConnected, IsServed
  <2>3. QED  BY <2>1, <2>2
<1>11. ConnectedInv'  BY <1>2, <1>6, <1>7, <1>10, SendKeepsConnections
<1>12. DeletedInv'  BY <1>2, <1>6, <1>7, <1>10, SendKeepsDeletions
<1>13. StatusInv'
  <2>1. c \in Joined(t)'  BY <1>1, <1>4 DEF Joined
  <2>2. \A u : u # t => Joined(u)' = Joined(u)  BY <1>1, <1>2, <1>4, <1>5 DEF Joined
  <2>3. SUFFICES ASSUME NEW x \in upBackends, NEW u \in Tokens, Open(u), <<x, u>> \notin excuses'
                 PROVE  Told(x, u)'
    BY <1>2, <1>7 DEF StatusInv
  <2>4. CASE u = t  BY <1>2, <1>6, <2>1, <2>3, <2>4, SentStatusTells
  <2>5. CASE u # t
    <3>1. <<x, u>> \notin excuses  BY <1>2, <2>3, <2>5
    <3>2. Told(x, u)  BY <2>3, <3>1 DEF InviteInv, StatusInv
    <3>3. QED  BY <1>2, <1>6, <2>2, <2>3, <2>5, <3>2, SentStatusTells
  <2>6. QED  BY <2>4, <2>5
<1>14. QED  BY <1>7, <1>9, <1>11, <1>12, <1>13 DEF InviteInv

\* A claimer left: the processes are told that nobody is there, which is wrong only where
\* another claimer is, and then excused.
LEMMA ClaimerLeftKeeps ==
  ASSUME InviteInv, NEW c \in Claimers, ClaimerLeft(c)
  PROVE  InviteInv'
<1>1. PICK t, r, n : t = claimer[c].token /\ r = claimer[c] /\ n = claimer'[c]  OBVIOUS
<1>2. /\ r.pc = "leaving" /\ claimer' = [claimer EXCEPT ![c].pc = "gone"]
      /\ SendStatus(claimer[c].at, t, "IDLE")
      /\ excuses' = IF Joined(t) = {c} THEN {x \in excuses : x[2] # t \/ x[1] \notin upBackends}
                                       ELSE excuses \cup {<<b, t>> : b \in upBackends}
      /\ UNCHANGED <<deployment, invitations, members, pending, upBackends, claimersReady, restarts>>
  BY <1>1 DEF ClaimerLeft
<1>3. r \in ClaimerRows /\ n = [r EXCEPT !.pc = "gone"]  BY <1>1, <1>2, InviteFacts
<1>4. n \in ClaimerRows /\ n.pc = "gone" /\ n.at = r.at /\ n.token = t /\ n.late = r.late
  <2>1. "gone" \in ClaimerStates  BY DEF ClaimerStates
  <2>2. QED  BY <1>1, <1>3, <2>1, ClaimerMoved
<1>5. /\ \A d \in Claimers : d # c => claimer'[d] = claimer[d]
      /\ claimer' \in [Claimers -> ClaimerRows]
  BY <1>1, <1>2, <1>4, InviteFacts
<1>6. t \in Tokens /\ t \in Nat
  <2>1. t \in Tokens  BY <1>1, <1>2 DEF InviteInv, ConnectedInv, IsConnected
  <2>2. QED  BY <2>1, InviteFacts
<1>7. PendingInv' /\ OneInvitationPerTarget' /\ Tokens' = Tokens /\ \A u : Open(u)' = Open(u)
  BY <1>2, RequestsStay
<1>8. wire' \in [Backends -> Seq(StatusEvents)]  BY <1>2, <1>6, EventIsSent
<1>9. InvitesTyped'  BY <1>2, <1>5, <1>7, <1>8, InviteTypesStay DEF InviteInv, InvitesTyped
<1>10. ASSUME NEW d \in Claimers
       PROVE  /\ IsConnected(d)' => IsConnected(d) /\ claimer'[d].at = claimer[d].at
                                     /\ claimer'[d].token = claimer[d].token
              /\ IsServed(d)' => IsServed(d) /\ claimer'[d].at = claimer[d].at
                                   /\ claimer'[d].token = claimer[d].token
                                   /\ claimer'[d].late = claimer[d].late
  <2>1. CASE d = c  BY <1>1, <1>2, <1>4, <2>1 DEF IsConnected, IsServed
  <2>2. CASE d # c  BY <1>5, <2>2 DEF IsConnected, IsServed
  <2>3. QED  BY <2>1, <2>2
<1>11. ConnectedInv'  BY <1>2, <1>6, <1>7, <1>10, SendKeepsConnections
<1>12. DeletedInv'  BY <1>2, <1>6, <1>7, <1>10, SendKeepsDeletions
<1>13. StatusInv'
  <2>1. Joined(t)' = Joined(t) \ {c}  BY <1>1, <1>4, <1>5 DEF Joined
  <2>2. \A u : u # t => Joined(u)' = Joined(u)  BY <1>1, <1>2, <1>4, <1>5 DEF Joined
  <2>3. SUFFICES ASSUME NEW x \in upBackends, NEW u \in Tokens, Open(u), <<x, u>> \notin excuses'
                 PROVE  Told(x, u)'
    BY <1>2, <1>7 DEF StatusInv
  <2>4. CASE u = t
    <3>1. Joined(t) = {c}  BY <1>2, <2>3, <2>4
    <3>2. Joined(t)' = {}  BY <2>1, <3>1
    <3>3. QED  BY <1>2, <1>6, <2>3, <2>4, <3>2, SentStatusTells
  <2>5. CASE u # t
    <3>1. <<x, u>> \notin excuses  BY <1>2, <2>3, <2>5
    <3>2. Told(x, u)  BY <2>3, <3>1 DEF InviteInv, StatusInv
    <3>3. QED  BY <1>2, <1>6, <2>2, <2>3, <2>5, <3>2, SentStatusTells
  <2>6. QED  BY <2>4, <2>5
<1>14. QED  BY <1>7, <1>9, <1>11, <1>12, <1>13 DEF InviteInv

\* A process stops: whoever was connected to it is gone, and the others are excused for them.
LEMMA CrashKeeps ==
  ASSUME InviteInv, NEW b \in Backends, Crash(b)
  PROVE  InviteInv'
<1>1. /\ upBackends' = upBackends \ {b} /\ wire' = [wire EXCEPT ![b] = <<>>]
      /\ claimersReady' = [claimersReady EXCEPT ![b] = {}] /\ claimer' = LostConnections(b)
      /\ UNCHANGED <<deployment, invitations, members>>
  BY DEF Crash
<1>2. pending' = [s \in DOMAIN pending |->
        IF pending[s] # Nothing /\ pending[s].at = b THEN Nothing ELSE pending[s]]
  BY DEF Crash
<1>3. excuses' = excuses \cup
        {<<x, t>> : x \in Backends, t \in {claimer[c].token : c \in {d \in Claimers :
             claimer[d].at = b /\ claimer[d].pc \in {"joining", "listening", "leaving"}}}}
  BY DEF Crash
<1>4. ASSUME NEW c \in Claimers
      PROVE  /\ claimer'[c] \in ClaimerRows /\ claimer'[c].at = claimer[c].at
             /\ claimer'[c].token = claimer[c].token /\ claimer'[c].late = claimer[c].late
             /\ claimer[c].at = b => claimer'[c].pc = "gone"
             /\ claimer[c].at # b => claimer'[c] = claimer[c]
  <2>1. PICK r, n : r = claimer[c] /\ n = claimer'[c]  OBVIOUS
  <2>2. r \in ClaimerRows /\ n = IF r.at = b THEN [r EXCEPT !.pc = "gone"] ELSE r
    BY <1>1, <2>1, InviteFacts DEF LostConnections
  <2>3. "gone" \in ClaimerStates  BY DEF ClaimerStates
  <2>4. CASE r.at = b
    <3>1. n \in ClaimerRows /\ n.pc = "gone" /\ n.at = r.at /\ n.token = r.token /\ n.late = r.late
      BY <2>2, <2>3, <2>4, ClaimerMoved
    <3>2. QED  BY <2>1, <2>4, <3>1
  <2>5. CASE r.at # b  BY <2>1, <2>2, <2>5
  <2>6. QED  BY <2>4, <2>5
<1>5. claimer' \in [Claimers -> ClaimerRows]
  BY <1>1, <1>4 DEF LostConnections
<1>6. Tokens' = Tokens /\ \A t : Open(t)' = Open(t)  BY <1>1 DEF Tokens, Open
<1>7. /\ DOMAIN pending' = DOMAIN pending /\ pending' \in [DOMAIN pending' -> PendingRows]
      /\ \A s \in DOMAIN pending : pending'[s] = Nothing \/ pending'[s] = pending[s]
  <2>1. Nothing \in PendingRows  BY DEF PendingRows
  <2>2. QED  BY <1>2, <2>1, InviteFacts
<1>8. /\ wire' \in [Backends -> Seq(StatusEvents)] /\ wire'[b] = <<>>
      /\ \A x \in Backends : x # b => wire'[x] = wire[x]
      /\ claimersReady' \in [Backends -> SUBSET Tokens] /\ claimersReady'[b] = {}
      /\ \A x \in Backends : x # b => claimersReady'[x] = claimersReady[x]
  <2>1. <<>> \in Seq(StatusEvents)  OBVIOUS
  <2>2. QED  BY <1>1, <2>1, InviteFacts
<1>9. InvitesTyped'
  BY <1>1, <1>5, <1>6, <1>7, <1>8, InviteTypesStay DEF InviteInv, InvitesTyped
<1>10. ConnectedInv'
  BY <1>1, <1>4, <1>6, <1>8 DEF InviteInv, ConnectedInv, IsConnected
<1>11. PendingInv'
  <2>1. \A g : Sole(g)' <=> Sole(g)  BY <1>1, <1>7 DEF Sole
  <2>2. \A g, x : Compatible(g, x)' = Compatible(g, x)  BY <1>1, <1>6 DEF Compatible
  <2>3. QED  BY <1>1, <1>6, <1>7, <2>1, <2>2 DEF InviteInv, PendingInv, FoundNone
<1>12. OneInvitationPerTarget'
  BY <1>1, <1>6, <1>7 DEF InviteInv, OneInvitationPerTarget, Open
<1>13. StatusInv'
  <2>1. SUFFICES ASSUME NEW x \in upBackends', NEW t \in Tokens, Open(t), <<x, t>> \notin excuses'
                 PROVE  Told(x, t)'
    BY <1>6 DEF StatusInv
  <2>2. x \in upBackends /\ x # b /\ x \in Backends  BY <1>1, <2>1, InviteFacts
  <2>3. Told(x, t)  BY <1>3, <2>1, <2>2 DEF InviteInv, StatusInv
  <2>4. ASSUME NEW c \in Joined(t) PROVE claimer[c].at # b
    BY <1>3, <2>1, <2>2, <2>4 DEF Joined
  <2>5. Joined(t)' = Joined(t)
    <3>1. ASSUME NEW c \in Claimers PROVE c \in Joined(t)' <=> c \in Joined(t)
      <4>1. CASE claimer[c].at = b
        <5>1. claimer'[c].pc = "gone"  BY <1>4, <4>1
        <5>2. QED  BY <2>4, <4>1, <5>1 DEF Joined
      <4>2. CASE claimer[c].at # b
        <5>1. claimer'[c] = claimer[c]  BY <1>4, <4>2
        <5>2. QED  BY <5>1 DEF Joined
      <4>3. QED  BY <4>1, <4>2
    <3>2. QED  BY <3>1 DEF Joined
  <2>6. wire'[x] = wire[x] /\ claimersReady'[x] = claimersReady[x]  BY <1>8, <2>2
  <2>7. QED  BY <2>3, <2>5, <2>6 DEF Told, Tells, IsLast
<1>14. DeletedInv'
  <2>1. SUFFICES ASSUME NEW c \in Claimers, IsServed(c)', ~Open(claimer[c].token)', ~claimer'[c].late
                 PROVE  WillBeTold(c)'
    BY DEF DeletedInv
  <2>2. claimer[c].at # b /\ claimer'[c] = claimer[c]  BY <1>4, <2>1 DEF IsServed
  <2>3. WillBeTold(c)  BY <1>1, <2>1, <2>2 DEF InviteInv, DeletedInv, IsServed, Open
  <2>4. claimer[c].at \in Backends
    BY <2>1, <2>2, InviteFacts DEF InviteInv, ConnectedInv, IsServed, IsConnected
  <2>5. wire'[claimer[c].at] = wire[claimer[c].at]  BY <1>8, <2>2, <2>4
  <2>6. QED  BY <2>2, <2>3, <2>5 DEF WillBeTold
<1>15. QED  BY <1>9, <1>10, <1>11, <1>12, <1>13, <1>14 DEF InviteInv

\* A process starts: it knows of no claimer, and is excused for those that are there.
LEMMA StartBackendKeeps ==
  ASSUME InviteInv, NEW b \in Backends, StartBackend(b)
  PROVE  InviteInv'
<1>1. /\ b \notin upBackends /\ upBackends' = upBackends \cup {b}
      /\ excuses' = excuses \cup {<<b, t>> : t \in {x \in Tokens : Joined(x) # {}}}
      /\ UNCHANGED <<deployment, invitations, members, pending, claimersReady, wire, claimer, restarts>>
  BY DEF StartBackend
<1>2. PendingInv' /\ OneInvitationPerTarget' /\ Tokens' = Tokens /\ \A t : Open(t)' = Open(t)
  BY <1>1, RequestsStay
<1>3. InvitesTyped'  BY <1>1, <1>2, InviteTypesStay DEF InviteInv, InvitesTyped
<1>4. ConnectedInv'  BY <1>1, <1>2 DEF InviteInv, ConnectedInv, IsConnected
<1>5. \A t : Joined(t)' = Joined(t)  BY <1>1, JoinedStays
<1>6. StatusInv'
  <2>1. SUFFICES ASSUME NEW x \in upBackends', NEW t \in Tokens, Open(t), <<x, t>> \notin excuses'
                 PROVE  Told(x, t)
    BY <1>1, <1>2, <1>5 DEF StatusInv, Told, Tells, IsLast
  <2>2. CASE x = b
    <3>1. wire[b] = <<>> /\ claimersReady[b] = {}  BY <1>1 DEF InviteInv, ConnectedInv
    <3>2. Joined(t) = {}  BY <1>1, <2>1, <2>2
    <3>3. DOMAIN wire[b] = {}  BY <3>1
    <3>4. QED  BY <2>2, <3>1, <3>2, <3>3 DEF Told, Tells
  <2>3. CASE x # b  BY <1>1, <2>1, <2>3 DEF InviteInv, StatusInv
  <2>4. QED  BY <2>2, <2>3
<1>7. DeletedInv'
  BY <1>1 DEF InviteInv, DeletedInv, WillBeTold, IsServed, Open
<1>8. QED  BY <1>2, <1>3, <1>4, <1>6, <1>7 DEF InviteInv

-----------------------------------------------------------------------------
(* The conduits of the two implementations *)

Sides == {"greeter", "claimer"}
MaybePayload == Payloads \cup {Null}
ConduitRows ==
  [state : ConduitStates, greeter : MaybePayload, claimer : MaybePayload, deleted : BOOLEAN]
MemoryConduits == [state : ConduitStates, said : [Sides -> MaybePayload]]
Listening ==
  [side : Parties, state : ConduitStates, payload : Payloads, pgPeer : MaybePayload,
   memPeer : MaybePayload]

\* The row and the conduit say the same.
Same(r, c) == r.state = c.state /\ r.greeter = c.said["greeter"] /\ r.claimer = c.said["claimer"]

ConduitInv ==
  /\ row \in ConduitRows /\ store \in [conduit : MemoryConduits, deleted : BOOLEAN]
  /\ listens \subseteq Listening /\ (row.deleted <=> store.deleted) /\ Same(row, store.conduit)
  /\ replies.pg = replies.memory /\ \A l \in listens : l.pgPeer = l.memPeer

\* A talk leaves both as they are, or with the same payloads, and answers alike.
LEMMA TalksAgree ==
  ASSUME NEW r \in ConduitRows, NEW c \in MemoryConduits, Same(r, c), NEW side \in Sides,
         NEW state \in ConduitStates, NEW payload \in Payloads,
         NEW p, p = PgTalk(r, side, state, payload), NEW m, m = MemoryTalk(c, side, state, payload)
  PROVE  /\ p[1] \in ConduitRows /\ m[1] \in MemoryConduits /\ Same(p[1], m[1])
         /\ p[1].deleted = r.deleted
         /\ p[2] = m[2] /\ p[3] = m[3] /\ p[3] \in MaybePayload
<1>1. Null \in MaybePayload /\ payload \in MaybePayload  BY DEF MaybePayload
<1>2. /\ r.state \in ConduitStates /\ r.greeter \in MaybePayload /\ r.claimer \in MaybePayload
      /\ c.state = r.state /\ c.said \in [Sides -> MaybePayload]
      /\ c.said["greeter"] = r.greeter /\ c.said["claimer"] = r.claimer
  BY DEF ConduitRows, MemoryConduits, Same
<1>3. r[side] = c.said[side] /\ r[Other(side)] = c.said[Other(side)] /\ r[Other(side)] \in MaybePayload
  BY <1>2 DEF Sides, Other
<1>4. CASE (r.state # state \/ r[side] # Null) /\ state # 1
  BY <1>1, <1>2, <1>3, <1>4 DEF PgTalk, MemoryTalk
<1>5. CASE (r.state # state \/ r[side] # Null) /\ state = 1
  <2>1. p[2] = m[2] /\ p[3] = m[3] /\ p[3] \in MaybePayload
    <3>1. PICK base : base = [r EXCEPT !.state = state, !.greeter = Null, !.claimer = Null]  OBVIOUS
    <3>2. base.greeter = Null /\ base.claimer = Null  BY <3>1 DEF ConduitRows
    <3>3. base[Other(side)] = Null  BY <3>2 DEF Sides, Other
    <3>4. p[2] = Reply("wait", Null) /\ p[3] = base[Other(side)]  BY <1>5, <3>1 DEF PgTalk
    <3>5. m[2] = Reply("wait", Null) /\ m[3] = Null  BY <1>2, <1>3, <1>5 DEF MemoryTalk
    <3>6. QED  BY <1>1, <3>3, <3>4, <3>5
  <2>2. QED  BY <1>1, <1>2, <1>3, <1>5, <2>1 DEF PgTalk, MemoryTalk, Sides, Other, Same, ConduitRows, MemoryConduits
<1>6. CASE ~(r.state # state \/ r[side] # Null)
  BY <1>1, <1>2, <1>3, <1>6 DEF PgTalk, MemoryTalk, Sides, Other, Same, ConduitRows, MemoryConduits
<1>7. QED  BY <1>4, <1>5, <1>6

\* So does a listen, which moves both to the next state or leaves them.
LEMMA ListensAgree ==
  ASSUME NEW r \in ConduitRows, NEW c \in MemoryConduits, Same(r, c), NEW l \in Listening,
         l.pgPeer = l.memPeer, NEW p, p = PgListen(r, l), NEW m, m = MemoryListen(c, l)
  PROVE  /\ p[1] \in ConduitRows /\ m[1] \in MemoryConduits /\ Same(p[1], m[1])
         /\ p[1].deleted = r.deleted /\ p[2] = m[2]
<1>1. PICK side, next : side = Column(l.side) /\ next = NextConduitState(l.state)  OBVIOUS
<1>2. side \in Sides  BY <1>1 DEF Sides, Column
<1>3. /\ r.state \in ConduitStates /\ r.greeter \in MaybePayload /\ r.claimer \in MaybePayload
      /\ c.state = r.state /\ c.said \in [Sides -> MaybePayload]
      /\ c.said["greeter"] = r.greeter /\ c.said["claimer"] = r.claimer
  BY DEF ConduitRows, MemoryConduits, Same
<1>4. r[side] = c.said[side] /\ r[Other(side)] = c.said[Other(side)]
  BY <1>2, <1>3 DEF Sides, Other
<1>5. next \in ConduitStates  BY <1>1 DEF NextConduitState, ConduitStates, Listening
<1>6. Null \in MaybePayload  BY DEF MaybePayload
<1> DEFINE same == r.state = l.state /\ r[side] = l.payload
           moved == r.state = next /\ r[side] = Null
<1>7. CASE l.memPeer = Null /\ same /\ r[Other(side)] # Null
  <2>1. p = <<[r EXCEPT !.state = next, !.greeter = Null, !.claimer = Null], Reply("ok", r[Other(side)])>>
    BY <1>1, <1>7 DEF PgListen
  <2>2. m = <<[state |-> next, said |-> [s \in Sides |-> Null]], Reply("ok", c.said[Other(side)])>>
    BY <1>1, <1>3, <1>4, <1>7 DEF MemoryListen, Sides
  <2>3. p[2] = m[2]  BY <1>4, <2>1, <2>2
  <2>4. PICK r1, c1 : /\ r1 = [r EXCEPT !.state = next, !.greeter = Null, !.claimer = Null]
                      /\ c1 = [state |-> next, said |-> [s \in Sides |-> Null]]
    OBVIOUS
  <2>5. r1 \in ConduitRows /\ r1.state = next /\ r1.greeter = Null /\ r1.claimer = Null /\ r1.deleted = r.deleted
    BY <1>5, <1>6, <2>4 DEF ConduitRows
  <2>6. c1 \in MemoryConduits /\ c1.state = next /\ c1.said["greeter"] = Null /\ c1.said["claimer"] = Null
    BY <1>5, <1>6, <2>4 DEF MemoryConduits, Sides
  <2>7. p[1] = r1 /\ m[1] = c1  BY <2>1, <2>2, <2>4
  <2>8. QED  BY <2>3, <2>5, <2>6, <2>7 DEF Same
<1>8. CASE l.memPeer # Null /\ moved
  <2>1. p = <<r, Reply("ok", l.pgPeer)>>  BY <1>1, <1>8 DEF PgListen
  <2>2. m = <<c, Reply("ok", l.memPeer)>>  BY <1>1, <1>3, <1>4, <1>8 DEF MemoryListen
  <2>3. QED  BY <2>1, <2>2
<1>9. CASE \/ l.memPeer = Null /\ same /\ r[Other(side)] = Null
           \/ l.memPeer # Null /\ ~moved /\ same /\ r[Other(side)] = l.memPeer
  <2>1. p = <<r, Reply("wait", Null)>>  BY <1>1, <1>9 DEF PgListen
  <2>2. m = <<c, Reply("wait", Null)>>  BY <1>1, <1>3, <1>4, <1>9 DEF MemoryListen
  <2>3. QED  BY <2>1, <2>2
<1>10. CASE \/ l.memPeer = Null /\ ~same
            \/ l.memPeer # Null /\ ~moved /\ ~(same /\ r[Other(side)] = l.memPeer)
  <2>1. p = <<r, Reply("invalid_state", Null)>>  BY <1>1, <1>10 DEF PgListen
  <2>2. m = <<c, Reply("invalid_state", Null)>>  BY <1>1, <1>3, <1>4, <1>10 DEF MemoryListen
  <2>3. QED  BY <2>1, <2>2
<1>11. QED  BY <1>7, <1>8, <1>9, <1>10

\* A call keeps the two alike.
LEMMA ConduitKept ==
  ASSUME ConduitInv, [PgConduitNext]_pgConduitVars
  PROVE  ConduitInv'
<1>1. /\ row \in ConduitRows /\ store \in [conduit : MemoryConduits, deleted : BOOLEAN]
      /\ store.conduit \in MemoryConduits /\ (row.deleted <=> store.deleted) /\ Same(row, store.conduit)
      /\ \A l \in listens : l \in Listening /\ l.pgPeer = l.memPeer
  BY DEF ConduitInv
<1>2. \A side : PgRefusal(side) = MemoryRefusal(side)
  BY <1>1 DEF PgRefusal, PgFound, MemoryRefusal
<1>3. ASSUME NEW side \in Parties, NEW state \in ConduitStates, NEW payload \in Payloads,
             CallTalk(side, state, payload)
      PROVE  ConduitInv'
  <2>1. PICK pg, mem :
          /\ pg = IF PgRefusal(side) # "none" THEN <<row, Reply(PgRefusal(side), Null), Null>>
                                              ELSE PgTalk(row, side, state, payload)
          /\ mem = IF MemoryRefusal(side) # "none"
                     THEN <<store.conduit, Reply(MemoryRefusal(side), Null), Null>>
                     ELSE MemoryTalk(store.conduit, side, state, payload)
    OBVIOUS
  <2>2. /\ row' = pg[1] /\ store' = [store EXCEPT !.conduit = mem[1]]
        /\ replies' = [pg |-> pg[2], memory |-> mem[2]]
        /\ listens' \subseteq listens \cup {[side |-> side, state |-> state, payload |-> payload,
                                             pgPeer |-> pg[3], memPeer |-> mem[3]]}
    BY <1>3, <2>1 DEF CallTalk
  <2>3. /\ pg[1] \in ConduitRows /\ mem[1] \in MemoryConduits /\ Same(pg[1], mem[1])
        /\ pg[1].deleted = row.deleted
        /\ pg[2] = mem[2] /\ pg[3] = mem[3] /\ pg[3] \in MaybePayload
    <3>1. CASE PgRefusal(side) # "none"  BY <1>1, <1>2, <2>1, <3>1 DEF MaybePayload
    <3>2. CASE PgRefusal(side) = "none"
      <4>1. side \in Sides  BY <1>3, <3>2 DEF PgRefusal, PgFound, Parties, Sides
      <4>2. pg = PgTalk(row, side, state, payload) /\ mem = MemoryTalk(store.conduit, side, state, payload)
        BY <1>2, <2>1, <3>2
      <4>3. QED  BY <1>1, <1>3, <4>1, <4>2, TalksAgree
    <3>3. QED  BY <3>1, <3>2
  <2>4. /\ store' \in [conduit : MemoryConduits, deleted : BOOLEAN] /\ store'.conduit = mem[1]
        /\ store'.deleted = store.deleted
    BY <1>1, <2>2, <2>3
  <2>5. PICK n : n = [side |-> side, state |-> state, payload |-> payload, pgPeer |-> pg[3], memPeer |-> mem[3]]
    OBVIOUS
  <2>6. n \in Listening /\ n.pgPeer = n.memPeer  BY <1>3, <2>3, <2>5 DEF Listening
  <2>7. listens' \subseteq listens \cup {n}  BY <2>2, <2>5
  <2>8. replies'.pg = replies'.memory  BY <2>2, <2>3
  <2>9. QED  BY <1>1, <2>2, <2>3, <2>4, <2>6, <2>7, <2>8 DEF ConduitInv
<1>4. ASSUME NEW l \in listens, CallListen(l) PROVE ConduitInv'
  <2>1. PICK pg, mem :
          /\ pg = IF PgRefusal(l.side) # "none" THEN <<row, Reply(PgRefusal(l.side), Null)>>
                                                ELSE PgListen(row, l)
          /\ mem = IF MemoryRefusal(l.side) # "none"
                     THEN <<store.conduit, Reply(MemoryRefusal(l.side), Null)>>
                     ELSE MemoryListen(store.conduit, l)
    OBVIOUS
  <2>2. /\ row' = pg[1] /\ store' = [store EXCEPT !.conduit = mem[1]]
        /\ replies' = [pg |-> pg[2], memory |-> mem[2]] /\ listens' \subseteq listens
    BY <1>4, <2>1 DEF CallListen
  <2>3. /\ pg[1] \in ConduitRows /\ mem[1] \in MemoryConduits /\ Same(pg[1], mem[1])
        /\ pg[1].deleted = row.deleted /\ pg[2] = mem[2]
    <3>1. CASE PgRefusal(l.side) # "none"  BY <1>1, <1>2, <2>1, <3>1
    <3>2. CASE PgRefusal(l.side) = "none"
      <4>1. pg = PgListen(row, l) /\ mem = MemoryListen(store.conduit, l)  BY <1>2, <2>1, <3>2
      <4>2. l \in Listening /\ l.pgPeer = l.memPeer  BY <1>1, <1>4
      <4>3. QED  BY <1>1, <4>1, <4>2, ListensAgree
    <3>3. QED  BY <3>1, <3>2
  <2>4. /\ store' \in [conduit : MemoryConduits, deleted : BOOLEAN] /\ store'.conduit = mem[1]
        /\ store'.deleted = store.deleted
    BY <1>1, <2>2, <2>3
  <2>5. replies'.pg = replies'.memory  BY <2>2, <2>3
  <2>6. QED  BY <1>1, <2>2, <2>3, <2>4, <2>5 DEF ConduitInv
<1>5. CASE CallDelete
  <2>1. /\ row' = [row EXCEPT !.deleted = TRUE] /\ store' = [store EXCEPT !.deleted = TRUE]
        /\ UNCHANGED <<listens, replies>>
    BY <1>5 DEF CallDelete
  <2>2. /\ row' \in ConduitRows /\ row'.deleted /\ row'.state = row.state
        /\ row'.greeter = row.greeter /\ row'.claimer = row.claimer
    BY <1>1, <2>1 DEF ConduitRows
  <2>3. /\ store' \in [conduit : MemoryConduits, deleted : BOOLEAN] /\ store'.deleted
        /\ store'.conduit = store.conduit
    BY <1>1, <2>1
  <2>4. QED  BY <1>1, <2>1, <2>2, <2>3 DEF ConduitInv, Same
<1>6. CASE UNCHANGED pgConduitVars  BY <1>6 DEF ConduitInv, pgConduitVars, Same
<1>7. QED  BY <1>3, <1>4, <1>5, <1>6 DEF PgConduitNext

\* Both begin in the same state.
LEMMA ConduitBegins ==
  ASSUME PgConduitInit PROVE ConduitInv
<1>1. PICK s \in ConduitStates :
        /\ row = [state |-> s, greeter |-> Null, claimer |-> Null, deleted |-> FALSE]
        /\ store = [conduit |-> [state |-> s, said |-> [x \in {"greeter", "claimer"} |-> Null]],
                    deleted |-> FALSE]
  BY DEF PgConduitInit
<1>2. Null \in MaybePayload  BY DEF MaybePayload
<1>3. PICK c : c = [state |-> s, said |-> [x \in Sides |-> Null]]  OBVIOUS
<1>4. /\ c \in MemoryConduits /\ c.state = s /\ c.said["greeter"] = Null /\ c.said["claimer"] = Null
  BY <1>2, <1>3 DEF MemoryConduits, Sides
<1>5. store = [conduit |-> c, deleted |-> FALSE]  BY <1>1, <1>3 DEF Sides
<1>6. /\ store \in [conduit : MemoryConduits, deleted : BOOLEAN] /\ store.conduit = c /\ ~store.deleted
  BY <1>4, <1>5
<1>7. row \in ConduitRows /\ row.state = s /\ row.greeter = Null /\ row.claimer = Null /\ ~row.deleted
  BY <1>1, <1>2 DEF ConduitRows
<1>8. listens = {} /\ replies.pg = replies.memory  BY DEF PgConduitInit
<1>9. QED  BY <1>4, <1>6, <1>7, <1>8 DEF ConduitInv, Same

-----------------------------------------------------------------------------
(* The theorem *)

\* No invitation, no claimer, nothing on its way.
LEMMA InvitesBegin ==
  ASSUME InviteServerInit PROVE InviteInv
<1>1. /\ deployment \in InviteSetups /\ invitations = <<>> /\ members = {}
      /\ pending = [s \in DOMAIN deployment.greeterOf |-> Nothing] /\ upBackends = deployment.up
      /\ claimersReady = [b \in Backends |-> {}] /\ wire = [b \in Backends |-> <<>>]
      /\ claimer = [c \in Claimers |-> Away]
  BY DEF InviteServerInit
<1>2. Tokens = {}  BY <1>1 DEF Tokens
<1>3. upBackends \subseteq Backends  BY <1>1, InviteSetupsAssumption
<1>4. /\ claimer \in [Claimers -> ClaimerRows] /\ \A c \in Claimers : claimer[c].pc = "away"
  BY <1>1, ClaimerAway
<1>5. InvitesTyped
  <2>1. Nothing \in PendingRows /\ <<>> \in Seq(InviteRows) /\ <<>> \in Seq(StatusEvents)
    BY DEF PendingRows
  <2>2. QED  BY <1>1, <1>2, <1>3, <1>4, <2>1 DEF InvitesTyped
<1>6. ConnectedInv  BY <1>1, <1>4 DEF ConnectedInv, IsConnected
<1>7. PendingInv  BY <1>1 DEF PendingInv, FoundNone
<1>8. OneInvitationPerTarget /\ StatusInv  BY <1>2 DEF OneInvitationPerTarget, StatusInv
<1>9. DeletedInv  BY <1>4 DEF DeletedInv, IsServed
<1>10. QED  BY <1>5, <1>6, <1>7, <1>8, <1>9 DEF InviteInv

\* Every step keeps the invariant.
LEMMA InvitesKept ==
  ASSUME InviteInv, [InviteServerNext]_inviteServerVars PROVE InviteInv'
<1>1. CASE \E b \in Backends : Dispatch(b) \/ Crash(b) \/ StartBackend(b)
  BY <1>1, DispatchKeeps, CrashKeeps, StartBackendKeeps
<1>2. CASE \E s \in DOMAIN pending, b \in Backends :
             \/ \E target \in deployment.targets : MemoryNew(s, target, b) \/ PGNewBegin(s, target, b)
             \/ \E t \in Tokens : DeleteInvitation(s, t, b)
  BY <1>2, MemoryNewKeeps, PGNewBeginKeeps, DeleteKeeps
<1>3. CASE \E s \in DOMAIN pending : PGNewCommit(s)  BY <1>3, PGNewCommitKeeps
<1>4. CASE \E target \in deployment.targets : MembersChange(target)  BY <1>4, MembersChangeKeeps
<1>5. CASE \E c \in Claimers, t \in Tokens, b \in Backends : Handshake(c, t, b)
  BY <1>5, HandshakeKeeps
<1>6. CASE \E c \in Claimers : ClaimerJoined(c) \/ ServeClaimer(c) \/ ClaimerLeaves(c) \/ ClaimerLeft(c)
  BY <1>6, ClaimerJoinedKeeps, ServeClaimerKeeps, ClaimerLeavesKeeps, ClaimerLeftKeeps
<1>7. CASE UNCHANGED inviteServerVars
  <2>1. UNCHANGED <<deployment, invitations, members, pending, upBackends, claimersReady, wire,
                    claimer, excuses>>
    BY <1>7 DEF inviteServerVars
  <2>2. PendingInv' /\ OneInvitationPerTarget' /\ Tokens' = Tokens  BY <2>1, RequestsStay
  <2>3. InvitesTyped'  BY <2>1, <2>2, InviteTypesStay DEF InviteInv, InvitesTyped
  <2>4. ConnectedInv' /\ DeletedInv'  BY <2>1, ConnectionsStay DEF IsConnected, IsServed
  <2>5. StatusInv'  BY <2>1, StatusStays
  <2>6. QED  BY <2>2, <2>3, <2>4, <2>5 DEF InviteInv
<1>8. QED  BY <1>1, <1>2, <1>3, <1>4, <1>5, <1>6, <1>7 DEF InviteServerNext

\* The invariants say what the clients are told.
LEMMA InvitesSound ==
  ASSUME InviteInv, ConduitInv PROVE InvitationsAreSound
<1>1. InviteServerTypeOK
  <2>1. \A t \in Tokens : invitations[t].target \in deployment.targets /\ invitations[t].deleted \in BOOLEAN
    BY InviteFacts DEF InviteRows
  <2>2. \A b \in Backends : DOMAIN wire[b] = 1 .. Len(wire[b])  BY InviteFacts
  <2>3. QED
    BY <2>1, <2>2 DEF InviteInv, InvitesTyped, ConnectedInv, IsConnected, InviteServerTypeOK
<1>2. ListShowsClaimers
  <2>1. SUFFICES ASSUME NEW b \in upBackends, wire[b] = <<>>, NEW s \in DOMAIN pending,
                        NEW t \in Listable(deployment.greeterOf[s]), <<b, t>> \notin excuses
                 PROVE  StatusOf(b, t) = "READY" <=> Joined(t) # {}
    BY DEF ListShowsClaimers, ListInvitations
  <2>2. t \in Tokens /\ Open(t)  BY <2>1 DEF Listable
  <2>3. Told(b, t)  BY <2>1, <2>2 DEF InviteInv, StatusInv
  <2>4. DOMAIN wire[b] = {}  BY <2>1
  <2>5. t \in claimersReady[b] <=> Joined(t) # {}  BY <2>3, <2>4 DEF Told, Tells
  <2>6. QED  BY <2>5 DEF StatusOf
<1>3. DeletedClaimersLeave
  <2>1. SUFFICES ASSUME NEW c \in Claimers, claimer[c].pc = "listening", wire[claimer[c].at] = <<>>,
                        ~Open(claimer[c].token), ~claimer[c].late
                 PROVE  FALSE
    BY DEF DeletedClaimersLeave
  <2>2. WillBeTold(c)  BY <2>1 DEF InviteInv, DeletedInv, IsServed
  <2>3. DOMAIN wire[claimer[c].at] = {}  BY <2>1
  <2>4. QED  BY <2>2, <2>3 DEF WillBeTold
<1>4. OneInvitationPerTarget  BY DEF InviteInv
<1>5. ConduitsAgree
  <2>1. /\ replies.pg = replies.memory /\ row.state = store.conduit.state
        /\ \A l \in listens : l.pgPeer = l.memPeer
    BY DEF ConduitInv, Same
  <2>2. row.deleted = store.deleted
    <3>1. row.deleted \in BOOLEAN /\ store.deleted \in BOOLEAN /\ (row.deleted <=> store.deleted)
      BY DEF ConduitInv, ConduitRows
    <3>2. QED  BY <3>1
  <2>3. \A s \in {"greeter", "claimer"} : row[s] = store.conduit.said[s]
    BY DEF ConduitInv, Same
  <2>4. QED  BY <2>1, <2>2, <2>3 DEF ConduitsAgree
<1>6. QED  BY <1>1, <1>2, <1>3, <1>4, <1>5 DEF InvitationsAreSound

\* What the server tells the clients of their invitations is right, for any number of
\* processes, greeters, claimers, tokens, crashes and calls: the list shows the claimers that
\* wait (but for the excuses that the code accepts), the claimers of a deleted invitation
\* leave, a target has one invitation where nothing runs next to invite_new, and the conduits
\* of the two implementations answer alike.
THEOREM InvitationsStaySound == InvitationsSpec => []InvitationsAreSound
<1>1. InviteServerInit => InviteInv  BY InvitesBegin
<1>2. InviteInv /\ [InviteServerNext]_inviteServerVars => InviteInv'  BY InvitesKept
<1>3. PgConduitInit => ConduitInv  BY ConduitBegins
<1>4. ConduitInv /\ [PgConduitNext]_pgConduitVars => ConduitInv'  BY ConduitKept
<1>5. InviteInv /\ ConduitInv => InvitationsAreSound  BY InvitesSound
<1>6. QED  BY <1>1, <1>2, <1>3, <1>4, <1>5, PTL DEF InvitationsSpec, InviteServerSpec, PgConduitSpec
=============================================================================

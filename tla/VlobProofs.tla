------------------------------ MODULE VlobProofs ------------------------------
(***************************************************************************)
(* Theorems about Vlob, for any users, realms, vlobs and bounds.           *)
(***************************************************************************)
EXTENDS Vlob, RealmProofs, SequenceTheorems

\* A step of the vlob component is a step of the realm component, or leaves it alone.
LEMMA RealmSimulation ==
  ASSUME [Next]_vars
  PROVE  [RealmNext]_realmVars
<1>1. CASE RealmStep
  BY <1>1 DEF RealmStep, RealmNext
<1>2. ASSUME NEW r \in Realms, NEW by \in Users, NEW rev \in Revisions,
             NEW ps \in SUBSET Users, StartMaintenance(r, by, rev, ps)
      PROVE  RealmNext
  BY <1>2 DEF StartMaintenance, RealmNext
<1>3. ASSUME NEW r \in Realms, NEW by \in Users, NEW rev \in Revisions,
             FinishMaintenance(r, by, rev)
      PROVE  RealmNext
  BY <1>3 DEF FinishMaintenance, RealmNext
<1>4. CASE UNCHANGED vars
  BY <1>4 DEF vars
<1>5. QED
  BY <1>1, <1>2, <1>3, <1>4
  DEF Next, VlobCreate, VlobUpdate, PollChanges, SaveBatch

\* The vlob component implements the realm component: storing, polling and re-encrypting
\* vlobs never does to roles, revisions and messages what the realm component could not do.
THEOREM VlobImplementsRealm == Spec => RealmSpec
<1>1. Init => RealmInit
  BY DEF Init
<1>2. QED
  BY <1>1, RealmSimulation, PTL DEF Spec, RealmSpec

-----------------------------------------------------------------------------
(* Types *)

\* The sequence of re-encrypted versions is as long as the one it replaces.
LEMMA ReencryptedData ==
  ASSUME TypeOK, NEW r \in Realms, NEW v \in VlobIds,
         NEW new, new = [n \in DOMAIN vlobs[v].data |-> Reencrypted(v, n, reencryption[r].done)]
  PROVE  /\ new \in Seq(Atom)
         /\ Len(new) = Len(vlobs[v].data)
         /\ DOMAIN new = DOMAIN vlobs[v].data
         /\ \A n \in DOMAIN vlobs[v].data : new[n].ts = vlobs[v].data[n].ts
<1> DEFINE data == vlobs[v].data
           done == reencryption[r].done
<1>1. data \in Seq(Atom) /\ done \in SUBSET [key : Keys, rev : Revisions]
  BY DEF TypeOK
<1>2. DOMAIN data = 1 .. Len(data) /\ Len(data) \in Nat
  BY <1>1
<1>3. ASSUME NEW n \in DOMAIN data
      PROVE  Reencrypted(v, n, done) \in Atom /\ Reencrypted(v, n, done).ts = data[n].ts
  <2>1. data[n] \in Atom
    BY <1>1, <1>3
  <2>2. CASE \E d \in done : d.key = <<v, n>>
    <3>1. (CHOOSE d \in done : d.key = <<v, n>>) \in done
      BY <2>2
    <3>2. (CHOOSE d \in done : d.key = <<v, n>>).rev \in Revisions
      BY <1>1, <3>1
    <3>3. QED
      BY <2>1, <2>2, <3>2 DEF Reencrypted, Atom
  <2>3. CASE ~ \E d \in done : d.key = <<v, n>>
    BY <2>1, <2>3 DEF Reencrypted
  <2>4. QED
    BY <2>2, <2>3
<1>4. new \in [1 .. Len(data) -> Atom]
  BY <1>2, <1>3
<1>5. new \in Seq(Atom)
  BY <1>2, <1>4, SeqDef
<1>6. QED
  BY <1>2, <1>3, <1>4, <1>5

\* What a write records of a vlob has the type of a change.
LEMMA ChangedType ==
  ASSUME NEW c \in [checkpoint : Nat, of : [VlobIds -> Change]], NEW v \in VlobIds,
         NEW n \in 0..MaxVersion
  PROVE  Changed(c, v, n) \in [checkpoint : Nat, of : [VlobIds -> Change]]
<1>1. [checkpoint |-> c.checkpoint + 1, version |-> n] \in Change
  BY DEF Change
<1>2. QED
  BY <1>1 DEF Changed

\* Every operation of the vlob component keeps every variable within its kind.
LEMMA VlobTypeStep ==
  ASSUME TypeOK, [Next]_vars
  PROVE  TypeOK'
<1> USE VlobAssumption, BoundAssumption
<1>0. RealmTypeOK'
  BY RealmSimulation, RealmTypeStep DEF TypeOK
<1>1. CASE RealmStep
  BY <1>0, <1>1 DEF RealmStep, vlobVars, TypeOK
<1>2. ASSUME NEW r \in Realms, NEW by \in Users, NEW rev \in Revisions, NEW v \in VlobIds,
             NEW ts \in Stamps, VlobCreate(r, by, rev, v, ts)
      PROVE  TypeOK'
  <2>1. <<[rev |-> rev, ts |-> ts]>> \in Seq(Atom)
    BY DEF Atom
  <2>2. Changed(changes[r], v, 1) \in [checkpoint : Nat, of : [VlobIds -> Change]]
    <3>1. changes[r] \in [checkpoint : Nat, of : [VlobIds -> Change]] /\ 1 \in 0..MaxVersion
      BY <1>2 DEF TypeOK, VlobCreate
    <3>2. QED
      BY <3>1, ChangedType
  <2>3. QED
    BY <1>0, <1>2, <2>1, <2>2 DEF VlobCreate, TypeOK
<1>3. ASSUME NEW by \in Users, NEW rev \in Revisions, NEW v \in VlobIds, NEW n \in Versions,
             NEW ts \in Stamps, VlobUpdate(by, rev, v, n, ts)
      PROVE  TypeOK'
  <2>1. vlobs[v].realm \in Realms /\ vlobs[v].data \in Seq(Atom)
    BY <1>3 DEF VlobUpdate, TypeOK
  <2>2. Append(vlobs[v].data, [rev |-> rev, ts |-> ts]) \in Seq(Atom)
    BY <2>1 DEF Atom
  <2>3. Changed(changes[vlobs[v].realm], v, n) \in [checkpoint : Nat, of : [VlobIds -> Change]]
    <3>1. /\ changes[vlobs[v].realm] \in [checkpoint : Nat, of : [VlobIds -> Change]]
          /\ n \in 0..MaxVersion
      BY <2>1 DEF TypeOK, Versions
    <3>2. QED
      BY <3>1, ChangedType
  <2>4. vlobs' \in [VlobIds -> [realm : Realms \cup {NoRealm}, data : Seq(Atom)]]
    BY <1>3, <2>2 DEF VlobUpdate, TypeOK
  <2>5. QED
    BY <1>0, <1>3, <2>1, <2>3, <2>4 DEF VlobUpdate, TypeOK
<1>4. ASSUME NEW u \in Pollers, NEW r \in Realms, PollChanges(u, r)
      PROVE  TypeOK'
  <2> DEFINE known == [v \in VlobIds |->
               IF NewSince(changes[r].of[v], polled[u][r].checkpoint)
                 THEN changes[r].of[v].version ELSE polled[u][r].version[v]]
  <2>1. known \in [VlobIds -> 0..MaxVersion]
    BY DEF TypeOK, Change
  <2>2. polled' = [polled EXCEPT ![u][r] = [checkpoint |-> changes[r].checkpoint, version |-> known]]
    BY <1>4 DEF PollChanges, TypeOK
  <2>3. changes[r].checkpoint \in Nat
    BY DEF TypeOK
  <2> HIDE DEF known
  <2>4. polled' \in [Pollers -> [Realms -> [checkpoint : Nat, version : [VlobIds -> 0..MaxVersion]]]]
    BY <2>1, <2>2, <2>3 DEF TypeOK
  <2>5. QED
    BY <1>0, <1>4, <2>4 DEF PollChanges, TypeOK
<1>5. ASSUME NEW r \in Realms, NEW by \in Users, NEW rev \in Revisions,
             NEW ps \in SUBSET Users, StartMaintenance(r, by, rev, ps)
      PROVE  TypeOK'
  BY <1>0, <1>5 DEF StartMaintenance, Todo, KeysOf, TypeOK
<1>6. ASSUME NEW r \in Realms, NEW by \in Users, NEW rev \in Revisions,
             NEW batch \in Batches, SaveBatch(r, by, rev, batch)
      PROVE  TypeOK'
  <2> DEFINE new == Saved(reencryption[r], batch) \cap reencryption[r].todo
  <2>1. new \subseteq Keys
    BY DEF TypeOK
  <2>2. reencryption' = [reencryption EXCEPT ![r] =
          [active |-> TRUE, todo |-> reencryption[r].todo \ new,
           done |-> reencryption[r].done \cup {[key |-> k, rev |-> rev] : k \in new}]]
    BY <1>6 DEF SaveBatch, TypeOK
  <2> HIDE DEF new
  <2>3. QED
    BY <1>0, <1>6, <2>1, <2>2 DEF SaveBatch, TypeOK
<1>7. ASSUME NEW r \in Realms, NEW by \in Users, NEW rev \in Revisions,
             FinishMaintenance(r, by, rev)
      PROVE  TypeOK'
  <2>1. ASSUME NEW v \in VlobIds
        PROVE  vlobs'[v] \in [realm : Realms \cup {NoRealm}, data : Seq(Atom)]
    <3> DEFINE data == [n \in DOMAIN vlobs[v].data |-> Reencrypted(v, n, reencryption[r].done)]
    <3>1. data \in Seq(Atom)
      BY ReencryptedData
    <3>2. vlobs'[v] = IF vlobs[v].realm # r THEN vlobs[v] ELSE [realm |-> r, data |-> data]
      BY <1>7 DEF FinishMaintenance
    <3> HIDE DEF data
    <3>3. QED
      BY <3>1, <3>2 DEF TypeOK
  <2>2. vlobs' \in [VlobIds -> [realm : Realms \cup {NoRealm}, data : Seq(Atom)]]
    <3>1. vlobs' = [v \in VlobIds |-> vlobs'[v]]
      BY <1>7 DEF FinishMaintenance
    <3>2. QED
      BY <2>1, <3>1
  <2>3. NoReencryption \in
          [active : BOOLEAN, todo : SUBSET Keys, done : SUBSET [key : Keys, rev : Revisions]]
    BY DEF NoReencryption
  <2>4. QED
    BY <1>0, <1>7, <2>2, <2>3 DEF FinishMaintenance, TypeOK
<1>8. CASE UNCHANGED vars
  BY <1>0, <1>8 DEF vars, vlobVars, TypeOK
<1>9. QED
  BY <1>1, <1>2, <1>3, <1>4, <1>5, <1>6, <1>7, <1>8 DEF Next

\* TypeOK is an invariant of the vlob component.
THEOREM VlobTypeCorrect == Spec => []TypeOK
<1>1. Init => TypeOK
  <2>1. RealmInit => RealmTypeOK
    BY BoundAssumption DEF RealmInit, RealmTypeOK, Status, Revisions
  <2>2. QED
    BY <2>1, VlobAssumption DEF Init, TypeOK, NoReencryption, Change
<1>2. QED
  BY <1>1, VlobTypeStep, PTL DEF Spec

-----------------------------------------------------------------------------
(* Histories *)

\* What one step may do to a vlob: leave it, give it its realm and first version, append one
\* version, or swap the bytes of all versions for those of a new key.
VlobStep(v) ==
  \/ vlobs'[v] = vlobs[v]
  \/ /\ vlobs[v].realm = NoRealm
     /\ MaxVersion > 0
     /\ \E r \in Realms, a \in Atom : vlobs'[v] = [realm |-> r, data |-> <<a>>]
  \/ /\ vlobs[v].realm # NoRealm
     /\ \E a \in Atom : /\ TimestampAccepted(vlobs[v].data, a.ts)
                        /\ Len(vlobs[v].data) + 1 <= MaxVersion
                        /\ vlobs'[v] = [vlobs[v] EXCEPT !.data = Append(@, a)]
  \/ /\ vlobs'[v].realm = vlobs[v].realm
     /\ Len(vlobs'[v].data) = Len(vlobs[v].data)
     /\ DOMAIN vlobs'[v].data = DOMAIN vlobs[v].data
     /\ \A n \in DOMAIN vlobs[v].data : vlobs'[v].data[n].ts = vlobs[v].data[n].ts

\* Every step does one of these to every vlob.
LEMMA EveryVlobStep ==
  ASSUME TypeOK, [Next]_vars, NEW v \in VlobIds
  PROVE  VlobStep(v)
<1> USE VlobAssumption, BoundAssumption
<1>1. ASSUME NEW r \in Realms, NEW by \in Users, NEW rev \in Revisions, NEW w \in VlobIds,
             NEW ts \in Stamps, VlobCreate(r, by, rev, w, ts)
      PROVE  VlobStep(v)
  <2>1. [rev |-> rev, ts |-> ts] \in Atom
    BY DEF Atom
  <2>2. CASE v = w
    BY <1>1, <2>1, <2>2 DEF VlobCreate, VlobStep, TypeOK
  <2>3. CASE v # w
    BY <1>1, <2>3 DEF VlobCreate, VlobStep, TypeOK
  <2>4. QED
    BY <2>2, <2>3
<1>2. ASSUME NEW by \in Users, NEW rev \in Revisions, NEW w \in VlobIds, NEW n \in Versions,
             NEW ts \in Stamps, VlobUpdate(by, rev, w, n, ts)
      PROVE  VlobStep(v)
  <2>1. [rev |-> rev, ts |-> ts] \in Atom
    BY DEF Atom
  <2>2. CASE v = w
    <3>1. vlobs'[v] = [vlobs[v] EXCEPT !.data = Append(@, [rev |-> rev, ts |-> ts])]
      BY <1>2, <2>2 DEF VlobUpdate, TypeOK
    <3>2. Len(vlobs[v].data) \in Nat /\ Len(vlobs[v].data) + 1 <= MaxVersion
      BY <1>2, <2>2 DEF VlobUpdate, TypeOK, Versions
    <3>3. TimestampAccepted(vlobs[v].data, ts) /\ vlobs[v].realm # NoRealm
      BY <1>2, <2>2 DEF VlobUpdate
    <3>4. QED
      BY <2>1, <3>1, <3>2, <3>3 DEF VlobStep
  <2>3. CASE v # w
    BY <1>2, <2>3 DEF VlobUpdate, VlobStep, TypeOK
  <2>4. QED
    BY <2>2, <2>3
<1>3. ASSUME NEW r \in Realms, NEW by \in Users, NEW rev \in Revisions,
             FinishMaintenance(r, by, rev)
      PROVE  VlobStep(v)
  <2> DEFINE data == [n \in DOMAIN vlobs[v].data |-> Reencrypted(v, n, reencryption[r].done)]
  <2>1. /\ Len(data) = Len(vlobs[v].data) /\ DOMAIN data = DOMAIN vlobs[v].data
        /\ \A n \in DOMAIN vlobs[v].data : data[n].ts = vlobs[v].data[n].ts
    BY ReencryptedData
  <2>2. vlobs'[v] = IF vlobs[v].realm # r THEN vlobs[v] ELSE [realm |-> r, data |-> data]
    BY <1>3 DEF FinishMaintenance
  <2> HIDE DEF data
  <2>3. CASE vlobs[v].realm # r
    BY <2>2, <2>3 DEF VlobStep
  <2>4. CASE vlobs[v].realm = r
    <3>1. vlobs'[v].data = data /\ vlobs'[v].realm = vlobs[v].realm
      BY <2>2, <2>4
    <3>2. QED
      BY <2>1, <3>1 DEF VlobStep
  <2>5. QED
    BY <2>3, <2>4
<1>4. CASE UNCHANGED vlobs
  BY <1>4 DEF VlobStep
<1>5. QED
  BY <1>1, <1>2, <1>3, <1>4
  DEF Next, vars, vlobVars, RealmStep, PollChanges, StartMaintenance, SaveBatch

\* A vlob without realm has no version, versions stay within the bound, and their timestamps
\* never decrease.
GoodHistory(vlob) ==
  /\ vlob.realm = NoRealm <=> vlob.data = <<>>
  /\ Len(vlob.data) <= MaxVersion
  /\ \A i, j \in DOMAIN vlob.data : i <= j => vlob.data[i].ts <= vlob.data[j].ts

\* The inductive form of HistoryIsOrdered.
HistoryInv == \A v \in VlobIds : GoodHistory(vlobs[v])

\* HistoryInv is preserved by every operation.
LEMMA HistoryInvStep ==
  ASSUME TypeOK, TypeOK', HistoryInv, [Next]_vars
  PROVE  HistoryInv'
<1> SUFFICES ASSUME NEW v \in VlobIds PROVE GoodHistory(vlobs'[v])
  BY DEF HistoryInv
<1> USE VlobAssumption
<1>0. /\ vlobs[v].data \in Seq(Atom) /\ vlobs'[v].data \in Seq(Atom) /\ GoodHistory(vlobs[v])
      /\ \A a \in Atom : a.ts \in Nat
  <2>1. vlobs[v].data \in Seq(Atom) /\ vlobs'[v].data \in Seq(Atom)
    BY DEF TypeOK
  <2>2. \A a \in Atom : a.ts \in Nat
    BY DEF Atom, Stamps
  <2>3. QED
    BY <2>1, <2>2 DEF HistoryInv
<1>1. CASE vlobs'[v] = vlobs[v]
  BY <1>0, <1>1
<1>2. ASSUME NEW r \in Realms, NEW a \in Atom, MaxVersion > 0,
             vlobs'[v] = [realm |-> r, data |-> <<a>>]
      PROVE  GoodHistory(vlobs'[v])
  <2>1. vlobs'[v].realm = r /\ vlobs'[v].data = <<a>> /\ a.ts \in Nat
    BY <1>0, <1>2
  <2>2. DOMAIN <<a>> = {1} /\ Len(<<a>>) = 1 /\ <<a>> # <<>> /\ <<a>>[1] = a
    OBVIOUS
  <2>3. QED
    BY <1>2, <2>1, <2>2, NoRealmAssumption DEF GoodHistory
<1>3. ASSUME NEW a \in Atom, vlobs[v].realm # NoRealm, TimestampAccepted(vlobs[v].data, a.ts),
             Len(vlobs[v].data) + 1 <= MaxVersion,
             vlobs'[v] = [vlobs[v] EXCEPT !.data = Append(@, a)]
      PROVE  GoodHistory(vlobs'[v])
  <2> DEFINE old == vlobs[v].data
             new == vlobs'[v].data
  <2>1. old \in Seq(Atom) /\ old # <<>> /\ new = Append(old, a) /\ vlobs'[v].realm = vlobs[v].realm
    BY <1>0, <1>3 DEF GoodHistory, TypeOK
  <2>2. a.ts >= old[Len(old)].ts
    BY <1>3 DEF TimestampAccepted
  <2>3. \A i, j \in DOMAIN old : i <= j => old[i].ts <= old[j].ts
    BY <1>0 DEF GoodHistory
  <2>4. Len(old) + 1 <= MaxVersion
    BY <1>3
  <2> HIDE DEF old, new
  <2>5. /\ Len(new) = Len(old) + 1 /\ new[Len(old) + 1] = a
        /\ \A i \in DOMAIN old : new[i] = old[i] /\ old[i] \in Atom
        /\ Len(old) \in DOMAIN old /\ DOMAIN old = 1 .. Len(old) /\ DOMAIN new = 1 .. Len(old) + 1
        /\ Len(old) \in Nat /\ new # <<>>
    BY <2>1
  <2>6. \A i \in DOMAIN old : old[i].ts <= a.ts
    BY <1>0, <2>2, <2>3, <2>5
  <2>7. ASSUME NEW i \in DOMAIN new, NEW j \in DOMAIN new, i <= j
        PROVE  new[i].ts <= new[j].ts
    <3>1. CASE j \in DOMAIN old
      BY <2>3, <2>5, <2>7, <3>1
    <3>2. CASE j = Len(old) + 1 /\ i \in DOMAIN old
      BY <2>5, <2>6, <3>2
    <3>3. CASE j = Len(old) + 1 /\ i = Len(old) + 1
      BY <1>0, <2>5, <3>3
    <3>4. QED
      BY <2>5, <2>7, <3>1, <3>2, <3>3
  <2>8. QED
    BY <1>3, <2>1, <2>4, <2>5, <2>7 DEF old, new, GoodHistory
<1>4. ASSUME vlobs'[v].realm = vlobs[v].realm, Len(vlobs'[v].data) = Len(vlobs[v].data),
             DOMAIN vlobs'[v].data = DOMAIN vlobs[v].data,
             \A n \in DOMAIN vlobs[v].data : vlobs'[v].data[n].ts = vlobs[v].data[n].ts
      PROVE  GoodHistory(vlobs'[v])
  <2>1. vlobs'[v].data = <<>> <=> vlobs[v].data = <<>>
    BY <1>0, <1>4
  <2>2. QED
    BY <1>0, <1>4, <2>1 DEF GoodHistory
<1>5. QED
  BY <1>1, <1>2, <1>3, <1>4, EveryVlobStep DEF VlobStep

\* No step removes a version, moves a vlob to another realm or changes the time of a version:
\* neither an update nor the end of a re-encryption, which replaces all the vlobs of a realm.
THEOREM HistoryIsKept == Spec => HistoryKept
<1> DEFINE Kept(v) == /\ vlobs[v].realm # NoRealm => vlobs'[v].realm = vlobs[v].realm
                      /\ Len(vlobs'[v].data) >= Len(vlobs[v].data)
                      /\ \A i \in DOMAIN vlobs[v].data :
                           vlobs'[v].data[i].ts = vlobs[v].data[i].ts
<1>1. ASSUME TypeOK, TypeOK', HistoryInv, [Next]_vars, NEW v \in VlobIds
      PROVE  Kept(v)
  <2>0. vlobs[v].data \in Seq(Atom) /\ vlobs'[v].data \in Seq(Atom) /\ GoodHistory(vlobs[v])
    BY <1>1 DEF TypeOK, HistoryInv
  <2>1. CASE vlobs'[v] = vlobs[v]
    BY <2>0, <2>1
  <2>2. CASE vlobs[v].realm = NoRealm
    <3>1. vlobs[v].data = <<>>
      BY <2>0, <2>2 DEF GoodHistory
    <3>2. QED
      BY <2>0, <2>2, <3>1
  <2>3. ASSUME NEW a \in Atom, vlobs'[v] = [vlobs[v] EXCEPT !.data = Append(@, a)]
        PROVE  Kept(v)
    <3>1. vlobs'[v].data = Append(vlobs[v].data, a) /\ vlobs'[v].realm = vlobs[v].realm
      BY <1>1, <2>3 DEF TypeOK
    <3>2. QED
      BY <2>0, <3>1
  <2>4. ASSUME vlobs'[v].realm = vlobs[v].realm, Len(vlobs'[v].data) = Len(vlobs[v].data),
               \A n \in DOMAIN vlobs[v].data : vlobs'[v].data[n].ts = vlobs[v].data[n].ts
        PROVE  Kept(v)
    BY <2>0, <2>4
  <2>5. QED
    BY <1>1, <2>1, <2>2, <2>3, <2>4, EveryVlobStep DEF VlobStep
<1>2. Init => HistoryInv
  BY VlobAssumption DEF Init, HistoryInv, GoodHistory
<1>3. ASSUME TypeOK, TypeOK', HistoryInv, [Next]_vars
      PROVE  [\A v \in VlobIds : Kept(v)]_vars
  BY <1>1, <1>3
<1>4. QED
  BY <1>2, <1>3, VlobTypeCorrect, HistoryInvStep, PTL DEF Spec, HistoryKept

\* In a sequence of versions whose times never decrease, the version at a time is the last
\* one that is not after it.
LEMMA VersionAtIsCut ==
  ASSUME NEW data \in Seq(Atom), NEW t \in Stamps,
         \A i, j \in DOMAIN data : i <= j => data[i].ts <= data[j].ts,
         NEW i \in DOMAIN data
  PROVE  data[i].ts <= t <=> i <= VersionAt(data, t)
<1> USE VlobAssumption
<1>0. /\ DOMAIN data = 1 .. Len(data) /\ Len(data) \in Nat /\ t \in Nat
      /\ \A k \in DOMAIN data : data[k].ts \in Nat
  <2>1. \A k \in DOMAIN data : data[k] \in Atom
    OBVIOUS
  <2>2. QED
    BY <2>1 DEF Atom, Stamps
<1>1. CASE ~ \E k \in DOMAIN data : data[k].ts <= t
  BY <1>0, <1>1 DEF VersionAt
<1>2. CASE \E k \in DOMAIN data : data[k].ts <= t
  <2> DEFINE Gaps == {Len(data) - k : k \in {k \in DOMAIN data : data[k].ts <= t}}
             Last(k) == data[k].ts <= t /\ \A j \in DOMAIN data : j > k => data[j].ts > t
  <2>1. Gaps \in SUBSET Nat /\ Gaps # {}
    BY <1>0, <1>2
  <2>2. PICK g \in Gaps : \A h \in Gaps : g <= h
    <3> HIDE DEF Gaps
    <3> QED BY <2>1, LeastNatural
  <2>3. PICK k \in DOMAIN data : data[k].ts <= t /\ g = Len(data) - k
    BY <2>2
  <2>4. Last(k)
    <3> SUFFICES ASSUME NEW j \in DOMAIN data, j > k, data[j].ts <= t PROVE FALSE
      BY <1>0, <2>3
    <3>1. g <= Len(data) - j
      BY <2>2
    <3>2. QED
      BY <1>0, <2>3, <3>1
  <2> DEFINE at == CHOOSE n \in DOMAIN data : Last(n)
  <2>5. at \in DOMAIN data /\ Last(at)
    BY <2>4
  <2>6. VersionAt(data, t) = at
    BY <1>2 DEF VersionAt
  <2> HIDE DEF at
  <2>7. i <= at => data[i].ts <= t
    <3> SUFFICES ASSUME i <= at, ~ (data[i].ts <= t) PROVE FALSE
      OBVIOUS
    <3> QED BY <1>0, <2>5
  <2>8. data[i].ts <= t => i <= at
    BY <1>0, <2>5
  <2>9. QED
    BY <2>6, <2>7, <2>8
<1>3. QED
  BY <1>1, <1>2

\* Reading a vlob at a time gives a cut of its history.
THEOREM HistoryIsAlwaysOrdered == Spec => []HistoryIsOrdered
<1>1. Init => HistoryInv
  BY VlobAssumption DEF Init, HistoryInv, GoodHistory
<1>2. TypeOK /\ HistoryInv => HistoryIsOrdered
  <2> SUFFICES ASSUME TypeOK, HistoryInv, NEW v \in VlobIds, NEW t \in Stamps,
                      NEW i \in DOMAIN vlobs[v].data
               PROVE  vlobs[v].data[i].ts <= t <=> i <= VersionAt(vlobs[v].data, t)
    BY DEF HistoryIsOrdered
  <2>1. /\ vlobs[v].data \in Seq(Atom)
        /\ \A k, j \in DOMAIN vlobs[v].data : k <= j => vlobs[v].data[k].ts <= vlobs[v].data[j].ts
    BY DEF TypeOK, HistoryInv, GoodHistory
  <2>2. QED
    BY <2>1, VersionAtIsCut
<1>3. QED
  BY <1>1, <1>2, VlobTypeCorrect, HistoryInvStep, PTL DEF Spec

-----------------------------------------------------------------------------
(* Polling *)

\* The inductive form of PollMissesNothing: the last change that a realm records of a vlob is
\* its last version, numbered not after the checkpoint of the realm, which no client is ahead of.
PollInv ==
  \A r \in Realms, v \in VlobIds :
    /\ vlobs[v].realm = r => changes[r].of[v].version = Len(vlobs[v].data)
    /\ changes[r].of[v].checkpoint <= changes[r].checkpoint
    /\ \A u \in Pollers :
         /\ polled[u][r].checkpoint <= changes[r].checkpoint
         /\ vlobs[v].realm = r =>
              \/ polled[u][r].version[v] = Len(vlobs[v].data)
              \/ changes[r].of[v].checkpoint > polled[u][r].checkpoint

\* A write of version n of vlob w in realm q is recorded as the last change of q.
LEMMA WritePreservesPollInv ==
  ASSUME TypeOK, PollInv, NEW q \in Realms, NEW w \in VlobIds, NEW n \in Nat,
         changes' = [changes EXCEPT ![q] = Changed(changes[q], w, n)], UNCHANGED polled,
         vlobs'[w].realm = q, Len(vlobs'[w].data) = n,
         \A v \in VlobIds \ {w} : vlobs'[v] = vlobs[v]
  PROVE  PollInv'
<1> SUFFICES ASSUME NEW r \in Realms, NEW v \in VlobIds
             PROVE  /\ vlobs'[v].realm = r => changes'[r].of[v].version = Len(vlobs'[v].data)
                    /\ changes'[r].of[v].checkpoint <= changes'[r].checkpoint
                    /\ \A u \in Pollers :
                         /\ polled[u][r].checkpoint <= changes'[r].checkpoint
                         /\ vlobs'[v].realm = r =>
                              \/ polled[u][r].version[v] = Len(vlobs'[v].data)
                              \/ changes'[r].of[v].checkpoint > polled[u][r].checkpoint
  BY DEF PollInv
<1>0. /\ changes[r].checkpoint \in Nat /\ changes[r].of[v].checkpoint \in Nat
      /\ \A u \in Pollers : polled[u][r].checkpoint \in Nat
  BY DEF TypeOK, Change
<1>1. CASE r # q
  <2>1. changes'[r] = changes[r]
    BY <1>1 DEF TypeOK
  <2>2. vlobs'[v].realm = r => vlobs'[v] = vlobs[v]
    BY <1>1
  <2>3. QED
    BY <2>1, <2>2 DEF PollInv
<1>2. CASE r = q /\ v # w
  <2>1. /\ changes'[r].of[v] = changes[r].of[v]
        /\ changes'[r].checkpoint = changes[r].checkpoint + 1
    BY <1>2 DEF TypeOK, Changed
  <2>2. vlobs'[v] = vlobs[v]
    BY <1>2
  <2>3. QED
    BY <1>0, <2>1, <2>2 DEF PollInv
<1>3. CASE r = q /\ v = w
  <2>1. /\ changes'[r].of[v] = [checkpoint |-> changes[r].checkpoint + 1, version |-> n]
        /\ changes'[r].checkpoint = changes[r].checkpoint + 1
    BY <1>3 DEF TypeOK, Changed
  <2>2. QED
    BY <1>0, <1>3, <2>1 DEF PollInv
<1>4. QED
  BY <1>1, <1>2, <1>3

\* PollInv is preserved by every operation.
LEMMA PollInvStep ==
  ASSUME TypeOK, PollInv, [Next]_vars
  PROVE  PollInv'
<1> USE VlobAssumption
<1>1. ASSUME NEW r \in Realms, NEW by \in Users, NEW rev \in Revisions, NEW w \in VlobIds,
             NEW ts \in Stamps, VlobCreate(r, by, rev, w, ts)
      PROVE  PollInv'
  <2>1. vlobs'[w].realm = r /\ Len(vlobs'[w].data) = 1 /\ \A v \in VlobIds \ {w} : vlobs'[v] = vlobs[v]
    BY <1>1 DEF VlobCreate, TypeOK
  <2>2. changes' = [changes EXCEPT ![r] = Changed(changes[r], w, 1)] /\ UNCHANGED polled
    BY <1>1 DEF VlobCreate, TypeOK
  <2>3. QED
    BY <2>1, <2>2, WritePreservesPollInv
<1>2. ASSUME NEW by \in Users, NEW rev \in Revisions, NEW w \in VlobIds, NEW n \in Versions,
             NEW ts \in Stamps, VlobUpdate(by, rev, w, n, ts)
      PROVE  PollInv'
  <2> DEFINE q == vlobs[w].realm
  <2>1. q \in Realms /\ vlobs[w].data \in Seq(Atom) /\ n \in Nat
    BY <1>2 DEF VlobUpdate, TypeOK, Versions
  <2>2. vlobs'[w].realm = q /\ vlobs'[w].data = Append(vlobs[w].data, [rev |-> rev, ts |-> ts])
    BY <1>2 DEF VlobUpdate, TypeOK
  <2>3. Len(vlobs'[w].data) = n
    BY <1>2, <2>1, <2>2 DEF VlobUpdate
  <2>4. \A v \in VlobIds \ {w} : vlobs'[v] = vlobs[v]
    BY <1>2 DEF VlobUpdate, TypeOK
  <2>5. changes' = [changes EXCEPT ![q] = Changed(changes[q], w, n)] /\ UNCHANGED polled
    BY <1>2 DEF VlobUpdate, TypeOK
  <2> HIDE DEF q
  <2>6. QED
    BY <2>1, <2>2, <2>3, <2>4, <2>5, WritePreservesPollInv
<1>3. ASSUME NEW w \in Pollers, NEW q \in Realms, PollChanges(w, q)
      PROVE  PollInv'
  <2>1. UNCHANGED <<vlobs, changes>>
    BY <1>3 DEF PollChanges
  <2> SUFFICES ASSUME NEW r \in Realms, NEW v \in VlobIds, NEW u \in Pollers
               PROVE  /\ polled'[u][r].checkpoint <= changes[r].checkpoint
                      /\ vlobs[v].realm = r =>
                           \/ polled'[u][r].version[v] = Len(vlobs[v].data)
                           \/ changes[r].of[v].checkpoint > polled'[u][r].checkpoint
    BY <2>1 DEF PollInv
  <2>2. CASE u = w /\ r = q
    <3>1. /\ polled'[u][r].checkpoint = changes[r].checkpoint
          /\ polled'[u][r].version[v] =
               IF NewSince(changes[r].of[v], polled[u][r].checkpoint)
                 THEN changes[r].of[v].version ELSE polled[u][r].version[v]
      BY <1>3, <2>2 DEF PollChanges, TypeOK
    <3>2. changes[r].checkpoint \in Nat
      BY DEF TypeOK
    <3>3. QED
      BY <3>1, <3>2 DEF PollInv, NewSince
  <2>3. CASE ~ (u = w /\ r = q)
    <3>1. polled'[u][r] = polled[u][r]
      BY <1>3, <2>3 DEF PollChanges, TypeOK
    <3>2. QED
      BY <3>1 DEF PollInv
  <2>4. QED
    BY <2>2, <2>3
<1>4. ASSUME NEW r \in Realms, NEW by \in Users, NEW rev \in Revisions,
             FinishMaintenance(r, by, rev)
      PROVE  PollInv'
  <2>1. UNCHANGED <<changes, polled>>
    BY <1>4 DEF FinishMaintenance
  <2>2. ASSUME NEW v \in VlobIds
        PROVE  vlobs'[v].realm = vlobs[v].realm /\ Len(vlobs'[v].data) = Len(vlobs[v].data)
    <3> DEFINE data == [n \in DOMAIN vlobs[v].data |-> Reencrypted(v, n, reencryption[r].done)]
    <3>1. Len(data) = Len(vlobs[v].data)
      BY ReencryptedData
    <3>2. vlobs'[v] = IF vlobs[v].realm # r THEN vlobs[v] ELSE [realm |-> r, data |-> data]
      BY <1>4 DEF FinishMaintenance
    <3> HIDE DEF data
    <3>3. QED
      BY <3>1, <3>2
  <2>3. QED
    BY <2>1, <2>2 DEF PollInv
<1>5. CASE UNCHANGED <<vlobs, changes, polled>>
  BY <1>5 DEF PollInv
<1>6. QED
  BY <1>1, <1>2, <1>3, <1>4, <1>5
  DEF Next, vars, vlobVars, RealmStep, StartMaintenance, SaveBatch

\* A client that polls never misses a change for good, however the writes of others, the
\* polls and re-encryptions interleave.
THEOREM PollNeverMisses == Spec => []PollMissesNothing
<1>1. Init => PollInv
  BY NoRealmAssumption DEF Init, PollInv
<1>2. PollInv => PollMissesNothing
  BY DEF PollInv, PollMissesNothing
<1>3. QED
  BY <1>1, <1>2, VlobTypeCorrect, PollInvStep, PTL DEF Spec

-----------------------------------------------------------------------------
(* Re-encryption *)

DoneKeys(r) == {d.key : d \in reencryption[r].done}

\* The inductive form of OneKeyReadsAll and ReencryptionCoversRealm: besides both, what is
\* done during a maintenance is encrypted for the revision the realm will have.
RevisionInvOf(r) ==
  /\ ~ status[r].maintenance =>
       \A k \in KeysOf(r) : vlobs[k[1]].data[k[2]].rev = status[r].rev
  /\ status[r].maintenance =>
       /\ reencryption[r].todo \cup DoneKeys(r) = KeysOf(r)
       /\ reencryption[r].todo \cap DoneKeys(r) = {}
       /\ \A d \in reencryption[r].done : d.rev = status[r].rev

RevisionInv == \A r \in Realms : RevisionInvOf(r)

\* A write with the revision of the realm, outside a maintenance, preserves RevisionInv.
LEMMA WritePreservesRevisionInv ==
  ASSUME TypeOK, HistoryInv, RevisionInv, NEW q \in Realms, NEW w \in VlobIds, NEW a \in Atom,
         ~ status[q].maintenance, a.rev = status[q].rev, UNCHANGED <<status, reencryption>>,
         vlobs[w].realm \in {NoRealm, q}, vlobs'[w].realm = q,
         vlobs'[w].data = Append(vlobs[w].data, a),
         \A v \in VlobIds \ {w} : vlobs'[v] = vlobs[v]
  PROVE  RevisionInv'
<1> USE VlobAssumption
<1> SUFFICES ASSUME NEW r \in Realms PROVE RevisionInvOf(r)'
  BY DEF RevisionInv, RevisionInvOf
<1>1. CASE r # q
  <2>1. KeysOf(r)' = KeysOf(r) /\ \A k \in KeysOf(r) : k[1] \in VlobIds \ {w}
    BY <1>1, NoRealmAssumption DEF KeysOf, Keys
  <2>2. QED
    BY <2>1 DEF RevisionInv, RevisionInvOf, DoneKeys
<1>2. CASE r = q
  <2>1. ASSUME NEW k \in KeysOf(r)'
        PROVE  vlobs'[k[1]].data[k[2]].rev = status[r].rev
    <3>0. k[1] \in VlobIds /\ k[2] \in Nat \ {0} /\ k[2] <= Len(vlobs'[k[1]].data)
          /\ vlobs'[k[1]].realm = r /\ k \in Keys
      BY <2>1 DEF KeysOf, Keys, Versions
    <3>1. CASE k[1] # w
      <4>1. vlobs'[k[1]] = vlobs[k[1]]
        BY <3>0, <3>1
      <4>2. k \in KeysOf(r)
        BY <3>0, <4>1 DEF KeysOf
      <4>3. QED
        BY <1>2, <4>1, <4>2 DEF RevisionInv, RevisionInvOf
    <3>2. CASE k[1] = w
      <4>1. vlobs[w].data \in Seq(Atom)
        BY DEF TypeOK
      <4>2. CASE k[2] = Len(vlobs[w].data) + 1
        BY <1>2, <3>2, <4>1, <4>2
      <4>3. CASE k[2] <= Len(vlobs[w].data)
        <5>1. vlobs[w].data # <<>>
          BY <3>0, <4>1, <4>3
        <5>2. vlobs[w].realm = q
          BY <5>1 DEF HistoryInv, GoodHistory
        <5>3. k \in KeysOf(r)
          BY <1>2, <3>0, <3>2, <4>3, <5>2 DEF KeysOf
        <5>4. vlobs'[w].data[k[2]] = vlobs[w].data[k[2]]
          BY <3>0, <4>1, <4>3
        <5>5. vlobs[k[1]].data[k[2]].rev = status[r].rev
          BY <1>2, <5>3 DEF RevisionInv, RevisionInvOf
        <5>6. QED
          BY <3>2, <5>4, <5>5
      <4>4. QED
        BY <3>0, <3>2, <4>1, <4>2, <4>3
    <3>3. QED
      BY <3>1, <3>2
  <2>2. QED
    BY <1>2, <2>1 DEF RevisionInvOf
<1>3. QED
  BY <1>1, <1>2

\* RevisionInv is preserved by every operation.
LEMMA RevisionInvStep ==
  ASSUME TypeOK, HistoryInv, RevisionInv, [Next]_vars
  PROVE  RevisionInv'
<1> USE VlobAssumption
<1>1. ASSUME NEW r \in Realms, NEW by \in Users, NEW rev \in Revisions, NEW w \in VlobIds,
             NEW ts \in Stamps, VlobCreate(r, by, rev, w, ts)
      PROVE  RevisionInv'
  <2> DEFINE a == [rev |-> rev, ts |-> ts]
  <2>1. a \in Atom /\ a.rev = status[r].rev /\ ~ status[r].maintenance
    BY <1>1 DEF VlobCreate, Access, RevisionMatches, Atom
  <2>2. /\ vlobs[w].realm = NoRealm /\ vlobs'[w].realm = r /\ vlobs'[w].data = <<a>>
        /\ \A v \in VlobIds \ {w} : vlobs'[v] = vlobs[v]
    BY <1>1 DEF VlobCreate, TypeOK
  <2>3. UNCHANGED <<status, reencryption>>
    BY <1>1 DEF VlobCreate, realmVars
  <2> HIDE DEF a
  <2>4. vlobs'[w].data = Append(vlobs[w].data, a)
    BY <2>2 DEF HistoryInv, GoodHistory
  <2>5. QED
    BY <2>1, <2>2, <2>3, <2>4, WritePreservesRevisionInv
<1>2. ASSUME NEW by \in Users, NEW rev \in Revisions, NEW w \in VlobIds, NEW n \in Versions,
             NEW ts \in Stamps, VlobUpdate(by, rev, w, n, ts)
      PROVE  RevisionInv'
  <2> DEFINE a == [rev |-> rev, ts |-> ts]
             q == vlobs[w].realm
  <2>1. q \in Realms /\ a \in Atom /\ a.rev = status[q].rev /\ ~ status[q].maintenance
    BY <1>2 DEF VlobUpdate, Access, RevisionMatches, Atom, TypeOK
  <2>2. /\ vlobs'[w].realm = q /\ vlobs'[w].data = Append(vlobs[w].data, a)
        /\ \A v \in VlobIds \ {w} : vlobs'[v] = vlobs[v]
    BY <1>2 DEF VlobUpdate, TypeOK
  <2>3. UNCHANGED <<status, reencryption>>
    BY <1>2 DEF VlobUpdate, realmVars
  <2>4. vlobs[w].realm \in {NoRealm, q}
    OBVIOUS
  <2> HIDE DEF a, q
  <2>5. QED
    BY <2>1, <2>2, <2>3, <2>4, WritePreservesRevisionInv
<1>3. ASSUME NEW r \in Realms, NEW by \in Users, NEW rev \in Revisions,
             NEW ps \in SUBSET Users, StartMaintenance(r, by, rev, ps)
      PROVE  RevisionInv'
  <2>1. /\ UNCHANGED vlobs
        /\ reencryption' = [reencryption EXCEPT ![r] = [active |-> TRUE, todo |-> KeysOf(r), done |-> {}]]
        /\ status' = [status EXCEPT ![r] = [rev |-> rev, maintenance |-> TRUE, by |-> by]]
    BY <1>3 DEF StartMaintenance, StartReencryption, Todo
  <2>2. \A q \in Realms : KeysOf(q)' = KeysOf(q)
    BY <2>1 DEF KeysOf
  <2>3. ASSUME NEW q \in Realms, q # r
        PROVE  RevisionInvOf(q)'
    <3>1. status'[q] = status[q] /\ reencryption'[q] = reencryption[q]
      BY <2>1, <2>3 DEF TypeOK, RealmTypeOK
    <3>2. QED
      BY <2>1, <2>2, <3>1 DEF RevisionInv, RevisionInvOf, DoneKeys
  <2>4. RevisionInvOf(r)'
    <3>1. status'[r].maintenance /\ reencryption'[r].todo = KeysOf(r) /\ reencryption'[r].done = {}
      BY <2>1 DEF TypeOK, RealmTypeOK
    <3>2. QED
      BY <2>2, <3>1 DEF RevisionInvOf, DoneKeys
  <2>5. QED
    BY <2>3, <2>4 DEF RevisionInv, RevisionInvOf
<1>4. ASSUME NEW r \in Realms, NEW by \in Users, NEW rev \in Revisions,
             NEW batch \in Batches, SaveBatch(r, by, rev, batch)
      PROVE  RevisionInv'
  <2> DEFINE new == Saved(reencryption[r], batch) \cap reencryption[r].todo
  <2>1. /\ UNCHANGED <<vlobs, status>>
        /\ reencryption' = [reencryption EXCEPT ![r] =
             [active |-> TRUE, todo |-> reencryption[r].todo \ new,
              done |-> reencryption[r].done \cup {[key |-> k, rev |-> rev] : k \in new}]]
    BY <1>4 DEF SaveBatch, realmVars, TypeOK
  <2>2. status[r].maintenance /\ rev = status[r].rev /\ new \subseteq reencryption[r].todo
    BY <1>4 DEF SaveBatch, MaintenanceAccess, RevisionMatches
  <2> HIDE DEF new
  <2>3. \A q \in Realms : KeysOf(q)' = KeysOf(q)
    BY <2>1 DEF KeysOf
  <2>4. ASSUME NEW q \in Realms, q # r
        PROVE  RevisionInvOf(q)'
    <3>1. reencryption'[q] = reencryption[q]
      BY <2>1, <2>4 DEF TypeOK
    <3>2. QED
      BY <2>1, <2>3, <3>1 DEF RevisionInv, RevisionInvOf, DoneKeys
  <2>5. RevisionInvOf(r)'
    <3>1. /\ reencryption'[r].todo = reencryption[r].todo \ new
          /\ reencryption'[r].done = reencryption[r].done \cup {[key |-> k, rev |-> rev] : k \in new}
      BY <2>1 DEF TypeOK
    <3>2. DoneKeys(r)' = DoneKeys(r) \cup new
      <4>1. ASSUME NEW k \in DoneKeys(r)' PROVE k \in DoneKeys(r) \cup new
        BY <3>1, <4>1 DEF DoneKeys
      <4>2. ASSUME NEW k \in DoneKeys(r) PROVE k \in DoneKeys(r)'
        BY <3>1, <4>2 DEF DoneKeys
      <4>3. ASSUME NEW k \in new PROVE k \in DoneKeys(r)'
        <5>1. [key |-> k, rev |-> rev] \in reencryption'[r].done /\ [key |-> k, rev |-> rev].key = k
          BY <3>1, <4>3
        <5>2. QED
          BY <5>1 DEF DoneKeys
      <4>4. QED
        BY <4>1, <4>2, <4>3
    <3>3. \A d \in reencryption'[r].done : d.rev = status[r].rev
      BY <2>2, <3>1 DEF RevisionInv, RevisionInvOf
    <3>4. QED
      BY <2>1, <2>2, <2>3, <3>1, <3>2, <3>3 DEF RevisionInv, RevisionInvOf
  <2>6. QED
    BY <2>4, <2>5 DEF RevisionInv, RevisionInvOf
<1>5. ASSUME NEW r \in Realms, NEW by \in Users, NEW rev \in Revisions,
             FinishMaintenance(r, by, rev)
      PROVE  RevisionInv'
  <2>1. /\ status[r].maintenance /\ reencryption[r].todo = {}
        /\ status' = [status EXCEPT ![r] = [rev |-> rev, maintenance |-> FALSE, by |-> NoUser]]
        /\ rev = status[r].rev
        /\ reencryption' = [reencryption EXCEPT ![r] = NoReencryption]
    BY <1>5 DEF FinishMaintenance, FinishReencryption, IsFinished
  <2>2. ASSUME NEW v \in VlobIds
        PROVE  /\ vlobs'[v].realm = vlobs[v].realm /\ Len(vlobs'[v].data) = Len(vlobs[v].data)
               /\ vlobs[v].realm # r => vlobs'[v] = vlobs[v]
               /\ vlobs[v].realm = r => \A n \in DOMAIN vlobs[v].data :
                    vlobs'[v].data[n] = Reencrypted(v, n, reencryption[r].done)
    <3> DEFINE data == [n \in DOMAIN vlobs[v].data |-> Reencrypted(v, n, reencryption[r].done)]
    <3>1. Len(data) = Len(vlobs[v].data)
      BY ReencryptedData
    <3>2. \A n \in DOMAIN vlobs[v].data : data[n] = Reencrypted(v, n, reencryption[r].done)
      OBVIOUS
    <3>3. vlobs'[v] = IF vlobs[v].realm # r THEN vlobs[v] ELSE [realm |-> r, data |-> data]
      BY <1>5 DEF FinishMaintenance
    <3> HIDE DEF data
    <3>4. QED
      BY <3>1, <3>2, <3>3
  <2>3. \A q \in Realms : KeysOf(q)' = KeysOf(q)
    BY <2>2 DEF KeysOf, Keys
  <2>4. ASSUME NEW q \in Realms, q # r
        PROVE  RevisionInvOf(q)'
    <3>1. status'[q] = status[q] /\ reencryption'[q] = reencryption[q]
      BY <2>1, <2>4 DEF TypeOK, RealmTypeOK
    <3>2. \A k \in KeysOf(q) : vlobs'[k[1]] = vlobs[k[1]]
      BY <2>2, <2>4 DEF KeysOf, Keys
    <3>3. QED
      BY <2>3, <3>1, <3>2 DEF RevisionInv, RevisionInvOf, DoneKeys
  <2>5. RevisionInvOf(r)'
    <3>1. ~ status'[r].maintenance /\ status'[r].rev = status[r].rev
      BY <2>1 DEF TypeOK, RealmTypeOK
    <3>2. ASSUME NEW k \in KeysOf(r)
          PROVE  vlobs'[k[1]].data[k[2]].rev = status[r].rev
      <4>1. k[1] \in VlobIds /\ vlobs[k[1]].realm = r /\ k = <<k[1], k[2]>>
        BY DEF KeysOf, Keys
      <4>2. k[2] \in DOMAIN vlobs[k[1]].data
        <5>1. vlobs[k[1]].data \in Seq(Atom)
          BY <4>1 DEF TypeOK
        <5>2. k[2] \in Nat \ {0} /\ k[2] <= Len(vlobs[k[1]].data)
          BY DEF KeysOf, Keys, Versions
        <5>3. QED
          BY <5>1, <5>2
      <4>3. k \in DoneKeys(r)
        BY <2>1 DEF RevisionInv, RevisionInvOf
      <4>4. \E d \in reencryption[r].done : d.key = <<k[1], k[2]>>
        BY <4>1, <4>3 DEF DoneKeys
      <4> DEFINE d == CHOOSE d \in reencryption[r].done : d.key = <<k[1], k[2]>>
      <4>5. d \in reencryption[r].done
        BY <4>4
      <4>6. vlobs'[k[1]].data[k[2]].rev = d.rev
        <5>1. vlobs'[k[1]].data[k[2]] = Reencrypted(k[1], k[2], reencryption[r].done)
          BY <2>2, <4>1, <4>2
        <5>2. Reencrypted(k[1], k[2], reencryption[r].done)
                = [rev |-> d.rev, ts |-> vlobs[k[1]].data[k[2]].ts]
          BY <4>4 DEF Reencrypted
        <5> HIDE DEF d
        <5>3. QED
          BY <5>1, <5>2
      <4> HIDE DEF d
      <4>7. QED
        BY <2>1, <4>5, <4>6 DEF RevisionInv, RevisionInvOf
    <3>3. QED
      BY <2>3, <3>1, <3>2 DEF RevisionInvOf
  <2>6. QED
    BY <2>4, <2>5 DEF RevisionInv, RevisionInvOf
<1>6. CASE UNCHANGED <<vlobs, reencryption>> /\ \A r \in Realms : status'[r] = status[r]
  <2>1. \A r \in Realms : KeysOf(r)' = KeysOf(r) /\ DoneKeys(r)' = DoneKeys(r)
    BY <1>6 DEF KeysOf, DoneKeys
  <2>2. QED
    BY <1>6, <2>1 DEF RevisionInv, RevisionInvOf
<1>7. CASE RealmStep
  <2>1. UNCHANGED <<vlobs, reencryption>>
    BY <1>7 DEF RealmStep, vlobVars
  <2>2. CASE \E r \in Realms, by \in Users, on \in Times : RealmCreate(r, by, on)
    BY <1>6, <2>1, <2>2 DEF RealmCreate
  <2>3. CASE \E r \in Realms : Sharing(r)
    BY <1>6, <2>1, <2>3 DEF Sharing, Share, UpdateRoles
  <2>4. CASE \E s \in sending : PostMessage(s)
    BY <1>6, <2>1, <2>4 DEF PostMessage
  <2>5. CASE \E by \in Users, u \in Users : RevokeUser(by, u)
    BY <1>6, <2>1, <2>5 DEF RevokeUser
  <2>6. CASE \E u \in Users : Kick(u)
    BY <1>6, <2>1, <2>6 DEF Kick
  <2>7. QED
    BY <1>7, <2>2, <2>3, <2>4, <2>5, <2>6 DEF RealmStep
<1>8. CASE \E u \in Pollers, r \in Realms : PollChanges(u, r)
  BY <1>6, <1>8 DEF PollChanges, realmVars
<1>9. CASE UNCHANGED vars
  BY <1>6, <1>9 DEF vars, vlobVars, realmVars
<1>10. QED
  BY <1>1, <1>2, <1>3, <1>4, <1>5, <1>7, <1>8, <1>9 DEF Next

\* RevisionInv holds from the start on.
LEMMA RevisionInvariant == Spec => []RevisionInv
<1>1. Init => HistoryInv /\ RevisionInv
  <2>1. Init => HistoryInv
    BY VlobAssumption DEF Init, HistoryInv, GoodHistory
  <2>2. Init => RevisionInv
    BY NoRealmAssumption DEF Init, RealmInit, RevisionInv, RevisionInvOf, KeysOf, Keys
  <2>3. QED
    BY <2>1, <2>2
<1>2. QED
  BY <1>1, VlobTypeCorrect, HistoryInvStep, RevisionInvStep, PTL DEF Spec

\* Outside a maintenance one key reads the whole history of a realm, however writes race the
\* start and the end of re-encryptions.
THEOREM OneKeyAlwaysReadsAll == Spec => []OneKeyReadsAll
<1>1. RevisionInv => OneKeyReadsAll
  BY DEF RevisionInv, RevisionInvOf, OneKeyReadsAll
<1>2. QED
  BY <1>1, RevisionInvariant, PTL

\* During a maintenance the work to do and the work done partition the versions of the realm,
\* whichever batches the owners save, in part, twice or at the same time.
THEOREM ReencryptionAlwaysCovers == Spec => []ReencryptionCoversRealm
<1>1. RevisionInv => ReencryptionCoversRealm
  BY DEF RevisionInv, RevisionInvOf, ReencryptionCoversRealm, DoneKeys
<1>2. QED
  BY <1>1, RevisionInvariant, PTL
=============================================================================

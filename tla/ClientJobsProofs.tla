-------------------------- MODULE ClientJobsProofs --------------------------
(***************************************************************************)
(* Proofs about modules Reencryption, GuiSession and FilesView.  Whichever *)
(* owners work on the re-encryption of a workspace, it decrypts with the   *)
(* right key and leaves nothing behind, and who must not keep the key is   *)
(* named.  Whatever the order of the signals of its jobs, the window of a  *)
(* client has the tabs of its sessions, and its list of files shows what   *)
(* the folders have.                                                       *)
(***************************************************************************)
EXTENDS Reencryption, GuiSession, FilesView, FiniteSetTheorems, WellFoundedInduction, TLAPS

-----------------------------------------------------------------------------
(* The inductive invariant *)

JobUsers == JobOwners \cup JobMembers
Certificates == [user : JobMembers, role : BOOLEAN, ts : Nat]
Phases == {"none", "status", "participants", "start", "get", "save", "finish"}

\* Every variable that the proofs are about has a value of its kind.
RealmType ==
  /\ realm = [rev |-> realm.rev, maintenance |-> realm.maintenance, todo |-> realm.todo,
              done |-> realm.done, keys |-> realm.keys]
  /\ realm.rev \in JobRevisions /\ realm.maintenance \in BOOLEAN
  /\ realm.todo \subseteq JobItems
UsersType ==
  /\ roles \in Seq(Certificates) /\ revokedOn \in [JobUsers -> Nat] /\ jobStamp \in Nat
  /\ sentKeys \in [JobRevisions -> [to : SUBSET JobUsers, on : Nat]]
  /\ holders \in [JobRevisions -> SUBSET JobUsers]
EntryType ==
  /\ entry \in [JobOwners -> [rev : JobRevisions, on : Nat]]
  /\ remote \in [JobOwners -> Seq(JobRevisions) \ {<<>>}]
JobRecords == [phase : Phases, new : Nat, old : Nat, on : Nat, to : SUBSET JobUsers, batch : SUBSET JobItems]
JobType == job \in [JobOwners -> JobRecords]

\* The keys of the items: the one of the realm, or the one before while a maintenance lasts;
\* what the maintenance has done is in the key of the realm.
KeyInv ==
  /\ realm.maintenance =>
       /\ \A i \in JobItems : realm.keys[i] = realm.rev - 1
       /\ \A i \in DOMAIN realm.done : realm.done[i] = realm.rev
  /\ FinishedIsComplete

\* A job has two keys that follow each other, and was dated before now.
StepOK(j, now) == (j.phase \notin {"none", "status"} => j.new = j.old + 1) /\ j.on <= now
StepInv == \A o \in JobOwners : StepOK(job[o], jobStamp)

\* Every member has certificates, and so a last one.
IsLast(s, k, u) == s[k].user = u /\ \A l \in DOMAIN s : s[l].user = u => l <= k
LastInv == \A u \in JobMembers : \E k \in DOMAIN roles : IsLast(roles, k, u)

\* An entry has the date of its key, and who was sent a key and has no access any more lost it
\* after that date.
DateInv ==
  /\ \A k \in JobRevisions : sentKeys[k].on <= jobStamp
  /\ \A o \in JobOwners : entry[o].on = sentKeys[entry[o].rev].on
  /\ \A k \in JobRevisions : \A u \in JobMembers \cap holders[k] :
       /\ ~ HasRole(u) => LastCertificate(u).ts > sentKeys[k].on
       /\ revokedOn[u] # 0 => revokedOn[u] > sentKeys[k].on

JobInv ==
  /\ RealmType /\ UsersType /\ EntryType /\ JobType
  /\ ReencryptionTypeOK /\ KeyInv /\ StepInv /\ LastInv /\ DateInv

-----------------------------------------------------------------------------
(* Certificates *)

\* SetToSeq lists a finite set without repeating an element.
LEMMA SetIsListed ==
  ASSUME NEW S, IsFiniteSet(S)
  PROVE  /\ SetToSeq(S) \in Seq(S)
         /\ \A i, j \in DOMAIN SetToSeq(S) : SetToSeq(S)[i] = SetToSeq(S)[j] => i = j
         /\ \A e \in S : \E i \in DOMAIN SetToSeq(S) : SetToSeq(S)[i] = e
<1> DEFINE n == Cardinality(S)
<1>1. n \in Nat
  BY FS_CardinalityType
<1>2. PICK g \in [1 .. n -> S] : IsInjective(g) /\ \A e \in S : \E i \in 1 .. n : g[i] = e
  <2>1. ExistsBijection(1 .. n, S)
    BY FS_CardinalityType
  <2>2. QED
    BY <2>1 DEF ExistsBijection, Bijection, Injection, Surjection, IsInjective
<1>3. SetToSeq(S) \in [1 .. n -> S] /\ IsInjective(SetToSeq(S))
  BY <1>2 DEF SetToSeq
<1>4. \A e \in S : \E i \in 1 .. n : SetToSeq(S)[i] = e
  <2>1. SetToSeq(S) \in Injection(1 .. n, S)
    BY <1>3 DEF Injection
  <2>2. Cardinality(1 .. n) = Cardinality(S)
    BY <1>1, FS_Interval
  <2>3. SetToSeq(S) \in Surjection(1 .. n, S)
    BY <2>1, <2>2, FS_Injection
  <2>4. QED
    BY <2>3 DEF Surjection
<1>5. QED
  BY <1>1, <1>3, <1>4 DEF IsInjective

\* The certificate that counts is the one with the greatest index.
LEMMA LastIs ==
  ASSUME NEW s \in Seq(Certificates), NEW u, NEW k \in DOMAIN s, IsLast(s, k, u)
  PROVE  (CHOOSE m \in {n \in DOMAIN s : s[n].user = u} :
            \A l \in {n \in DOMAIN s : s[n].user = u} : l <= m) = k
<1> DEFINE ks == {n \in DOMAIN s : s[n].user = u}
<1>1. k \in ks /\ ks \subseteq Nat /\ \A l \in ks : l <= k
  BY DEF IsLast
<1>2. \A m \in ks : (\A l \in ks : l <= m) => m = k
  BY <1>1
<1>3. QED
  BY <1>1, <1>2

\* At first every member has one certificate, of a role.
LEMMA FirstCertificates ==
  ASSUME ReencryptionInit
  PROVE  /\ roles \in Seq(Certificates) /\ LastInv
         /\ \A u \in JobMembers : LastCertificate(u).role
<1> DEFINE C == {[user |-> u, role |-> TRUE, ts |-> 1] : u \in JobMembers}
<1>1. IsFiniteSet(C) /\ C \subseteq Certificates
  <2> DEFINE f == [u \in JobMembers |-> [user |-> u, role |-> TRUE, ts |-> 1]]
  <2>1. f \in Surjection(JobMembers, C)
    BY DEF Surjection
  <2>2. IsFiniteSet(JobMembers)
    BY ReencryptionAssumption
  <2> HIDE DEF f
  <2>3. IsFiniteSet(C)
    BY <2>1, <2>2, FS_Surjection
  <2>4. \A u \in JobMembers : [user |-> u, role |-> TRUE, ts |-> 1] \in Certificates
    BY DEF Certificates
  <2>5. QED
    BY <2>3, <2>4
<1>2. roles = SetToSeq(C)
  BY DEF ReencryptionInit
<1> HIDE DEF C
<1>3. /\ roles \in Seq(C)
      /\ \A i, j \in DOMAIN roles : roles[i] = roles[j] => i = j
      /\ \A e \in C : \E i \in DOMAIN roles : roles[i] = e
  BY <1>1, <1>2, SetIsListed
<1>4. roles \in Seq(Certificates)
  BY <1>1, <1>3
<1>5. ASSUME NEW u \in JobMembers
      PROVE  \E k \in DOMAIN roles : IsLast(roles, k, u) /\ roles[k].role
  <2> DEFINE c == [user |-> u, role |-> TRUE, ts |-> 1]
  <2>0. c \in C
    BY DEF C
  <2>1. PICK k \in DOMAIN roles : roles[k] = c
    BY <1>3, <2>0
  <2>2. \A l \in DOMAIN roles : roles[l].user = u => roles[l] = c
    BY <1>3 DEF C
  <2>3. \A l \in DOMAIN roles : roles[l].user = u => l = k
    BY <1>3, <2>1, <2>2
  <2>4. k \in Nat
    BY <1>3
  <2>5. QED
    BY <2>1, <2>3, <2>4 DEF IsLast
<1>6. QED
  BY <1>4, <1>5, LastIs DEF LastInv, LastCertificate

\* A new certificate is the last one of its user, and that of nobody else.
LEMMA NewCertificate ==
  ASSUME roles \in Seq(Certificates), LastInv, NEW c \in Certificates, roles' = Append(roles, c)
  PROVE  /\ roles' \in Seq(Certificates) /\ LastInv'
         /\ LastCertificate(c.user)' = c
         /\ \A u \in JobMembers \ {c.user} : LastCertificate(u)' = LastCertificate(u)
<1> DEFINE n == Len(roles) + 1
<1>1. /\ roles' \in Seq(Certificates) /\ DOMAIN roles' = 1 .. n /\ n \in DOMAIN roles' /\ roles'[n] = c
      /\ DOMAIN roles = 1 .. n - 1 /\ n \in Nat
      /\ \A k \in DOMAIN roles : k \in DOMAIN roles' /\ roles'[k] = roles[k]
  OBVIOUS
<1> HIDE DEF n
<1>2. IsLast(roles', n, c.user) /\ LastCertificate(c.user)' = c
  <2>1. IsLast(roles', n, c.user)
    BY <1>1 DEF IsLast
  <2>2. QED
    BY <1>1, <2>1, LastIs DEF LastCertificate
<1>3. ASSUME NEW u \in JobMembers \ {c.user}
      PROVE  /\ \E k \in DOMAIN roles' : IsLast(roles', k, u)
             /\ LastCertificate(u)' = LastCertificate(u)
  <2>1. PICK k \in DOMAIN roles : IsLast(roles, k, u)
    BY DEF LastInv
  <2>2. k \in DOMAIN roles' /\ roles'[k] = roles[k] /\ IsLast(roles', k, u)
    BY <1>1, <2>1 DEF IsLast
  <2>3. LastCertificate(u) = roles[k]
    BY <2>1, LastIs DEF LastCertificate
  <2>4. LastCertificate(u)' = roles'[k]
    BY <1>1, <2>2, LastIs DEF LastCertificate
  <2>5. QED
    BY <2>2, <2>3, <2>4
<1>4. QED
  BY <1>1, <1>2, <1>3 DEF LastInv

-----------------------------------------------------------------------------
(* The steps *)

\* The bounds of the revisions.
LEMMA RevisionFacts == JobRevisions \subseteq Nat \ {0} /\ 1 \in JobRevisions
BY ReencryptionAssumption DEF JobRevisions

\* The invariant holds at first.
LEMMA InitIsSound == ReencryptionInit => JobInv
<1> SUFFICES ASSUME ReencryptionInit PROVE JobInv
  OBVIOUS
<1> USE RevisionFacts
<1>1. /\ roles \in Seq(Certificates) /\ LastInv
      /\ \A u \in JobMembers : LastCertificate(u).role
  BY FirstCertificates
<1>2. RealmType /\ KeyInv
  BY DEF ReencryptionInit, RealmType, KeyInv, FinishedIsComplete
<1>3. UsersType
  BY <1>1 DEF ReencryptionInit, UsersType, JobUsers
<1>4. EntryType
  BY DEF ReencryptionInit, EntryType
<1>5. JobType /\ StepInv
  BY DEF ReencryptionInit, JobType, JobRecords, StepInv, StepOK, NoJob, Job, Phases
<1>6. ReencryptionTypeOK
  BY DEF ReencryptionInit, ReencryptionTypeOK, Last
<1>7. DateInv
  BY <1>1 DEF ReencryptionInit, DateInv, HasRole
<1>8. QED
  BY <1>1, <1>2, <1>3, <1>4, <1>5, <1>6, <1>7 DEF JobInv

\* What a step does not change keeps its part of the invariant.
LEMMA RealmStays == ASSUME JobInv, UNCHANGED realm PROVE RealmType' /\ KeyInv'
BY DEF JobInv, RealmType, KeyInv, FinishedIsComplete

LEMMA EntriesStay ==
  ASSUME JobInv, UNCHANGED <<realm, entry, remote>> PROVE EntryType' /\ ReencryptionTypeOK'
BY DEF JobInv, EntryType, ReencryptionTypeOK

LEMMA UsersStay ==
  ASSUME JobInv, UNCHANGED <<roles, revokedOn, sentKeys, holders, jobStamp>> PROVE UsersType' /\ LastInv'
BY DEF JobInv, UsersType, LastInv

LEMMA DatesStay ==
  ASSUME JobInv, UNCHANGED <<roles, revokedOn, sentKeys, holders, entry>>,
         jobStamp' \in Nat, jobStamp' >= jobStamp
  PROVE  DateInv'
<1>1. \A u \in JobMembers : HasRole(u)' = HasRole(u) /\ LastCertificate(u)' = LastCertificate(u)
  BY DEF HasRole, LastCertificate
<1>2. \A k \in JobRevisions : sentKeys[k].on \in Nat
  BY DEF JobInv, UsersType
<1>3. QED
  BY <1>1, <1>2 DEF JobInv, DateInv, UsersType

LEMMA JobsStay ==
  ASSUME JobInv, UNCHANGED job, jobStamp' \in Nat, jobStamp' >= jobStamp PROVE JobType' /\ StepInv'
<1>1. \A o \in JobOwners : job[o].on \in Nat
  BY DEF JobInv, JobType, JobRecords
<1>2. QED
  BY <1>1 DEF JobInv, JobType, StepInv, StepOK, UsersType

\* A step of one job.
LEMMA JobChanges ==
  ASSUME JobInv, NEW o \in JobOwners, NEW j \in JobRecords, job' = [job EXCEPT ![o] = j],
         jobStamp' \in Nat, jobStamp' >= jobStamp, StepOK(j, jobStamp')
  PROVE  JobType' /\ StepInv'
<1>1. JobType'
  BY DEF JobInv, JobType
<1>2. \A p \in JobOwners : job'[p] = IF p = o THEN j ELSE job[p]
  BY DEF JobInv, JobType
<1>3. \A p \in JobOwners : job[p].on \in Nat
  BY DEF JobInv, JobType, JobRecords
<1>4. QED
  BY <1>1, <1>2, <1>3 DEF JobInv, StepInv, StepOK, UsersType

\* A step of one job that leaves the server alone.
LEMMA JobStepIsSound ==
  ASSUME JobInv, NEW o \in JobOwners, NEW j \in JobRecords, job' = [job EXCEPT ![o] = j],
         jobStamp' \in Nat, jobStamp' >= jobStamp, StepOK(j, jobStamp'),
         UNCHANGED <<realm, roles, revokedOn, sentKeys, holders, entry, remote>>
  PROVE  JobInv'
<1>1. JobType' /\ StepInv'
  BY JobChanges
<1>2. UsersType' /\ LastInv'
  BY DEF JobInv, UsersType, LastInv
<1>3. QED
  BY <1>1, <1>2, RealmStays, EntriesStay, DatesStay DEF JobInv

\* A job that fails is forgotten.
LEMMA JobIsForgotten ==
  ASSUME JobInv, NEW o \in JobOwners, job' = [job EXCEPT ![o] = NoJob],
         UNCHANGED <<realm, roles, revokedOn, sentKeys, holders, jobStamp, entry, remote>>
  PROVE  JobInv'
<1>1. jobStamp \in Nat
  BY DEF JobInv, UsersType
<1>2. NoJob \in JobRecords /\ StepOK(NoJob, jobStamp)
  BY <1>1 DEF NoJob, Job, Phases, JobRecords, StepOK
<1>3. jobStamp' = jobStamp /\ jobStamp' \in Nat /\ jobStamp' >= jobStamp
  BY <1>1
<1>4. QED
  BY <1>2, <1>3, JobStepIsSound

LEMMA JobFailsIsSound ==
  ASSUME JobInv, NEW o \in JobOwners, JobFails(o), Client
  PROVE  JobInv'
BY JobIsForgotten DEF JobFails, Client

\* What is known of the job of an owner.
JobFact(o) ==
  /\ job[o] = [phase |-> job[o].phase, new |-> job[o].new, old |-> job[o].old,
               on |-> job[o].on, to |-> job[o].to, batch |-> job[o].batch]
  /\ job[o].phase \in Phases /\ job[o].new \in Nat /\ job[o].old \in Nat /\ job[o].on \in Nat
  /\ job[o].to \subseteq JobUsers /\ job[o].batch \subseteq JobItems
  /\ job[o].phase \notin {"none", "status"} => job[o].new = job[o].old + 1
  /\ job[o].on <= jobStamp /\ jobStamp \in Nat
  /\ entry[o].rev \in Nat \ {0} /\ entry[o].rev \in JobRevisions

LEMMA JobFacts == ASSUME JobInv, NEW o \in JobOwners PROVE JobFact(o)
<1>1. job[o] \in JobRecords /\ StepOK(job[o], jobStamp)
  BY DEF JobInv, JobType, StepInv
<1>2. jobStamp \in Nat /\ entry[o].rev \in Nat \ {0} /\ entry[o].rev \in JobRevisions
  BY RevisionFacts DEF JobInv, UsersType, EntryType
<1>3. QED
  BY <1>1, <1>2 DEF JobRecords, StepOK, JobFact

LEMMA ReencryptIsSound ==
  ASSUME JobInv, NEW o \in JobOwners, Reencrypt(o)
  PROVE  JobInv'
<1>1. UNCHANGED <<realm, roles, revokedOn, sentKeys, holders, entry, remote>>
  BY DEF Reencrypt, serverVars
<1>2. JobFact(o)
  BY JobFacts
<1>3. CASE job' = [job EXCEPT ![o].phase = "status"] /\ UNCHANGED jobStamp
  <2> DEFINE j == [job[o] EXCEPT !.phase = "status"]
  <2>1. j \in JobRecords /\ StepOK(j, jobStamp)
    BY <1>2 DEF JobFact, JobRecords, StepOK, Phases
  <2>2. job' = [job EXCEPT ![o] = j]
    BY <1>3
  <2>3. jobStamp' \in Nat /\ jobStamp' >= jobStamp /\ jobStamp' = jobStamp
    BY <1>2, <1>3 DEF JobFact
  <2> HIDE DEF j
  <2>4. QED
    BY <1>1, <2>1, <2>2, <2>3, JobStepIsSound
<1>4. CASE /\ jobStamp' = jobStamp + 1
           /\ job' = [job EXCEPT ![o] = Job("participants", entry[o].rev + 1, entry[o].rev, jobStamp + 1)]
  <2> DEFINE j == Job("participants", entry[o].rev + 1, entry[o].rev, jobStamp + 1)
  <2>1. j \in JobRecords /\ StepOK(j, jobStamp + 1)
    BY <1>2 DEF JobFact, JobRecords, StepOK, Phases, Job
  <2>2. job' = [job EXCEPT ![o] = j]
    BY <1>4
  <2>3. jobStamp' \in Nat /\ jobStamp' >= jobStamp /\ jobStamp' = jobStamp + 1
    BY <1>2, <1>4 DEF JobFact
  <2> HIDE DEF j
  <2>4. QED
    BY <1>1, <2>1, <2>2, <2>3, JobStepIsSound
<1>5. QED
  BY <1>3, <1>4 DEF Reencrypt, Phase

LEMMA RetrieveIsSound ==
  ASSUME JobInv, NEW o \in JobOwners, RetrieveParticipants(o)
  PROVE  JobInv'
<1> DEFINE j == [job[o] EXCEPT !.phase = "start", !.to = RealmParticipants]
<1>1. JobFact(o) /\ RealmParticipants \subseteq JobUsers
  BY JobFacts DEF RealmParticipants, JobUsers
<1>2. job[o].phase = "participants" /\ job' = [job EXCEPT ![o] = j] /\ UNCHANGED jobStamp
  BY DEF RetrieveParticipants
<1>3. j \in JobRecords /\ StepOK(j, jobStamp)
  BY <1>1, <1>2 DEF JobFact, JobRecords, StepOK, Phases
<1>4. UNCHANGED <<realm, roles, revokedOn, sentKeys, holders, entry, remote>>
  BY DEF RetrieveParticipants, Client
<1>5. jobStamp' \in Nat /\ jobStamp' >= jobStamp /\ jobStamp' = jobStamp
  BY <1>1, <1>2 DEF JobFact
<1> HIDE DEF j
<1>6. QED
  BY <1>2, <1>3, <1>4, <1>5, JobStepIsSound

LEMMA ContinueIsSound ==
  ASSUME JobInv, NEW o \in JobOwners, ContinueMaintenance(o)
  PROVE  JobInv'
<1>1. CASE JobFails(o)
  BY <1>1, JobFailsIsSound DEF ContinueMaintenance
<1>2. CASE ~ JobFails(o)
  <2> DEFINE j == Job("get", entry[o].rev, PreviousRevision(o), 0)
  <2>1. /\ PreviousRevision(o) # 0 /\ job' = [job EXCEPT ![o] = j]
        /\ UNCHANGED <<realm, roles, revokedOn, sentKeys, holders, jobStamp, entry, remote>>
    BY <1>2 DEF ContinueMaintenance, Client
  <2>2. JobFact(o)
    BY JobFacts
  <2>3. PreviousRevision(o) = entry[o].rev - 1 /\ entry[o].rev \in Nat \ {0}
    BY <2>1, <2>2 DEF PreviousRevision, JobFact
  <2>4. j \in JobRecords /\ StepOK(j, jobStamp)
    BY <2>2, <2>3 DEF JobFact, JobRecords, StepOK, Phases, Job
  <2>5. jobStamp' \in Nat /\ jobStamp' >= jobStamp /\ jobStamp' = jobStamp
    BY <2>1, <2>2 DEF JobFact
  <2> HIDE DEF j
  <2>6. QED
    BY <2>1, <2>4, <2>5, JobStepIsSound
<1>3. QED
  BY <1>1, <1>2

LEMMA GetBatchIsSound ==
  ASSUME JobInv, NEW o \in JobOwners, GetBatch(o)
  PROVE  JobInv'
<1>1. CASE JobFails(o)
  BY <1>1, JobFailsIsSound DEF GetBatch
<1>2. CASE ~ JobFails(o)
  <2>1. PICK b \in Batches : job' = [job EXCEPT ![o].phase = "save", ![o].batch = b]
    BY <1>2 DEF GetBatch
  <2> DEFINE j == [job[o] EXCEPT !.phase = "save", !.batch = b]
  <2>2. b \subseteq JobItems /\ job' = [job EXCEPT ![o] = j] /\ JobFact(o)
    BY <2>1, JobFacts DEF Batches, JobInv, RealmType
  <2>3. /\ job[o].phase = "get"
        /\ UNCHANGED <<realm, roles, revokedOn, sentKeys, holders, jobStamp, entry, remote>>
    BY <1>2 DEF GetBatch, Client
  <2>4. j \in JobRecords /\ StepOK(j, jobStamp)
    BY <2>2, <2>3 DEF JobFact, JobRecords, StepOK, Phases
  <2>5. jobStamp' \in Nat /\ jobStamp' >= jobStamp /\ jobStamp' = jobStamp
    BY <2>2, <2>3 DEF JobFact
  <2> HIDE DEF j
  <2>6. QED
    BY <2>2, <2>3, <2>4, <2>5, JobStepIsSound
<1>3. QED
  BY <1>1, <1>2

\* The maintenance starts with a key that is sent to those who have access, dated before now.
LEMMA StartIsSound ==
  ASSUME JobInv, NEW o \in JobOwners, StartMaintenance(o)
  PROVE  JobInv'
<1>0. JobFact(o) /\ job[o].phase = "start"
  BY JobFacts DEF StartMaintenance
<1>1. CASE JobFails(o)
  BY <1>1, JobFailsIsSound DEF StartMaintenance
<1>2. CASE Phase(o, "participants") /\ UNCHANGED <<realm, sentKeys, holders, jobStamp, reencrypting>>
  <2> DEFINE j == [job[o] EXCEPT !.phase = "participants"]
  <2>1. j \in JobRecords /\ StepOK(j, jobStamp)
    BY <1>0 DEF JobFact, JobRecords, StepOK, Phases
  <2>2. job' = [job EXCEPT ![o] = j] /\ jobStamp' = jobStamp
    BY <1>2 DEF Phase
  <2>3. jobStamp' \in Nat /\ jobStamp' >= jobStamp
    BY <1>0, <2>2 DEF JobFact
  <2>4. UNCHANGED <<realm, roles, revokedOn, sentKeys, holders, entry, remote>>
    BY <1>2 DEF StartMaintenance, Client
  <2> HIDE DEF j
  <2>5. QED
    BY <2>1, <2>2, <2>3, <2>4, JobStepIsSound
<1>3. CASE /\ ~ JobFails(o)
           /\ ~ (Phase(o, "participants") /\ UNCHANGED <<realm, sentKeys, holders, jobStamp, reencrypting>>)
  <2> DEFINE new == job[o].new
             j == [job[o] EXCEPT !.phase = "get", !.to = {}]
  <2>1. /\ ~ realm.maintenance /\ new = realm.rev + 1 /\ new \in JobRevisions
        /\ job[o].to = RealmParticipants
        /\ realm' = [realm EXCEPT !.rev = new, !.maintenance = TRUE, !.todo = JobItems, !.done = <<>>]
        /\ sentKeys' = [sentKeys EXCEPT ![new] = [to |-> job[o].to, on |-> job[o].on]]
        /\ holders' = [holders EXCEPT ![new] = job[o].to]
        /\ job' = [job EXCEPT ![o] = j]
        /\ UNCHANGED <<roles, revokedOn, jobStamp, entry, remote>>
    BY <1>3 DEF StartMaintenance, Client
  <2>2. /\ realm'.rev = new /\ realm'.maintenance = TRUE /\ realm'.todo = JobItems
        /\ realm'.done = <<>> /\ realm'.keys = realm.keys /\ realm.rev \in Nat
    BY <2>1, RevisionFacts DEF JobInv, RealmType
  <2>3. RealmType'
    BY <2>1 DEF JobInv, RealmType
  <2>4. KeyInv'
    BY <2>1, <2>2 DEF JobInv, KeyInv, FinishedIsComplete
  <2>5. EntryType' /\ ReencryptionTypeOK'
    <3>1. \A p \in JobOwners : entry[p].rev <= realm.rev /\ Last(remote[p]) <= entry[p].rev
                                 /\ entry[p].rev \in Nat
      BY RevisionFacts DEF JobInv, ReencryptionTypeOK, EntryType
    <3>2. QED
      BY <2>1, <2>2, <3>1 DEF JobInv, EntryType, ReencryptionTypeOK, Last
  <2>6. UsersType' /\ LastInv'
    BY <1>0, <2>1 DEF JobInv, JobFact, UsersType, LastInv
  <2>7. JobType' /\ StepInv'
    <3>1. j \in JobRecords /\ StepOK(j, jobStamp)
      BY <1>0 DEF JobFact, JobRecords, StepOK, Phases
    <3>2. jobStamp' \in Nat /\ jobStamp' >= jobStamp /\ jobStamp' = jobStamp
      BY <1>0, <2>1 DEF JobFact
    <3>3. job' = [job EXCEPT ![o] = j]
      BY <2>1
    <3> HIDE DEF j
    <3>4. QED
      BY <3>1, <3>2, <3>3, JobChanges
  <2>8. DateInv'
    <3>1. \A u \in JobMembers : HasRole(u)' = HasRole(u) /\ LastCertificate(u)' = LastCertificate(u)
      BY <2>1 DEF HasRole, LastCertificate
    <3>2. \A k \in JobRevisions :
            /\ k = new => sentKeys'[k].on = job[o].on /\ holders'[k] = RealmParticipants
            /\ k # new => sentKeys'[k] = sentKeys[k] /\ holders'[k] = holders[k]
      BY <2>1 DEF JobInv, UsersType
    <3>3. \A k \in JobRevisions : sentKeys'[k].on <= jobStamp'
      BY <1>0, <2>1, <3>2 DEF JobInv, DateInv, JobFact
    <3>4. \A p \in JobOwners : entry'[p].on = sentKeys'[entry'[p].rev].on
      <4>1. \A p \in JobOwners : entry[p].rev \in JobRevisions /\ entry[p].rev # new
        BY <2>1, <2>2, RevisionFacts DEF JobInv, ReencryptionTypeOK, EntryType
      <4>2. QED
        BY <2>1, <3>2, <4>1 DEF JobInv, DateInv
    <3>5. ASSUME NEW k \in JobRevisions, NEW u \in JobMembers \cap holders'[k]
          PROVE  /\ ~ HasRole(u)' => LastCertificate(u)'.ts > sentKeys'[k].on
                 /\ revokedOn'[u] # 0 => revokedOn'[u] > sentKeys'[k].on
      <4>1. CASE k = new
        BY <2>1, <3>1, <3>2, <4>1 DEF RealmParticipants
      <4>2. CASE k # new
        BY <2>1, <3>1, <3>2, <4>2 DEF JobInv, DateInv
      <4>3. QED
        BY <4>1, <4>2
    <3>6. QED
      BY <3>3, <3>4, <3>5 DEF DateInv
  <2>9. QED
    BY <2>3, <2>4, <2>5, <2>6, <2>7, <2>8 DEF JobInv
<1>4. QED
  BY <1>1, <1>2, <1>3

\* What a batch saves is in the key of the realm.
LEMMA SaveIsSound ==
  ASSUME JobInv, NEW o \in JobOwners, SaveBatch(o)
  PROVE  JobInv'
<1>0. JobFact(o) /\ job[o].phase = "save"
  BY JobFacts DEF SaveBatch
<1>1. CASE JobFails(o)
  BY <1>1, JobFailsIsSound DEF SaveBatch
<1>2. CASE ~ JobFails(o)
  <2> DEFINE new == job[o].batch \cap realm.todo
             next == IF AllDone(Cardinality(DOMAIN realm'.done), Cardinality(JobItems)) THEN "finish" ELSE "get"
             j == [job[o] EXCEPT !.batch = {}, !.phase = next]
  <2>1. /\ realm.maintenance = TRUE /\ realm.rev = job[o].new
        /\ realm' = SavedBatch(o) /\ job' = [job EXCEPT ![o] = j]
        /\ UNCHANGED <<roles, revokedOn, sentKeys, holders, jobStamp, entry, remote>>
    BY <1>2 DEF SaveBatch, Client, InMaintenanceAt, JobInv, RealmType
  <2>2. /\ realm'.rev = realm.rev /\ realm'.maintenance = TRUE /\ realm'.keys = realm.keys
        /\ realm'.todo = realm.todo \ new
        /\ realm'.done = [i \in DOMAIN realm.done \cup new |-> IF i \in new THEN job[o].new ELSE realm.done[i]]
    BY <2>1 DEF SavedBatch, JobInv, RealmType
  <2>3. RealmType'
    BY <2>1, <2>2 DEF SavedBatch, JobInv, RealmType
  <2>4. KeyInv'
    BY <2>1, <2>2 DEF JobInv, KeyInv, FinishedIsComplete
  <2>5. EntryType' /\ ReencryptionTypeOK'
    BY <2>1, <2>2 DEF JobInv, EntryType, ReencryptionTypeOK
  <2>6. jobStamp' \in Nat /\ jobStamp' >= jobStamp /\ jobStamp' = jobStamp
    BY <1>0, <2>1 DEF JobFact
  <2>7. JobType' /\ StepInv'
    <3>1. next \in {"finish", "get"}
      OBVIOUS
    <3> HIDE DEF next
    <3>2. j \in JobRecords /\ StepOK(j, jobStamp)
      BY <1>0, <3>1 DEF JobFact, JobRecords, StepOK, Phases
    <3>3. job' = [job EXCEPT ![o] = j]
      BY <2>1
    <3> HIDE DEF j
    <3>4. QED
      BY <2>6, <3>2, <3>3, JobChanges
  <2>8. QED
    BY <2>1, <2>3, <2>4, <2>5, <2>6, <2>7, UsersStay, DatesStay DEF JobInv
<1>3. QED
  BY <1>1, <1>2

\* A maintenance ends when every item is in the key of the realm.
LEMMA FinishIsSound ==
  ASSUME JobInv, NEW o \in JobOwners, FinishMaintenance(o)
  PROVE  JobInv'
<1>0. JobFact(o) /\ job[o].phase = "finish"
  BY JobFacts DEF FinishMaintenance
<1>1. CASE JobFails(o)
  BY <1>1, JobFailsIsSound DEF FinishMaintenance
<1>2. CASE ~ JobFails(o)
  <2>1. /\ realm.maintenance = TRUE /\ realm.todo = {}
        /\ realm' = [realm EXCEPT !.maintenance = FALSE, !.todo = {}, !.done = <<>>,
             !.keys = [i \in JobItems |-> IF i \in DOMAIN realm.done THEN realm.done[i] ELSE @[i]]]
        /\ job' = [job EXCEPT ![o] = NoJob]
        /\ UNCHANGED <<roles, revokedOn, sentKeys, holders, jobStamp, entry, remote>>
    BY <1>2 DEF FinishMaintenance, Client, InMaintenanceAt, JobInv, RealmType
  <2>2. DOMAIN realm.done = JobItems /\ \A i \in JobItems : realm.done[i] = realm.rev
    BY <2>1 DEF JobInv, ReencryptionTypeOK, KeyInv
  <2>3. /\ realm'.rev = realm.rev /\ realm'.maintenance = FALSE /\ realm'.todo = {}
        /\ realm'.done = <<>> /\ \A i \in JobItems : realm'.keys[i] = realm.rev
    BY <2>1, <2>2 DEF JobInv, RealmType
  <2>4. RealmType'
    BY <2>1 DEF JobInv, RealmType
  <2>5. KeyInv'
    BY <2>3 DEF KeyInv, FinishedIsComplete
  <2>6. EntryType' /\ ReencryptionTypeOK'
    BY <2>1, <2>3 DEF JobInv, EntryType, ReencryptionTypeOK
  <2>7. jobStamp' \in Nat /\ jobStamp' >= jobStamp /\ jobStamp' = jobStamp
    BY <1>0, <2>1 DEF JobFact
  <2>8. JobType' /\ StepInv'
    <3>1. NoJob \in JobRecords /\ StepOK(NoJob, jobStamp)
      BY <1>0 DEF JobFact, NoJob, Job, JobRecords, StepOK, Phases
    <3>2. QED
      BY <2>1, <2>7, <3>1, JobChanges
  <2>9. QED
    BY <2>1, <2>4, <2>5, <2>6, <2>7, <2>8, UsersStay, DatesStay DEF JobInv
<1>3. QED
  BY <1>1, <1>2

\* The entry an owner takes from a message has the date of its key.
LEMMA TakeKeysIsSound ==
  ASSUME JobInv, NEW o \in JobOwners, TakeKeys(o)
  PROVE  JobInv'
<1>1. /\ entry[o].rev < realm.rev /\ entry' = [entry EXCEPT ![o] = EntryOf(realm.rev)]
      /\ UNCHANGED <<realm, roles, revokedOn, sentKeys, holders, jobStamp, remote, job>>
  BY DEF TakeKeys, serverVars
<1>2. /\ realm.rev \in JobRevisions /\ realm.rev \in Nat /\ jobStamp' \in Nat /\ jobStamp' >= jobStamp
      /\ EntryOf(realm.rev) = [rev |-> realm.rev, on |-> sentKeys[realm.rev].on]
      /\ sentKeys[realm.rev].on \in Nat
  BY <1>1, RevisionFacts DEF JobInv, RealmType, UsersType, EntryOf
<1>3. \A p \in JobOwners : entry'[p] = IF p = o THEN EntryOf(realm.rev) ELSE entry[p]
  BY <1>1 DEF JobInv, EntryType
<1>4. EntryType'
  BY <1>1, <1>2 DEF JobInv, EntryType
<1>5. ReencryptionTypeOK'
  <2>1. \A p \in JobOwners : entry'[p].rev <= realm'.rev /\ Last(remote'[p]) <= entry'[p].rev
    <3>1. \A p \in JobOwners : entry[p].rev <= realm.rev /\ Last(remote[p]) <= entry[p].rev
      BY DEF JobInv, ReencryptionTypeOK
    <3>2. \A p \in JobOwners : remote[p] \in Seq(JobRevisions) /\ remote[p] # <<>>
      BY DEF JobInv, EntryType
    <3>3. ASSUME NEW p \in JobOwners PROVE Last(remote[p]) \in Nat
      <4>1. Last(remote[p]) \in JobRevisions
        BY <3>2 DEF Last
      <4>2. QED
        BY <4>1, RevisionFacts
    <3>4. \A p \in JobOwners : entry[p].rev \in Nat
      BY RevisionFacts DEF JobInv, EntryType
    <3>5. QED
      BY <1>1, <1>2, <1>3, <3>1, <3>3, <3>4
  <2>2. QED
    BY <1>1, <2>1 DEF JobInv, ReencryptionTypeOK
<1>6. DateInv'
  <2>1. \A u \in JobMembers : HasRole(u)' = HasRole(u) /\ LastCertificate(u)' = LastCertificate(u)
    BY <1>1 DEF HasRole, LastCertificate
  <2>2. \A p \in JobOwners : entry'[p].on = sentKeys'[entry'[p].rev].on
    BY <1>1, <1>2, <1>3 DEF JobInv, DateInv
  <2>3. QED
    BY <1>1, <2>1, <2>2 DEF JobInv, DateInv
<1>7. QED
  BY <1>1, <1>2, <1>4, <1>5, <1>6, RealmStays, UsersStay, JobsStay DEF JobInv

LEMMA SyncManifestIsSound ==
  ASSUME JobInv, NEW o \in JobOwners, SyncManifest(o)
  PROVE  JobInv'
<1>1. /\ remote' = [remote EXCEPT ![o] = Append(@, entry[o].rev)]
      /\ UNCHANGED <<realm, roles, revokedOn, sentKeys, holders, jobStamp, entry, job>>
  BY DEF SyncManifest, serverVars
<1>2. /\ entry[o].rev \in JobRevisions /\ entry[o].rev \in Nat /\ jobStamp' \in Nat /\ jobStamp' >= jobStamp
      /\ remote[o] \in Seq(JobRevisions)
  <2>1. entry[o].rev \in JobRevisions /\ remote[o] \in Seq(JobRevisions)
    BY DEF JobInv, EntryType
  <2>2. jobStamp' = jobStamp /\ jobStamp \in Nat
    BY <1>1 DEF JobInv, UsersType
  <2>3. entry[o].rev \in Nat
    BY <2>1, RevisionFacts
  <2>4. QED
    BY <2>1, <2>2, <2>3
<1>3. /\ Append(remote[o], entry[o].rev) \in Seq(JobRevisions) \ {<<>>}
      /\ Last(Append(remote[o], entry[o].rev)) = entry[o].rev
  BY <1>2 DEF Last
<1>4. \A p \in JobOwners : remote'[p] = IF p = o THEN Append(remote[o], entry[o].rev) ELSE remote[p]
  BY <1>1 DEF JobInv, EntryType
<1>5. EntryType'
  BY <1>1, <1>3 DEF JobInv, EntryType
<1>6. ReencryptionTypeOK'
  BY <1>1, <1>2, <1>3, <1>4 DEF JobInv, ReencryptionTypeOK
<1>7. QED
  BY <1>1, <1>2, <1>5, <1>6, RealmStays, UsersStay, DatesStay, JobsStay DEF JobInv

\* A member gets a role, with a key, or loses it: now is after the date of every key.
LEMMA ChangeRoleIsSound ==
  ASSUME JobInv, NEW o \in JobOwners, NEW u \in JobMembers, ChangeRole(o, u)
  PROVE  JobInv'
<1> DEFINE c == [user |-> u, role |-> ~ HasRole(u), ts |-> jobStamp + 1]
<1>1. /\ revokedOn[u] = 0 /\ jobStamp' = jobStamp + 1 /\ roles' = Append(roles, c)
      /\ holders' = IF HasRole(u) THEN holders ELSE [holders EXCEPT ![entry[o].rev] = @ \cup {u}]
      /\ UNCHANGED <<realm, revokedOn, sentKeys, entry, remote, job>>
  BY DEF ChangeRole
<1>2. /\ jobStamp \in Nat /\ jobStamp' \in Nat /\ jobStamp' >= jobStamp /\ entry[o].rev \in JobRevisions
      /\ \A k \in JobRevisions : sentKeys[k].on \in Nat /\ sentKeys[k].on <= jobStamp
  BY <1>1 DEF JobInv, UsersType, EntryType, DateInv
<1>3. c \in Certificates /\ c.user = u /\ c.role = ~ HasRole(u) /\ c.ts = jobStamp + 1
  BY <1>2 DEF Certificates
<1>4. u \notin JobOwners
  BY ReencryptionAssumption
<1> HIDE DEF c
<1>5. /\ roles' \in Seq(Certificates) /\ LastInv' /\ LastCertificate(u)' = c
      /\ \A v \in JobMembers \ {u} : LastCertificate(v)' = LastCertificate(v)
  BY <1>1, <1>3, NewCertificate DEF JobInv, UsersType
<1>6. holders' \in [JobRevisions -> SUBSET JobUsers]
  BY <1>1, <1>2 DEF JobInv, UsersType, JobUsers
<1>7. UsersType'
  BY <1>1, <1>2, <1>5, <1>6 DEF JobInv, UsersType
<1>8. DateInv'
  <2>1. \A k \in JobRevisions : sentKeys'[k].on <= jobStamp'
    BY <1>1, <1>2
  <2>2. \A p \in JobOwners : entry'[p].on = sentKeys'[entry'[p].rev].on
    BY <1>1 DEF JobInv, DateInv
  <2>3. ASSUME NEW k \in JobRevisions, NEW v \in JobMembers \cap holders'[k]
        PROVE  /\ ~ HasRole(v)' => LastCertificate(v)'.ts > sentKeys'[k].on
               /\ revokedOn'[v] # 0 => revokedOn'[v] > sentKeys'[k].on
    <3>1. CASE v = u
      BY <1>1, <1>2, <1>3, <1>5, <3>1
    <3>2. CASE v # u
      <4>1. v \in holders[k]
        BY <1>1, <1>2, <3>2 DEF JobInv, UsersType
      <4>2. HasRole(v)' = HasRole(v) /\ LastCertificate(v)' = LastCertificate(v)
        BY <1>5, <3>2 DEF HasRole
      <4>3. QED
        BY <1>1, <4>1, <4>2 DEF JobInv, DateInv
    <3>3. QED
      BY <3>1, <3>2
  <2>4. QED
    BY <2>1, <2>2, <2>3 DEF DateInv
<1>9. QED
  BY <1>1, <1>2, <1>5, <1>7, <1>8, RealmStays, EntriesStay, JobsStay DEF JobInv

LEMMA RevokeIsSound ==
  ASSUME JobInv, NEW u \in JobMembers, RevokeMember(u)
  PROVE  JobInv'
<1>1. /\ jobStamp' = jobStamp + 1 /\ revokedOn' = [revokedOn EXCEPT ![u] = jobStamp + 1]
      /\ UNCHANGED <<realm, roles, sentKeys, holders, entry, remote, job>>
  BY DEF RevokeMember
<1>2. /\ jobStamp \in Nat /\ jobStamp' \in Nat /\ jobStamp' >= jobStamp
      /\ \A k \in JobRevisions : sentKeys[k].on \in Nat /\ sentKeys[k].on <= jobStamp
      /\ \A v \in JobMembers : revokedOn'[v] = IF v = u THEN jobStamp + 1 ELSE revokedOn[v]
  BY <1>1 DEF JobInv, UsersType, DateInv, JobUsers
<1>3. UsersType' /\ LastInv'
  BY <1>1, <1>2 DEF JobInv, UsersType, LastInv
<1>4. DateInv'
  <2>1. \A v \in JobMembers : HasRole(v)' = HasRole(v) /\ LastCertificate(v)' = LastCertificate(v)
    BY <1>1 DEF HasRole, LastCertificate
  <2>2. ASSUME NEW k \in JobRevisions, NEW v \in JobMembers \cap holders'[k]
        PROVE  /\ ~ HasRole(v)' => LastCertificate(v)'.ts > sentKeys'[k].on
               /\ revokedOn'[v] # 0 => revokedOn'[v] > sentKeys'[k].on
    <3>1. ~ HasRole(v)' => LastCertificate(v)'.ts > sentKeys'[k].on
      BY <1>1, <2>1 DEF JobInv, DateInv
    <3>2. revokedOn'[v] # 0 => revokedOn'[v] > sentKeys'[k].on
      BY <1>1, <1>2 DEF JobInv, DateInv
    <3>3. QED
      BY <3>1, <3>2
  <2>3. QED
    BY <1>1, <1>2, <2>2 DEF JobInv, DateInv
<1>5. QED
  BY <1>1, <1>2, <1>3, <1>4, RealmStays, EntriesStay, JobsStay DEF JobInv

-----------------------------------------------------------------------------
(* The theorems *)

\* The invariant is inductive.
LEMMA JobInvStep == JobInv /\ [ReencryptionNext]_jobVars => JobInv'
<1> SUFFICES ASSUME JobInv, [ReencryptionNext]_jobVars PROVE JobInv'
  OBVIOUS
<1>0. jobStamp \in Nat
  BY DEF JobInv, UsersType
<1>1. ASSUME UNCHANGED <<realm, roles, revokedOn, sentKeys, holders, jobStamp, entry, remote, job>>
      PROVE  JobInv'
  <2>1. jobStamp' \in Nat /\ jobStamp' >= jobStamp
    BY <1>0, <1>1
  <2>2. QED
    BY <1>1, <2>1, RealmStays, EntriesStay, UsersStay, DatesStay, JobsStay DEF JobInv
<1>2. ASSUME NEW o \in JobOwners, JobStep(o) PROVE JobInv'
  BY <1>2, RetrieveIsSound, StartIsSound, ContinueIsSound, GetBatchIsSound, SaveIsSound, FinishIsSound
     DEF JobStep
<1>3. ASSUME NEW o \in JobOwners, AskStatus(o) \/ GetNeeds(o) PROVE JobInv'
  BY <1>1, <1>3 DEF AskStatus, GetNeeds, serverVars
<1>4. ASSUME NEW o \in JobOwners, Offline(o) PROVE JobInv'
  BY <1>4, JobFailsIsSound DEF Offline, Client
<1>5. ASSUME NEW o \in JobOwners, Restart(o) PROVE JobInv'
  BY <1>5, JobIsForgotten DEF Restart, serverVars
<1>6. QED
  BY <1>1, <1>2, <1>3, <1>4, <1>5, ReencryptIsSound, TakeKeysIsSound, SyncManifestIsSound,
     ChangeRoleIsSound, RevokeIsSound DEF ReencryptionNext, jobVars

\* The invariant gives what the runs check.
LEMMA JobInvIsEnough == JobInv => JobIsSound
<1> SUFFICES ASSUME JobInv PROVE JobIsSound
  OBVIOUS
<1>1. OldKeyFits
  <2> SUFFICES ASSUME NEW o \in JobOwners, job[o].phase = "save", InMaintenanceAt(job[o].new),
                      NEW i \in job[o].batch
               PROVE  realm.keys[i] = job[o].old
    BY DEF OldKeyFits
  <2>1. JobFact(o)
    BY JobFacts
  <2>2. i \in JobItems /\ job[o].new = job[o].old + 1 /\ realm.keys[i] = job[o].new - 1
    BY <2>1 DEF JobFact, InMaintenanceAt, JobInv, KeyInv
  <2>3. QED
    BY <2>1, <2>2 DEF JobFact
<1>2. NeedIsSound
  <2> SUFFICES ASSUME NEW o \in JobOwners, NEW u \in JobMembers, entry[o].rev = realm.rev,
                      u \in holders[realm.rev], ~ HasRole(u) \/ revokedOn[u] # 0
               PROVE  u \in NeedOf(o)
    BY DEF NeedIsSound
  <2>1. realm.rev \in JobRevisions /\ entry[o].on = sentKeys[realm.rev].on
    BY DEF JobInv, RealmType, DateInv
  <2>2. QED
    BY <2>1 DEF JobInv, DateInv, NeedOf
<1>3. QED
  BY <1>1, <1>2 DEF JobInv, KeyInv, JobIsSound

\* Whichever owners start, continue, give up or finish the re-encryption of a workspace, and
\* whoever comes and goes meanwhile: a job decrypts with the key the data has, a finished
\* maintenance left no item in an old key, and an owner is told of everyone who holds the
\* current key and has no access any more.
THEOREM JobsAreSound == ReencryptionSpec => []JobIsSound
<1>1. ReencryptionSpec => []JobInv
  BY InitIsSound, JobInvStep, PTL DEF ReencryptionSpec
<1>2. QED
  BY <1>1, JobInvIsEnough, PTL

-----------------------------------------------------------------------------
(* The window: its inductive invariant *)

TabJobs == {"none", "starting", "running", "ok", "failed"}
DeviceOrNone == GuiDevices \cup {NoDevice}
TabStates ==
  [text : {"", "login", "name"}, widget : {"none", "login", "central"}, job : TabJobs,
   device : DeviceOrNone, client : DeviceOrNone]
Windows == [tabs : Seq(Instances), instance : [Instances -> TabStates]]
Postings == {"ready", "success", "error"} \X Instances

\* An instance has one tab at most, and one of them is to log in at most.
OneTabEach(bar) == \A k, l \in 1 .. Len(bar) : bar[k] = bar[l] => k = l
OneLogin(w) == \A i, j \in LoginTabs(w) : i = j

\* A central widget has a client, and a job has a device.
InstanceOK(x) ==
  /\ x.widget = "central" => x.client # NoDevice
  /\ x.job # "none" => x.device # NoDevice

WindowOK(w) ==
  /\ w \in Windows /\ OneTabEach(w.tabs) /\ OneLogin(w)
  /\ \A i \in Instances : InstanceOK(w.instance[i])

\* A signal is of a job that is under way or has ended, and the one that says so is the last.
SignalJobs(signal) ==
  IF signal = "ready" THEN {"running", "ok", "failed"} ELSE {"ok", "failed"}
SignalsOK(s, f) ==
  \A k \in 1 .. Len(s) :
    /\ f[s[k][2]].job \in SignalJobs(s[k][1])
    /\ s[k][1] # "ready" => \A l \in 1 .. Len(s) : l > k => s[l][2] # s[k][2]

\* While no tab left behind a question: there is a tab, a client that runs has one, and the
\* question is about the tab it names, which is not the only one.
AskedOK(q, bar) == q # <<>> => q[1] \in 1 .. Len(bar) /\ Len(bar) > 1 /\ bar[q[1]] = q[2]
RunningShown(w) ==
  \A i \in Instances : w.instance[i].job \in {"starting", "running"} => i \in InBar(w.tabs)
SteadyOK(w, q) == Len(w.tabs) > 0 /\ RunningShown(w) /\ AskedOK(q, w.tabs)

GuiInv ==
  /\ WindowOK(Window) /\ posted \in Seq(Postings) /\ SignalsOK(posted, instance)
  /\ question = <<>> \/ question \in Nat \X Instances
  /\ shifted \in BOOLEAN /\ (~ shifted => SteadyOK(Window, question))

-----------------------------------------------------------------------------
(* The bar of tabs *)

LEMMA LeastInstance ==
  ASSUME NEW T \in SUBSET Nat, T # {}
  PROVE  \E x \in T : \A y \in T : x <= y
<1>1. PICK x \in T : \A y \in T : <<y, x>> \notin OpToRel(<, Nat)
  BY NatLessThanWellFounded, WFMin, Zenon
<1>2. \A y \in T : ~(y < x)  BY <1>1 DEF OpToRel
<1>3. QED  BY <1>2

LEMMA BarHasInstances ==
  ASSUME NEW bar \in Seq(Instances)
  PROVE  InBar(bar) \subseteq Instances
<1>1. DOMAIN bar = 1 .. Len(bar) /\ \A k \in 1 .. Len(bar) : bar[k] \in Instances  OBVIOUS
<1>2. QED  BY <1>1 DEF InBar

\* removeTab takes one instance from the bar.
LEMMA TabIsRemoved ==
  ASSUME NEW bar \in Seq(Instances), OneTabEach(bar), NEW k \in 1 .. Len(bar)
  PROVE  /\ RemoveTab(bar, k) \in Seq(Instances) /\ Len(RemoveTab(bar, k)) = Len(bar) - 1
         /\ OneTabEach(RemoveTab(bar, k))
         /\ InBar(RemoveTab(bar, k)) = InBar(bar) \ {bar[k]}
<1> DEFINE r == RemoveTab(bar, k)
           n == Len(bar)
<1>1. n \in Nat /\ DOMAIN bar = 1 .. n /\ \A j \in 1 .. n : bar[j] \in Instances  OBVIOUS
<1>2. DOMAIN r = 1 .. n - 1 /\ \A j \in 1 .. n - 1 : r[j] = IF j < k THEN bar[j] ELSE bar[j + 1]
  BY DEF RemoveTab
<1>3. n - 1 \in Nat /\ r \in [1 .. n - 1 -> Instances]  BY <1>1 DEF RemoveTab
<1>4. r \in Seq(Instances) /\ Len(r) = n - 1  BY <1>3
<1> HIDE DEF r, n
<1>5. \A a, b \in 1 .. n : bar[a] = bar[b] => a = b  BY DEF OneTabEach, n
<1>6. ASSUME NEW a \in 1 .. n - 1, NEW b \in 1 .. n - 1, r[a] = r[b] PROVE a = b
  <2>1. CASE a < k /\ b < k  BY <2>1, <1>1, <1>2, <1>5, <1>6
  <2>2. CASE a < k /\ b >= k  BY <2>2, <1>1, <1>2, <1>5, <1>6 DEF n
  <2>3. CASE a >= k /\ b < k  BY <2>3, <1>1, <1>2, <1>5, <1>6 DEF n
  <2>4. CASE a >= k /\ b >= k  BY <2>4, <1>1, <1>2, <1>5, <1>6 DEF n
  <2>5. QED  BY <1>1, <2>1, <2>2, <2>3, <2>4 DEF n
<1>7. ASSUME NEW a \in 1 .. n - 1 PROVE r[a] \in InBar(bar) \ {bar[k]}
  <2>1. CASE a < k  BY <2>1, <1>1, <1>2, <1>5 DEF InBar, n
  <2>2. CASE a >= k
    <3>1. a + 1 \in 1 .. n /\ a + 1 # k /\ r[a] = bar[a + 1]  BY <2>2, <1>1, <1>2 DEF n
    <3>2. QED  BY <3>1, <1>1, <1>5 DEF InBar, n
  <2>3. QED  BY <1>1, <2>1, <2>2 DEF n
<1>8. ASSUME NEW a \in 1 .. n, bar[a] # bar[k] PROVE bar[a] \in InBar(r)
  <2>1. CASE a < k
    <3>1. a \in 1 .. n - 1 /\ r[a] = bar[a]  BY <2>1, <1>1, <1>2 DEF n
    <3>2. QED  BY <3>1, <1>2 DEF InBar
  <2>2. CASE a > k
    <3>1. a - 1 \in 1 .. n - 1 /\ ~(a - 1 < k) /\ r[a - 1] = bar[a]  BY <2>2, <1>1, <1>2 DEF n
    <3>2. QED  BY <3>1, <1>2 DEF InBar
  <2>3. QED  BY <1>1, <1>8, <2>1, <2>2 DEF n
<1>9. InBar(r) = InBar(bar) \ {bar[k]}  BY <1>1, <1>2, <1>7, <1>8 DEF InBar
<1>10. OneTabEach(r)  BY <1>4, <1>6 DEF OneTabEach
<1>11. QED  BY <1>4, <1>9, <1>10 DEF r, n

\* A new tab is the last one of the bar.
LEMMA TabIsAppended ==
  ASSUME NEW bar \in Seq(Instances), OneTabEach(bar), NEW i \in Instances, i \notin InBar(bar)
  PROVE  /\ Append(bar, i) \in Seq(Instances) /\ Len(Append(bar, i)) = Len(bar) + 1
         /\ OneTabEach(Append(bar, i)) /\ InBar(Append(bar, i)) = InBar(bar) \cup {i}
<1> DEFINE r == Append(bar, i)
           n == Len(bar)
<1>1. n \in Nat /\ DOMAIN bar = 1 .. n  OBVIOUS
<1>2. r \in Seq(Instances) /\ Len(r) = n + 1 /\ DOMAIN r = 1 .. n + 1 /\ r[n + 1] = i
      /\ \A j \in 1 .. n : r[j] = bar[j]
  OBVIOUS
<1> HIDE DEF r, n
<1>3. \A a \in 1 .. n : bar[a] # i  BY <1>1 DEF InBar
<1>4. \A a, b \in 1 .. n : bar[a] = bar[b] => a = b  BY DEF OneTabEach, n
<1>5. OneTabEach(r)
  <2> SUFFICES ASSUME NEW a \in 1 .. n + 1, NEW b \in 1 .. n + 1, r[a] = r[b] PROVE a = b
    BY <1>2 DEF OneTabEach
  <2>1. (a \in 1 .. n \/ a = n + 1) /\ (b \in 1 .. n \/ b = n + 1)  BY <1>1
  <2>2. QED  BY <2>1, <1>1, <1>2, <1>3, <1>4
<1>6. 1 .. n + 1 = (1 .. n) \cup {n + 1}  BY <1>1
<1>7. InBar(r) = InBar(bar) \cup {i}  BY <1>1, <1>2, <1>6 DEF InBar
<1>8. QED  BY <1>2, <1>5, <1>7 DEF r, n

-----------------------------------------------------------------------------
(* The operations on the window *)

\* What an operation that adds a tab keeps: the jobs and the other tabs.
SameJobs(v, w) == \A j \in Instances : v.instance[j].job = w.instance[j].job

\* One bar is the other one with one more instance.
BarWith(b, bar, i) == InBar(b) = InBar(bar) \cup {i}

\* A tab that may be added: it is not a second one to log in.
MayBeAdded(w, text, widget) ==
  text \in {"", "login"} /\ widget \in {"none", "login"} /\ (text = "login" => LoginTabs(w) = {})

LEMMA AddedTabIsOK ==
  ASSUME NEW w, WindowOK(w), NEW i \in Instances, i \notin InBar(w.tabs),
         w.instance[i].job = "none",
         NEW text, NEW widget, MayBeAdded(w, text, widget)
  PROVE  /\ WindowOK(AddNewTab(w, i, text, widget)) /\ SameJobs(AddNewTab(w, i, text, widget), w)
         /\ BarWith(AddNewTab(w, i, text, widget).tabs, w.tabs, i)
         /\ AddNewTab(w, i, text, widget).tabs = Append(w.tabs, i)
         /\ AddNewTab(w, i, text, widget).instance[i].client = NoDevice
<1> DEFINE new == [NewInstance EXCEPT !.text = text, !.widget = widget]
           v == AddNewTab(w, i, text, widget)
<1>1. /\ w.tabs \in Seq(Instances) /\ w.instance \in [Instances -> TabStates] /\ OneTabEach(w.tabs)
      /\ OneLogin(w) /\ \A j \in Instances : InstanceOK(w.instance[j])
  BY DEF WindowOK, Windows
<1>2. /\ new \in TabStates /\ new.job = "none" /\ new.text = text /\ new.widget # "central"
      /\ new.client = NoDevice
  BY DEF NewInstance, TabStates, TabJobs, DeviceOrNone, MayBeAdded
<1>3. InstanceOK(new)  BY <1>2 DEF InstanceOK
<1>4. v = [tabs |-> Append(w.tabs, i), instance |-> [w.instance EXCEPT ![i] = new]]
  BY DEF AddNewTab
<1> HIDE DEF new, v
<1>5. /\ v.tabs = Append(w.tabs, i) /\ v.instance \in [Instances -> TabStates]
      /\ v.instance[i] = new /\ \A j \in Instances : j # i => v.instance[j] = w.instance[j]
  BY <1>1, <1>2, <1>4
<1>6. /\ v.tabs \in Seq(Instances) /\ Len(v.tabs) = Len(w.tabs) + 1 /\ OneTabEach(v.tabs)
      /\ InBar(v.tabs) = InBar(w.tabs) \cup {i}
  BY <1>1, <1>5, TabIsAppended
<1>7. v \in Windows  BY <1>4, <1>5, <1>6 DEF Windows
<1>8. InBar(w.tabs) \subseteq Instances  BY <1>1, BarHasInstances
<1>9. OneLogin(v)
  <2>1. LoginTabs(v) = LoginTabs(w) \cup (IF text = "login" THEN {i} ELSE {})
    BY <1>2, <1>5, <1>6, <1>8 DEF LoginTabs
  <2>2. QED  BY <1>1, <2>1 DEF OneLogin, MayBeAdded
<1>10. WindowOK(v) /\ SameJobs(v, w)
  BY <1>1, <1>2, <1>3, <1>5, <1>6, <1>7, <1>9 DEF WindowOK, SameJobs
<1>11. QED  BY <1>2, <1>5, <1>6, <1>10 DEF v, BarWith

\* The instance for a new tab has neither tab nor job.
LEMMA NextIsUnused ==
  ASSUME NEW w, NEW i, \E n \in Instances \ {i} : Unused(w, n)
  PROVE  NextInstance(w, i) \in Instances /\ Unused(w, NextInstance(w, i)) /\ NextInstance(w, i) # i
<1> DEFINE T == {n \in Instances : Unused(w, n) /\ n # i}
<1>1. T \in SUBSET Nat /\ T # {}  BY GuiAssumption DEF Instances
<1>2. PICK x \in T : \A y \in T : x <= y  BY <1>1, LeastInstance
<1>3. Unused(w, x) /\ x # i /\ \A m \in Instances \ {i} : Unused(w, m) => x <= m  BY <1>2
<1>4. x \in Instances  BY <1>2
<1>5. QED  BY <1>3, <1>4 DEF NextInstance

\* switch_to_login_tab: there is a tab to log in then.
LEMMA SwitchIsOK ==
  ASSUME NEW w, WindowOK(w), NEW b, \E n \in Instances \ {b} : Unused(w, n)
  PROVE  /\ WindowOK(SwitchToLoginTab(w, b)) /\ SameJobs(SwitchToLoginTab(w, b), w)
         /\ InBar(w.tabs) \subseteq InBar(SwitchToLoginTab(w, b).tabs)
         /\ Len(SwitchToLoginTab(w, b).tabs) > 0
         /\ b \notin InBar(w.tabs) => b \notin InBar(SwitchToLoginTab(w, b).tabs)
<1>1. w.tabs \in Seq(Instances)  BY DEF WindowOK, Windows
<1>2. CASE LoginTabs(w) # {}
  <2>1. SwitchToLoginTab(w, b) = w  BY <1>2 DEF SwitchToLoginTab
  <2>2. Len(w.tabs) > 0  BY <1>1, <1>2 DEF LoginTabs, InBar
  <2>3. QED  BY <2>1, <2>2 DEF SameJobs
<1>3. CASE LoginTabs(w) = {}
  <2> DEFINE n == NextInstance(w, b)
             login == "login"
             v == AddNewTab(w, n, login, login)
  <2>1. SwitchToLoginTab(w, b) = v  BY <1>3 DEF SwitchToLoginTab
  <2>2. n \in Instances /\ n # b /\ n \notin InBar(w.tabs) /\ w.instance[n].job = "none"
    BY NextIsUnused DEF Unused
  <2>3. MayBeAdded(w, login, login)  BY <1>3 DEF MayBeAdded
  <2> HIDE DEF n, login
  <2>4. /\ WindowOK(v) /\ SameJobs(v, w) /\ BarWith(v.tabs, w.tabs, n)
        /\ v.tabs = Append(w.tabs, n)
    BY <2>2, <2>3, AddedTabIsOK
  <2> HIDE DEF v
  <2>5. Len(v.tabs) > 0  BY <1>1, <2>2, <2>4
  <2>6. QED  BY <1>1, <2>1, <2>2, <2>4, <2>5 DEF BarWith
<1>4. QED  BY <1>2, <1>3

\* A widget is changed and nothing else.
LEMMA ReloadIsOK ==
  ASSUME NEW w, WindowOK(w)
  PROVE  /\ WindowOK(ReloadLoginDevices(w)) /\ ReloadLoginDevices(w).tabs = w.tabs
         /\ SameJobs(ReloadLoginDevices(w), w)
         /\ \A i \in Instances : ReloadLoginDevices(w).instance[i].client = w.instance[i].client
<1> DEFINE f == [i \in Instances |->
                   IF i \in LoginTabs(w) THEN [w.instance[i] EXCEPT !.widget = "login"]
                   ELSE w.instance[i]]
           v == ReloadLoginDevices(w)
<1>1. /\ w.tabs \in Seq(Instances) /\ w.instance \in [Instances -> TabStates] /\ w \in Windows
      /\ OneTabEach(w.tabs) /\ OneLogin(w) /\ \A i \in Instances : InstanceOK(w.instance[i])
  BY DEF WindowOK, Windows
<1>2. v = [w EXCEPT !.instance = f]  BY DEF ReloadLoginDevices
<1>3. ASSUME NEW i \in Instances
      PROVE  /\ f[i] \in TabStates /\ f[i].job = w.instance[i].job
             /\ f[i].client = w.instance[i].client
             /\ f[i].text = w.instance[i].text /\ InstanceOK(f[i])
  <2>1. w.instance[i] \in TabStates  BY <1>1
  <2>2. QED  BY <1>1, <2>1 DEF TabStates, InstanceOK
<1>4. f \in [Instances -> TabStates]  BY <1>3
<1> HIDE DEF f, v
<1>5. v \in Windows /\ v.tabs = w.tabs /\ v.instance = f  BY <1>1, <1>2, <1>4 DEF Windows
<1>6. LoginTabs(v) = LoginTabs(w)  BY <1>1, <1>3, <1>5 DEF LoginTabs, InBar
<1>7. WindowOK(v)  BY <1>1, <1>3, <1>5, <1>6 DEF WindowOK, OneLogin
<1>8. QED  BY <1>3, <1>5, <1>7 DEF v, SameJobs

\* Another state of one instance.
WithInstance(v, w, i, x) == v = [w EXCEPT !.instance[i] = x]

\* Another state of an instance, with the same text or without the one of the login tab.
LEMMA InstanceChanges ==
  ASSUME NEW w, WindowOK(w), NEW i \in Instances, NEW x \in TabStates, InstanceOK(x),
         NEW v, WithInstance(v, w, i, x),
         x.text = "login" /\ i \in InBar(w.tabs) => w.instance[i].text = "login"
  PROVE  /\ WindowOK(v) /\ v.tabs = w.tabs /\ v.instance[i] = x
         /\ \A j \in Instances : j # i => v.instance[j] = w.instance[j]
<1>1. /\ w.tabs \in Seq(Instances) /\ w.instance \in [Instances -> TabStates] /\ w \in Windows
      /\ OneTabEach(w.tabs) /\ OneLogin(w) /\ \A j \in Instances : InstanceOK(w.instance[j])
  BY DEF WindowOK, Windows
<1>2. /\ v \in Windows /\ v.tabs = w.tabs /\ v.instance[i] = x
      /\ \A j \in Instances : j # i => v.instance[j] = w.instance[j]
  BY <1>1 DEF Windows, WithInstance
<1>3. LoginTabs(v) \subseteq LoginTabs(w)  BY <1>1, <1>2 DEF LoginTabs, InBar
<1>4. WindowOK(v)  BY <1>1, <1>2, <1>3 DEF WindowOK, OneLogin
<1>5. QED  BY <1>2, <1>4

\* A tab leaves the bar.
LEMMA TabLeaves ==
  ASSUME NEW w, WindowOK(w), NEW k \in 1 .. Len(w.tabs),
         NEW v, v = [w EXCEPT !.tabs = RemoveTab(w.tabs, k)]
  PROVE  /\ WindowOK(v) /\ v.instance = w.instance /\ InBar(v.tabs) = InBar(w.tabs) \ {w.tabs[k]}
         /\ Len(v.tabs) = Len(w.tabs) - 1
<1>1. /\ w.tabs \in Seq(Instances) /\ w.instance \in [Instances -> TabStates] /\ w \in Windows
      /\ OneTabEach(w.tabs) /\ OneLogin(w) /\ \A j \in Instances : InstanceOK(w.instance[j])
  BY DEF WindowOK, Windows
<1>2. /\ RemoveTab(w.tabs, k) \in Seq(Instances) /\ Len(RemoveTab(w.tabs, k)) = Len(w.tabs) - 1
      /\ OneTabEach(RemoveTab(w.tabs, k))
      /\ InBar(RemoveTab(w.tabs, k)) = InBar(w.tabs) \ {w.tabs[k]}
  BY <1>1, TabIsRemoved
<1>3. v \in Windows /\ v.tabs = RemoveTab(w.tabs, k) /\ v.instance = w.instance
  BY <1>1, <1>2 DEF Windows
<1>4. LoginTabs(v) \subseteq LoginTabs(w)  BY <1>2, <1>3 DEF LoginTabs
<1>5. WindowOK(v)  BY <1>1, <1>2, <1>3, <1>4 DEF WindowOK, OneLogin
<1>6. QED  BY <1>2, <1>3, <1>5

\* on_logged_out: the instance loses its tab and its job, the others keep theirs.
LEMMA LoggedOutIsOK ==
  ASSUME NEW w, WindowOK(w), NEW i \in Instances, \E n \in Instances \ {i} : Unused(w, n)
  PROVE  /\ WindowOK(OnLoggedOut(w, i)) /\ OnLoggedOut(w, i).instance[i].job = "none"
         /\ \A j \in Instances : j # i => OnLoggedOut(w, i).instance[j].job = w.instance[j].job
         /\ InBar(w.tabs) \ {i} \subseteq InBar(OnLoggedOut(w, i).tabs)
         /\ Len(w.tabs) > 0 => Len(OnLoggedOut(w, i).tabs) > 0
         /\ i \notin InBar(w.tabs) => OnLoggedOut(w, i).tabs = w.tabs
<1> DEFINE u == OnTabLogout(w, i)
           v == OnLoggedOut(w, i)
<1>1. w.tabs \in Seq(Instances) /\ w.instance \in [Instances -> TabStates] /\ w \in Windows
  BY DEF WindowOK, Windows
<1>2. /\ WindowOK(u) /\ SameJobs(u, w) /\ InBar(w.tabs) \ {i} \subseteq InBar(u.tabs)
      /\ i \notin InBar(u.tabs) /\ (Len(w.tabs) > 0 => Len(u.tabs) > 0)
      /\ i \notin InBar(w.tabs) => u = w
  <2>1. CASE i \notin InBar(w.tabs)
    <3>1. u = w  BY <2>1 DEF OnTabLogout
    <3> HIDE DEF u
    <3>2. QED  BY <2>1, <3>1 DEF SameJobs
  <2>2. CASE i \in InBar(w.tabs)
    <3> DEFINE k == IndexOf(w.tabs, i)
               x == [w EXCEPT !.tabs = RemoveTab(w.tabs, k)]
               y == SwitchToLoginTab(x, i)
    <3>1. k \in 1 .. Len(w.tabs) /\ w.tabs[k] = i
      <4>1. \E l \in DOMAIN w.tabs : w.tabs[l] = i  BY <2>2 DEF InBar
      <4>2. k \in DOMAIN w.tabs /\ w.tabs[k] = i  BY <4>1 DEF IndexOf
      <4>3. QED  BY <4>2, <1>1
    <3>2. u = y  BY <2>2 DEF OnTabLogout, WithoutTab
    <3> HIDE DEF k
    <3>3. WindowOK(x) /\ x.instance = w.instance /\ InBar(x.tabs) = InBar(w.tabs) \ {i}
      BY <3>1, TabLeaves
    <3> HIDE DEF x
    <3>4. \E n \in Instances \ {i} : Unused(x, n)  BY <3>3 DEF Unused
    <3>5. /\ WindowOK(y) /\ SameJobs(y, x) /\ InBar(x.tabs) \subseteq InBar(y.tabs)
          /\ Len(y.tabs) > 0 /\ i \notin InBar(y.tabs)
      BY <3>3, <3>4, SwitchIsOK
    <3> HIDE DEF y, u
    <3>6. QED  BY <2>2, <3>2, <3>3, <3>5 DEF SameJobs
  <2>3. QED  BY <2>1, <2>2
<1> DEFINE new == NewInstance
<1>3. WithInstance(v, u, i, new)  BY DEF OnLoggedOut, WithInstance
<1>4. new \in TabStates /\ InstanceOK(new) /\ new.job = "none" /\ new.text # "login"
  BY DEF NewInstance, TabStates, TabJobs, DeviceOrNone, InstanceOK
<1> HIDE DEF u, v, new
<1>5. /\ WindowOK(v) /\ v.tabs = u.tabs /\ v.instance[i] = new
      /\ \A j \in Instances : j # i => v.instance[j] = u.instance[j]
  BY <1>2, <1>3, <1>4, InstanceChanges
<1>6. QED  BY <1>2, <1>4, <1>5 DEF v, SameJobs

-----------------------------------------------------------------------------
(* The signals *)

\* The job of an instance begins to run or ends, which a signal says.
JobMoves(f, g, i, signal) ==
  /\ signal \in {"ready", "success", "error"}
  /\ f[i].job \in {"starting", "running"} /\ (signal = "ready" => f[i].job = "starting")
  /\ g[i].job \in {"running", "ok", "failed"} /\ g[i].job \in SignalJobs(signal)
  /\ \A j \in Instances : j # i => g[j].job = f[j].job

LEMMA SignalIsPosted ==
  ASSUME NEW s \in Seq(Postings), NEW f, NEW g, SignalsOK(s, f), NEW i \in Instances,
         NEW signal, JobMoves(f, g, i, signal)
  PROVE  Append(s, <<signal, i>>) \in Seq(Postings) /\ SignalsOK(Append(s, <<signal, i>>), g)
<1> DEFINE new == <<signal, i>>
           t == Append(s, new)
           n == Len(s)
<1>1. new \in Postings /\ new[1] = signal /\ new[2] = i  BY DEF Postings, JobMoves
<1> HIDE DEF new
<1>2. /\ n \in Nat /\ t \in Seq(Postings) /\ Len(t) = n + 1 /\ t[n + 1] = new
      /\ \A k \in 1 .. n : t[k] = s[k] /\ s[k] \in Postings
  BY <1>1
<1> HIDE DEF t, n
<1>3. \A k \in 1 .. n : /\ f[s[k][2]].job \in SignalJobs(s[k][1])
                        /\ s[k][1] # "ready" => \A l \in 1 .. n : l > k => s[l][2] # s[k][2]
  BY DEF SignalsOK, n
<1>4. ASSUME NEW k \in 1 .. n
      PROVE  /\ g[s[k][2]].job \in SignalJobs(s[k][1])
             /\ s[k][1] # "ready" => s[k][2] # i
  <2>1. s[k][2] \in Instances /\ s[k][1] \in {"ready", "success", "error"}  BY <1>2 DEF Postings
  <2>2. s[k][2] = i => s[k][1] = "ready" /\ f[i].job = "running"
    BY <1>3, <2>1 DEF SignalJobs, JobMoves
  <2>3. CASE s[k][2] = i  BY <2>2, <2>3 DEF SignalJobs, JobMoves
  <2>4. CASE s[k][2] # i  BY <1>3, <2>1, <2>4 DEF JobMoves
  <2>5. QED  BY <2>2, <2>3, <2>4
<1>5. ASSUME NEW k \in 1 .. n + 1
      PROVE  /\ g[t[k][2]].job \in SignalJobs(t[k][1])
             /\ t[k][1] # "ready" => \A l \in 1 .. n + 1 : l > k => t[l][2] # t[k][2]
  <2>1. CASE k = n + 1  BY <2>1, <1>1, <1>2 DEF JobMoves
  <2>2. CASE k \in 1 .. n
    <3>1. ASSUME NEW l \in 1 .. n + 1, l > k, t[k][1] # "ready" PROVE t[l][2] # t[k][2]
      <4>1. CASE l = n + 1  BY <4>1, <2>2, <3>1, <1>1, <1>2, <1>4
      <4>2. CASE l \in 1 .. n  BY <4>2, <2>2, <3>1, <1>2, <1>3
      <4>3. QED  BY <1>2, <4>1, <4>2
    <3>2. QED  BY <2>2, <3>1, <1>2, <1>4
  <2>3. QED  BY <1>2, <2>1, <2>2
<1>6. SignalsOK(t, g)  BY <1>2, <1>5 DEF SignalsOK
<1>7. QED  BY <1>2, <1>6 DEF t, new

\* A signal is taken; the job is forgotten only with the last one of its instance.
LEMMA SignalIsTaken ==
  ASSUME NEW s \in Seq(Postings), NEW f, NEW g, SignalsOK(s, f), s # <<>>,
         \A j \in Instances : j # Head(s)[2] \/ Head(s)[1] = "ready" => g[j].job = f[j].job
  PROVE  Tail(s) \in Seq(Postings) /\ SignalsOK(Tail(s), g)
<1> DEFINE t == Tail(s)
           n == Len(s)
<1>1. /\ n \in Nat \ {0} /\ t \in Seq(Postings) /\ Len(t) = n - 1 /\ Head(s) = s[1]
      /\ \A k \in 1 .. n - 1 : t[k] = s[k + 1]
      /\ \A k \in 1 .. n : s[k] \in Postings
  OBVIOUS
<1> HIDE DEF t, n
<1>2. \A k \in 1 .. n : /\ f[s[k][2]].job \in SignalJobs(s[k][1])
                        /\ s[k][1] # "ready" => \A l \in 1 .. n : l > k => s[l][2] # s[k][2]
  BY DEF SignalsOK, n
<1>3. ASSUME NEW k \in 1 .. n - 1
      PROVE  /\ g[t[k][2]].job \in SignalJobs(t[k][1])
             /\ t[k][1] # "ready" => \A l \in 1 .. n - 1 : l > k => t[l][2] # t[k][2]
  <2>1. k + 1 \in 1 .. n /\ k + 1 > 1 /\ 1 \in 1 .. n /\ t[k] = s[k + 1]  BY <1>1
  <2>2. t[k][2] \in Instances  BY <1>1, <2>1 DEF Postings
  <2>3. t[k][2] # s[1][2] \/ s[1][1] = "ready"  BY <1>2, <2>1
  <2>4. g[t[k][2]].job = f[t[k][2]].job  BY <1>1, <2>2, <2>3
  <2>5. ASSUME NEW l \in 1 .. n - 1, l > k, t[k][1] # "ready" PROVE t[l][2] # t[k][2]
    <3>1. l + 1 \in 1 .. n /\ l + 1 > k + 1 /\ t[l] = s[l + 1]  BY <1>1, <2>5
    <3>2. QED  BY <1>2, <2>1, <2>5, <3>1
  <2>6. QED  BY <1>2, <2>1, <2>4, <2>5
<1>4. SignalsOK(t, g)  BY <1>1, <1>3 DEF SignalsOK
<1>5. QED  BY <1>1, <1>4 DEF t

\* The signals do not depend on anything of an instance but its job.
LEMMA SignalsAreOfJobs ==
  ASSUME NEW s \in Seq(Postings), NEW f, NEW g, SignalsOK(s, f),
         \A j \in Instances : g[j].job = f[j].job
  PROVE  SignalsOK(s, g)
<1>1. \A k \in 1 .. Len(s) : s[k][2] \in Instances  BY DEF Postings
<1>2. QED  BY <1>1 DEF SignalsOK

-----------------------------------------------------------------------------
(* The steps *)

LEMMA GuiFacts ==
  ASSUME GuiInv
  PROVE  /\ tabs \in Seq(Instances) /\ instance \in [Instances -> TabStates]
         /\ Window.tabs = tabs /\ Window.instance = instance
         /\ WindowOK(Window) /\ posted \in Seq(Postings) /\ SignalsOK(posted, instance)
         /\ \A i \in Instances : InstanceOK(instance[i])
BY DEF GuiInv, WindowOK, Windows, Window

\* A step that sets the window to one that is right, with signals that are right.
LEMMA GuiInvFromParts ==
  ASSUME NEW v, WindowOK(v), SetWindow(v), posted' \in Seq(Postings),
         SignalsOK(posted', v.instance),
         question' = <<>> \/ question' \in Nat \X Instances,
         shifted' \in BOOLEAN, ~ shifted' => SteadyOK(v, question')
  PROVE  GuiInv'
<1>1. v = [tabs |-> v.tabs, instance |-> v.instance]  BY DEF WindowOK, Windows
<1>2. Window' = v /\ instance' = v.instance  BY <1>1 DEF Window, SetWindow
<1> HIDE DEF SetWindow
<1>3. WindowOK(Window)' /\ SignalsOK(posted, instance)'
      /\ (~ shifted => SteadyOK(Window, question))'
  BY <1>2 DEF WindowOK, SignalsOK, SteadyOK, OneTabEach, OneLogin, RunningShown, AskedOK, InBar,
              LoginTabs, InstanceOK, Windows
<1>4. QED  BY <1>3 DEF GuiInv

LEMMA GuiInitiallyOK == GuiInit => GuiInv
<1> SUFFICES ASSUME GuiInit PROVE GuiInv
  OBVIOUS
<1> DEFINE first == [NewInstance EXCEPT !.text = "login", !.widget = "login"]
<1>1. /\ first \in TabStates /\ first.job = "none" /\ InstanceOK(first)
      /\ NewInstance \in TabStates /\ NewInstance.job = "none" /\ InstanceOK(NewInstance)
  BY DEF NewInstance, TabStates, TabJobs, DeviceOrNone, InstanceOK
<1>2. 1 \in Instances  BY GuiAssumption DEF Instances
<1>3. /\ tabs = <<1>> /\ Len(tabs) = 1 /\ tabs \in Seq(Instances) /\ InBar(tabs) = {1}
      /\ instance = [j \in Instances |-> IF j = 1 THEN first ELSE NewInstance]
  BY <1>2 DEF GuiInit, InBar
<1> HIDE DEF first
<1>4. Window \in Windows /\ Window.tabs = tabs /\ Window.instance = instance
  BY <1>1, <1>3 DEF Window, Windows
<1>5. WindowOK(Window)
  BY <1>1, <1>3, <1>4 DEF WindowOK, OneTabEach, OneLogin, LoginTabs
<1>6. SteadyOK(Window, question)
  BY <1>1, <1>3, <1>4 DEF SteadyOK, RunningShown, AskedOK, GuiInit
<1>7. posted \in Seq(Postings) /\ SignalsOK(posted, instance)  BY DEF GuiInit, SignalsOK
<1>8. QED  BY <1>5, <1>6, <1>7 DEF GuiInv, GuiInit

\* A job that runs is ready or ends: the window keeps its tabs.
LEMMA JobGoesOn ==
  ASSUME GuiInv, NEW i \in Instances, NEW signal \in {"ready", "success", "error"},
         NEW state \in TabJobs,
         instance[i].job \in {"starting", "running"},
         signal = "ready" => instance[i].job = "starting",
         state \in {"running", "ok", "failed"}, state \in SignalJobs(signal),
         instance' = [instance EXCEPT ![i].job = state], Post(signal, i),
         UNCHANGED <<tabs, question, shifted>>
  PROVE  GuiInv'
<1> DEFINE x == [instance[i] EXCEPT !.job = state]
           v == [Window EXCEPT !.instance[i] = x]
<1>1. instance[i] \in TabStates /\ InstanceOK(instance[i])  BY GuiFacts
<1>2. x \in TabStates /\ x.job = state /\ x.text = instance[i].text /\ InstanceOK(x)
  BY <1>1 DEF TabStates, InstanceOK
<1>3. instance' = [instance EXCEPT ![i] = x]  BY GuiFacts
<1>4. v = [tabs |-> tabs', instance |-> instance']  BY <1>3 DEF Window
<1>5. SetWindow(v)  BY <1>4 DEF SetWindow
<1> HIDE DEF x, v
<1>6. /\ WindowOK(v) /\ v.tabs = tabs /\ v.instance[i] = x
      /\ \A j \in Instances : j # i => v.instance[j] = instance[j]
  BY <1>2, GuiFacts, InstanceChanges DEF v, WithInstance
<1>7. posted' \in Seq(Postings) /\ SignalsOK(posted', v.instance)
  <2> DEFINE g == v.instance
  <2>1. JobMoves(instance, g, i, signal)  BY <1>2, <1>6 DEF JobMoves
  <2> HIDE DEF g
  <2>2. Append(posted, <<signal, i>>) \in Seq(Postings)
        /\ SignalsOK(Append(posted, <<signal, i>>), g)
    BY <2>1, GuiFacts, SignalIsPosted
  <2>3. QED  BY <2>2 DEF Post, g
<1>8. ~ shifted' => SteadyOK(v, question')
  BY <1>2, <1>6, GuiFacts DEF GuiInv, SteadyOK, RunningShown
<1>9. QED  BY <1>5, <1>6, <1>7, <1>8, GuiInvFromParts DEF GuiInv

LEMMA ReadyKeeps ==
  ASSUME GuiInv, NEW i \in Instances, ClientReady(i)
  PROVE  GuiInv'
<1> DEFINE signal == "ready"
           state == "running"
<1>1. /\ signal \in {"ready", "success", "error"} /\ state \in TabJobs
      /\ state \in {"running", "ok", "failed"}
      /\ state \in SignalJobs(signal) /\ instance[i].job \in {"starting", "running"}
      /\ signal = "ready" => instance[i].job = "starting"
      /\ instance' = [instance EXCEPT ![i].job = state] /\ Post(signal, i)
      /\ UNCHANGED <<tabs, question, shifted>>
  BY DEF ClientReady, TabJobs, SignalJobs
<1> HIDE DEF signal, state
<1>2. QED  BY <1>1, JobGoesOn

LEMMA FailureKeeps ==
  ASSUME GuiInv, NEW i \in Instances, ClientFails(i)
  PROVE  GuiInv'
<1> DEFINE signal == "error"
           state == "failed"
<1>1. /\ signal \in {"ready", "success", "error"} /\ state \in TabJobs
      /\ state \in {"running", "ok", "failed"}
      /\ state \in SignalJobs(signal) /\ instance[i].job \in {"starting", "running"}
      /\ signal = "ready" => instance[i].job = "starting"
      /\ instance' = [instance EXCEPT ![i].job = state] /\ Post(signal, i)
      /\ UNCHANGED <<tabs, question, shifted>>
  BY DEF ClientFails, TabJobs, SignalJobs
<1> HIDE DEF signal, state
<1>2. QED  BY <1>1, JobGoesOn

\* on_run_client_ready: the instance has a client, and is no longer the one to log in.
LEMMA RunReadyKeeps ==
  ASSUME GuiInv, NEW i \in Instances, OnRunClientReady(i)
  PROVE  GuiInv'
<1> DEFINE x == [instance[i] EXCEPT !.client = instance[i].device, !.widget = "central",
                                    !.text = IF i \in InBar(tabs) THEN "name" ELSE @]
           v == [Window EXCEPT !.instance[i] = x]
<1>1. instance[i] \in TabStates /\ InstanceOK(instance[i])  BY GuiFacts
<1>2. posted # <<>> /\ Head(posted) = <<"ready", i>> /\ posted' = Tail(posted)
  BY DEF OnRunClientReady, Delivers
<1>3. instance[i].job # "none"
  <2>1. Len(posted) \in Nat \ {0} /\ posted[1] = Head(posted)  BY <1>2, GuiFacts
  <2>2. instance[posted[1][2]].job \in SignalJobs(posted[1][1])  BY <2>1, GuiFacts DEF SignalsOK
  <2>3. QED  BY <1>2, <2>1, <2>2 DEF SignalJobs
<1>4. x \in TabStates /\ x.job = instance[i].job /\ InstanceOK(x)
      /\ (i \in InBar(tabs) => x.text # "login")
  BY <1>1, <1>3 DEF TabStates, InstanceOK
<1>5. instance' = [instance EXCEPT ![i] = x]  BY GuiFacts DEF OnRunClientReady
<1>6. v = [tabs |-> tabs', instance |-> instance']  BY <1>5 DEF Window, OnRunClientReady
<1>7. SetWindow(v) /\ WithInstance(v, Window, i, x)  BY <1>6 DEF SetWindow, WithInstance
<1> HIDE DEF x, v
<1>8. /\ WindowOK(v) /\ v.tabs = tabs /\ v.instance[i] = x
      /\ \A j \in Instances : j # i => v.instance[j] = instance[j]
  BY <1>4, <1>7, GuiFacts, InstanceChanges
<1>9. \A j \in Instances : v.instance[j].job = instance[j].job  BY <1>4, <1>8
<1>10. posted' \in Seq(Postings) /\ SignalsOK(posted', v.instance)
  <2> DEFINE g == v.instance
  <2>1. \A j \in Instances : g[j].job = instance[j].job  BY <1>9
  <2> HIDE DEF g
  <2>2. QED  BY <1>2, <2>1, GuiFacts, SignalIsTaken DEF g
<1>11. ~ shifted' => SteadyOK(v, question')
  BY <1>8, <1>9, GuiFacts DEF GuiInv, SteadyOK, RunningShown, OnRunClientReady
<1>12. QED  BY <1>7, <1>8, <1>10, <1>11, GuiInvFromParts DEF GuiInv, OnRunClientReady

\* on_client_run_done, on_client_run_error: the instance is logged out.
LEMMA LogoutKeeps ==
  ASSUME GuiInv, NEW i \in Instances, NEW signal \in {"success", "error"}, Delivers(signal, i),
         InstanceIsLeft(i), SetWindow(OnLoggedOut(Window, i)), NoteShift(i), UNCHANGED question
  PROVE  GuiInv'
<1> DEFINE v == OnLoggedOut(Window, i)
<1>1. posted # <<>> /\ Head(posted) = <<signal, i>> /\ posted' = Tail(posted)
  BY DEF Delivers
<1>2. Head(posted)[1] # "ready" /\ Head(posted)[2] = i  BY <1>1
<1>3. \E n \in Instances \ {i} : Unused(Window, n)  BY DEF InstanceIsLeft
<1>4. /\ WindowOK(v) /\ v.instance[i].job = "none"
      /\ \A j \in Instances : j # i => v.instance[j].job = instance[j].job
      /\ InBar(tabs) \ {i} \subseteq InBar(v.tabs)
      /\ Len(tabs) > 0 => Len(v.tabs) > 0
      /\ i \notin InBar(tabs) => v.tabs = tabs
  <2> DEFINE w == Window
  <2>1. WindowOK(w) /\ w.tabs = tabs /\ w.instance = instance  BY GuiFacts
  <2>2. \E n \in Instances \ {i} : Unused(w, n)  BY <1>3
  <2>3. v = OnLoggedOut(w, i)  OBVIOUS
  <2> HIDE DEF w, v
  <2>4. /\ WindowOK(OnLoggedOut(w, i)) /\ OnLoggedOut(w, i).instance[i].job = "none"
        /\ \A j \in Instances : j # i => OnLoggedOut(w, i).instance[j].job = w.instance[j].job
        /\ InBar(w.tabs) \ {i} \subseteq InBar(OnLoggedOut(w, i).tabs)
        /\ Len(w.tabs) > 0 => Len(OnLoggedOut(w, i).tabs) > 0
        /\ i \notin InBar(w.tabs) => OnLoggedOut(w, i).tabs = w.tabs
    BY <2>1, <2>2, LoggedOutIsOK
  <2>5. QED  BY <2>1, <2>3, <2>4
<1>5. SetWindow(v)  OBVIOUS
<1> HIDE DEF v
<1>6. posted' \in Seq(Postings) /\ SignalsOK(posted', v.instance)
  <2> DEFINE g == v.instance
  <2>1. \A j \in Instances : j # i => g[j].job = instance[j].job  BY <1>4
  <2> HIDE DEF g
  <2>2. Tail(posted) \in Seq(Postings) /\ SignalsOK(Tail(posted), g)
    BY <1>1, <1>2, <2>1, GuiFacts, SignalIsTaken
  <2>3. QED  BY <1>1, <2>2 DEF g
<1>7. shifted' \in BOOLEAN /\ (~ shifted' => ~ shifted /\ (question = <<>> \/ i \notin InBar(tabs)))
  BY DEF NoteShift, GuiInv
<1>8. ASSUME ~ shifted' PROVE SteadyOK(v, question')
  <2>1. SteadyOK(Window, question)  BY <1>7, <1>8 DEF GuiInv
  <2>2. Len(v.tabs) > 0  BY <1>4, <2>1, GuiFacts DEF SteadyOK
  <2>3. RunningShown(v)  BY <1>4, <2>1, GuiFacts DEF SteadyOK, RunningShown
  <2>4. AskedOK(question', v.tabs)  BY <1>4, <1>7, <1>8, <2>1, GuiFacts DEF SteadyOK, AskedOK
  <2>5. QED  BY <2>2, <2>3, <2>4 DEF SteadyOK
<1>9. QED  BY <1>4, <1>5, <1>6, <1>7, <1>8, GuiInvFromParts DEF GuiInv

LEMMA DeliveryKeeps ==
  ASSUME GuiInv, Deliver
  PROVE  GuiInv'
<1>1. PICK i \in Instances : OnRunClientReady(i) \/ OnClientRunDone(i) \/ OnClientRunError(i)
  BY DEF Deliver
<1>2. CASE OnRunClientReady(i)  BY <1>2, RunReadyKeeps
<1>3. CASE OnClientRunDone(i)
  <2> DEFINE signal == "success"
  <2>1. /\ signal \in {"success", "error"} /\ Delivers(signal, i) /\ InstanceIsLeft(i)
        /\ SetWindow(OnLoggedOut(Window, i)) /\ NoteShift(i) /\ UNCHANGED question
    BY <1>3 DEF OnClientRunDone
  <2> HIDE DEF signal
  <2>2. QED  BY <2>1, LogoutKeeps
<1>4. CASE OnClientRunError(i)
  <2> DEFINE signal == "error"
  <2>1. /\ signal \in {"success", "error"} /\ Delivers(signal, i) /\ InstanceIsLeft(i)
        /\ SetWindow(OnLoggedOut(Window, i)) /\ NoteShift(i) /\ UNCHANGED question
    BY <1>4 DEF OnClientRunError
  <2> HIDE DEF signal
  <2>2. QED  BY <2>1, LogoutKeeps
<1>5. QED  BY <1>1, <1>2, <1>3, <1>4

\* Steps of the user that leave the signals alone: no question is open, and the tabs are kept.
LEMMA WindowKeeps ==
  ASSUME GuiInv, NEW v, WindowOK(v), SetWindow(v), SignalsOK(posted, v.instance),
         UNCHANGED <<posted, question, shifted>>,
         ~ shifted => SteadyOK(v, question)
  PROVE  GuiInv'
<1>1. SignalsOK(posted', v.instance) /\ (~ shifted' => SteadyOK(v, question'))  OBVIOUS
<1>2. QED  BY <1>1, GuiInvFromParts DEF GuiInv

\* start_client: an instance with a tab and without job gets one.
LEMMA StartedIsOK ==
  ASSUME NEW w, WindowOK(w), NEW i \in Instances, NEW d \in GuiDevices, w.instance[i].job = "none"
  PROVE  /\ WindowOK(StartClient(w, i, d)) /\ StartClient(w, i, d).tabs = w.tabs
         /\ \A j \in Instances : j # i => StartClient(w, i, d).instance[j].job = w.instance[j].job
<1> DEFINE x == [w.instance[i] EXCEPT !.job = "starting", !.device = d]
           v == StartClient(w, i, d)
<1>1. w \in Windows /\ w.instance \in [Instances -> TabStates] /\ w.instance[i] \in TabStates
      /\ InstanceOK(w.instance[i])
  BY DEF WindowOK, Windows
<1>2. x \in TabStates /\ InstanceOK(x) /\ x.text = w.instance[i].text
  BY <1>1, GuiAssumption DEF TabStates, TabJobs, DeviceOrNone, InstanceOK
<1>3. WithInstance(v, w, i, x)  BY <1>1 DEF StartClient, WithInstance, Windows
<1> HIDE DEF x, v
<1>4. /\ WindowOK(v) /\ v.tabs = w.tabs
      /\ \A j \in Instances : j # i => v.instance[j] = w.instance[j]
  BY <1>1, <1>2, <1>3, InstanceChanges
<1>5. QED  BY <1>4 DEF v

\* Only what has no job gets one, so that no signal is of it.
LEMMA StartKeepsSignals ==
  ASSUME NEW s \in Seq(Postings), NEW f, NEW g, SignalsOK(s, f), NEW i \in Instances,
         f[i].job = "none",
         \A j \in Instances : j # i => g[j].job = f[j].job
  PROVE  SignalsOK(s, g)
<1>1. \A k \in 1 .. Len(s) : s[k][2] \in Instances /\ f[s[k][2]].job \in SignalJobs(s[k][1])
  BY DEF Postings, SignalsOK
<1>2. \A k \in 1 .. Len(s) : s[k][2] # i  BY <1>1 DEF SignalJobs
<1>3. QED  BY <1>1, <1>2 DEF SignalsOK

LEMMA LoginKeeps ==
  ASSUME GuiInv, NEW i \in Instances, NEW d \in GuiDevices, Login(i, d)
  PROVE  GuiInv'
<1> DEFINE v == StartClient(Window, i, d)
<1>1. /\ i \in InBar(tabs) /\ instance[i].job = "none" /\ SetWindow(v)
      /\ UNCHANGED <<posted, question, shifted>> /\ question = <<>>
  BY GuiFacts DEF Login, CanStart, UserIsFree
<1>2. /\ WindowOK(v) /\ v.tabs = tabs
      /\ \A j \in Instances : j # i => v.instance[j].job = instance[j].job
  <2> DEFINE w == Window
  <2>1. WindowOK(w) /\ w.tabs = tabs /\ w.instance = instance  BY GuiFacts
  <2>2. v = StartClient(w, i, d)  OBVIOUS
  <2> HIDE DEF w, v
  <2>3. /\ WindowOK(StartClient(w, i, d)) /\ StartClient(w, i, d).tabs = w.tabs
        /\ \A j \in Instances : j # i => StartClient(w, i, d).instance[j].job = w.instance[j].job
    BY <1>1, <2>1, StartedIsOK
  <2>4. QED  BY <2>1, <2>2, <2>3
<1> HIDE DEF v
<1>3. SignalsOK(posted, v.instance)
  <2> DEFINE g == v.instance
  <2>1. \A j \in Instances : j # i => g[j].job = instance[j].job  BY <1>2
  <2> HIDE DEF g
  <2>2. QED  BY <1>1, <2>1, GuiFacts, StartKeepsSignals DEF g
<1>4. ~ shifted => SteadyOK(v, question)
  BY <1>1, <1>2, GuiFacts DEF GuiInv, SteadyOK, RunningShown, AskedOK
<1>5. QED  BY <1>1, <1>2, <1>3, <1>4, WindowKeeps

\* try_login: the tab is the one to log in or a new one.
LEMMA TryLoginKeeps ==
  ASSUME GuiInv, NEW d \in GuiDevices, TryLogin(d)
  PROVE  GuiInv'
<1> DEFINE w == Window
           login == LoginTabs(w)
           i == IF login # {} THEN CHOOSE j \in login : TRUE ELSE NextInstance(w, 0)
           none == "none"
           empty == ""
           u == IF login # {} THEN ReloadLoginDevices(w) ELSE AddNewTab(w, i, empty, none)
           v == IF CanStart(u, i, d) THEN StartClient(u, i, d) ELSE u
<1>1. /\ question = <<>> /\ UNCHANGED <<posted, question, shifted>>
      /\ SetWindow(v) /\ (login = {} => InstanceIsLeft(0))
  BY DEF TryLogin, UserIsFree
<1>2. WindowOK(w) /\ w.tabs = tabs /\ w.instance = instance  BY GuiFacts
<1>3. login = {} => \E n \in Instances \ {0} : Unused(w, n)  BY <1>1 DEF InstanceIsLeft
<1>4. MayBeAdded(w, empty, none)  BY DEF MayBeAdded
<1>5. InBar(tabs) \subseteq Instances  BY GuiFacts, BarHasInstances
<1> HIDE DEF w, none, empty
<1>6. /\ i \in Instances /\ i \in InBar(u.tabs) /\ WindowOK(u) /\ SameJobs(u, w)
      /\ InBar(tabs) \subseteq InBar(u.tabs) /\ Len(u.tabs) >= Len(tabs)
  <2>1. CASE login # {}
    <3>1. i \in login  BY <2>1
    <3>2. u = ReloadLoginDevices(w)  BY <2>1
    <3> HIDE DEF i, u
    <3>3. i \in InBar(tabs)  BY <3>1, <1>2 DEF LoginTabs
    <3>4. WindowOK(u) /\ u.tabs = tabs /\ SameJobs(u, w)  BY <1>2, <3>2, ReloadIsOK
    <3>5. QED  BY <1>5, <3>3, <3>4, GuiFacts
  <2>2. CASE login = {}
    <3>1. i = NextInstance(w, 0) /\ u = AddNewTab(w, i, empty, none)  BY <2>2
    <3> HIDE DEF i, u
    <3>2. i \in Instances /\ i \notin InBar(w.tabs) /\ w.instance[i].job = "none"
      BY <1>3, <2>2, <3>1, NextIsUnused DEF Unused
    <3>3. /\ WindowOK(u) /\ SameJobs(u, w) /\ InBar(u.tabs) = InBar(w.tabs) \cup {i}
          /\ Len(u.tabs) = Len(w.tabs) + 1
      <4> DEFINE a == AddNewTab(w, i, empty, none)
      <4>1. WindowOK(w)  BY <1>2
      <4>2. /\ WindowOK(a) /\ SameJobs(a, w) /\ BarWith(a.tabs, w.tabs, i)
            /\ a.tabs = Append(w.tabs, i)
        BY <1>4, <3>2, <4>1, AddedTabIsOK
      <4>3. Len(a.tabs) = Len(w.tabs) + 1  BY <1>2, <3>2, <4>2, GuiFacts
      <4>4. QED  BY <3>1, <4>2, <4>3 DEF BarWith
    <3>4. QED  BY <1>2, <3>2, <3>3, GuiFacts
  <2>3. QED  BY <2>1, <2>2
<1> HIDE DEF i, u, login
<1>7. SignalsOK(posted, u.instance)
  <2> DEFINE g == u.instance
  <2>1. \A j \in Instances : g[j].job = instance[j].job  BY <1>2, <1>6 DEF SameJobs
  <2> HIDE DEF g
  <2>2. QED  BY <2>1, GuiFacts, SignalsAreOfJobs DEF g
<1>8. ~ shifted => SteadyOK(u, question)
  BY <1>1, <1>2, <1>6, GuiFacts DEF GuiInv, SteadyOK, RunningShown, AskedOK, SameJobs
<1>9. CASE CanStart(u, i, d)
  <2>1. v = StartClient(u, i, d) /\ u.instance[i].job = "none"  BY <1>9 DEF CanStart
  <2> HIDE DEF v
  <2>2. /\ WindowOK(v) /\ v.tabs = u.tabs
        /\ \A j \in Instances : j # i => v.instance[j].job = u.instance[j].job
    BY <1>6, <2>1, StartedIsOK
  <2>3. SignalsOK(posted, v.instance)
    <3> DEFINE f == u.instance
               g == v.instance
    <3>1. /\ \A j \in Instances : j # i => g[j].job = f[j].job
          /\ f[i].job = "none" /\ SignalsOK(posted, f)
      BY <1>7, <2>1, <2>2
    <3> HIDE DEF f, g
    <3>2. QED  BY <1>6, <3>1, GuiFacts, StartKeepsSignals DEF g
  <2>4. ~ shifted => SteadyOK(v, question)
    BY <1>1, <1>6, <1>8, <2>2 DEF SteadyOK, RunningShown, AskedOK
  <2>5. QED  BY <1>1, <2>2, <2>3, <2>4, WindowKeeps
<1>10. CASE ~ CanStart(u, i, d)
  <2>1. v = u  BY <1>10
  <2> HIDE DEF v
  <2>2. QED  BY <1>1, <1>6, <1>7, <1>8, <2>1, WindowKeeps
<1>11. QED  BY <1>9, <1>10

LEMMA AddInstanceKeeps ==
  ASSUME GuiInv, AddInstance
  PROVE  GuiInv'
<1> DEFINE w == Window
           v == SwitchToLoginTab(w, 0)
<1>1. /\ question = <<>> /\ UNCHANGED <<posted, question, shifted>> /\ SetWindow(v)
      /\ \E n \in Instances \ {0} : Unused(w, n)
  BY DEF AddInstance, UserIsFree, InstanceIsLeft
<1>2. WindowOK(w) /\ w.tabs = tabs /\ w.instance = instance  BY GuiFacts
<1> HIDE DEF w
<1>3. WindowOK(v) /\ SameJobs(v, w) /\ InBar(w.tabs) \subseteq InBar(v.tabs) /\ Len(v.tabs) > 0
  BY <1>1, <1>2, SwitchIsOK
<1> HIDE DEF v
<1>4. SignalsOK(posted, v.instance)
  <2> DEFINE g == v.instance
  <2>1. \A j \in Instances : g[j].job = instance[j].job  BY <1>2, <1>3 DEF SameJobs
  <2> HIDE DEF g
  <2>2. QED  BY <2>1, GuiFacts, SignalsAreOfJobs DEF g
<1>5. ~ shifted => SteadyOK(v, question)
  BY <1>1, <1>2, <1>3, GuiFacts DEF GuiInv, SteadyOK, RunningShown, AskedOK, SameJobs
<1>6. QED  BY <1>1, <1>3, <1>4, <1>5, WindowKeeps

\* cancel_and_join: the job of the instance ends, whether it has a tab or not.
LEMMA CancelKeeps ==
  ASSUME GuiInv, NEW w, WindowOK(w), NEW i \in Instances, SignalsOK(posted, w.instance),
         CancelAndJoin(w, i), question' = <<>>, UNCHANGED shifted,
         ~ shifted => /\ Len(w.tabs) > 0
                      /\ \A j \in Instances : j # i /\ w.instance[j].job \in {"starting", "running"}
                                                => j \in InBar(w.tabs)
  PROVE  GuiInv'
<1>1. w \in Windows /\ w.instance \in [Instances -> TabStates] /\ w.instance[i] \in TabStates
      /\ InstanceOK(w.instance[i])
  BY DEF WindowOK, Windows
<1>2. CASE w.instance[i].job \in {"starting", "running"}
  <2> DEFINE signal == "success"
             x == [w.instance[i] EXCEPT !.job = "ok"]
             v == [w EXCEPT !.instance[i].job = "ok"]
  <2>1. /\ x \in TabStates /\ InstanceOK(x) /\ x.text = w.instance[i].text /\ x.job = "ok"
        /\ x.job \in SignalJobs(signal)
    BY <1>1, <1>2 DEF TabStates, TabJobs, InstanceOK, SignalJobs
  <2>2. WithInstance(v, w, i, x)  BY <1>1 DEF WithInstance, Windows
  <2>3. SetWindow(v) /\ posted' = Append(posted, <<signal, i>>)  BY <1>2 DEF CancelAndJoin, Post
  <2>4. signal \in {"ready", "success", "error"} /\ signal # "ready"  OBVIOUS
  <2> HIDE DEF x, v, signal
  <2>5. /\ WindowOK(v) /\ v.tabs = w.tabs /\ v.instance[i] = x
        /\ \A j \in Instances : j # i => v.instance[j] = w.instance[j]
    BY <2>1, <2>2, InstanceChanges
  <2>6. posted' \in Seq(Postings) /\ SignalsOK(posted', v.instance)
    <3> DEFINE f == w.instance
               g == v.instance
    <3>1. JobMoves(f, g, i, signal) /\ SignalsOK(posted, f)
      BY <1>2, <2>1, <2>4, <2>5 DEF JobMoves
    <3> HIDE DEF f, g
    <3>2. /\ Append(posted, <<signal, i>>) \in Seq(Postings)
          /\ SignalsOK(Append(posted, <<signal, i>>), g)
      BY <3>1, GuiFacts, SignalIsPosted
    <3>3. QED  BY <2>3, <3>2 DEF g
  <2>7. ~ shifted' => SteadyOK(v, question')
    BY <2>1, <2>5 DEF SteadyOK, RunningShown, AskedOK
  <2>8. QED  BY <2>3, <2>5, <2>6, <2>7, GuiInvFromParts DEF GuiInv
<1>3. CASE w.instance[i].job \notin {"starting", "running"}
  <2>1. SetWindow(w) /\ posted' = posted  BY <1>3 DEF CancelAndJoin
  <2>2. ~ shifted' => SteadyOK(w, question')
    BY <1>3 DEF SteadyOK, RunningShown, AskedOK
  <2>3. QED  BY <2>1, <2>2, GuiFacts, GuiInvFromParts DEF GuiInv
<1>4. QED  BY <1>2, <1>3

LEMMA LogoutOfUserKeeps ==
  ASSUME GuiInv, NEW i \in Instances, Logout(i)
  PROVE  GuiInv'
<1> DEFINE w == Window
<1>1. WindowOK(w) /\ w.tabs = tabs /\ w.instance = instance  BY GuiFacts
<1>2. CancelAndJoin(w, i) /\ question' = <<>> /\ UNCHANGED shifted
  BY DEF Logout, UserIsFree
<1>3. SignalsOK(posted, w.instance)  BY <1>1, GuiFacts
<1>4. ~ shifted => SteadyOK(w, question)  BY DEF GuiInv
<1> HIDE DEF w
<1>5. ~ shifted => /\ Len(w.tabs) > 0
                   /\ \A j \in Instances : j # i /\ w.instance[j].job \in {"starting", "running"}
                                             => j \in InBar(w.tabs)
  BY <1>4 DEF SteadyOK, RunningShown
<1>6. QED  BY <1>1, <1>2, <1>3, <1>5, CancelKeeps

\* The window without the tab that has the index.
ClosedWindow(k) == [Window EXCEPT !.tabs = IF k \in DOMAIN tabs THEN RemoveTab(tabs, k) ELSE tabs]

LEMMA ClosedIsOK ==
  ASSUME GuiInv, NEW k
  PROVE  /\ WindowOK(ClosedWindow(k)) /\ ClosedWindow(k).instance = instance
         /\ k \in DOMAIN tabs => /\ InBar(ClosedWindow(k).tabs) = InBar(tabs) \ {tabs[k]}
                                 /\ Len(ClosedWindow(k).tabs) = Len(tabs) - 1
<1>1. DOMAIN tabs = 1 .. Len(tabs)  BY GuiFacts
<1>2. CASE k \in DOMAIN tabs
  <2> DEFINE w == Window
             v == [w EXCEPT !.tabs = RemoveTab(w.tabs, k)]
  <2>1. WindowOK(w) /\ w.tabs = tabs /\ w.instance = instance /\ k \in 1 .. Len(w.tabs)
    BY <1>1, <1>2, GuiFacts
  <2>2. ClosedWindow(k) = v  BY <1>2, <2>1 DEF ClosedWindow
  <2> HIDE DEF w
  <2>3. /\ WindowOK(v) /\ v.instance = w.instance /\ InBar(v.tabs) = InBar(w.tabs) \ {w.tabs[k]}
        /\ Len(v.tabs) = Len(w.tabs) - 1
    BY <2>1, TabLeaves
  <2> HIDE DEF v
  <2>4. QED  BY <2>1, <2>2, <2>3
<1>3. CASE k \notin DOMAIN tabs
  <2>1. ClosedWindow(k) = Window  BY <1>3 DEF ClosedWindow, Window
  <2>2. QED  BY <1>3, <2>1, GuiFacts
<1>4. QED  BY <1>2, <1>3

\* close_tab asks, or closes the tab of an instance without job.
LEMMA CloseTabKeeps ==
  ASSUME GuiInv, NEW k \in 1 .. Len(tabs), CloseTab(k)
  PROVE  GuiInv'
<1> DEFINE i == tabs[k]
           no == FALSE
<1>1. /\ question = <<>> /\ Len(tabs) > 1 /\ k \in DOMAIN tabs /\ UNCHANGED shifted
      /\ i \in Instances /\ i \in InBar(tabs) /\ DOMAIN tabs = 1 .. Len(tabs)
  BY GuiFacts DEF CloseTab, UserIsFree, InBar
<1>2. CASE question' = <<k, i>> /\ UNCHANGED <<tabs, instance, posted>>
  <2>1. question' \in Nat \X Instances  BY <1>1, <1>2
  <2>2. SetWindow(Window)  BY <1>2 DEF SetWindow, Window
  <2>3. ~ shifted' => SteadyOK(Window, question')
    BY <1>1, <1>2, GuiFacts DEF GuiInv, SteadyOK, AskedOK
  <2>4. SignalsOK(posted', Window.instance) /\ posted' \in Seq(Postings)  BY <1>2, GuiFacts
  <2> DEFINE w == Window
  <2>5. /\ WindowOK(w) /\ SetWindow(w) /\ SignalsOK(posted', w.instance)
        /\ (~ shifted' => SteadyOK(w, question'))
    BY <2>2, <2>3, <2>4, GuiFacts
  <2> HIDE DEF w
  <2>6. QED  BY <1>1, <2>1, <2>4, <2>5, GuiInvFromParts DEF GuiInv
<1>3. CASE instance[i].job = "none" /\ CloseAt(k, i, FALSE) /\ UNCHANGED question
  <2> DEFINE w == ClosedWindow(k)
             new == NewInstance
             u == [w EXCEPT !.instance[i] = new]
             v == ReloadLoginDevices(u)
  <2>1. SetWindow(v) /\ UNCHANGED posted  BY <1>3 DEF CloseAt, ClosedWindow
  <2>2. /\ WindowOK(w) /\ w.instance = instance /\ InBar(w.tabs) = InBar(tabs) \ {i}
        /\ Len(w.tabs) = Len(tabs) - 1
    BY <1>1, ClosedIsOK
  <2>3. new \in TabStates /\ InstanceOK(new) /\ new.job = "none" /\ new.text # "login"
    BY DEF NewInstance, TabStates, TabJobs, DeviceOrNone, InstanceOK
  <2>4. WithInstance(u, w, i, new)  BY DEF WithInstance
  <2> HIDE DEF w, new, u, i
  <2>5. /\ WindowOK(u) /\ u.tabs = w.tabs /\ u.instance[i] = new
        /\ \A j \in Instances : j # i => u.instance[j] = w.instance[j]
    <3>1. WindowOK(w) /\ i \in Instances  BY <1>1, <2>2
    <3>2. QED  BY <2>3, <2>4, <3>1, InstanceChanges
  <2>6. WindowOK(v) /\ v.tabs = u.tabs /\ SameJobs(v, u)  BY <2>5, ReloadIsOK
  <2> HIDE DEF v
  <2>7. \A j \in Instances : v.instance[j].job = instance[j].job
    BY <1>3, <2>2, <2>3, <2>5, <2>6 DEF SameJobs
  <2>8. SignalsOK(posted, v.instance)
    <3> DEFINE g == v.instance
    <3>1. \A j \in Instances : g[j].job = instance[j].job  BY <2>7
    <3> HIDE DEF g
    <3>2. QED  BY <3>1, GuiFacts, SignalsAreOfJobs DEF g
  <2>9. ASSUME ~ shifted PROVE SteadyOK(v, question)
    <3>1. RunningShown(Window)  BY <2>9 DEF GuiInv, SteadyOK
    <3>2. Len(v.tabs) > 0
      <4>1. Len(tabs) \in Nat /\ Len(tabs) > 1  BY <1>1, GuiFacts
      <4>2. Len(w.tabs) = Len(tabs) - 1 /\ v.tabs = w.tabs  BY <2>2, <2>5, <2>6
      <4>3. QED  BY <4>1, <4>2
    <3>3. RunningShown(v)  BY <1>3, <2>2, <2>5, <2>6, <2>7, <3>1, GuiFacts DEF RunningShown
    <3>4. AskedOK(question, v.tabs)  BY <1>1 DEF AskedOK
    <3>5. QED  BY <3>2, <3>3, <3>4 DEF SteadyOK
  <2>10. QED  BY <1>1, <1>3, <2>1, <2>6, <2>8, <2>9, WindowKeeps
<1>4. QED  BY <1>2, <1>3 DEF CloseTab

\* The answer: the tab with the index leaves, and the job of the instance named ends.
LEMMA AnswerKeeps ==
  ASSUME GuiInv, NEW b \in BOOLEAN, Answer(b)
  PROVE  GuiInv'
<1>1. question # <<>> /\ question' = <<>> /\ UNCHANGED shifted /\ question \in Nat \X Instances
  BY DEF Answer, GuiInv
<1>2. CASE ~ b
  <2> DEFINE w == Window
  <2>1. UNCHANGED <<tabs, instance, posted>>  BY <1>2 DEF Answer
  <2>2. SetWindow(w) /\ WindowOK(w)  BY <2>1, GuiFacts DEF SetWindow, Window
  <2>3. SignalsOK(posted', w.instance) /\ posted' \in Seq(Postings)  BY <2>1, GuiFacts
  <2>4. ~ shifted' => SteadyOK(w, question')  BY <1>1 DEF GuiInv, SteadyOK, AskedOK
  <2> HIDE DEF w
  <2>5. QED  BY <1>1, <2>2, <2>3, <2>4, GuiInvFromParts DEF GuiInv
<1>3. CASE b
  <2> DEFINE k == question[1]
             i == question[2]
             u == ClosedWindow(k)
             w == ReloadLoginDevices(u)
  <2>1. CancelAndJoin(w, i)  BY <1>3 DEF Answer, CloseAt, ClosedWindow
  <2>2. i \in Instances  BY <1>1
  <2>3. /\ WindowOK(u) /\ u.instance = instance
        /\ k \in DOMAIN tabs => InBar(u.tabs) = InBar(tabs) \ {tabs[k]}
           /\ Len(u.tabs) = Len(tabs) - 1
    BY ClosedIsOK
  <2>4. ~ shifted => SteadyOK(Window, question)  BY DEF GuiInv
  <2>5. ~ shifted => k \in DOMAIN tabs /\ Len(tabs) > 1 /\ tabs[k] = i
    BY <1>1, <2>4, GuiFacts DEF SteadyOK, AskedOK
  <2>6. ~ shifted =>
          \A j \in Instances : instance[j].job \in {"starting", "running"} => j \in InBar(tabs)
    BY <2>4, GuiFacts DEF SteadyOK, RunningShown
  <2> HIDE DEF k, i, u
  <2>7. WindowOK(w) /\ w.tabs = u.tabs /\ SameJobs(w, u)  BY <2>3, ReloadIsOK
  <2> HIDE DEF w
  <2>8. \A j \in Instances : w.instance[j].job = instance[j].job  BY <2>3, <2>7 DEF SameJobs
  <2>9. SignalsOK(posted, w.instance)
    <3> DEFINE g == w.instance
    <3>1. \A j \in Instances : g[j].job = instance[j].job  BY <2>8
    <3> HIDE DEF g
    <3>2. QED  BY <3>1, GuiFacts, SignalsAreOfJobs DEF g
  <2>10. ~ shifted => /\ Len(w.tabs) > 0
                      /\ \A j \in Instances : j # i /\ w.instance[j].job \in {"starting", "running"}
                                                => j \in InBar(w.tabs)
    BY <2>3, <2>5, <2>6, <2>7, <2>8, GuiFacts
  <2>11. QED  BY <1>1, <2>1, <2>2, <2>7, <2>9, <2>10, CancelKeeps
<1>4. QED  BY <1>2, <1>3

-----------------------------------------------------------------------------
(* The sessions *)

LEMMA GuiStepKeeps == GuiInv /\ [GuiNext]_guiVars => GuiInv'
<1> SUFFICES ASSUME GuiInv, [GuiNext]_guiVars PROVE GuiInv'
  OBVIOUS
<1>1. CASE UNCHANGED guiVars
  BY <1>1 DEF guiVars, GuiInv, Window, WindowOK, Windows, OneTabEach, OneLogin, LoginTabs,
     InstanceOK,
              SignalsOK, SteadyOK, RunningShown, AskedOK
<1>2. CASE \E i \in Instances : ClientReady(i) \/ ClientFails(i) \/ Logout(i)
  BY <1>2, ReadyKeeps, FailureKeeps, LogoutOfUserKeeps
<1>3. CASE Deliver  BY <1>3, DeliveryKeeps
<1>4. CASE \E i \in Instances, d \in GuiDevices : Login(i, d)  BY <1>4, LoginKeeps
<1>5. CASE \E d \in GuiDevices : TryLogin(d)  BY <1>5, TryLoginKeeps
<1>6. CASE AddInstance  BY <1>6, AddInstanceKeeps
<1>7. CASE \E k \in 1 .. Len(tabs) : CloseTab(k)  BY <1>7, CloseTabKeeps
<1>8. CASE \E b \in BOOLEAN : Answer(b)  BY <1>8, AnswerKeeps
<1>9. QED  BY <1>1, <1>2, <1>3, <1>4, <1>5, <1>6, <1>7, <1>8 DEF GuiNext

\* A bar without repetition has as many instances as tabs.
LEMMA BarIsCounted ==
  ASSUME NEW bar \in Seq(Instances), OneTabEach(bar)
  PROVE  Cardinality(InBar(bar)) = Len(bar)
<1> DEFINE n == Len(bar)
<1>1. n \in Nat /\ DOMAIN bar = 1 .. n  OBVIOUS
<1>2. \A k, l \in 1 .. n : bar[k] = bar[l] => k = l  BY DEF OneTabEach
<1> HIDE DEF n
<1>3. bar \in Bijection(1 .. n, InBar(bar))
  <2>1. bar \in [1 .. n -> InBar(bar)]  BY <1>1 DEF InBar
  <2>2. \A t \in InBar(bar) : \E k \in 1 .. n : bar[k] = t  BY <1>1 DEF InBar
  <2>3. QED  BY <1>2, <2>1, <2>2 DEF Bijection, Injection, Surjection, IsInjective
<1>4. ExistsBijection(1 .. n, InBar(bar))  BY <1>3 DEF ExistsBijection
<1>5. Cardinality(InBar(bar)) = n  BY <1>1, <1>4, FS_CountingElements
<1>6. QED  BY <1>5 DEF n

\* A set whose elements are all equal has one at most.
LEMMA OneAtMost ==
  ASSUME NEW T, \A a, b \in T : a = b
  PROVE  Cardinality(T) <= 1
<1>1. CASE T = {}  BY <1>1, FS_EmptySet
<1>2. CASE T # {}
  <2>1. PICK a : a \in T  BY <1>2
  <2>2. T = {a}  BY <2>1
  <2>3. QED  BY <2>2, FS_Singleton
<1>3. QED  BY <1>1, <1>2

LEMMA GuiInvIsEnough == GuiInv => SessionsAreSound
<1> SUFFICES ASSUME GuiInv PROVE SessionsAreSound
  OBVIOUS
<1>1. OneTabEach(tabs) /\ OneLogin(Window)  BY GuiFacts DEF WindowOK
<1>2. Cardinality(InBar(tabs)) = Len(tabs)  BY <1>1, GuiFacts, BarIsCounted
<1>3. Cardinality(LoginTabs(Window)) <= 1  BY <1>1, OneAtMost DEF OneLogin
<1>4. \A k \in DOMAIN posted : instance[posted[k][2]].job # "none"
  <2>1. DOMAIN posted = 1 .. Len(posted)  BY GuiFacts
  <2>2. QED  BY <2>1, GuiFacts DEF SignalsOK, SignalJobs
<1>5. GuiTypeOK  BY <1>2, <1>4, GuiFacts DEF GuiTypeOK, InstanceOK
<1>6. ~ shifted => tabs # <<>>  BY GuiFacts DEF GuiInv, SteadyOK
<1>7. RunningHasTab  BY GuiFacts DEF GuiInv, SteadyOK, RunningShown, RunningHasTab
<1>8. QED  BY <1>3, <1>5, <1>6, <1>7 DEF SessionsAreSound, LoginTabIsUnique

\* In the main window (main_window.py, instance_widget.py), however logins, logouts, errors of
\* clients and answers to questions interleave with the signals that Qt has not delivered yet,
\* an instance has one tab, there is one tab to log in at most, a signal is of a job that is not
\* forgotten, and a client that runs has its tab unless one left behind an open question.
THEOREM SessionsStaySound == GuiSpec => []SessionsAreSound
<1>1. GuiInit => GuiInv  BY GuiInitiallyOK
<1>2. GuiInv /\ [GuiNext]_guiVars => GuiInv'  BY GuiStepKeeps
<1>3. GuiInv => SessionsAreSound  BY GuiInvIsEnough
<1>4. QED  BY <1>1, <1>2, <1>3, PTL DEF GuiSpec

-----------------------------------------------------------------------------
(* The list of files: its inductive invariant *)

DirStates == [here : BOOLEAN, files : SUBSET FileNames, partial : SUBSET FileNames, ver : Nat]
Handles == {<<>>} \cup {<<n>> : n \in FileNames}
ImportStates ==
  [place : Places, todo : SUBSET FileNames, now : Handles, file : Handles, opened : BOOLEAN,
   ended : BOOLEAN]
PlainSignals == [kind : {"updated", "downsynced", "job", "imported"}, of : Places]
StatSignals == [kind : {"stat", "missing"}, of : Places, names : SUBSET FileNames]
CancelSignals == [kind : {"cancelled"}, of : Places, name : FileNames]
ViewSignals == PlainSignals \cup StatSignals \cup CancelSignals
Dialogs == [op : {"delete", "rename", "create"}, name : FileNames, of : Places]
FileJobs ==
  [id : Nat, op : {"delete", "rename", "create", "silent"}, name : FileNames, place : Places,
   of : Places]
StatJobs == [id : Nat, of : Places, read : BOOLEAN, ok : BOOLEAN, names : SUBSET FileNames]
Tables == [shown : BOOLEAN, of : Places \cup {<<>>}, names : SUBSET FileNames, at : Nat]
Views == [ws : Spaces, dir : Folders, uuid : Places \cup {<<>>}]

FilesTyped ==
  /\ dirs \in [Places -> DirStates] /\ view \in Views /\ table \in Tables
  /\ stats \subseteq StatJobs /\ fileJobs \subseteq FileJobs
  /\ import = NoImport \/ import \in ImportStates
  /\ viewSignals \in Seq(ViewSignals) /\ updateTimer \in BOOLEAN
  /\ dialog = NoDialog \/ dialog \in Dialogs
  /\ orders \in Nat /\ loads \in Nat

\* What a folder has: a half imported file is one of its files, and a folder that is gone has none.
DirOK(at) == at.partial \subseteq at.files /\ (~ at.here => at.files = {})
DirsInv == \A p \in Places : DirOK(dirs[p])

\* The rows, the directory and its identity change together.
ShownInv ==
  table.shown => table.of \in Places /\ view.uuid = table.of /\ view.dir = table.of[2]

\* A signal that makes the list read the folder again, or show what was read.
Reloads(s, p) ==
  s.kind \in {"stat", "missing", "job"} \/ (s.kind \in {"updated", "downsynced"} /\ s.of = p)
SomeReloads(q, p) == \E k \in 1 .. Len(q) : Reloads(q[k], p)

\* A change that the rows do not show is followed: of the signals that wait, one is about it.
Missed == table.shown /\ table.of[1] = view.ws /\ table.at < dirs[table.of].ver
FollowInv == Missed => updateTimer \/ stats # {} \/ SomeReloads(viewSignals, table.of)

\* The end of an import is told once, by a signal that is about it.
Ending(s) == s.kind \in {"imported", "cancelled"}
EndOK(s, i) ==
  /\ i # NoImport /\ i.ended /\ s.of = i.place
  /\ s.kind = "imported" => ~ i.opened
  /\ s.kind = "cancelled" => i.now = <<s.name>>
EndsOK(q, i) ==
  /\ \A k, l \in 1 .. Len(q) : Ending(q[k]) /\ Ending(q[l]) => k = l
  /\ i # NoImport /\ i.ended => \E k \in 1 .. Len(q) : Ending(q[k])
  /\ \A k \in 1 .. Len(q) : Ending(q[k]) => EndOK(q[k], i)

\* An import is into the workspace that is shown.
ImportOK(i, ws) ==
  i # NoImport => i.place[1] = ws /\ (i.opened => i.now # <<>>) /\ (~ i.opened => i.file = <<>>)

\* A half imported file is open, is to be deleted, or was renamed.
Opened(i, p, n) == i # NoImport /\ i.place = p /\ i.opened /\ i.now = <<n>> /\ i.file = <<n>>
Doomed(jobs, p, n) == \E j \in jobs : j.op = "silent" /\ j.place = p /\ j.name = n
HalfOK(p, n) == <<p, n>> \in strays \/ Opened(import, p, n) \/ Doomed(fileJobs, p, n)
HalfInv == \A p \in Places : \A n \in dirs[p].partial : HalfOK(p, n)

FilesInv ==
  /\ FilesTyped /\ DirsInv /\ ShownInv /\ FollowInv /\ EndsOK(viewSignals, import)
  /\ ImportOK(import, view.ws) /\ HalfInv

-----------------------------------------------------------------------------
(* The queue of signals *)

\* Signals that are not of the end of an import are added.
Grown(q, r) ==
  /\ r \in Seq(ViewSignals) /\ Len(r) >= Len(q)
  /\ \A k \in 1 .. Len(q) : r[k] = q[k]
  /\ \A k \in 1 .. Len(r) : k > Len(q) => ~ Ending(r[k])

LEMMA GrownIsReflexive ==
  ASSUME NEW q \in Seq(ViewSignals)
  PROVE  Grown(q, q)
BY DEF Grown

LEMMA GrownByOne ==
  ASSUME NEW q \in Seq(ViewSignals), NEW r \in Seq(ViewSignals), Grown(q, r), NEW s \in ViewSignals,
         ~ Ending(s)
  PROVE  Grown(q, Append(r, s)) /\ \E k \in 1 .. Len(Append(r, s)) : Append(r, s)[k] = s
<1> DEFINE t == Append(r, s)
           n == Len(r)
<1>1. /\ n \in Nat /\ Len(q) \in Nat /\ t \in Seq(ViewSignals) /\ Len(t) = n + 1 /\ t[n + 1] = s
      /\ \A k \in 1 .. n : t[k] = r[k]
  OBVIOUS
<1> HIDE DEF t, n
<1>2. n >= Len(q)  BY DEF Grown, n
<1>3. \A k \in 1 .. Len(q) : t[k] = q[k]  BY <1>1, <1>2 DEF Grown
<1>4. ASSUME NEW k \in 1 .. n + 1, k > Len(q) PROVE ~ Ending(t[k])
  <2>1. CASE k = n + 1  BY <2>1, <1>1
  <2>2. CASE k \in 1 .. n  BY <2>2, <1>1, <1>4 DEF Grown, n
  <2>3. QED  BY <2>1, <2>2, <1>1
<1>5. Grown(q, t)  BY <1>1, <1>2, <1>3, <1>4 DEF Grown
<1>6. n + 1 \in 1 .. Len(t)  BY <1>1
<1>7. QED  BY <1>1, <1>5, <1>6 DEF t

\* What is kept when signals are added.
LEMMA GrownKeeps ==
  ASSUME NEW q \in Seq(ViewSignals), NEW r, Grown(q, r)
  PROVE  /\ \A p : SomeReloads(q, p) => SomeReloads(r, p)
         /\ \A i : EndsOK(q, i) => EndsOK(r, i)
<1>1. /\ Len(q) \in Nat /\ Len(r) \in Nat /\ Len(r) >= Len(q) /\ \A k \in 1 .. Len(q) : r[k] = q[k]
      /\ \A k \in 1 .. Len(r) : k > Len(q) => ~ Ending(r[k])
  BY DEF Grown
<1>2. \A k \in 1 .. Len(q) : k \in 1 .. Len(r)  BY <1>1
<1>3. \A k \in 1 .. Len(r) : Ending(r[k]) => k \in 1 .. Len(q)  BY <1>1
<1>4. ASSUME NEW p, SomeReloads(q, p) PROVE SomeReloads(r, p)
  BY <1>1, <1>2, <1>4 DEF SomeReloads
<1>5. ASSUME NEW i, EndsOK(q, i) PROVE EndsOK(r, i)
  <2>1. \A k, l \in 1 .. Len(r) : Ending(r[k]) /\ Ending(r[l]) => k = l
    BY <1>1, <1>3, <1>5 DEF EndsOK
  <2>2. i # NoImport /\ i.ended => \E k \in 1 .. Len(r) : Ending(r[k])
    BY <1>1, <1>2, <1>5 DEF EndsOK
  <2>3. \A k \in 1 .. Len(r) : Ending(r[k]) => EndOK(r[k], i)
    BY <1>1, <1>3, <1>5 DEF EndsOK
  <2>4. QED  BY <2>1, <2>2, <2>3 DEF EndsOK
<1>6. QED  BY <1>4, <1>5

\* FS_ENTRY_UPDATED is sent if the workspace is shown.
LEMMA UpdatedGrows ==
  ASSUME NEW q \in Seq(ViewSignals), NEW p \in Places
  PROVE  /\ Grown(q, q \o Updated(p)) /\ q \o Updated(p) \in Seq(ViewSignals)
         /\ p[1] = view.ws => SomeReloads(q \o Updated(p), p)
<1> DEFINE s == [kind |-> "updated", of |-> p]
<1>1. CASE p[1] = view.ws
  <2>1. s \in ViewSignals /\ ~ Ending(s) /\ Reloads(s, p)
    BY DEF ViewSignals, PlainSignals, Ending, Reloads
  <2>2. Updated(p) = <<s>>  BY <1>1 DEF Updated
  <2> HIDE DEF s
  <2>3. q \o Updated(p) = Append(q, s)  BY <2>1, <2>2
  <2>4. Grown(q, q)  BY GrownIsReflexive
  <2>5. Grown(q, Append(q, s)) /\ \E k \in 1 .. Len(Append(q, s)) : Append(q, s)[k] = s
    BY <2>1, <2>4, GrownByOne
  <2>6. SomeReloads(Append(q, s), p)  BY <2>1, <2>5 DEF SomeReloads
  <2>7. QED  BY <2>3, <2>5, <2>6 DEF Grown
<1>2. CASE p[1] # view.ws
  <2>1. q \o Updated(p) = q  BY <1>2 DEF Updated
  <2>2. QED  BY <1>2, <2>1, GrownIsReflexive
<1>3. QED  BY <1>1, <1>2

-----------------------------------------------------------------------------
(* The import *)

LEMMA ImportIsSome ==
  ASSUME NEW i \in ImportStates
  PROVE  i # NoImport
<1>1. "place" \in DOMAIN i  BY DEF ImportStates
<1>2. DOMAIN NoImport = {}  BY DEF NoImport
<1>3. QED  BY <1>1, <1>2

LEMMA HandleIsSome ==
  ASSUME NEW n
  PROVE  <<n>> # <<>>
<1>1. Len(<<n>>) = 1 /\ Len(<<>>) = 0  OBVIOUS
<1>2. QED  BY <1>1

\* The same import, but for the name of the file.
SameImport(i, k) ==
  /\ i # NoImport <=> k # NoImport
  /\ i # NoImport => k.place = i.place /\ k.opened = i.opened /\ k.now = i.now /\ k.ended = i.ended

LEMMA SameImportEnds ==
  ASSUME NEW q, NEW i, NEW k, EndsOK(q, i), SameImport(i, k)
  PROVE  EndsOK(q, k)
BY DEF EndsOK, EndOK, SameImport

LEMMA FollowedIsOK ==
  ASSUME FilesInv, NEW p \in Places, NEW names, NEW name \in Handles
  PROVE  /\ Followed(p, names, name) = NoImport \/ Followed(p, names, name) \in ImportStates
         /\ SameImport(import, Followed(p, names, name))
         /\ ImportOK(Followed(p, names, name), view.ws)
         /\ \A r, n : Opened(import, r, n) /\ (r # p \/ n \notin names)
                        => Opened(Followed(p, names, name), r, n)
<1> DEFINE k == Followed(p, names, name)
<1>1. (import = NoImport \/ import \in ImportStates) /\ ImportOK(import, view.ws)
  BY DEF FilesInv, FilesTyped
<1>2. CASE import # NoImport /\ import.place = p /\ (\E n \in names : import.file = <<n>>)
  <2>1. k = [import EXCEPT !.file = name] /\ import \in ImportStates  BY <1>1, <1>2 DEF Followed
  <2>2. PICK n \in names : import.file = <<n>>  BY <1>2
  <2>3. import.opened  BY <1>1, <1>2, <2>2, HandleIsSome DEF ImportOK
  <2> HIDE DEF k
  <2>4. /\ k \in ImportStates /\ k.place = import.place /\ k.opened = import.opened
        /\ k.now = import.now /\ k.ended = import.ended
    BY <2>1 DEF ImportStates
  <2>5. k # NoImport  BY <2>4, ImportIsSome
  <2>6. SameImport(import, k)  BY <1>2, <2>4, <2>5 DEF SameImport
  <2>7. ImportOK(k, view.ws)  BY <1>1, <1>2, <2>3, <2>4 DEF ImportOK
  <2>8. ASSUME NEW r, NEW m, Opened(import, r, m), r # p \/ m \notin names PROVE FALSE
    <3>1. r = p /\ <<m>> = <<n>>  BY <1>2, <2>2, <2>8 DEF Opened
    <3>2. m = n  BY <3>1
    <3>3. QED  BY <2>8, <3>1, <3>2
  <2>9. QED  BY <2>4, <2>6, <2>7, <2>8 DEF k
<1>3. CASE ~ (import # NoImport /\ import.place = p /\ (\E n \in names : import.file = <<n>>))
  <2>1. k = import  BY <1>3 DEF Followed
  <2> HIDE DEF k
  <2>2. QED  BY <1>1, <2>1 DEF SameImport, k
<1>4. QED  BY <1>2, <1>3

-----------------------------------------------------------------------------
(* A folder changes *)

LEMMA FilesFacts ==
  ASSUME FilesInv
  PROVE  /\ dirs \in [Places -> DirStates] /\ view \in Views /\ table \in Tables
         /\ viewSignals \in Seq(ViewSignals) /\ (import = NoImport \/ import \in ImportStates)
         /\ fileJobs \subseteq FileJobs /\ stats \subseteq StatJobs
         /\ EndsOK(viewSignals, import) /\ ImportOK(import, view.ws)
         /\ \A p \in Places : dirs[p] \in DirStates /\ DirOK(dirs[p])
         /\ Here \in Places /\ orders \in Nat /\ loads \in Nat /\ updateTimer \in BOOLEAN
         /\ (dialog = NoDialog \/ dialog \in Dialogs)
<1>1. Here \in Places  BY DEF FilesInv, FilesTyped, Views, Here, Places
<1>2. QED  BY <1>1 DEF FilesInv, FilesTyped, DirsInv

\* The rows of a folder that changes are read again, as a signal about it is sent.
LEMMA ChangeIsFollowed ==
  ASSUME FilesInv, NEW p \in Places, NEW at \in DirStates, DirOK(at),
         dirs' = [dirs EXCEPT ![p] = at],
         Grown(viewSignals, viewSignals'),
         at.ver = dirs[p].ver \/ (p[1] = view.ws => SomeReloads(viewSignals', p)),
         UNCHANGED <<view, table, stats, updateTimer>>
  PROVE  dirs' \in [Places -> DirStates] /\ DirsInv' /\ FollowInv'
         /\ viewSignals' \in Seq(ViewSignals)
<1>1. /\ dirs' \in [Places -> DirStates] /\ dirs'[p] = at
      /\ \A r \in Places : r # p => dirs'[r] = dirs[r]
  BY FilesFacts
<1>2. DirsInv'  BY <1>1, FilesFacts DEF DirsInv
<1>3. viewSignals' \in Seq(ViewSignals)  BY DEF Grown
<1>4. \A r : SomeReloads(viewSignals, r) => SomeReloads(viewSignals', r)
  BY FilesFacts, GrownKeeps
<1>5. ASSUME Missed' PROVE (updateTimer \/ stats # {} \/ SomeReloads(viewSignals, table.of))'
  <2>1. table.shown /\ table.of \in Places /\ table.of[1] = view.ws
        /\ table.at < dirs'[table.of].ver
    BY <1>5 DEF Missed, FilesInv, ShownInv
  <2>2. CASE table.of = p /\ at.ver # dirs[p].ver  BY <2>1, <2>2
  <2>3. CASE table.of # p \/ at.ver = dirs[p].ver
    <3>1. dirs'[table.of].ver = dirs[table.of].ver  BY <1>1, <2>1, <2>3
    <3>2. Missed  BY <2>1, <3>1 DEF Missed
    <3>3. updateTimer \/ stats # {} \/ SomeReloads(viewSignals, table.of)
      BY <3>2 DEF FilesInv, FollowInv
    <3>4. QED  BY <1>4, <3>3
  <2>4. QED  BY <2>2, <2>3
<1>6. QED  BY <1>1, <1>2, <1>3, <1>5 DEF FollowInv

\* What remains of the invariant when the list does not change.
LEMMA ListIsKept ==
  ASSUME FilesInv, UNCHANGED <<view, table>>
  PROVE  view' \in Views /\ table' \in Tables /\ ShownInv'
BY DEF FilesInv, FilesTyped, ShownInv

LEMMA NameLeaves ==
  ASSUME NEW at \in DirStates, DirOK(at), NEW n \in FileNames
  PROVE  /\ WithoutName(at, n) \in DirStates /\ DirOK(WithoutName(at, n))
         /\ WithoutName(at, n).partial = at.partial \ {n}
<1> DEFINE x == WithoutName(at, n)
<1>1. x = [at EXCEPT !.files = at.files \ {n}, !.partial = at.partial \ {n}, !.ver = at.ver + 1]
  BY DEF WithoutName
<1>2. /\ at.files \in SUBSET FileNames /\ at.partial \in SUBSET FileNames /\ at.ver \in Nat
      /\ at.here \in BOOLEAN
  BY DEF DirStates
<1>3. /\ at.files \ {n} \in SUBSET FileNames /\ at.partial \ {n} \in SUBSET FileNames
      /\ at.ver + 1 \in Nat
  BY <1>2
<1> HIDE DEF x
<1>4. /\ x \in DirStates /\ x.files = at.files \ {n} /\ x.partial = at.partial \ {n}
      /\ x.here = at.here
  BY <1>1, <1>2, <1>3 DEF DirStates
<1>5. DirOK(x)  BY <1>4 DEF DirOK
<1>6. QED  BY <1>4, <1>5 DEF x

\* A file that comes, perhaps half imported.
FileWith(at, n, T) == [WithFile(at, n) EXCEPT !.partial = @ \cup T]

LEMMA FileComes ==
  ASSUME NEW at \in DirStates, DirOK(at), at.here, NEW n \in FileNames, NEW T \in SUBSET {n}
  PROVE  /\ FileWith(at, n, T) \in DirStates /\ DirOK(FileWith(at, n, T))
         /\ FileWith(at, n, T).partial = at.partial \cup T
<1> DEFINE x == FileWith(at, n, T)
<1>1. /\ at.files \in SUBSET FileNames /\ at.partial \in SUBSET FileNames /\ at.ver \in Nat
      /\ at.here \in BOOLEAN
  BY DEF DirStates
<1>2. x = [at EXCEPT !.files = at.files \cup {n}, !.ver = at.ver + 1, !.partial = at.partial \cup T]
  BY <1>1 DEF WithFile, FileWith, DirStates
<1>3. /\ at.files \cup {n} \in SUBSET FileNames /\ at.partial \cup T \in SUBSET FileNames
      /\ at.ver + 1 \in Nat
  BY <1>1
<1> HIDE DEF x
<1>4. /\ x \in DirStates /\ x.files = at.files \cup {n} /\ x.partial = at.partial \cup T
      /\ x.here = at.here
  BY <1>1, <1>2, <1>3 DEF DirStates
<1>5. DirOK(x)  BY <1>4 DEF DirOK
<1>6. QED  BY <1>4, <1>5 DEF x

LEMMA FileIsMade ==
  ASSUME NEW at \in DirStates, DirOK(at), at.here, NEW n \in FileNames
  PROVE  /\ WithFile(at, n) \in DirStates /\ DirOK(WithFile(at, n))
         /\ WithFile(at, n).partial = at.partial
<1> DEFINE x == WithFile(at, n)
<1>1. x = [at EXCEPT !.files = at.files \cup {n}, !.ver = at.ver + 1]  BY DEF WithFile
<1>2. /\ at.files \in SUBSET FileNames /\ at.partial \in SUBSET FileNames /\ at.ver \in Nat
      /\ at.here \in BOOLEAN
  BY DEF DirStates
<1>3. at.files \cup {n} \in SUBSET FileNames /\ at.ver + 1 \in Nat  BY <1>2
<1> HIDE DEF x
<1>4. x \in DirStates /\ x.files = at.files \cup {n} /\ x.partial = at.partial /\ x.here = at.here
  BY <1>1, <1>2, <1>3 DEF DirStates
<1>5. DirOK(x)  BY <1>4 DEF DirOK
<1>6. QED  BY <1>4, <1>5 DEF x

\* The half imported files of the folders that do not change, and of the one that does.
LEMMA HalfIsKept ==
  ASSUME FilesInv, NEW p \in Places, NEW at, dirs' = [dirs EXCEPT ![p] = at],
         \A n \in at.partial : HalfOK(p, n)',
         \A r \in Places : \A n \in dirs[r].partial : r # p /\ HalfOK(r, n) => HalfOK(r, n)'
  PROVE  HalfInv'
<1>1. dirs'[p] = at /\ \A r \in Places : r # p => dirs'[r] = dirs[r]  BY FilesFacts
<1>2. \A r \in Places : \A n \in dirs[r].partial : HalfOK(r, n)  BY DEF FilesInv, HalfInv
<1>3. QED  BY <1>1, <1>2 DEF HalfInv

\* Others change a folder.
LEMMA ChangeKeeps ==
  ASSUME FilesInv, NEW p \in Places, Change(p)
  PROVE  FilesInv'
<1> DEFINE down == [kind |-> "downsynced", of |-> p]
           d == dirs[p]
           gone == [d EXCEPT !.here = FALSE, !.files = {}, !.partial = {}, !.ver = @ + 1]
<1>1. /\ d.here /\ d \in DirStates /\ DirOK(d)
      /\ UNCHANGED <<view, table, stats, fileJobs, updateTimer, dialog, orders, loads, strays>>
  BY FilesFacts DEF Change
<1>2. Grown(viewSignals, viewSignals') /\ (p[1] = view.ws => SomeReloads(viewSignals', p))
  <2>1. CASE viewSignals' = viewSignals \o Updated(p)  BY <2>1, FilesFacts, UpdatedGrows
  <2>2. CASE viewSignals' = Append(viewSignals, down)
    <3>1. down \in ViewSignals /\ ~ Ending(down) /\ Reloads(down, p)
      BY DEF ViewSignals, PlainSignals, Ending, Reloads
    <3> HIDE DEF down
    <3>2. Grown(viewSignals, viewSignals)  BY FilesFacts, GrownIsReflexive
    <3>3. /\ Grown(viewSignals, Append(viewSignals, down))
          /\ \E k \in 1 .. Len(Append(viewSignals, down)) : Append(viewSignals, down)[k] = down
      BY <3>1, <3>2, FilesFacts, GrownByOne
    <3>4. SomeReloads(Append(viewSignals, down), p)  BY <3>1, <3>3 DEF SomeReloads
    <3>5. QED  BY <2>2, <3>3, <3>4
  <2>3. QED  BY <2>1, <2>2 DEF Change
<1>3. \E at \in DirStates, names \in SUBSET FileNames :
        /\ DirOK(at) /\ dirs' = [dirs EXCEPT ![p] = at] /\ at.partial \subseteq d.partial \ names
        /\ import' = Followed(p, names, <<>>)
  <2>1. CASE \E n \in d.files : Written(p, WithoutName(d, n)) /\ import' = Followed(p, {n}, <<>>)
    <3>1. PICK n \in d.files : Written(p, WithoutName(d, n)) /\ import' = Followed(p, {n}, <<>>)
      BY <2>1
    <3>2. n \in FileNames  BY <1>1 DEF DirStates
    <3> HIDE DEF d
    <3>3. /\ WithoutName(d, n) \in DirStates /\ DirOK(WithoutName(d, n))
          /\ WithoutName(d, n).partial = d.partial \ {n}
      BY <1>1, <3>2, NameLeaves
    <3>4. {n} \in SUBSET FileNames  BY <3>2
    <3>5. QED  BY <3>1, <3>3, <3>4 DEF Written
  <2>2. CASE (\E n \in FileNames \ d.files : Written(p, WithFile(d, n))) /\ UNCHANGED import
    <3>1. PICK n \in FileNames : Written(p, WithFile(d, n))  BY <2>2
    <3> HIDE DEF d
    <3>2. /\ WithFile(d, n) \in DirStates /\ DirOK(WithFile(d, n))
          /\ WithFile(d, n).partial = d.partial
      BY <1>1, FileIsMade
    <3>3. import' = Followed(p, {}, <<>>)  BY <2>2 DEF Followed
    <3>4. QED  BY <3>1, <3>2, <3>3 DEF Written
  <2>3. CASE import' = Followed(p, FileNames, <<>>) /\ Written(p, gone)
    <3>1. d.ver + 1 \in Nat /\ {} \in SUBSET FileNames  BY <1>1 DEF DirStates
    <3> HIDE DEF d
    <3>2. gone \in DirStates /\ gone.partial = {} /\ gone.files = {}  BY <1>1, <3>1 DEF DirStates
    <3> HIDE DEF gone
    <3>3. DirOK(gone)  BY <3>2 DEF DirOK
    <3>4. QED  BY <2>3, <3>2, <3>3 DEF Written
  <2>4. QED  BY <2>1, <2>2, <2>3 DEF Change
<1>4. PICK at \in DirStates, names \in SUBSET FileNames :
        /\ DirOK(at) /\ dirs' = [dirs EXCEPT ![p] = at] /\ at.partial \subseteq d.partial \ names
        /\ import' = Followed(p, names, <<>>)
  BY <1>3
<1>5. <<>> \in Handles  BY DEF Handles
<1>6. /\ import' = NoImport \/ import' \in ImportStates
      /\ SameImport(import, import') /\ ImportOK(import', view.ws)
      /\ \A r, n : Opened(import, r, n) /\ (r # p \/ n \notin names) => Opened(import', r, n)
  BY <1>4, <1>5, FollowedIsOK
<1>7. dirs' \in [Places -> DirStates] /\ DirsInv' /\ FollowInv' /\ viewSignals' \in Seq(ViewSignals)
  BY <1>1, <1>2, <1>4, ChangeIsFollowed
<1>8. EndsOK(viewSignals', import')
  <2>1. EndsOK(viewSignals', import)  BY <1>2, FilesFacts, GrownKeeps
  <2>2. QED  BY <1>6, <2>1, SameImportEnds
<1>9. \A r \in Places : \A n \in dirs[r].partial :
        (r # p \/ n \notin names) /\ HalfOK(r, n) => HalfOK(r, n)'
  BY <1>1, <1>6 DEF HalfOK, Doomed
<1>10. \A n \in at.partial : HalfOK(p, n)'
  BY <1>4, <1>9 DEF FilesInv, HalfInv
<1>11. HalfInv'  BY <1>4, <1>9, <1>10, HalfIsKept
<1>12. FilesTyped'  BY <1>1, <1>6, <1>7 DEF FilesInv, FilesTyped
<1>13. QED  BY <1>1, <1>6, <1>7, <1>8, <1>11, <1>12, ListIsKept DEF FilesInv

-----------------------------------------------------------------------------
(* The jobs of the user *)

\* The end of a job may be told as well.
LEMMA JobEndGrows ==
  ASSUME NEW q \in Seq(ViewSignals), NEW p \in Places, NEW end,
         end = <<>> \/ end = <<[kind |-> "job", of |-> p]>>
  PROVE  /\ Grown(q, q \o Updated(p) \o end)
         /\ p[1] = view.ws => SomeReloads(q \o Updated(p) \o end, p)
<1> DEFINE r == q \o Updated(p)
           s == [kind |-> "job", of |-> p]
<1>1. Grown(q, r) /\ r \in Seq(ViewSignals) /\ (p[1] = view.ws => SomeReloads(r, p))
  BY UpdatedGrows
<1>2. s \in ViewSignals /\ ~ Ending(s)  BY DEF ViewSignals, PlainSignals, Ending
<1>3. end = <<>> \/ end = <<s>>  OBVIOUS
<1> HIDE DEF r, s
<1>4. CASE end = <<>>
  <2>1. r \o end = r  BY <1>1, <1>4
  <2>2. QED  BY <1>1, <2>1 DEF r
<1>5. CASE end = <<s>>
  <2>1. r \o end = Append(r, s)  BY <1>1, <1>2, <1>5
  <2>2. Grown(q, Append(r, s))  BY <1>1, <1>2, GrownByOne
  <2>3. Grown(r, Append(r, s))  BY <1>1, <1>2, GrownIsReflexive, GrownByOne
  <2>4. p[1] = view.ws => SomeReloads(Append(r, s), p)  BY <1>1, <2>3, GrownKeeps
  <2>5. QED  BY <2>1, <2>2, <2>4 DEF r
<1>6. QED  BY <1>3, <1>4, <1>5

\* A job that is done, or that finds nothing to do, leaves the list as it is.
LEMMA JobStepKeeps ==
  ASSUME FilesInv, NEW j \in fileJobs, fileJobs' = fileJobs \ {j},
         dirs' \in [Places -> DirStates], DirsInv', FollowInv', viewSignals' \in Seq(ViewSignals),
         Grown(viewSignals, viewSignals'), import' = NoImport \/ import' \in ImportStates,
         SameImport(import, import'), ImportOK(import', view.ws), HalfInv',
         UNCHANGED <<view, table, stats, updateTimer, dialog, orders, changes, loads>>
  PROVE  FilesInv'
<1>1. EndsOK(viewSignals', import)  BY FilesFacts, GrownKeeps
<1>2. EndsOK(viewSignals', import')  BY <1>1, SameImportEnds
<1>3. FilesTyped'  BY DEF FilesInv, FilesTyped
<1>4. QED  BY <1>2, <1>3, ListIsKept DEF FilesInv

LEMMA FileJobKeeps ==
  ASSUME FilesInv, NEW j \in fileJobs, FileJob(j)
  PROVE  FilesInv'
<1> DEFINE p == j.place
           n == j.name
           at == dirs[p]
           done == at.here /\ (IF j.op = "create" THEN n \notin at.files ELSE n \in at.files)
           end == IF j.op \in {"create", "silent"} THEN <<>> ELSE <<[kind |-> "job", of |-> p]>>
<1>1. /\ p \in Places /\ n \in FileNames /\ at \in DirStates /\ DirOK(at) /\ j \in FileJobs
      /\ at.partial \subseteq FileNames
  BY FilesFacts DEF FileJobs, DirStates
<1>2. /\ fileJobs' = fileJobs \ {j}
      /\ UNCHANGED <<view, table, stats, updateTimer, dialog, orders, changes, loads>>
  BY DEF FileJob
<1>3. \/ ~ done /\ UNCHANGED <<dirs, viewSignals, import, strays>>
      \/ /\ done /\ j.op = "create" /\ Written(p, WithFile(at, n))
         /\ viewSignals' = viewSignals \o Updated(p) /\ UNCHANGED <<import, strays>>
      \/ /\ done /\ j.op \in {"delete", "silent"} /\ Written(p, WithoutName(at, n))
         /\ viewSignals' = viewSignals \o Updated(p) \o end
         /\ import' = Followed(p, {n}, <<>>) /\ UNCHANGED strays
      \/ /\ done /\ j.op = "rename"
         /\ \E m \in FileNames \ at.files :
              LET half == {m : i \in at.partial \cap {n}}
              IN /\ Written(p, [WithFile(WithoutName(at, n), m) EXCEPT !.partial = @ \cup half])
                 /\ strays' = strays \cup ({p} \X half)
                 /\ import' = Followed(p, {n}, <<m>>)
         /\ viewSignals' = viewSignals \o Updated(p) \o end
  BY DEF FileJob
<1>4. end = <<>> \/ end = <<[kind |-> "job", of |-> p]>>  OBVIOUS
<1>5. (~ done /\ j.op # "create") => n \notin at.partial  BY <1>1 DEF DirOK
<1>6. done => at.here  OBVIOUS
<1>7. \A r \in Places : \A m \in dirs[r].partial : HalfOK(r, m)  BY DEF FilesInv, HalfInv
<1>8. ASSUME NEW r, NEW m, Doomed(fileJobs, r, m), j.op # "silent" \/ r # p \/ m # n
      PROVE  Doomed(fileJobs', r, m)
  BY <1>2, <1>8 DEF Doomed
<1>9. SameImport(import, import) /\ viewSignals \in Seq(ViewSignals)
      /\ Grown(viewSignals, viewSignals) /\ (import = NoImport \/ import \in ImportStates)
  BY FilesFacts, GrownIsReflexive DEF SameImport
<1> HIDE DEF done, end
<1>10. CASE ~ done /\ UNCHANGED <<dirs, viewSignals, import, strays>>
  <2>1. dirs' \in [Places -> DirStates] /\ DirsInv' /\ FollowInv'
    BY <1>2, <1>10 DEF FilesInv, FilesTyped, DirsInv, FollowInv, Missed
  <2>2. ASSUME NEW r \in Places, NEW m \in dirs[r].partial PROVE HalfOK(r, m)'
    <3>1. HalfOK(r, m)  BY <1>7
    <3>2. j.op # "silent" \/ r # p \/ m # n  BY <1>5, <1>10
    <3>3. QED  BY <1>8, <1>10, <3>1, <3>2 DEF HalfOK
  <2>3. HalfInv'  BY <1>10, <2>2 DEF HalfInv
  <2>4. QED  BY <1>2, <1>9, <1>10, <2>1, <2>3, FilesFacts, JobStepKeeps
<1>11. CASE /\ done /\ j.op = "create" /\ Written(p, WithFile(at, n))
            /\ viewSignals' = viewSignals \o Updated(p) /\ UNCHANGED <<import, strays>>
  <2> DEFINE x == WithFile(at, n)
  <2> HIDE DEF p, n, at
  <2>1. x \in DirStates /\ DirOK(x) /\ x.partial = at.partial  BY <1>1, <1>6, <1>11, FileIsMade
  <2>2. dirs' = [dirs EXCEPT ![p] = x]  BY <1>11 DEF Written
  <2> HIDE DEF x
  <2>3. Grown(viewSignals, viewSignals') /\ (p[1] = view.ws => SomeReloads(viewSignals', p))
    BY <1>1, <1>11, FilesFacts, UpdatedGrows
  <2>4. dirs' \in [Places -> DirStates] /\ DirsInv' /\ FollowInv'
        /\ viewSignals' \in Seq(ViewSignals)
    BY <1>1, <1>2, <2>1, <2>2, <2>3, ChangeIsFollowed
  <2>5. \A r \in Places : \A m \in dirs[r].partial : HalfOK(r, m) => HalfOK(r, m)'
    BY <1>8, <1>11 DEF HalfOK
  <2>6. \A m \in x.partial : HalfOK(p, m)'  BY <1>1, <1>7, <2>1, <2>5 DEF at
  <2>7. HalfInv'  BY <1>1, <2>2, <2>5, <2>6, HalfIsKept
  <2>8. QED  BY <1>2, <1>9, <1>11, <2>3, <2>4, <2>7, FilesFacts, JobStepKeeps
<1>12. CASE /\ done /\ j.op \in {"delete", "silent"} /\ Written(p, WithoutName(at, n))
            /\ viewSignals' = viewSignals \o Updated(p) \o end
            /\ import' = Followed(p, {n}, <<>>) /\ UNCHANGED strays
  <2> DEFINE x == WithoutName(at, n)
             names == {n}
             none == <<>>
  <2>1. none \in Handles /\ import' = Followed(p, names, none)  BY <1>12 DEF Handles
  <2> HIDE DEF p, n, at, none
  <2>2. x \in DirStates /\ DirOK(x) /\ x.partial = at.partial \ {n}  BY <1>1, NameLeaves
  <2>3. dirs' = [dirs EXCEPT ![p] = x]  BY <1>12 DEF Written
  <2> HIDE DEF x, names
  <2>4. Grown(viewSignals, viewSignals') /\ (p[1] = view.ws => SomeReloads(viewSignals', p))
    BY <1>1, <1>4, <1>12, FilesFacts, JobEndGrows DEF p
  <2>5. dirs' \in [Places -> DirStates] /\ DirsInv' /\ FollowInv'
        /\ viewSignals' \in Seq(ViewSignals)
    BY <1>1, <1>2, <2>2, <2>3, <2>4, ChangeIsFollowed
  <2>6. /\ import' = NoImport \/ import' \in ImportStates
        /\ SameImport(import, import') /\ ImportOK(import', view.ws)
        /\ \A r, m : Opened(import, r, m) /\ (r # p \/ m \notin names) => Opened(import', r, m)
    BY <1>1, <2>1, FollowedIsOK
  <2>7. ASSUME NEW r \in Places, NEW m \in dirs[r].partial, r # p \/ m # n, HalfOK(r, m)
        PROVE  HalfOK(r, m)'
    <3>1. r # p \/ m \notin names  BY <2>7 DEF names
    <3>2. QED  BY <1>8, <1>12, <2>6, <2>7, <3>1 DEF HalfOK
  <2>8. \A m \in x.partial : HalfOK(p, m)'  BY <1>1, <1>7, <2>2, <2>7 DEF at
  <2>9. HalfInv'  BY <1>1, <2>3, <2>7, <2>8, HalfIsKept
  <2>10. QED  BY <1>2, <2>4, <2>5, <2>6, <2>9, JobStepKeeps
<1>13. CASE /\ done /\ j.op = "rename"
            /\ \E m \in FileNames \ at.files :
                 LET half == {m : i \in at.partial \cap {n}}
                 IN /\ Written(p, [WithFile(WithoutName(at, n), m) EXCEPT !.partial = @ \cup half])
                    /\ strays' = strays \cup ({p} \X half)
                    /\ import' = Followed(p, {n}, <<m>>)
            /\ viewSignals' = viewSignals \o Updated(p) \o end
  <2>1. PICK m \in FileNames \ at.files :
          LET half == {m : i \in at.partial \cap {n}}
          IN /\ Written(p, [WithFile(WithoutName(at, n), m) EXCEPT !.partial = @ \cup half])
             /\ strays' = strays \cup ({p} \X half)
             /\ import' = Followed(p, {n}, <<m>>)
    BY <1>13
  <2> DEFINE half == {m : i \in at.partial \cap {n}}
             u == WithoutName(at, n)
             x == FileWith(u, m, half)
             names == {n}
             new == <<m>>
  <2>2. /\ half \in SUBSET {m} /\ new \in Handles /\ import' = Followed(p, names, new)
        /\ strays' = strays \cup ({p} \X half)
    BY <2>1 DEF Handles
  <2>3. dirs' = [dirs EXCEPT ![p] = x]  BY <2>1 DEF Written, FileWith
  <2>4. u.here  BY <1>1, <1>6, <1>13 DEF WithoutName, DirStates
  <2> HIDE DEF p, n, at, half, new
  <2>5. u \in DirStates /\ DirOK(u) /\ u.partial = at.partial \ {n}  BY <1>1, NameLeaves
  <2> HIDE DEF u
  <2>6. x \in DirStates /\ DirOK(x) /\ x.partial = u.partial \cup half
    <3>1. m \in FileNames /\ half \in SUBSET {m}  BY <2>2
    <3>2. QED  BY <2>4, <2>5, <3>1, FileComes
  <2> HIDE DEF x, names
  <2>7. Grown(viewSignals, viewSignals') /\ (p[1] = view.ws => SomeReloads(viewSignals', p))
    BY <1>1, <1>4, <1>13, FilesFacts, JobEndGrows DEF p
  <2>8. dirs' \in [Places -> DirStates] /\ DirsInv' /\ FollowInv'
        /\ viewSignals' \in Seq(ViewSignals)
    BY <1>1, <1>2, <2>3, <2>6, <2>7, ChangeIsFollowed
  <2>9. /\ import' = NoImport \/ import' \in ImportStates
        /\ SameImport(import, import') /\ ImportOK(import', view.ws)
        /\ \A r, i : Opened(import, r, i) /\ (r # p \/ i \notin names) => Opened(import', r, i)
    BY <1>1, <2>2, FollowedIsOK
  <2>10. ASSUME NEW r \in Places, NEW i \in dirs[r].partial, r # p \/ i # n, HalfOK(r, i)
         PROVE  HalfOK(r, i)'
    <3>1. r # p \/ i \notin names  BY <2>10 DEF names
    <3>2. <<r, i>> \in strays => <<r, i>> \in strays'  BY <2>2
    <3>3. QED  BY <1>8, <1>13, <2>9, <2>10, <3>1, <3>2 DEF HalfOK
  <2>11. ASSUME NEW i \in x.partial PROVE HalfOK(p, i)'
    <3>1. CASE i \in half
      <4>1. <<p, i>> \in strays'  BY <2>2, <3>1
      <4>2. QED  BY <4>1 DEF HalfOK
    <3>2. CASE i \in at.partial \ {n}
      <4>1. i \in dirs[p].partial /\ i # n  BY <3>2 DEF at
      <4>2. QED  BY <1>1, <1>7, <2>10, <4>1
    <3>3. QED  BY <2>5, <2>6, <2>11, <3>1, <3>2
  <2>12. HalfInv'  BY <1>1, <2>3, <2>10, <2>11, HalfIsKept
  <2>13. QED  BY <1>2, <2>7, <2>8, <2>9, <2>12, JobStepKeeps
<1>14. QED  BY <1>3, <1>10, <1>11, <1>12, <1>13

-----------------------------------------------------------------------------
(* The steps of the import *)

NoneEnds(q) == \A k \in 1 .. Len(q) : ~ Ending(q[k])

\* No end is told while the import goes on, or when there is none.
LEMMA NoEndYet ==
  ASSUME NEW q, NEW i, EndsOK(q, i), i = NoImport \/ ~ i.ended
  PROVE  NoneEnds(q)
BY DEF EndsOK, EndOK, NoneEnds

LEMMA NoEndIsOK ==
  ASSUME NEW q, NEW i, NoneEnds(q), i = NoImport \/ ~ i.ended
  PROVE  EndsOK(q, i)
BY DEF EndsOK, NoneEnds

LEMMA EndIsTold ==
  ASSUME NEW q \in Seq(ViewSignals), NEW s \in ViewSignals, Ending(s), NEW i, NoneEnds(q),
         EndOK(s, i)
  PROVE  /\ Append(q, s) \in Seq(ViewSignals) /\ EndsOK(Append(q, s), i)
         /\ \A p : SomeReloads(q, p) => SomeReloads(Append(q, s), p)
<1> DEFINE t == Append(q, s)
           n == Len(q)
<1>1. /\ n \in Nat /\ t \in Seq(ViewSignals) /\ Len(t) = n + 1 /\ t[n + 1] = s
      /\ \A k \in 1 .. n : t[k] = q[k]
  OBVIOUS
<1> HIDE DEF t, n
<1>2. \A k \in 1 .. n + 1 : Ending(t[k]) => k = n + 1
  <2>1. \A k \in 1 .. n : ~ Ending(t[k])  BY <1>1 DEF NoneEnds, n
  <2>2. \A k \in 1 .. n + 1 : k \in 1 .. n \/ k = n + 1  BY <1>1
  <2>3. QED  BY <2>1, <2>2
<1>3. n + 1 \in 1 .. n + 1  BY <1>1
<1>4. EndsOK(t, i)  BY <1>1, <1>2, <1>3 DEF EndsOK
<1>5. ASSUME NEW p, SomeReloads(q, p) PROVE SomeReloads(t, p)
  <2>1. PICK k \in 1 .. n : Reloads(q[k], p)  BY <1>5 DEF SomeReloads, n
  <2>2. k \in 1 .. Len(t) /\ t[k] = q[k]  BY <1>1
  <2>3. QED  BY <2>1, <2>2 DEF SomeReloads
<1>6. QED  BY <1>1, <1>4, <1>5 DEF t

\* A step that leaves the list and the jobs alone.
LEMMA ImportKeeps ==
  ASSUME FilesInv, dirs' \in [Places -> DirStates], DirsInv', FollowInv', HalfInv',
         viewSignals' \in Seq(ViewSignals), import' = NoImport \/ import' \in ImportStates,
         EndsOK(viewSignals', import'), ImportOK(import', view.ws), orders' \in Nat,
         UNCHANGED <<view, table, stats, fileJobs, updateTimer, dialog, loads>>
  PROVE  FilesInv'
<1>1. FilesTyped'  BY DEF FilesInv, FilesTyped
<1>2. QED  BY <1>1, ListIsKept DEF FilesInv

\* A change is followed as before when the folders are the same and no signal is lost.
LEMMA FollowIsKept ==
  ASSUME FilesInv, \A p : SomeReloads(viewSignals, p) => SomeReloads(viewSignals', p),
         UNCHANGED <<dirs, view, table, stats, updateTimer>>
  PROVE  dirs' \in [Places -> DirStates] /\ DirsInv' /\ FollowInv'
<1>1. dirs' \in [Places -> DirStates] /\ DirsInv'  BY DEF FilesInv, FilesTyped, DirsInv
<1>2. Missed' <=> Missed  BY DEF Missed
<1>3. Missed => updateTimer \/ stats # {} \/ SomeReloads(viewSignals, table.of)
  BY DEF FilesInv, FollowInv
<1>4. FollowInv'  BY <1>2, <1>3 DEF FollowInv
<1>5. QED  BY <1>1, <1>4

\* A half file stays what it is when the folders are the same.
LEMMA HalfIsSame ==
  ASSUME FilesInv, UNCHANGED <<dirs, strays>>,
         \A p \in Places : \A n \in dirs[p].partial : Opened(import, p, n) \/ Doomed(fileJobs, p, n)
           => Opened(import', p, n) \/ Doomed(fileJobs', p, n)
  PROVE  HalfInv'
<1>1. \A p \in Places : \A n \in dirs[p].partial : HalfOK(p, n)  BY DEF FilesInv, HalfInv
<1>2. QED  BY <1>1 DEF HalfInv, HalfOK

LEMMA ImportAllKeeps ==
  ASSUME FilesInv, NEW ns \in SUBSET FileNames, ImportAll(ns)
  PROVE  FilesInv'
<1> DEFINE i == [place |-> Here, todo |-> ns, now |-> <<>>, file |-> <<>>, opened |-> FALSE,
                 ended |-> FALSE]
<1>1. /\ import = NoImport /\ import' = i /\ orders' = orders + 1
      /\ UNCHANGED <<dirs, view, table, stats, fileJobs, viewSignals, updateTimer, dialog, loads,
                     strays>>
  BY DEF ImportAll
<1>2. i \in ImportStates /\ i.place = Here /\ ~ i.opened /\ ~ i.ended /\ i.file = <<>>
  BY FilesFacts DEF ImportStates, Handles
<1>3. Here[1] = view.ws  BY DEF Here
<1> HIDE DEF i
<1>4. ImportOK(i, view.ws)  BY <1>2, <1>3 DEF ImportOK
<1>5. EndsOK(viewSignals, i)  BY <1>1, <1>2, FilesFacts, NoEndYet, NoEndIsOK
<1>6. HalfInv'  BY <1>1, HalfIsSame DEF Opened
<1>7. dirs' \in [Places -> DirStates] /\ DirsInv' /\ FollowInv'  BY <1>1, FollowIsKept
<1>8. QED  BY <1>1, <1>2, <1>4, <1>5, <1>6, <1>7, FilesFacts, ImportKeeps

LEMMA ImportFacts ==
  ASSUME FilesInv, import # NoImport
  PROVE  /\ import \in ImportStates /\ import.place \in Places /\ import.place[1] = view.ws
         /\ import.opened => import.now # <<>>
         /\ ~ import.opened => import.file = <<>>
         /\ import.now # <<>> => import.now[1] \in FileNames /\ import.now = <<import.now[1]>>
<1>1. import \in ImportStates  BY FilesFacts
<1>2. import.now \in Handles  BY <1>1 DEF ImportStates
<1>3. import.now # <<>> => import.now[1] \in FileNames /\ import.now = <<import.now[1]>>
  BY <1>2 DEF Handles
<1>4. QED  BY <1>1, <1>3, FilesFacts DEF ImportStates, ImportOK

LEMMA ImportStepKeeps ==
  ASSUME FilesInv, ImportStep
  PROVE  FilesInv'
<1> DEFINE x == import.now[1]
<1>1. /\ import # NoImport /\ ~ import.ended
      /\ UNCHANGED <<view, table, stats, fileJobs, updateTimer, dialog, orders, loads, strays>>
  BY DEF ImportStep
<1>11. PICK p : p = import.place  OBVIOUS
<1>2. /\ import \in ImportStates /\ p \in Places /\ p[1] = view.ws
      /\ import.opened => import.now # <<>>
      /\ ~ import.opened => import.file = <<>>
      /\ import.now # <<>> => x \in FileNames /\ import.now = <<x>>
  BY <1>1, <1>11, ImportFacts
<1>3. dirs[p] \in DirStates /\ DirOK(dirs[p]) /\ orders' \in Nat  BY <1>1, <1>2, FilesFacts
<1>4. NoneEnds(viewSignals) /\ viewSignals \in Seq(ViewSignals)  BY <1>1, FilesFacts, NoEndYet
<1>5. \A r \in Places : \A n \in dirs[r].partial : HalfOK(r, n)  BY DEF FilesInv, HalfInv
<1>6. CASE /\ import.now = <<>> /\ UNCHANGED <<dirs, viewSignals>>
           /\ \E n \in import.todo : import' = [import EXCEPT !.now = <<n>>, !.todo = @ \ {n}]
  <2>1. PICK n \in import.todo : import' = [import EXCEPT !.now = <<n>>, !.todo = @ \ {n}]
    BY <1>6
  <2>2. n \in FileNames /\ <<n>> \in Handles  BY <1>2 DEF ImportStates, Handles
  <2>3. ~ import.opened  BY <1>2, <1>6
  <2>4. /\ import' \in ImportStates /\ import'.place = p /\ ~ import'.opened /\ ~ import'.ended
        /\ import'.file = import.file
    BY <1>1, <1>2, <1>11, <2>1, <2>2, <2>3 DEF ImportStates
  <2>5. ImportOK(import', view.ws)  BY <1>2, <1>11, <2>3, <2>4 DEF ImportOK
  <2>6. EndsOK(viewSignals', import')  BY <1>4, <1>6, <2>4, NoEndIsOK
  <2>7. HalfInv'  BY <1>1, <1>6, <2>3, HalfIsSame DEF Opened
  <2>8. dirs' \in [Places -> DirStates] /\ DirsInv' /\ FollowInv'  BY <1>1, <1>6, FollowIsKept
  <2>9. QED  BY <1>1, <1>3, <1>4, <1>6, <2>4, <2>5, <2>6, <2>7, <2>8, ImportKeeps
<1>7. CASE /\ import.now # <<>> /\ ~ import.opened /\ dirs[p].here
           /\ import' = [import EXCEPT !.opened = TRUE, !.file = import.now]
           /\ Written(p, [WithFile(dirs[p], x) EXCEPT !.partial = @ \cup {x}])
           /\ viewSignals' = viewSignals \o Updated(p)
  <2> DEFINE at == dirs[p]
             T == {x}
             y == FileWith(at, x, T)
  <2>1. dirs' = [dirs EXCEPT ![p] = y]  BY <1>7 DEF Written, FileWith
  <2>2. at \in DirStates /\ DirOK(at) /\ at.here /\ x \in FileNames /\ T \in SUBSET {x}
    BY <1>2, <1>3, <1>7
  <2> HIDE DEF at, T
  <2>3. y \in DirStates /\ DirOK(y) /\ y.partial = at.partial \cup T  BY <2>2, FileComes
  <2> HIDE DEF y
  <2>4. /\ Grown(viewSignals, viewSignals') /\ SomeReloads(viewSignals', p)
    BY <1>2, <1>4, <1>7, UpdatedGrows
  <2>5. dirs' \in [Places -> DirStates] /\ DirsInv' /\ FollowInv'
        /\ viewSignals' \in Seq(ViewSignals)
    BY <1>1, <1>2, <2>1, <2>3, <2>4, ChangeIsFollowed
  <2>6. /\ import' \in ImportStates /\ import'.place = p /\ import'.opened /\ ~ import'.ended
        /\ import'.file = <<x>> /\ import'.now = <<x>>
    BY <1>1, <1>2, <1>11, <1>7 DEF ImportStates
  <2>7. import' # NoImport  BY <2>6, ImportIsSome
  <2>8. ImportOK(import', view.ws)  BY <1>2, <2>6, HandleIsSome DEF ImportOK
  <2>9. EndsOK(viewSignals', import')
    <3>1. EndsOK(viewSignals', import)  BY <1>4, <2>4, FilesFacts, GrownKeeps
    <3>2. QED  BY <1>1, <2>6, <3>1, NoEndYet, NoEndIsOK
  <2>10. \A r \in Places : \A n \in dirs[r].partial : HalfOK(r, n) => HalfOK(r, n)'
    BY <1>1, <1>7 DEF HalfOK, Opened
  <2>11. ASSUME NEW n \in y.partial PROVE HalfOK(p, n)'
    <3>1. CASE n \in at.partial  BY <1>2, <1>5, <2>10, <3>1 DEF at
    <3>2. CASE n = x
      <4>1. Opened(import', p, n)  BY <2>6, <2>7, <3>2 DEF Opened
      <4>2. QED  BY <4>1 DEF HalfOK
    <3>3. QED  BY <2>3, <2>11, <3>1, <3>2 DEF T
  <2>12. HalfInv'  BY <1>2, <2>1, <2>10, <2>11, HalfIsKept
  <2>13. QED  BY <1>1, <1>3, <2>5, <2>6, <2>8, <2>9, <2>12, ImportKeeps
<1>8. CASE /\ import.now # <<>> /\ import.opened
           /\ import' = [import EXCEPT !.now = <<>>, !.file = <<>>, !.opened = FALSE]
           /\ dirs' = [dirs EXCEPT ![p].partial = {n \in @ : import.file # <<n>>}]
           /\ UNCHANGED viewSignals
  <2> DEFINE at == dirs[p]
             P == {n \in at.partial : import.file # <<n>>}
             y == [at EXCEPT !.partial = P]
  <2>1. dirs' = [dirs EXCEPT ![p] = y]  BY <1>2, <1>8, FilesFacts
  <2>2. at.partial \in SUBSET FileNames /\ P \in SUBSET FileNames /\ P \subseteq at.partial
    BY <1>3 DEF DirStates
  <2>3. at \in DirStates /\ DirOK(at)  BY <1>3
  <2> HIDE DEF P
  <2>4. /\ y \in DirStates /\ y.partial = P /\ y.files = at.files /\ y.here = at.here
        /\ y.ver = at.ver
    BY <2>2, <2>3 DEF DirStates
  <2>5. DirOK(y) /\ y.ver = dirs[p].ver  BY <2>2, <2>3, <2>4 DEF DirOK
  <2> HIDE DEF y
  <2>6. Grown(viewSignals, viewSignals')  BY <1>4, <1>8, GrownIsReflexive
  <2>7. dirs' \in [Places -> DirStates] /\ DirsInv' /\ FollowInv'
        /\ viewSignals' \in Seq(ViewSignals)
    BY <1>1, <1>2, <2>1, <2>4, <2>5, <2>6, ChangeIsFollowed
  <2>8. /\ import' \in ImportStates /\ import'.place = p /\ ~ import'.opened /\ ~ import'.ended
        /\ import'.file = <<>>
    BY <1>1, <1>2, <1>11, <1>8 DEF ImportStates, Handles
  <2>9. ImportOK(import', view.ws)  BY <1>2, <2>8 DEF ImportOK
  <2>10. EndsOK(viewSignals', import')  BY <1>4, <1>8, <2>8, NoEndIsOK
  <2>11. ASSUME NEW r \in Places, NEW n \in dirs[r].partial, r # p \/ import.file # <<n>>
         PROVE  HalfOK(r, n)'
    <3>1. HalfOK(r, n)  BY <1>5
    <3>2. ~ Opened(import, r, n)  BY <1>11, <2>11 DEF Opened
    <3>3. QED  BY <1>1, <3>1, <3>2 DEF HalfOK
  <2>12. \A n \in y.partial : HalfOK(p, n)'  BY <1>2, <2>2, <2>4, <2>11 DEF P
  <2>13. HalfInv'  BY <1>2, <2>1, <2>11, <2>12, HalfIsKept
  <2>14. QED  BY <1>1, <1>3, <2>7, <2>8, <2>9, <2>10, <2>13, ImportKeeps
<1>9. CASE /\ import.now = <<>> /\ import.todo = {} /\ import' = [import EXCEPT !.ended = TRUE]
           /\ viewSignals' = Append(viewSignals, [kind |-> "imported", of |-> p]) /\ UNCHANGED dirs
  <2> DEFINE s == [kind |-> "imported", of |-> p]
  <2>1. ~ import.opened  BY <1>2, <1>9
  <2>2. /\ import' \in ImportStates /\ import'.place = p /\ ~ import'.opened /\ import'.ended
        /\ import'.file = import.file
    BY <1>2, <1>11, <1>9, <2>1 DEF ImportStates
  <2>3. import' # NoImport  BY <2>2, ImportIsSome
  <2>4. s \in ViewSignals /\ Ending(s) /\ EndOK(s, import')
    BY <1>2, <2>2, <2>3 DEF ViewSignals, PlainSignals, Ending, EndOK
  <2>5. viewSignals' = Append(viewSignals, s)  BY <1>9
  <2> HIDE DEF s
  <2>6. /\ viewSignals' \in Seq(ViewSignals) /\ EndsOK(viewSignals', import')
        /\ \A r : SomeReloads(viewSignals, r) => SomeReloads(viewSignals', r)
    BY <1>4, <2>4, <2>5, EndIsTold
  <2>7. dirs' \in [Places -> DirStates] /\ DirsInv' /\ FollowInv'  BY <1>1, <1>9, <2>6, FollowIsKept
  <2>8. HalfInv'  BY <1>1, <1>9, <2>1, HalfIsSame DEF Opened
  <2>9. ImportOK(import', view.ws)  BY <1>2, <2>1, <2>2 DEF ImportOK
  <2>10. QED  BY <1>1, <1>3, <2>2, <2>6, <2>7, <2>8, <2>9, ImportKeeps
<1>10. QED  BY <1>1, <1>11, <1>6, <1>7, <1>8, <1>9 DEF ImportStep

LEMMA CancelImportKeeps ==
  ASSUME FilesInv, CancelImport
  PROVE  FilesInv'
<1> DEFINE p == import.place
           x == import.now[1]
           s == [kind |-> "cancelled", of |-> p, name |-> x]
<1>1. /\ import # NoImport /\ ~ import.ended /\ import.now # <<>>
      /\ import' = [import EXCEPT !.ended = TRUE] /\ viewSignals' = Append(viewSignals, s)
      /\ UNCHANGED <<dirs, view, table, stats, fileJobs, updateTimer, dialog, orders, loads,
                     strays>>
  BY DEF CancelImport
<1>2. /\ import \in ImportStates /\ p \in Places /\ p[1] = view.ws
      /\ ~ import.opened => import.file = <<>>
      /\ x \in FileNames /\ import.now = <<x>>
  BY <1>1, ImportFacts
<1>3. NoneEnds(viewSignals) /\ viewSignals \in Seq(ViewSignals) /\ orders' \in Nat
  BY <1>1, FilesFacts, NoEndYet
<1>4. /\ import' \in ImportStates /\ import'.place = p /\ import'.opened = import.opened
      /\ import'.ended /\ import'.file = import.file /\ import'.now = import.now
  BY <1>1, <1>2 DEF ImportStates
<1>5. import' # NoImport  BY <1>4, ImportIsSome
<1>6. s \in ViewSignals /\ Ending(s) /\ EndOK(s, import')
  BY <1>2, <1>4, <1>5 DEF ViewSignals, CancelSignals, Ending, EndOK
<1> HIDE DEF s
<1>7. /\ viewSignals' \in Seq(ViewSignals) /\ EndsOK(viewSignals', import')
      /\ \A r : SomeReloads(viewSignals, r) => SomeReloads(viewSignals', r)
  BY <1>1, <1>3, <1>6, EndIsTold
<1>8. dirs' \in [Places -> DirStates] /\ DirsInv' /\ FollowInv'  BY <1>1, <1>7, FollowIsKept
<1>9. HalfInv'  BY <1>1, <1>4, <1>5, HalfIsSame DEF Opened
<1>10. ImportOK(import', view.ws)  BY <1>1, <1>2, <1>4 DEF ImportOK
<1>11. QED  BY <1>1, <1>3, <1>4, <1>7, <1>8, <1>9, <1>10, ImportKeeps

-----------------------------------------------------------------------------
(* The list *)

\* A step of the list: the folders stay.
LEMMA ListKeeps ==
  ASSUME FilesInv, view' \in Views, table' \in Tables, stats' \in SUBSET StatJobs,
         fileJobs' \in SUBSET FileJobs, viewSignals' \in Seq(ViewSignals),
         import' = NoImport \/ import' \in ImportStates, updateTimer' \in BOOLEAN,
         dialog' = NoDialog \/ dialog' \in Dialogs, orders' \in Nat, loads' \in Nat,
         ShownInv', FollowInv', EndsOK(viewSignals', import'), ImportOK(import', view'.ws),
         HalfInv',
         UNCHANGED dirs
  PROVE  FilesInv'
<1>1. FilesTyped'  BY FilesFacts DEF FilesTyped
<1>2. DirsInv'  BY DEF FilesInv, DirsInv
<1>3. QED  BY <1>1, <1>2 DEF FilesInv

\* While the content is asked for, nothing is shown.
LEMMA LoadingIsOK ==
  ASSUME FilesInv, NEW p \in Places, Loading(p)
  PROVE  /\ stats' \in SUBSET StatJobs /\ loads' \in Nat /\ table' \in Tables
         /\ ShownInv' /\ FollowInv'
<1> DEFINE j == [id |-> loads, of |-> p, read |-> FALSE, ok |-> FALSE, names |-> {}]
<1>1. stats' = stats \cup {j} /\ loads' = loads + 1 /\ table' = NoTable  BY DEF Loading
<1>2. j \in StatJobs  BY FilesFacts DEF StatJobs
<1> HIDE DEF j
<1>3. table' \in Tables /\ ~ table'.shown  BY <1>1 DEF NoTable, Tables
<1>4. ShownInv' /\ FollowInv'  BY <1>3 DEF ShownInv, FollowInv, Missed
<1>5. QED  BY <1>1, <1>2, <1>3, <1>4, FilesFacts

LEMMA SetWorkspaceFsKeeps ==
  ASSUME FilesInv, NEW s \in Spaces, SetWorkspaceFs(s)
  PROVE  FilesInv'
<1> DEFINE p == <<s, "/">>
<1>1. /\ import = NoImport /\ orders' = orders + 1 /\ view' = [view EXCEPT !.ws = s, !.dir = "/"]
      /\ Loading(p)
      /\ UNCHANGED <<dirs, fileJobs, import, viewSignals, updateTimer, dialog, strays>>
  BY DEF SetWorkspaceFs
<1>2. p \in Places  BY FilesAssumption DEF Places
<1>3. view' \in Views  BY <1>1, FilesFacts, FilesAssumption DEF Views
<1> HIDE DEF p
<1>4. /\ stats' \in SUBSET StatJobs /\ loads' \in Nat /\ table' \in Tables
      /\ ShownInv' /\ FollowInv'
  BY <1>1, <1>2, LoadingIsOK
<1>5. ImportOK(import', view'.ws)  BY <1>1 DEF ImportOK
<1>6. HalfInv'  BY <1>1, HalfIsSame
<1>7. QED  BY <1>1, <1>3, <1>4, <1>5, <1>6, FilesFacts, ListKeeps

LEMMA ItemActivatedKeeps ==
  ASSUME FilesInv, NEW d \in Folders, ItemActivated(d)
  PROVE  FilesInv'
<1> DEFINE p == <<view.ws, d>>
<1>1. /\ Loading(p)
      /\ UNCHANGED <<dirs, view, fileJobs, import, viewSignals, updateTimer, dialog, orders,
                     strays>>
  BY DEF ItemActivated
<1>2. p \in Places  BY FilesFacts DEF Places, Views
<1> HIDE DEF p
<1>4. /\ stats' \in SUBSET StatJobs /\ loads' \in Nat /\ table' \in Tables
      /\ ShownInv' /\ FollowInv'
  BY <1>1, <1>2, LoadingIsOK
<1>6. HalfInv'  BY <1>1, HalfIsSame
<1>7. QED  BY <1>1, <1>4, <1>6, FilesFacts, ListKeeps

LEMMA TimerFiresKeeps ==
  ASSUME FilesInv, TimerFires
  PROVE  FilesInv'
<1>1. /\ Loading(Here) /\ updateTimer' = FALSE
      /\ UNCHANGED <<dirs, view, fileJobs, import, viewSignals, dialog, orders, strays>>
  BY DEF TimerFires, TimerReloads
<1>2. /\ stats' \in SUBSET StatJobs /\ loads' \in Nat /\ table' \in Tables
      /\ ShownInv' /\ FollowInv'
  BY <1>1, FilesFacts, LoadingIsOK
<1>3. HalfInv'  BY <1>1, HalfIsSame
<1>4. QED  BY <1>1, <1>2, <1>3, FilesFacts, ListKeeps

LEMMA ReadFolderKeeps ==
  ASSUME FilesInv, NEW j \in stats, ReadFolder(j)
  PROVE  FilesInv'
<1> DEFINE k == [j EXCEPT !.read = TRUE, !.ok = dirs[j.of].here, !.names = dirs[j.of].files]
<1>1. /\ stats' = (stats \ {j}) \cup {k}
      /\ UNCHANGED <<dirs, view, table, fileJobs, import, viewSignals, updateTimer, dialog, orders,
                     loads, strays>>
  BY DEF ReadFolder
<1>2. j \in StatJobs /\ j.of \in Places  BY FilesFacts DEF StatJobs
<1>3. dirs[j.of].here \in BOOLEAN /\ dirs[j.of].files \in SUBSET FileNames
  BY <1>2, FilesFacts DEF DirStates
<1>4. k \in StatJobs  BY <1>2, <1>3 DEF StatJobs
<1> HIDE DEF k
<1>5. stats' \in SUBSET StatJobs /\ stats' # {}  BY <1>1, <1>4, FilesFacts
<1>6. FollowInv'  BY <1>5 DEF FollowInv
<1>7. HalfInv'  BY <1>1, HalfIsSame
<1>8. QED  BY <1>1, <1>5, <1>6, <1>7, FilesFacts, ListIsKept, ListKeeps

LEMMA StatDoneKeeps ==
  ASSUME FilesInv, NEW j \in stats, StatDone(j)
  PROVE  FilesInv'
<1> DEFINE s == [kind |-> IF j.ok THEN "stat" ELSE "missing", of |-> j.of, names |-> j.names]
<1>1. /\ stats' = stats \ {j} /\ viewSignals' = Append(viewSignals, s)
      /\ UNCHANGED <<dirs, view, table, fileJobs, import, updateTimer, dialog, orders, loads,
                     strays>>
  BY DEF StatDone
<1>2. j.of \in Places /\ j.names \in SUBSET FileNames  BY FilesFacts DEF StatJobs
<1>3. s \in StatSignals /\ s.kind \in {"stat", "missing"}  BY <1>2 DEF StatSignals
<1> HIDE DEF s
<1>4. s \in ViewSignals /\ ~ Ending(s) /\ \A p : Reloads(s, p)
  BY <1>3 DEF ViewSignals, Ending, Reloads
<1>5. /\ Grown(viewSignals, viewSignals')
      /\ \E k \in 1 .. Len(viewSignals') : viewSignals'[k] = s
  BY <1>1, <1>4, FilesFacts, GrownIsReflexive, GrownByOne
<1>6. \A p : SomeReloads(viewSignals', p)  BY <1>4, <1>5 DEF SomeReloads
<1>7. viewSignals' \in Seq(ViewSignals) /\ EndsOK(viewSignals', import')
  BY <1>1, <1>5, FilesFacts, GrownKeeps DEF Grown
<1>8. FollowInv'  BY <1>6 DEF FollowInv
<1>9. HalfInv'  BY <1>1, HalfIsSame
<1>10. stats' \in SUBSET StatJobs  BY <1>1, FilesFacts
<1>11. QED  BY <1>1, <1>7, <1>8, <1>9, <1>10, FilesFacts, ListIsKept, ListKeeps

LEMMA AskKeeps ==
  ASSUME FilesInv, NEW op \in {"delete", "rename", "create"}, NEW n \in FileNames, Ask(op, n)
  PROVE  FilesInv'
<1>1. /\ dialog' = [op |-> op, name |-> n, of |-> table.of] /\ table.shown
      /\ UNCHANGED <<dirs, view, table, stats, fileJobs, import, viewSignals, updateTimer, orders,
                     loads, strays>>
  BY DEF Ask
<1>2. table.of \in Places  BY <1>1 DEF FilesInv, ShownInv
<1>3. dialog' \in Dialogs  BY <1>1, <1>2 DEF Dialogs
<1>4. HalfInv'  BY <1>1, HalfIsSame
<1>5. FollowInv'  BY <1>1, FollowIsKept
<1>6. QED  BY <1>1, <1>3, <1>4, <1>5, FilesFacts, ListIsKept, ListKeeps

LEMMA AnswerDialogKeeps ==
  ASSUME FilesInv, NEW yes \in BOOLEAN, AnswerDialog(yes)
  PROVE  FilesInv'
<1> DEFINE j == [id |-> orders, op |-> dialog.op, name |-> dialog.name, place |-> Here,
                 of |-> dialog.of]
<1>1. /\ dialog # NoDialog /\ dialog' = NoDialog /\ orders' = orders + 1
      /\ fileJobs' = fileJobs \cup {j} \/ fileJobs' = fileJobs
      /\ UNCHANGED <<dirs, view, table, stats, import, viewSignals, updateTimer, loads, strays>>
  BY DEF AnswerDialog
<1>2. dialog \in Dialogs  BY <1>1, FilesFacts
<1>3. j \in FileJobs  BY <1>2, FilesFacts DEF Dialogs, FileJobs
<1> HIDE DEF j
<1>4. fileJobs' \in SUBSET FileJobs /\ fileJobs \subseteq fileJobs'  BY <1>1, <1>3, FilesFacts
<1>5. HalfInv'  BY <1>1, <1>4, HalfIsSame DEF Doomed
<1>6. FollowInv'  BY <1>1, FollowIsKept
<1>7. QED  BY <1>1, <1>4, <1>5, <1>6, FilesFacts, ListIsKept, ListKeeps

-----------------------------------------------------------------------------
(* The signals that are taken *)

LEMMA TakingOne ==
  ASSUME NEW q \in Seq(ViewSignals), q # <<>>
  PROVE  /\ Head(q) \in ViewSignals /\ Tail(q) \in Seq(ViewSignals)
         /\ \A p : SomeReloads(q, p) => Reloads(Head(q), p) \/ SomeReloads(Tail(q), p)
         /\ \A i : EndsOK(q, i) /\ ~ Ending(Head(q)) => EndsOK(Tail(q), i)
         /\ \A i : EndsOK(q, i) /\ Ending(Head(q)) => NoneEnds(Tail(q)) /\ EndOK(Head(q), i)
<1> DEFINE t == Tail(q)
           h == Head(q)
           n == Len(t)
<1>1. /\ h \in ViewSignals /\ t \in Seq(ViewSignals) /\ n \in Nat /\ Len(q) = n + 1 /\ q[1] = h
      /\ \A k \in 1 .. n : t[k] = q[k + 1]
  OBVIOUS
<1> HIDE DEF t, h, n
<1>2. 1 \in 1 .. Len(q) /\ \A k \in 1 .. n : k + 1 \in 1 .. Len(q)  BY <1>1
<1>3. \A k \in 1 .. Len(q) : k = 1 \/ (k - 1 \in 1 .. n /\ t[k - 1] = q[k])  BY <1>1
<1>4. ASSUME NEW p, SomeReloads(q, p) PROVE Reloads(h, p) \/ SomeReloads(t, p)
  <2>1. PICK k \in 1 .. Len(q) : Reloads(q[k], p)  BY <1>4 DEF SomeReloads
  <2>2. CASE k = 1  BY <1>1, <2>1, <2>2
  <2>3. CASE k - 1 \in 1 .. n /\ t[k - 1] = q[k]  BY <2>1, <2>3 DEF SomeReloads, n
  <2>4. QED  BY <1>3, <2>2, <2>3
<1>5. ASSUME NEW i, EndsOK(q, i), ~ Ending(h) PROVE EndsOK(t, i)
  <2>1. \A k, l \in 1 .. n : Ending(t[k]) /\ Ending(t[l]) => k = l
    <3>1. SUFFICES ASSUME NEW k \in 1 .. n, NEW l \in 1 .. n, Ending(t[k]), Ending(t[l]) PROVE k = l
      OBVIOUS
    <3>2. k + 1 = l + 1  BY <1>1, <1>2, <1>5, <3>1 DEF EndsOK
    <3>3. QED  BY <1>1, <3>2
  <2>2. ASSUME i # NoImport, i.ended PROVE \E k \in 1 .. n : Ending(t[k])
    <3>1. PICK k \in 1 .. Len(q) : Ending(q[k])  BY <1>5, <2>2 DEF EndsOK
    <3>2. k # 1  BY <1>1, <1>5, <3>1
    <3>3. QED  BY <1>3, <3>1, <3>2
  <2>3. \A k \in 1 .. n : Ending(t[k]) => EndOK(t[k], i)  BY <1>1, <1>2, <1>5 DEF EndsOK
  <2>4. QED  BY <2>1, <2>2, <2>3 DEF EndsOK, n
<1>6. ASSUME NEW i, EndsOK(q, i), Ending(h) PROVE NoneEnds(t) /\ EndOK(h, i)
  <2>1. ASSUME NEW k \in 1 .. n, Ending(t[k]) PROVE FALSE
    <3>1. k + 1 = 1  BY <1>1, <1>2, <1>6, <2>1 DEF EndsOK
    <3>2. QED  BY <1>1, <3>1
  <2>2. EndOK(h, i)  BY <1>1, <1>2, <1>6 DEF EndsOK
  <2>3. QED  BY <2>1, <2>2 DEF NoneEnds, n
<1>7. QED  BY <1>1, <1>4, <1>5, <1>6 DEF t, h

\* A signal that does not make the list read again is taken: the rows are followed as before.
LEMMA FollowOnTake ==
  ASSUME FilesInv, viewSignals # <<>>, viewSignals' = Tail(viewSignals),
         UNCHANGED <<dirs, view, table, stats, updateTimer>>,
         Missed /\ Reloads(Head(viewSignals), table.of) => updateTimer
  PROVE  FollowInv'
<1>1. Missed' <=> Missed  BY DEF Missed
<1>2. Missed => updateTimer \/ stats # {} \/ SomeReloads(viewSignals, table.of)
  BY DEF FilesInv, FollowInv
<1>3. \A p : SomeReloads(viewSignals, p)
                => Reloads(Head(viewSignals), p) \/ SomeReloads(viewSignals', p)
  BY FilesFacts, TakingOne
<1>4. QED  BY <1>1, <1>2, <1>3 DEF FollowInv

LEMMA TakeSignalKeeps ==
  ASSUME FilesInv, TakeSignal
  PROVE  FilesInv'
<1>1. PICK s : s = Head(viewSignals)  OBVIOUS
<1>2. /\ viewSignals # <<>> /\ viewSignals' = Tail(viewSignals)
      /\ UNCHANGED <<dirs, dialog, orders, strays>>
  BY DEF TakeSignal
<1>3. /\ s \in ViewSignals /\ viewSignals' \in Seq(ViewSignals)
      /\ ~ Ending(s) => EndsOK(viewSignals', import)
      /\ Ending(s) => NoneEnds(viewSignals') /\ EndOK(s, import)
  BY <1>1, <1>2, FilesFacts, TakingOne
<1>4. s.of \in Places  BY <1>3 DEF ViewSignals, PlainSignals, StatSignals, CancelSignals
<1>5. CASE /\ s.kind \in {"updated", "downsynced"} /\ OnFsUpdated(s)
           /\ UNCHANGED <<view, import, fileJobs>>
  <2>1. EndsOK(viewSignals', import')  BY <1>3, <1>5 DEF Ending
  <2>2. HalfInv'  BY <1>2, <1>5, HalfIsSame
  <2>3. CASE updateTimer' = TRUE /\ Loading(Here)
    <3>1. /\ stats' \in SUBSET StatJobs /\ loads' \in Nat /\ table' \in Tables
          /\ ShownInv' /\ FollowInv'
      BY <2>3, FilesFacts, LoadingIsOK
    <3>2. QED  BY <1>2, <1>3, <1>5, <2>1, <2>2, <2>3, <3>1, FilesFacts, ListKeeps
  <2>4. CASE (Concerns(s) => updateTimer) /\ UNCHANGED <<updateTimer, stats, table, loads>>
    <3>1. ASSUME Missed, Reloads(s, table.of) PROVE updateTimer
      <4>1. s.of = table.of  BY <1>5, <3>1 DEF Reloads
      <4>2. view.uuid = table.of /\ table.of[1] = view.ws  BY <3>1 DEF Missed, FilesInv, ShownInv
      <4>3. Concerns(s)  BY <4>1, <4>2 DEF Concerns
      <4>4. QED  BY <2>4, <4>3
    <3>2. FollowInv'  BY <1>1, <1>2, <1>5, <2>4, <3>1, FollowOnTake
    <3>3. QED  BY <1>2, <1>3, <1>5, <2>1, <2>2, <2>4, <3>2, FilesFacts, ListIsKept, ListKeeps
  <2>5. QED  BY <1>5, <2>3, <2>4, FilesFacts DEF OnFsUpdated
<1>6. CASE s.kind = "job" /\ Loading(Here) /\ UNCHANGED <<view, import, fileJobs, updateTimer>>
  <2>1. EndsOK(viewSignals', import')  BY <1>3, <1>6 DEF Ending
  <2>2. HalfInv'  BY <1>2, <1>6, HalfIsSame
  <2>3. /\ stats' \in SUBSET StatJobs /\ loads' \in Nat /\ table' \in Tables
        /\ ShownInv' /\ FollowInv'
    BY <1>6, FilesFacts, LoadingIsOK
  <2>4. QED  BY <1>2, <1>3, <1>6, <2>1, <2>2, <2>3, FilesFacts, ListKeeps
<1>7. CASE /\ s.kind = "stat" /\ view' = OnFolderStatSuccess(s)
           /\ table' = [shown |-> TRUE, of |-> s.of, names |-> s.names, at |-> dirs[s.of].ver]
           /\ UNCHANGED <<stats, loads, import, fileJobs, updateTimer>>
  <2>1. EndsOK(viewSignals', import')  BY <1>3, <1>7 DEF Ending
  <2>2. HalfInv'  BY <1>2, <1>7, HalfIsSame
  <2>3. s.names \in SUBSET FileNames
    BY <1>3, <1>7 DEF ViewSignals, PlainSignals, StatSignals, CancelSignals
  <2>4. dirs[s.of].ver \in Nat /\ s.of[2] \in Folders  BY <1>4, FilesFacts DEF DirStates, Places
  <2>5. /\ view' \in Views /\ view'.ws = view.ws /\ view'.uuid = s.of /\ view'.dir = s.of[2]
    BY <1>4, <1>7, <2>4, FilesFacts DEF OnFolderStatSuccess, Views
  <2>6. table' \in Tables /\ table'.of = s.of /\ table'.at = dirs[s.of].ver
    BY <1>4, <1>7, <2>3, <2>4 DEF Tables
  <2>7. ShownInv'  BY <1>4, <2>5, <2>6 DEF ShownInv
  <2>8. ~ Missed'  BY <1>2, <2>4, <2>6 DEF Missed
  <2>9. FollowInv'  BY <2>8 DEF FollowInv
  <2>10. ImportOK(import', view'.ws)  BY <1>7, <2>5, FilesFacts
  <2>11. QED  BY <1>2, <1>3, <1>7, <2>1, <2>2, <2>5, <2>6, <2>7, <2>9, <2>10, FilesFacts, ListKeeps
<1>8. CASE /\ s.kind = "missing" /\ table' = OnFolderStatError
           /\ UNCHANGED <<view, stats, loads, import, fileJobs, updateTimer>>
  <2>1. EndsOK(viewSignals', import')  BY <1>3, <1>8 DEF Ending
  <2>2. HalfInv'  BY <1>2, <1>8, HalfIsSame
  <2>3. table' \in Tables /\ ~ table'.shown  BY <1>8 DEF OnFolderStatError, NoTable, Tables
  <2>4. ShownInv' /\ FollowInv'  BY <2>3 DEF ShownInv, FollowInv, Missed
  <2>5. QED  BY <1>2, <1>3, <1>8, <2>1, <2>2, <2>3, <2>4, FilesFacts, ListKeeps
<1>9. CASE /\ s.kind = "imported" /\ import' = OnImportSuccess
           /\ UNCHANGED <<view, table, stats, loads, fileJobs, updateTimer>>
  <2>1. import' = NoImport /\ NoneEnds(viewSignals') /\ ~ import.opened
    BY <1>3, <1>9 DEF OnImportSuccess, Ending, EndOK
  <2>2. EndsOK(viewSignals', import')  BY <2>1, NoEndIsOK
  <2>3. HalfInv'  BY <1>2, <1>9, <2>1, HalfIsSame DEF Opened
  <2>4. \A p : ~ Reloads(s, p)  BY <1>9 DEF Reloads
  <2>5. FollowInv'  BY <1>1, <1>2, <1>9, <2>4, FollowOnTake
  <2>6. ImportOK(import', view'.ws)  BY <2>1 DEF ImportOK
  <2>7. QED  BY <1>2, <1>3, <1>9, <2>1, <2>2, <2>3, <2>5, <2>6, FilesFacts, ListIsKept, ListKeeps
<1>10. CASE /\ s.kind = "cancelled" /\ import' = NoImport /\ fileJobs' = OnImportError(s)
            /\ UNCHANGED <<view, table, stats, loads, updateTimer>>
  <2> DEFINE j == [id |-> orders, op |-> "silent", name |-> s.name, place |-> <<view.ws, s.of[2]>>,
                   of |-> s.of]
  <2>1. /\ NoneEnds(viewSignals') /\ import # NoImport /\ s.of = import.place
        /\ import.now = <<s.name>>
    BY <1>3, <1>10 DEF Ending, EndOK
  <2>2. EndsOK(viewSignals', import')  BY <1>10, <2>1, NoEndIsOK
  <2>3. s.name \in FileNames
    BY <1>3, <1>10 DEF ViewSignals, PlainSignals, StatSignals, CancelSignals
  <2>4. <<view.ws, s.of[2]>> = s.of  BY <1>4, <2>1, ImportFacts DEF Places
  <2>5. fileJobs' = fileJobs \cup {j}  BY <1>10 DEF OnImportError
  <2>6. j \in FileJobs /\ j.op = "silent" /\ j.place = s.of /\ j.name = s.name
    BY <1>4, <2>3, <2>4, FilesFacts DEF FileJobs
  <2> HIDE DEF j
  <2>7. fileJobs' \in SUBSET FileJobs /\ fileJobs \subseteq fileJobs' /\ j \in fileJobs'
    BY <2>5, <2>6, FilesFacts
  <2>8. ASSUME NEW p, NEW n, Opened(import, p, n) PROVE Doomed(fileJobs', p, n)
    <3>1. p = s.of /\ <<n>> = <<s.name>>  BY <2>1, <2>8 DEF Opened
    <3>2. n = s.name  BY <3>1
    <3>3. QED  BY <2>6, <2>7, <3>1, <3>2 DEF Doomed
  <2>9. \A p, n : Doomed(fileJobs, p, n) => Doomed(fileJobs', p, n)  BY <2>7 DEF Doomed
  <2>10. HalfInv'  BY <1>2, <2>8, <2>9, HalfIsSame
  <2>11. \A p : ~ Reloads(s, p)  BY <1>10 DEF Reloads
  <2>12. FollowInv'  BY <1>1, <1>2, <1>10, <2>11, FollowOnTake
  <2>13. ImportOK(import', view'.ws)  BY <1>10 DEF ImportOK
  <2>14. QED
    BY <1>2, <1>3, <1>10, <2>2, <2>7, <2>10, <2>12, <2>13, FilesFacts, ListIsKept, ListKeeps
<1>11. QED  BY <1>1, <1>5, <1>6, <1>7, <1>8, <1>9, <1>10 DEF TakeSignal

-----------------------------------------------------------------------------
(* The theorem *)

LEMMA FilesStart ==
  ASSUME FilesInit
  PROVE  FilesInv
<1>1. PICK s \in Spaces :
        /\ view = [ws |-> s, dir |-> "/", uuid |-> <<>>] /\ table = NoTable
        /\ stats = {[id |-> 0, of |-> <<s, "/">>, read |-> FALSE, ok |-> FALSE, names |-> {}]}
  BY DEF FilesInit
<1>2. view \in Views  BY <1>1, FilesAssumption DEF Views
<1>3. table \in Tables /\ ~ table.shown  BY <1>1 DEF NoTable, Tables
<1>4. stats \subseteq StatJobs
  <2>1. <<s, "/">> \in Places  BY FilesAssumption DEF Places
  <2>2. [id |-> 0, of |-> <<s, "/">>, read |-> FALSE, ok |-> FALSE, names |-> {}] \in StatJobs
    BY <2>1 DEF StatJobs
  <2>3. QED  BY <1>1, <2>2
<1>5. /\ dirs \in [Places -> DirStates]
      /\ \A p \in Places : dirs[p].partial = {} /\ dirs[p].here
  BY DEF FilesInit, DirStates
<1>6. /\ fileJobs = {} /\ import = NoImport /\ viewSignals = <<>> /\ updateTimer = FALSE
      /\ dialog = NoDialog /\ orders = 0 /\ loads = 1
  BY DEF FilesInit
<1>7. viewSignals \in Seq(ViewSignals) /\ Len(viewSignals) = 0  BY <1>6
<1>8. FilesTyped  BY <1>2, <1>3, <1>4, <1>5, <1>6, <1>7 DEF FilesTyped
<1>9. DirsInv /\ HalfInv  BY <1>5 DEF DirsInv, DirOK, HalfInv
<1>10. ShownInv /\ FollowInv  BY <1>3 DEF ShownInv, FollowInv, Missed
<1>11. EndsOK(viewSignals, import) /\ ImportOK(import, view.ws)
  BY <1>6, <1>7 DEF EndsOK, ImportOK
<1>12. QED  BY <1>8, <1>9, <1>10, <1>11 DEF FilesInv

LEMMA FilesStep ==
  ASSUME FilesInv, [FilesNext]_filesVars
  PROVE  FilesInv'
<1>1. CASE \E p \in Places : Change(p)  BY <1>1, ChangeKeeps
<1>2. CASE \E s \in Spaces : SetWorkspaceFs(s)  BY <1>2, SetWorkspaceFsKeeps
<1>3. CASE \E d \in Folders : ItemActivated(d)  BY <1>3, ItemActivatedKeeps
<1>4. CASE \E j \in stats : ReadFolder(j) \/ StatDone(j)  BY <1>4, ReadFolderKeeps, StatDoneKeeps
<1>5. CASE \E op \in {"delete", "rename", "create"}, n \in FileNames : Ask(op, n)
  <2>1. PICK op \in {"delete", "rename", "create"}, n \in FileNames : Ask(op, n)  BY <1>5
  <2>2. QED  BY <2>1, AskKeeps
<1>6. CASE \E yes \in BOOLEAN : AnswerDialog(yes)  BY <1>6, AnswerDialogKeeps
<1>7. CASE \E j \in fileJobs : FileJob(j)  BY <1>7, FileJobKeeps
<1>8. CASE \E ns \in SUBSET FileNames \ {{}} : ImportAll(ns)  BY <1>8, ImportAllKeeps
<1>9. CASE ImportStep \/ CancelImport  BY <1>9, ImportStepKeeps, CancelImportKeeps
<1>10. CASE TimerFires \/ TakeSignal  BY <1>10, TimerFiresKeeps, TakeSignalKeeps
<1>11. CASE UNCHANGED filesVars
  <2>1. UNCHANGED <<dirs, view, table, stats, fileJobs, import, viewSignals, updateTimer, dialog,
                    orders, loads, strays>>
    BY <1>11 DEF filesVars
  <2>2. FollowInv'  BY <2>1, FollowIsKept
  <2>3. HalfInv'  BY <2>1, HalfIsSame
  <2>4. QED  BY <2>1, <2>2, <2>3, FilesFacts, ListIsKept, ListKeeps
<1>12. QED
  BY <1>1, <1>2, <1>3, <1>4, <1>5, <1>6, <1>7, <1>8, <1>9, <1>10, <1>11 DEF FilesNext

LEMMA FilesInvIsEnough ==
  ASSUME FilesInv
  PROVE  ViewIsCurrent
<1>1. viewSignals \in Seq(ViewSignals)  BY FilesFacts
<1>2. DOMAIN viewSignals = 1 .. Len(viewSignals)  BY <1>1
<1>3. FilesTypeOK
  <2>1. \A p \in Places :
          dirs[p].partial \subseteq dirs[p].files /\ (~ dirs[p].here => dirs[p].files = {})
    BY FilesFacts DEF DirOK
  <2>2. table.shown => table.of \in Places  BY DEF FilesInv, ShownInv
  <2>3. import # NoImport /\ import.ended
          => \E i \in DOMAIN viewSignals : viewSignals[i].kind \in {"imported", "cancelled"}
    BY <1>2 DEF FilesInv, EndsOK, Ending
  <2>4. QED  BY <2>1, <2>2, <2>3 DEF FilesTypeOK
<1>4. RowsAreOfDirectory  BY DEF FilesInv, ShownInv, RowsAreOfDirectory
<1>5. FollowsChanges
  <2>1. ASSUME NEW p, SomeReloads(viewSignals, p) PROVE viewSignals # <<>>
    <3>1. Len(viewSignals) # 0  BY <2>1 DEF SomeReloads
    <3>2. QED  BY <3>1
  <2>2. QED  BY <2>1 DEF FilesInv, FollowInv, Missed, FollowsChanges
<1>6. ImportIsClean  BY DEF FilesInv, HalfInv, HalfOK, Opened, Doomed, ImportIsClean
<1>7. QED  BY <1>3, <1>4, <1>5, <1>6 DEF ViewIsCurrent

\* The list of files is current in every behaviour (files_widget.py), for any folders, files and
\* number of jobs and signals: the rows are of the directory that is named, a change of the folder
\* that is shown is never lost, and each half imported file is still being imported, is about to be
\* deleted, or was renamed meanwhile.
THEOREM ViewStaysCurrent == FilesSpec => []ViewIsCurrent
<1>1. FilesInit => FilesInv  BY FilesStart
<1>2. FilesInv /\ [FilesNext]_filesVars => FilesInv'  BY FilesStep
<1>3. FilesInv => ViewIsCurrent  BY FilesInvIsEnough
<1>4. QED  BY <1>1, <1>2, <1>3, PTL DEF FilesSpec
=============================================================================

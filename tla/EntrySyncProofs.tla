-------------------------- MODULE EntrySyncProofs --------------------------
(***************************************************************************)
(* Theorems about EntrySync for folder-like entries (folders and           *)
(* workspaces), whose transactions write the local database at once: for   *)
(* any number of devices, edits, lost and late requests and crashes.       *)
(***************************************************************************)
EXTENDS EntrySync, TLAPS

\* A request that may still reach the server was built by its author on a version
\* not after its present base, and reflects no more than the author's local
\* manifest and no less than the version it follows.
GoodRequest(req) ==
  /\ req \in RemoteManifest
  /\ req.version >= 1
  /\ req.version <= local[req.author].base + 1
  /\ req.content \subseteq local[req.author].content
  /\ req.version >= 2 => vlob[req.version - 1].content \subseteq req.content
  /\ req.author \in has

\* A downloaded manifest is a version of the server.
Downloaded(remote) ==
  /\ remote \in RemoteManifest
  /\ remote.version > 0 =>
       /\ remote.version <= Len(vlob)
       /\ remote.author = vlob[remote.version].author
       /\ remote.content = vlob[remote.version].content

\* The local database is never behind the cache.
Stored1(d) == disk[d] = local[d] /\ local[d].reshaped

\* The base of a local manifest is a version of the server whose edits it
\* reflects, all of them and nothing else when there is nothing to sync.
BaseInv(d) ==
  /\ local[d].base <= Len(vlob)
  /\ local[d].base >= 1 => vlob[local[d].base].content \subseteq local[d].content
  /\ ~local[d].need =>
       local[d].base >= 1 /\ local[d].content = vlob[local[d].base].content

\* A version of our own that is not acknowledged yet follows the base.
OwnInv(d) ==
  \A v \in 1..Len(vlob) : v > local[d].base /\ vlob[v].author = d =>
    v = local[d].base + 1 /\ vlob[v].content \subseteq local[d].content

TaskInv(d) ==
  /\ task[d].pc \notin {"conflict", "reset"}
  /\ task[d].pc = "upload" => GoodRequest(task[d].remote) /\ task[d].remote.author = d
  /\ task[d].pc = "step" => Downloaded(task[d].remote)
  /\ task[d].pc # "idle" => d \in has

MiniInv(d) ==
  /\ mini[d].pc = "upload" => GoodRequest(mini[d].remote) /\ mini[d].remote.author = d
  /\ mini[d].pc = "step" => Downloaded(mini[d].remote)
  /\ mini[d].pc # "idle" => d \in has

\* Part of the invariant about the server and the local manifests.
Core ==
  /\ \A d \in Devices : BaseInv(d) /\ OwnInv(d)
  /\ \A v \in 1..Len(vlob) : vlob[v].author \in has
  /\ NothingReverted
  /\ NoEditLost

\* The inductive invariant.
IInv ==
  /\ TypeOK
  /\ Core
  /\ Creator \in has
  /\ published => Len(vlob) >= 1
  /\ \A d \in Devices : Stored1(d) /\ TaskInv(d) /\ MiniInv(d)
  /\ \A d \in Devices \ has : local[d] = Placeholder
  /\ \A req \in late : GoodRequest(req)

-----------------------------------------------------------------------------

\* The initial state satisfies the invariant.
LEMMA InitInv == Init => IInv
<1> SUFFICES ASSUME Init PROVE IInv
  OBVIOUS
<1>1. TypeOK
  <2>1. Placeholder \in Manifest
    BY DEF Placeholder, Manifest
  <2>2. NoRemote \in RemoteManifest
    BY DeviceAssumption DEF NoRemote, Remote, RemoteManifest
  <2>3. local \in [Devices -> Manifest] /\ disk \in [Devices -> Manifest]
    BY <2>1 DEF Init
  <2>4. task \in [Devices ->
          [pc : {"idle", "step", "upload", "reload", "conflict", "reset"},
           remote : RemoteManifest, final : BOOLEAN]]
    BY <2>2 DEF Init, Idle
  <2>5. mini \in [Devices ->
          [pc : {"idle", "upload", "reload", "step"}, remote : RemoteManifest]]
    BY <2>2 DEF Init, MiniIdle
  <2>6. vlob \in Seq([author : Devices, content : SUBSET Edits])
    BY DEF Init
  <2>7. QED
    BY <2>3, <2>4, <2>5, <2>6, DeviceAssumption DEF Init, TypeOK
<1>2. Core
  BY DEF Init, Core, BaseInv, OwnInv, NothingReverted, NoEditLost, Placeholder
<1>3. \A d \in Devices : Stored1(d) /\ TaskInv(d) /\ MiniInv(d)
  BY DEF Init, Stored1, TaskInv, MiniInv, Placeholder, Idle, MiniIdle
<1>4. QED
  BY <1>1, <1>2, <1>3 DEF Init, IInv

\* The server accepts a good request: no edit of the last version is taken back.
LEMMA AppendKeepsCore ==
  ASSUME TypeOK, Core, NEW req, GoodRequest(req), Accepts(req), vlob' = Stored(req),
         UNCHANGED <<local, has, made, backup>>
  PROVE  Core'
<1> DEFINE n == Len(vlob)
<1>1. /\ vlob \in Seq([author : Devices, content : SUBSET Edits]) /\ n \in Nat
      /\ local \in [Devices -> Manifest]
      /\ req.author \in Devices /\ req.content \in SUBSET Edits /\ req.version \in Nat
  BY DEF TypeOK, GoodRequest, RemoteManifest
<1>2. /\ Len(vlob') = n + 1 /\ DOMAIN vlob = 1..n /\ DOMAIN vlob' = 1..n+1
      /\ \A v \in 1..n : vlob'[v] = vlob[v]
      /\ vlob'[n + 1] = [author |-> req.author, content |-> req.content]
  BY <1>1 DEF Stored
<1>3. local[req.author].base = n
  BY <1>1 DEF Core, BaseInv, GoodRequest, Accepts, Manifest
<1>4. n >= 1 => vlob[n].content \subseteq req.content
  BY <1>1 DEF GoodRequest, Accepts
<1>5. ASSUME NEW d \in Devices PROVE BaseInv(d)'
  BY <1>1, <1>2 DEF Core, BaseInv, Manifest
<1>6. ASSUME NEW d \in Devices PROVE OwnInv(d)'
  <2> SUFFICES ASSUME NEW v \in 1..n+1, v > local[d].base, vlob'[v].author = d
               PROVE  v = local[d].base + 1 /\ vlob'[v].content \subseteq local[d].content
    BY <1>2 DEF OwnInv
  <2>1. CASE v = n + 1
    BY <1>2, <1>3, <2>1 DEF GoodRequest
  <2>2. CASE v \in 1..n
    BY <1>2, <2>2 DEF Core, OwnInv
  <2>3. QED
    BY <1>1, <2>1, <2>2
<1>7. \A v \in 1..Len(vlob') : vlob'[v].author \in has'
  BY <1>1, <1>2 DEF Core, GoodRequest
<1>8. NothingReverted'
  <2> SUFFICES ASSUME NEW i \in 1..n+1, NEW j \in 1..n+1, i <= j
               PROVE  vlob'[i].content \subseteq vlob'[j].content
    BY <1>2 DEF NothingReverted
  <2>0. \A a, b \in 1..n : a <= b => vlob[a].content \subseteq vlob[b].content
    BY <1>1 DEF Core, NothingReverted
  <2>1. CASE j \in 1..n
    BY <1>1, <1>2, <2>0, <2>1
  <2>2. CASE j = n + 1 /\ i \in 1..n
    <3>1. vlob[i].content \subseteq vlob[n].content
      BY <1>1, <2>0, <2>2
    <3>2. QED
      BY <1>1, <1>2, <1>4, <2>2, <3>1
  <2>3. QED
    BY <1>1, <2>1, <2>2
<1>9. Latest.content \subseteq Latest'.content
  <2>1. vlob' # <<>> /\ Latest'.content = req.content
    BY <1>1, <1>2 DEF Latest, Remote
  <2>2. Latest.content = IF vlob = <<>> THEN {} ELSE vlob[n].content
    BY DEF Latest, NoRemote, Remote
  <2>3. vlob # <<>> => n >= 1
    BY <1>1
  <2>4. QED
    BY <1>4, <2>1, <2>2, <2>3
<1>10. NoEditLost'
  BY <1>9 DEF Core, NoEditLost
<1>11. QED
  BY <1>5, <1>6, <1>7, <1>8, <1>10 DEF Core

\* Versions are only added, bases move forward, local manifests reflect ever more.
Grows ==
  /\ UNCHANGED vlob \/ \E r \in RemoteManifest : vlob' = Stored(r)
  /\ \A d \in Devices : local'[d].base >= local[d].base
                        /\ local[d].content \subseteq local'[d].content
  /\ has \subseteq has'

\* While everything grows, the versions there are stay.
LEMMA VersionsStay ==
  ASSUME TypeOK, Grows
  PROVE  /\ Len(vlob') \in Nat /\ Len(vlob') >= Len(vlob)
         /\ \A v \in 1..Len(vlob) : vlob'[v] = vlob[v]
<1>1. vlob \in Seq([author : Devices, content : SUBSET Edits]) /\ Len(vlob) \in Nat
  BY DEF TypeOK
<1>2. CASE UNCHANGED vlob
  BY <1>1, <1>2
<1>3. ASSUME NEW r \in RemoteManifest, vlob' = Stored(r)
      PROVE  /\ Len(vlob') \in Nat /\ Len(vlob') >= Len(vlob)
             /\ \A v \in 1..Len(vlob) : vlob'[v] = vlob[v]
  BY <1>1, <1>3 DEF Stored, RemoteManifest
<1>4. QED
  BY <1>2, <1>3 DEF Grows

\* While everything grows, a request stays good.
LEMMA GoodStays ==
  ASSUME TypeOK, TypeOK', Core, Grows, NEW req, GoodRequest(req)
  PROVE  GoodRequest(req)'
<1>1. /\ Len(vlob) \in Nat
      /\ local \in [Devices -> Manifest] /\ local' \in [Devices -> Manifest]
      /\ req.author \in Devices /\ req.content \in SUBSET Edits /\ req.version \in Nat
  BY DEF TypeOK, GoodRequest, RemoteManifest
<1>2. \A v \in 1..Len(vlob) : vlob'[v] = vlob[v]
  BY VersionsStay
<1>3. local'[req.author].base \in Nat /\ local[req.author].base \in Nat
  BY <1>1 DEF Manifest
<1>4. req.version >= 2 => req.version - 1 \in 1..Len(vlob)
  <2>1. local[req.author].base <= Len(vlob)
    BY <1>1 DEF Core, BaseInv
  <2>2. QED
    BY <1>1, <1>3, <2>1 DEF GoodRequest
<1>5. req.version >= 2 => vlob'[req.version - 1].content \subseteq req.content
  BY <1>2, <1>4 DEF GoodRequest
<1>6. /\ req.version <= local'[req.author].base + 1
      /\ req.content \subseteq local'[req.author].content
  <2>1. /\ local'[req.author].base >= local[req.author].base
        /\ local[req.author].content \subseteq local'[req.author].content
    BY <1>1 DEF Grows
  <2>2. QED
    BY <1>1, <1>3, <2>1 DEF GoodRequest
<1>7. QED
  BY <1>5, <1>6 DEF GoodRequest, Grows

\* While everything grows, a download stays true.
LEMMA DownloadedStays ==
  ASSUME TypeOK, Grows, NEW remote, Downloaded(remote)
  PROVE  Downloaded(remote)'
<1>1. Len(vlob) \in Nat /\ remote.version \in Nat
  BY DEF TypeOK, Downloaded, RemoteManifest
<1>2. QED
  BY <1>1, VersionsStay DEF Downloaded

\* What is left to show for an action once the types and the core are preserved.
LEMMA RestPreserved ==
  ASSUME IInv, TypeOK', Core', Grows, published' => Len(vlob') >= 1,
         \A d \in Devices : Stored1(d)',
         \A d \in Devices : task'[d] = task[d] \/ TaskInv(d)',
         \A d \in Devices : mini'[d] = mini[d] \/ MiniInv(d)',
         \A d \in Devices \ has' : local'[d] = local[d],
         \A req \in late' : req \in late \/ GoodRequest(req)'
  PROVE  IInv'
<1>0. TypeOK /\ Core
  BY DEF IInv
<1>1. ASSUME NEW d \in Devices PROVE TaskInv(d)'
  <2>1. CASE task'[d] = task[d]
    <3>1. TaskInv(d)
      BY DEF IInv
    <3>2. QED
      BY <1>0, <2>1, <3>1, GoodStays, DownloadedStays DEF TaskInv, Grows
  <2>2. QED
    BY <2>1
<1>2. ASSUME NEW d \in Devices PROVE MiniInv(d)'
  <2>1. CASE mini'[d] = mini[d]
    <3>1. MiniInv(d)
      BY DEF IInv
    <3>2. QED
      BY <1>0, <2>1, <3>1, GoodStays, DownloadedStays DEF MiniInv, Grows
  <2>2. QED
    BY <2>1
<1>3. ASSUME NEW req \in late' PROVE GoodRequest(req)'
  BY <1>0, GoodStays DEF IInv
<1>4. \A d \in Devices \ has' : local'[d] = Placeholder'
  BY DEF IInv, Grows, Placeholder
<1>5. QED
  BY <1>1, <1>2, <1>3, <1>4 DEF IInv, Grows

\* synchronization_step keeps the core: the merge loses no edit of either side.
LEMMA StepKeepsCore ==
  ASSUME IInv, Kind = "folder", NEW d \in has, NEW remote, Downloaded(remote),
         NEW final \in BOOLEAN, StepStores(d, remote, final),
         UNCHANGED <<vlob, has, made, backup>>
  PROVE  /\ local' \in [Devices -> Manifest] /\ disk' \in [Devices -> Manifest]
         /\ Core' /\ Grows
         /\ \A c \in Devices : Stored1(c)'
         /\ \A c \in Devices \ has : local'[c] = local[c]
<1> DEFINE l == local[d]
           new == MergeManifests(d, l, remote)
           n == Len(vlob)
<1>1. /\ TypeOK /\ Core /\ d \in Devices /\ disk[d] = l /\ l.reshaped
      /\ local \in [Devices -> Manifest] /\ disk \in [Devices -> Manifest]
      /\ l \in Manifest /\ remote \in RemoteManifest /\ n \in Nat
      /\ vlob \in Seq([author : Devices, content : SUBSET Edits])
  BY DEF IInv, TypeOK, Stored1, Downloaded
<1>2. Reshaped(l, final) = l
  BY <1>1 DEF Reshaped, Manifest
<1>3. /\ local' = [local EXCEPT ![d] = new]
      /\ disk' = IF new # l THEN [disk EXCEPT ![d] = new] ELSE disk
  BY <1>2 DEF StepStores
<1>4. BaseInv(d) /\ OwnInv(d) /\ NothingReverted
  BY <1>1 DEF Core
<1>5. DOMAIN vlob = 1..n /\ \A i, j \in 1..n : i <= j => vlob[i].content \subseteq vlob[j].content
  BY <1>1, <1>4 DEF NothingReverted
<1>6. l.base \in Nat /\ l.need \in BOOLEAN /\ l.content \in SUBSET Edits
  BY <1>1 DEF Manifest
<1>7. remote.version \in Nat /\ remote.author \in Devices /\ remote.content \in SUBSET Edits
  BY <1>1 DEF RemoteManifest
<1>8. remote.version > l.base =>
        /\ remote.version \in 1..n
        /\ remote.author = vlob[remote.version].author
        /\ remote.content = vlob[remote.version].content
        /\ l.base >= 1 => vlob[l.base].content \subseteq remote.content
  BY <1>1, <1>4, <1>5, <1>6, <1>7 DEF Downloaded, BaseInv
<1> DEFINE Good(m) ==
      /\ m \in Manifest /\ m.reshaped
      /\ m.base >= l.base /\ m.base <= n /\ l.content \subseteq m.content
      /\ m.base >= 1 => vlob[m.base].content \subseteq m.content
      /\ ~m.need => m.base >= 1 /\ m.content = vlob[m.base].content
      /\ \A v \in 1..n : v > m.base /\ vlob[v].author = d =>
           v = m.base + 1 /\ vlob[v].content \subseteq m.content
      /\ l.need => m.need \/ (l.content = m.content /\ m.base >= 1)
<1>9. Good(new)
  <2>1. CASE remote.version <= l.base
    <3>1. new = l
      BY <1>6, <1>7, <2>1 DEF MergeManifests
    <3>2. QED
      BY <1>1, <1>4, <1>6, <3>1 DEF BaseInv, OwnInv
  <2>2. CASE remote.version > l.base /\ (~l.need \/ MatchRemote(l, remote))
    <3>1. new = FromRemote(remote)
      BY <1>6, <1>7, <2>2 DEF MergeManifests
    <3>2. /\ new.base = remote.version /\ new.need = FALSE /\ new.content = remote.content
          /\ new.reshaped = TRUE /\ new \in Manifest
      BY <1>7, <3>1 DEF FromRemote, Manifest
    <3>3. l.content \subseteq remote.content
      BY <1>4, <1>6, <1>8, <2>2 DEF BaseInv, MatchRemote
    <3>4. \A v \in 1..n : v > remote.version /\ vlob[v].author = d => FALSE
      BY <1>4, <1>6, <1>7, <2>2 DEF OwnInv
    <3>5. l.need => l.content = remote.content
      BY <2>2 DEF MatchRemote
    <3> HIDE DEF new
    <3>6. QED
      BY <1>6, <1>7, <1>8, <2>2, <3>2, <3>3, <3>4, <3>5
  <2>3. CASE remote.version > l.base /\ l.need /\ ~MatchRemote(l, remote) /\ remote.author = d
    <3>1. new = Acknowledge(l, remote)
      BY <1>6, <1>7, <2>3 DEF MergeManifests
    <3>2. /\ new.base = remote.version /\ new.need = l.need /\ new.content = l.content
          /\ new.reshaped = l.reshaped /\ new \in Manifest
      BY <1>1, <1>7, <3>1 DEF Acknowledge, Manifest
    <3>3. remote.version = l.base + 1 /\ remote.content \subseteq l.content
      BY <1>4, <1>8, <2>3 DEF OwnInv
    <3>4. \A v \in 1..n : v > remote.version /\ vlob[v].author = d => FALSE
      BY <1>4, <1>6, <1>7, <2>3 DEF OwnInv
    <3> HIDE DEF new
    <3>5. QED
      BY <1>1, <1>6, <1>7, <1>8, <2>3, <3>2, <3>3, <3>4
  <2>4. CASE remote.version > l.base /\ l.need /\ ~MatchRemote(l, remote) /\ remote.author # d
    <3>1. new = MergeFolder(l, remote)
      BY <1>6, <1>7, <2>4 DEF MergeManifests
    <3>2. /\ new.base = remote.version /\ new.need = TRUE
          /\ new.content = l.content \cup remote.content
          /\ new.reshaped = TRUE /\ new \in Manifest
      BY <1>6, <1>7, <3>1 DEF MergeFolder, Manifest
    <3>3. \A v \in 1..n : v > remote.version /\ vlob[v].author = d => FALSE
      BY <1>4, <1>6, <1>7, <2>4 DEF OwnInv
    <3> HIDE DEF new
    <3>4. QED
      BY <1>6, <1>7, <1>8, <2>4, <3>2, <3>3
  <2>5. QED
    BY <1>6, <1>7, <2>1, <2>2, <2>3, <2>4
<1> HIDE DEF new
<1>10. /\ local' \in [Devices -> Manifest] /\ disk' \in [Devices -> Manifest]
       /\ local'[d] = new /\ disk'[d] = new
       /\ \A c \in Devices \ {d} : local'[c] = local[c] /\ disk'[c] = disk[c]
  BY <1>1, <1>3, <1>9
<1>11. \A c \in Devices : Stored1(c)'
  BY <1>9, <1>10 DEF IInv, Stored1
<1>12. ASSUME NEW c \in Devices PROVE BaseInv(c)' /\ OwnInv(c)'
  <2>1. CASE c = d
    BY <1>9, <1>10, <2>1 DEF BaseInv, OwnInv
  <2>2. CASE c # d
    BY <1>1, <1>10, <2>2 DEF Core, BaseInv, OwnInv
  <2>3. QED
    BY <2>1, <2>2
<1>13. Grows
  <2>1. ASSUME NEW c \in Devices
        PROVE  local'[c].base >= local[c].base /\ local[c].content \subseteq local'[c].content
    <3>1. local[c].base \in Nat
      BY <1>1 DEF Manifest
    <3>2. QED
      BY <1>9, <1>10, <3>1
  <2>2. QED
    BY <2>1 DEF Grows
<1>14. NoEditLost'
  <2> SUFFICES ASSUME NEW e \in made
               PROVE  \/ e \in Latest.content
                      \/ \E c \in has : local'[c].need /\ e \in local'[c].content
                      \/ e \in backup
    BY DEF NoEditLost, Latest
  <2>1. CASE e \in Latest.content \/ e \in backup
    BY <2>1
  <2>2. ASSUME NEW c \in has, local[c].need, e \in local[c].content
        PROVE  e \in Latest.content \/ \E b \in has : local'[b].need /\ e \in local'[b].content
    <3>0. c \in Devices
      BY DEF IInv, TypeOK
    <3>1. CASE c # d
      BY <1>10, <2>2, <3>0, <3>1
    <3>2. CASE c = d /\ new.need
      BY <1>9, <1>10, <2>2, <3>2
    <3>3. CASE c = d /\ ~new.need
      <4>1. e \in new.content /\ new.base \in 1..n /\ new.content = vlob[new.base].content
        BY <1>1, <1>9, <2>2, <3>3 DEF Manifest
      <4>2. vlob[new.base].content \subseteq vlob[n].content /\ vlob # <<>>
        BY <1>1, <1>5, <4>1
      <4>3. Latest.content = vlob[n].content
        BY <4>2 DEF Latest, Remote
      <4>4. QED
        BY <4>1, <4>2, <4>3
    <3>4. QED
      BY <3>1, <3>2, <3>3
  <2>3. QED
    BY <1>1, <2>1, <2>2 DEF Core, NoEditLost
<1>15. Core'
  BY <1>1, <1>12, <1>14 DEF Core, NothingReverted
<1>16. QED
  BY <1>10, <1>11, <1>13, <1>15

\* The types of the task records.
TaskType ==
  [pc : {"idle", "step", "upload", "reload", "conflict", "reset"},
   remote : RemoteManifest, final : BOOLEAN]

MiniType == [pc : {"idle", "upload", "reload", "step"}, remote : RemoteManifest]

\* What the server answers to a download is one of its versions.
LEMMA LatestDownloaded ==
  ASSUME TypeOK PROVE Downloaded(Latest)
<1>1. vlob \in Seq([author : Devices, content : SUBSET Edits]) /\ Len(vlob) \in Nat
  BY DEF TypeOK
<1>2. CASE vlob = <<>>
  BY <1>2, DeviceAssumption DEF Downloaded, Latest, NoRemote, Remote, RemoteManifest
<1>3. CASE vlob # <<>>
  <2>0. Len(vlob) >= 1
    BY <1>1, <1>3
  <2>1. vlob[Len(vlob)] \in [author : Devices, content : SUBSET Edits]
    <3> DEFINE S == [author : Devices, content : SUBSET Edits]
    <3>1. Len(vlob) \in 1..Len(vlob) /\ vlob \in Seq(S)
      BY <1>1, <2>0
    <3> HIDE DEF S
    <3>2. vlob[Len(vlob)] \in S
      BY <3>1
    <3>3. QED
      BY <3>2 DEF S
  <2>2. Latest = [version |-> Len(vlob), author |-> vlob[Len(vlob)].author,
                  content |-> vlob[Len(vlob)].content]
    BY <1>3 DEF Latest, Remote
  <2>3. QED
    BY <1>1, <2>1, <2>2 DEF Downloaded, RemoteManifest
<1>4. QED
  BY <1>2, <1>3

\* The empty remote manifest and the idle tasks are well typed.
LEMMA IdleTypes ==
  /\ NoRemote \in RemoteManifest /\ Downloaded(NoRemote)
  /\ Idle \in TaskType /\ Idle.pc = "idle"
  /\ MiniIdle \in MiniType /\ MiniIdle.pc = "idle"
<1>1. NoRemote \in RemoteManifest /\ NoRemote.version = 0
  BY DeviceAssumption DEF NoRemote, Remote, RemoteManifest
<1>2. QED
  BY <1>1 DEF Downloaded, Idle, MiniIdle, TaskType, MiniType

\* A step that changes no local manifest and no version keeps the core.
LEMMA SameCore ==
  ASSUME Core, UNCHANGED <<vlob, local, has, made, backup>>
  PROVE  Core'
BY DEF Core, BaseInv, OwnInv, NothingReverted, NoEditLost, Latest

\* ... and everything (trivially) grows.
LEMMA SameGrows ==
  ASSUME TypeOK, UNCHANGED <<local, has>>,
         UNCHANGED vlob \/ \E r \in RemoteManifest : vlob' = Stored(r)
  PROVE  Grows
<1>1. \A d \in Devices : local[d].base \in Nat
  BY DEF TypeOK, Manifest
<1>2. QED
  BY <1>1 DEF Grows

\* A version added to the server is well typed.
LEMMA StoredType ==
  ASSUME TypeOK, NEW req \in RemoteManifest, vlob' = Stored(req)
  PROVE  /\ vlob' \in Seq([author : Devices, content : SUBSET Edits])
         /\ Len(vlob') = Len(vlob) + 1 /\ Len(vlob) \in Nat
         /\ vlob'[Len(vlob) + 1] = [author |-> req.author, content |-> req.content]
<1>1. vlob \in Seq([author : Devices, content : SUBSET Edits]) /\ Len(vlob) \in Nat
  BY DEF TypeOK
<1>2. [author |-> req.author, content |-> req.content] \in [author : Devices, content : SUBSET Edits]
  BY DEF RemoteManifest
<1>3. QED
  BY <1>1, <1>2 DEF Stored

\* A version the server has just stored is a version of the server.
LEMMA StoredDownloaded ==
  ASSUME TypeOK, NEW req \in RemoteManifest, Accepts(req), vlob' = Stored(req)
  PROVE  Downloaded(req)'
<1>1. /\ Len(vlob') = Len(vlob) + 1 /\ Len(vlob) \in Nat
      /\ vlob'[Len(vlob) + 1] = [author |-> req.author, content |-> req.content]
  BY StoredType
<1>2. req.version = Len(vlob) + 1
  BY DEF Accepts
<1>3. vlob'[req.version].author = req.author /\ vlob'[req.version].content = req.content
  BY <1>1, <1>2
<1>4. QED
  BY <1>1, <1>2, <1>3 DEF Downloaded

-----------------------------------------------------------------------------
(* Every action preserves the invariant *)

\* A step that leaves the versions and the local manifests alone: what remains
\* are the tasks it moves and the requests it gives up.
LEMMA TaskStepPreserves ==
  ASSUME IInv, UNCHANGED <<vlob, local, disk, has, published, made, backup>>,
         task' \in [Devices -> TaskType], mini' \in [Devices -> MiniType],
         late' \subseteq RemoteManifest, giveUps' \in Nat, crashes' \in Nat,
         \A d \in Devices : task'[d] = task[d] \/ TaskInv(d)',
         \A d \in Devices : mini'[d] = mini[d] \/ MiniInv(d)',
         \A req \in late' : req \in late \/ GoodRequest(req)'
  PROVE  IInv'
<1>1. TypeOK'
  BY DEF IInv, TypeOK, TaskType, MiniType
<1>2. Core' /\ Grows
  BY SameCore, SameGrows DEF IInv
<1>3. \A d \in Devices : Stored1(d)'
  BY DEF IInv, Stored1
<1>4. published' => Len(vlob') >= 1
  BY DEF IInv
<1>5. QED
  BY <1>1, <1>2, <1>3, <1>4, RestPreserved

\* The types and facts of the invariant the actions start from.
LEMMA Facts ==
  ASSUME IInv
  PROVE  /\ TypeOK /\ Core
         /\ task \in [Devices -> TaskType] /\ mini \in [Devices -> MiniType]
         /\ late \subseteq RemoteManifest /\ giveUps \in Nat /\ crashes \in Nat
         /\ has \subseteq Devices
         /\ \A d \in Devices : TaskInv(d) /\ MiniInv(d) /\ Stored1(d)
BY DEF IInv, TypeOK, TaskType, MiniType

\* A sync task moves to a state with the invariant.
LEMMA MoveTask ==
  ASSUME IInv, NEW d \in Devices, NEW t \in TaskType, task' = [task EXCEPT ![d] = t],
         UNCHANGED <<vlob, local, disk, has, published, made, backup, mini, crashes>>,
         giveUps' \in Nat, \A req \in late' : req \in late \/ GoodRequest(req),
         t.pc \notin {"conflict", "reset"},
         t.pc = "upload" => GoodRequest(t.remote) /\ t.remote.author = d,
         t.pc = "step" => Downloaded(t.remote),
         t.pc # "idle" => d \in has
  PROVE  IInv'
<1>1. task' \in [Devices -> TaskType] /\ mini' \in [Devices -> MiniType] /\ crashes' \in Nat
  BY Facts
<1>2. late' \subseteq RemoteManifest
  BY Facts DEF GoodRequest
<1>3. \A req : GoodRequest(req)' = GoodRequest(req) /\ Downloaded(req)' = Downloaded(req)
  BY DEF GoodRequest, Downloaded
<1>4. TaskInv(d)' /\ \A c \in Devices \ {d} : task'[c] = task[c]
  BY <1>3, Facts DEF TaskInv
<1>5. \A c \in Devices : task'[c] = task[c] \/ TaskInv(c)'
  BY <1>4
<1>6. \A req \in late' : req \in late \/ GoodRequest(req)'
  BY <1>3
<1>7. QED
  BY <1>1, <1>2, <1>5, <1>6, TaskStepPreserves

\* A minimal_sync moves to a state with the invariant.
LEMMA MoveMini ==
  ASSUME IInv, NEW d \in Devices, NEW m \in MiniType, mini' = [mini EXCEPT ![d] = m],
         UNCHANGED <<vlob, local, disk, has, published, made, backup, task, crashes>>,
         giveUps' \in Nat, \A req \in late' : req \in late \/ GoodRequest(req),
         m.pc = "upload" => GoodRequest(m.remote) /\ m.remote.author = d,
         m.pc = "step" => Downloaded(m.remote),
         m.pc # "idle" => d \in has
  PROVE  IInv'
<1>1. mini' \in [Devices -> MiniType] /\ task' \in [Devices -> TaskType] /\ crashes' \in Nat
  BY Facts
<1>2. late' \subseteq RemoteManifest
  BY Facts DEF GoodRequest
<1>3. \A req : GoodRequest(req)' = GoodRequest(req) /\ Downloaded(req)' = Downloaded(req)
  BY DEF GoodRequest, Downloaded
<1>4. MiniInv(d)' /\ \A c \in Devices \ {d} : mini'[c] = mini[c]
  BY <1>3, Facts DEF MiniInv
<1>5. \A c \in Devices : mini'[c] = mini[c] \/ MiniInv(c)'
  BY <1>4
<1>6. \A req \in late' : req \in late \/ GoodRequest(req)'
  BY <1>3
<1>7. QED
  BY <1>1, <1>2, <1>5, <1>6, TaskStepPreserves

\* Taking the sync lock and downloading preserves the invariant.
LEMMA SyncStartPreserves ==
  ASSUME IInv, NEW d \in Devices, NEW remoteChanged \in BOOLEAN, SyncStart(d, remoteChanged)
  PROVE  IInv'
<1> DEFINE t == [pc |-> "step", remote |-> IF remoteChanged THEN Latest ELSE NoRemote,
                 final |-> FALSE]
<1>1. Downloaded(t.remote)
  BY Facts, LatestDownloaded, IdleTypes
<1>2. t \in TaskType
  BY <1>1 DEF TaskType, Downloaded
<1>3. d \in has /\ task' = [task EXCEPT ![d] = t]
  BY DEF SyncStart
<1>4. t.pc = "step"
  OBVIOUS
<1> HIDE DEF t
<1>5. UNCHANGED <<vlob, local, disk, has, published, made, backup, mini, crashes, giveUps, late>>
  BY DEF SyncStart
<1>6. QED
  BY <1>1, <1>2, <1>3, <1>4, <1>5, MoveTask, Facts

\* A refused upload preserves the invariant.
LEMMA SyncRefusedPreserves ==
  ASSUME IInv, NEW d \in Devices, SyncRefused(d)
  PROVE  IInv'
<1> DEFINE t == [task[d] EXCEPT !.pc = "reload"]
<1>1. t \in TaskType /\ t.pc = "reload" /\ task[d].pc = "upload"
  BY Facts DEF TaskType, SyncRefused
<1>2. d \in has /\ task' = [task EXCEPT ![d] = t]
  BY <1>1, Facts DEF SyncRefused, TaskInv
<1> HIDE DEF t
<1>3. UNCHANGED <<vlob, local, disk, has, published, made, backup, mini, crashes, giveUps, late>>
  BY DEF SyncRefused
<1>4. QED
  BY <1>1, <1>2, <1>3, MoveTask, Facts

\* The download after a refused upload preserves the invariant.
LEMMA SyncReloadPreserves ==
  ASSUME IInv, NEW d \in Devices, SyncReload(d)
  PROVE  IInv'
<1> DEFINE t == [task[d] EXCEPT !.pc = "step", !.remote = Latest]
<1>1. Downloaded(Latest) /\ Latest \in RemoteManifest
  BY Facts, LatestDownloaded DEF Downloaded
<1>2. t \in TaskType /\ t.pc = "step" /\ t.remote = Latest
  BY <1>1, Facts DEF TaskType
<1>3. d \in has /\ task' = [task EXCEPT ![d] = t]
  BY Facts DEF SyncReload, TaskInv, TaskType
<1> HIDE DEF t
<1>4. UNCHANGED <<vlob, local, disk, has, published, made, backup, mini, crashes, giveUps, late>>
  BY DEF SyncReload
<1>5. QED
  BY <1>1, <1>2, <1>3, <1>4, MoveTask, Facts

\* Giving up a synchronization, its request still on the way, preserves the invariant.
LEMMA SyncGiveUpPreserves ==
  ASSUME IInv, NEW d \in Devices, SyncGiveUp(d)
  PROVE  IInv'
<1>1. \A req \in late' : req \in late \/ GoodRequest(req)
  BY Facts DEF SyncGiveUp, TaskInv
<1>2. Idle \in TaskType /\ Idle.pc = "idle"
  BY IdleTypes
<1>3. /\ task' = [task EXCEPT ![d] = Idle] /\ giveUps' \in Nat
      /\ UNCHANGED <<vlob, local, disk, has, published, made, backup, mini, crashes>>
  BY Facts DEF SyncGiveUp
<1>4. QED
  BY <1>1, <1>2, <1>3, MoveTask

\* Starting a minimal_sync preserves the invariant.
LEMMA MiniStartPreserves ==
  ASSUME IInv, NEW d \in Devices, MiniStart(d)
  PROVE  IInv'
<1> DEFINE r == [version |-> 1, author |-> d, content |-> {}]
           m == [pc |-> "upload", remote |-> r]
<1>1. r \in RemoteManifest /\ m \in MiniType /\ m.pc = "upload" /\ m.remote = r
  BY DEF RemoteManifest, MiniType
<1>2. d \in has /\ mini' = [mini EXCEPT ![d] = m]
  BY DEF MiniStart, Remote
<1>3. GoodRequest(r)
  <2>1. local[d].base \in Nat
    BY DEF IInv, TypeOK, Manifest
  <2>2. QED
    BY <1>1, <1>2, <2>1 DEF GoodRequest
<1>r. r.author = d
  OBVIOUS
<1> HIDE DEF m, r
<1>4. UNCHANGED <<vlob, local, disk, has, published, made, backup, task, crashes, giveUps, late>>
  BY DEF MiniStart
<1>5. QED
  BY <1>1, <1>2, <1>3, <1>4, <1>r, MoveMini, Facts

\* The download of a minimal_sync preserves the invariant.
LEMMA MiniReloadPreserves ==
  ASSUME IInv, NEW d \in Devices, MiniReload(d)
  PROVE  IInv'
<1> DEFINE m == [pc |-> "step", remote |-> Latest]
<1>1. Downloaded(Latest) /\ Latest \in RemoteManifest
  BY Facts, LatestDownloaded DEF Downloaded
<1>2. m \in MiniType /\ m.pc = "step" /\ m.remote = Latest
  BY <1>1 DEF MiniType
<1>3. d \in has /\ mini' = [mini EXCEPT ![d] = m]
  BY Facts DEF MiniReload, MiniInv
<1> HIDE DEF m
<1>4. UNCHANGED <<vlob, local, disk, has, published, made, backup, task, crashes, giveUps, late>>
  BY DEF MiniReload
<1>5. QED
  BY <1>1, <1>2, <1>3, <1>4, MoveMini, Facts

\* Giving up a minimal_sync preserves the invariant.
LEMMA MiniGiveUpPreserves ==
  ASSUME IInv, NEW d \in Devices, MiniGiveUp(d)
  PROVE  IInv'
<1>1. \A req \in late' : req \in late \/ GoodRequest(req)
  BY Facts DEF MiniGiveUp, MiniInv
<1>2. MiniIdle \in MiniType /\ MiniIdle.pc = "idle"
  BY IdleTypes
<1>3. /\ mini' = [mini EXCEPT ![d] = MiniIdle] /\ giveUps' \in Nat
      /\ UNCHANGED <<vlob, local, disk, has, published, made, backup, task, crashes>>
  BY Facts DEF MiniGiveUp
<1>4. QED
  BY <1>1, <1>2, <1>3, MoveMini

\* A version is added to the server by a good request; the tasks may move.
LEMMA StorePreserves ==
  ASSUME IInv, NEW req, GoodRequest(req), Accepts(req), vlob' = Stored(req),
         UNCHANGED <<local, disk, has, published, made, backup, giveUps, crashes>>,
         late' \subseteq late,
         task' \in [Devices -> TaskType], mini' \in [Devices -> MiniType],
         \A d \in Devices : task'[d] = task[d] \/ TaskInv(d)',
         \A d \in Devices : mini'[d] = mini[d] \/ MiniInv(d)'
  PROVE  IInv'
<1>1. req \in RemoteManifest
  BY DEF GoodRequest
<1>2. /\ vlob' \in Seq([author : Devices, content : SUBSET Edits])
      /\ Len(vlob') = Len(vlob) + 1 /\ Len(vlob) \in Nat
  BY <1>1, Facts, StoredType
<1>3. TypeOK'
  BY <1>2 DEF IInv, TypeOK, TaskType, MiniType
<1>4. Core'
  BY Facts, AppendKeepsCore
<1>5. Grows
  BY <1>1, Facts, SameGrows
<1>7. \A d \in Devices : Stored1(d)'
  BY Facts DEF Stored1
<1>8. published' => Len(vlob') >= 1
  BY <1>2
<1>9. QED
  BY <1>3, <1>4, <1>5, <1>7, <1>8, RestPreserved

\* A request that arrives after its client gave up preserves the invariant.
LEMMA LateDeliveryPreserves ==
  ASSUME IInv, NEW req \in late, LateDelivery(req)
  PROVE  IInv'
<1>0. GoodRequest(req) /\ UNCHANGED <<task, mini>> /\ late' \subseteq late
  BY DEF IInv, LateDelivery
<1>1. CASE Accepts(req)
  BY <1>0, <1>1, Facts, StorePreserves DEF LateDelivery
<1>2. CASE ~Accepts(req)
  BY <1>0, <1>2, Facts, TaskStepPreserves DEF LateDelivery
<1>3. QED
  BY <1>1, <1>2

\* An accepted upload preserves the invariant.
LEMMA SyncUploadPreserves ==
  ASSUME IInv, NEW d \in Devices, SyncUpload(d)
  PROVE  IInv'
<1> DEFINE t == [task[d] EXCEPT !.pc = "step", !.final = TRUE]
<1>0. PICK req : req = task[d].remote
  OBVIOUS
<1>1. task[d] \in TaskType /\ GoodRequest(req) /\ req \in RemoteManifest /\ d \in has
  BY <1>0, Facts DEF SyncUpload, TaskInv, TaskType, GoodRequest
<1>2. t \in TaskType /\ t.pc = "step" /\ t.remote = req
  BY <1>0, <1>1 DEF TaskType
<1>3. task' = [task EXCEPT ![d] = t] /\ Accepts(req) /\ vlob' = Stored(req)
  BY <1>0, Facts DEF SyncUpload, TaskType
<1>4. UNCHANGED <<local, disk, has, published, made, backup, giveUps, crashes, late, mini>>
  BY DEF SyncUpload
<1>5. Downloaded(req)'
  BY <1>1, <1>3, Facts, StoredDownloaded
<1> HIDE DEF t
<1>6. task'[d] = t /\ task' \in [Devices -> TaskType]
      /\ \A c \in Devices \ {d} : task'[c] = task[c]
  BY <1>2, <1>3, Facts
<1>7. TaskInv(d)'
  <2>1. task'[d].pc = "step" /\ task'[d].remote = req /\ d \in has'
    BY <1>1, <1>2, <1>4, <1>6
  <2>2. QED
    BY <1>5, <2>1 DEF TaskInv
<1>8. QED
  BY <1>1, <1>3, <1>4, <1>6, <1>7, Facts, StorePreserves

\* The upload of a minimal_sync preserves the invariant.
LEMMA MiniUploadPreserves ==
  ASSUME IInv, NEW d \in Devices, MiniUpload(d)
  PROVE  IInv'
<1>0. PICK req : req = mini[d].remote
  OBVIOUS
<1>1. mini[d] \in MiniType /\ GoodRequest(req) /\ req \in RemoteManifest /\ d \in has
  BY <1>0, Facts DEF MiniUpload, MiniInv, MiniType, GoodRequest
<1>2. UNCHANGED <<local, disk, has, published, made, backup, giveUps, crashes, late, task>>
  BY DEF MiniUpload
<1>3. CASE Accepts(req)
  <2> DEFINE m == [mini[d] EXCEPT !.pc = "step"]
  <2>1. m \in MiniType /\ m.pc = "step" /\ m.remote = req
    BY <1>0, <1>1 DEF MiniType
  <2>2. mini' = [mini EXCEPT ![d] = m] /\ vlob' = Stored(req)
    BY <1>0, <1>3 DEF MiniUpload
  <2>3. Downloaded(req)'
    BY <1>1, <1>3, <2>2, Facts, StoredDownloaded
  <2> HIDE DEF m
  <2>4. mini'[d] = m /\ mini' \in [Devices -> MiniType]
        /\ \A c \in Devices \ {d} : mini'[c] = mini[c]
    BY <2>1, <2>2, Facts
  <2>5. mini'[d].pc = "step" /\ mini'[d].remote = req /\ d \in has'
    BY <1>1, <1>2, <2>1, <2>4
  <2>6. MiniInv(d)'
    BY <2>3, <2>5 DEF MiniInv
  <2>7. QED
    BY <1>1, <1>2, <1>3, <2>2, <2>4, <2>6, Facts, StorePreserves
<1>4. CASE ~Accepts(req)
  <2> DEFINE m == [mini[d] EXCEPT !.pc = "reload"]
  <2>1. m \in MiniType /\ m.pc = "reload"
    BY <1>1 DEF MiniType
  <2>2. mini' = [mini EXCEPT ![d] = m] /\ UNCHANGED vlob
    BY <1>0, <1>4 DEF MiniUpload
  <2> HIDE DEF m
  <2>3. QED
    BY <1>1, <1>2, <2>1, <2>2, Facts, MoveMini
<1>5. QED
  BY <1>3, <1>4

\* synchronization_step preserves the invariant.
LEMMA SyncStepPreserves ==
  ASSUME IInv, Kind = "folder", NEW d \in Devices, SyncStep(d)
  PROVE  IInv'
<1> DEFINE t == task[d]
           up == [pc |-> "upload", remote |-> ToRemote(d, local'[d]), final |-> FALSE]
           next == IF t.final \/ ~local'[d].need THEN Idle ELSE up
<1>1. t \in TaskType /\ t.pc = "step" /\ d \in has /\ Downloaded(t.remote) /\ t.final \in BOOLEAN
  BY Facts DEF SyncStep, TaskInv, TaskType
<1>2. /\ StepStores(d, t.remote, t.final)
      /\ UNCHANGED <<vlob, has, published, mini, late, backup, made, giveUps, crashes>>
  BY DEF SyncStep
<1>3. /\ local' \in [Devices -> Manifest] /\ disk' \in [Devices -> Manifest]
      /\ Core' /\ Grows
      /\ \A c \in Devices : Stored1(c)'
      /\ \A c \in Devices \ has : local'[c] = local[c]
  BY <1>1, <1>2, StepKeepsCore
<1>4. task' = [task EXCEPT ![d] = next]
  BY DEF SyncStep
<1>5. /\ ToRemote(d, local'[d]) = [version |-> local'[d].base + 1, author |-> d,
                                   content |-> local'[d].content]
      /\ local'[d].base \in Nat /\ local'[d].content \in SUBSET Edits
  BY <1>3 DEF ToRemote, Remote, Manifest
<1>6. ToRemote(d, local'[d]) \in RemoteManifest /\ ToRemote(d, local'[d]).author = d
  BY <1>5 DEF RemoteManifest
<1>7. GoodRequest(ToRemote(d, local[d]))'
  <2>1. BaseInv(d)'
    BY <1>3 DEF Core
  <2>2. ToRemote(d, local[d])' = ToRemote(d, local'[d])
    BY DEF ToRemote, Remote
  <2>3. QED
    BY <1>1, <1>2, <1>5, <1>6, <2>1, <2>2 DEF GoodRequest, BaseInv
<1>8. up \in TaskType /\ Idle \in TaskType
  BY <1>6, IdleTypes DEF TaskType
<1>9. next \in TaskType
  BY <1>8
<1>10. task' \in [Devices -> TaskType] /\ task'[d] = next
       /\ \A c \in Devices \ {d} : task'[c] = task[c]
  BY <1>4, <1>9, Facts
<1>11. TaskInv(d)'
  <2>1. CASE next = Idle
    BY <1>10, <2>1, IdleTypes DEF TaskInv
  <2>2. CASE next = up
    <3>1. ToRemote(d, local[d])' = ToRemote(d, local'[d])
      BY DEF ToRemote, Remote
    <3>2. /\ task'[d].pc = "upload" /\ task'[d].remote = ToRemote(d, local[d])'
          /\ task'[d].remote.author = d /\ d \in has'
      BY <1>1, <1>2, <1>6, <1>10, <2>2, <3>1
    <3>3. QED
      BY <1>7, <3>2 DEF TaskInv
  <2>3. QED
    BY <2>1, <2>2
<1>12. TypeOK'
  BY <1>2, <1>3, <1>10 DEF IInv, TypeOK, TaskType
<1>13. published' => Len(vlob') >= 1
  BY <1>2 DEF IInv
<1> HIDE DEF next
<1>14. QED
  BY <1>2, <1>3, <1>10, <1>11, <1>12, <1>13, RestPreserved

\* The last step of a minimal_sync preserves the invariant.
LEMMA MiniStepPreserves ==
  ASSUME IInv, Kind = "folder", NEW d \in Devices, MiniStep(d)
  PROVE  IInv'
<1>1. mini[d] \in MiniType /\ mini[d].pc = "step" /\ d \in has /\ Downloaded(mini[d].remote)
  BY Facts DEF MiniStep, MiniInv
<1>2. /\ StepStores(d, mini[d].remote, TRUE)
      /\ UNCHANGED <<vlob, has, published, task, late, backup, made, giveUps, crashes>>
      /\ mini' = [mini EXCEPT ![d] = MiniIdle]
  BY DEF MiniStep
<1>3. /\ local' \in [Devices -> Manifest] /\ disk' \in [Devices -> Manifest]
      /\ Core' /\ Grows
      /\ \A c \in Devices : Stored1(c)'
      /\ \A c \in Devices \ has : local'[c] = local[c]
  BY <1>1, <1>2, StepKeepsCore
<1>4. /\ mini' \in [Devices -> MiniType] /\ mini'[d] = MiniIdle
      /\ \A c \in Devices \ {d} : mini'[c] = mini[c]
  BY <1>2, IdleTypes, Facts
<1>5. MiniInv(d)'
  BY <1>4, IdleTypes DEF MiniInv
<1>6. TypeOK'
  BY <1>2, <1>3, <1>4 DEF IInv, TypeOK, MiniType
<1>7. published' => Len(vlob') >= 1
  BY <1>2 DEF IInv
<1>8. QED
  BY <1>2, <1>3, <1>4, <1>5, <1>6, <1>7, RestPreserved

\* An edit of the user preserves the invariant.
LEMMA EditPreserves ==
  ASSUME IInv, Kind = "folder", NEW d \in Devices, NEW e \in Edits, NEW reshaped \in BOOLEAN,
         Edit(d, e, reshaped)
  PROVE  IInv'
<1> DEFINE l == local[d]
           new == [l EXCEPT !.need = TRUE, !.content = l.content \cup {e}, !.reshaped = reshaped]
<1>1. /\ d \in has /\ e \notin made /\ reshaped = TRUE
      /\ local' = [local EXCEPT ![d] = new] /\ disk' = [disk EXCEPT ![d] = local'[d]]
      /\ made' = made \cup {e}
      /\ UNCHANGED <<vlob, has, published, task, mini, late, backup, giveUps, crashes>>
  <2>1. "folder" # "file"
    OBVIOUS
  <2>2. reshaped \/ Kind = "file"
    BY DEF Edit
  <2>3. reshaped = TRUE
    BY <2>1, <2>2
  <2>4. local' = [local EXCEPT ![d] = new]
    BY DEF Edit, Updated
  <2>5. disk' = [disk EXCEPT ![d] = local'[d]]
    BY DEF Edit
  <2>6. QED
    BY <2>3, <2>4, <2>5 DEF Edit
<1>2. /\ local \in [Devices -> Manifest] /\ disk \in [Devices -> Manifest] /\ l \in Manifest
      /\ Len(vlob) \in Nat
  BY DEF IInv, TypeOK
<1>3. /\ new \in Manifest /\ new.base = l.base /\ new.need = TRUE
      /\ new.content = l.content \cup {e} /\ new.reshaped = TRUE /\ l.base \in Nat
  BY <1>1, <1>2 DEF Manifest
<1> HIDE DEF new
<1>4. /\ local' \in [Devices -> Manifest] /\ disk' \in [Devices -> Manifest]
      /\ local'[d] = new /\ disk'[d] = new
      /\ \A c \in Devices \ {d} : local'[c] = local[c] /\ disk'[c] = disk[c]
  BY <1>1, <1>2, <1>3
<1>5. TypeOK'
  BY <1>1, <1>4 DEF IInv, TypeOK
<1>6. \A c \in Devices : Stored1(c)'
  BY <1>3, <1>4, Facts DEF Stored1
<1>7. ASSUME NEW c \in Devices PROVE BaseInv(c)' /\ OwnInv(c)'
  <2>1. BaseInv(c) /\ OwnInv(c)
    BY Facts DEF Core
  <2>2. CASE c = d
    BY <1>1, <1>3, <1>4, <2>1, <2>2 DEF BaseInv, OwnInv
  <2>3. CASE c # d
    BY <1>1, <1>4, <2>1, <2>3 DEF BaseInv, OwnInv
  <2>4. QED
    BY <2>2, <2>3
<1>8. NoEditLost'
  <2>1. Latest' = Latest
    BY <1>1 DEF Latest
  <2>2. ASSUME NEW f \in made
        PROVE  f \in Latest.content \/ f \in backup
               \/ \E c \in has : local'[c].need /\ f \in local'[c].content
    <3>1. CASE f \in Latest.content \/ f \in backup
      BY <3>1
    <3>2. ASSUME NEW c \in has, local[c].need, f \in local[c].content
          PROVE  local'[c].need /\ f \in local'[c].content
      BY <1>3, <1>4, <3>2, Facts
    <3>3. QED
      BY <3>1, <3>2, Facts DEF Core, NoEditLost
  <2>3. local'[d].need /\ e \in local'[d].content
    BY <1>3, <1>4
  <2>4. QED
    BY <1>1, <2>1, <2>2, <2>3 DEF NoEditLost
<1>9. Core'
  BY <1>1, <1>7, <1>8, Facts DEF Core, NothingReverted
<1>10. Grows
  <2>1. ASSUME NEW c \in Devices
        PROVE  local'[c].base >= local[c].base /\ local[c].content \subseteq local'[c].content
    <3>1. local[c].base \in Nat
      BY <1>2 DEF Manifest
    <3>2. QED
      BY <1>3, <1>4, <3>1
  <2>2. QED
    BY <1>1, <2>1 DEF Grows
<1>11. published' => Len(vlob') >= 1
  BY <1>1 DEF IInv
<1>12. \A c \in Devices \ has' : local'[c] = local[c]
  BY <1>1, <1>4
<1>13. QED
  BY <1>1, <1>5, <1>6, <1>9, <1>10, <1>11, <1>12, RestPreserved

\* Opening the entry on another device preserves the invariant.
LEMMA FetchPreserves ==
  ASSUME IInv, NEW d \in Devices, Fetch(d)
  PROVE  IInv'
<1> DEFINE new == FromRemote(Latest)
           n == Len(vlob)
<1>1. /\ published /\ d \notin has /\ has' = has \cup {d}
      /\ local' = [local EXCEPT ![d] = new] /\ disk' = [disk EXCEPT ![d] = new]
      /\ UNCHANGED <<vlob, published, task, mini, late, made, backup, giveUps, crashes>>
  BY DEF Fetch
<1>2. /\ local \in [Devices -> Manifest] /\ disk \in [Devices -> Manifest]
      /\ vlob \in Seq([author : Devices, content : SUBSET Edits])
      /\ n \in Nat /\ n >= 1 /\ DOMAIN vlob = 1..n
  BY <1>1 DEF IInv, TypeOK
<1>3. Latest.version = n /\ Latest.content = vlob[n].content
  BY <1>2 DEF Latest, Remote
<1>4. Latest.content \in SUBSET Edits
  BY Facts, LatestDownloaded DEF Downloaded, RemoteManifest
<1>5. /\ new \in Manifest /\ new.base = n /\ new.need = FALSE /\ new.reshaped = TRUE
      /\ new.content = vlob[n].content
  BY <1>2, <1>3, <1>4 DEF FromRemote, Manifest
<1>6. local[d].base = 0 /\ local[d].content = {}
  BY <1>1 DEF IInv, Placeholder
<1> HIDE DEF new
<1>7. /\ local' \in [Devices -> Manifest] /\ disk' \in [Devices -> Manifest]
      /\ local'[d] = new /\ disk'[d] = new
      /\ \A c \in Devices \ {d} : local'[c] = local[c] /\ disk'[c] = disk[c]
  BY <1>1, <1>2, <1>5
<1>8. TypeOK'
  BY <1>1, <1>7 DEF IInv, TypeOK
<1>9. \A c \in Devices : Stored1(c)'
  BY <1>5, <1>7, Facts DEF Stored1
<1>10. ASSUME NEW c \in Devices PROVE BaseInv(c)' /\ OwnInv(c)'
  <2>1. BaseInv(c) /\ OwnInv(c)
    BY Facts DEF Core
  <2>2. CASE c = d
    BY <1>1, <1>2, <1>5, <1>7, <2>2 DEF BaseInv, OwnInv
  <2>3. CASE c # d
    BY <1>1, <1>7, <2>1, <2>3 DEF BaseInv, OwnInv
  <2>4. QED
    BY <2>2, <2>3
<1>11. NoEditLost'
  <2>1. Latest' = Latest
    BY <1>1 DEF Latest
  <2>2. \A c \in has : c \in Devices \ {d} /\ c \in has'
    BY <1>1, Facts
  <2>3. QED
    BY <1>1, <1>7, <2>1, <2>2, Facts DEF Core, NoEditLost
<1>12. Core'
  BY <1>1, <1>10, <1>11, Facts DEF Core, NothingReverted
<1>13. Grows
  <2>1. ASSUME NEW c \in Devices
        PROVE  local'[c].base >= local[c].base /\ local[c].content \subseteq local'[c].content
    <3>1. local[c].base \in Nat
      BY <1>2 DEF Manifest
    <3>2. QED
      BY <1>2, <1>5, <1>6, <1>7, <3>1
  <2>2. QED
    BY <1>1, <2>1 DEF Grows
<1>14. (published' => Len(vlob') >= 1) /\ \A c \in Devices \ has' : local'[c] = local[c]
  BY <1>1, <1>2, <1>7
<1>15. QED
  BY <1>1, <1>8, <1>9, <1>12, <1>13, <1>14, RestPreserved

\* A crash preserves the invariant.
LEMMA CrashPreserves ==
  ASSUME IInv, NEW d \in Devices, Crash(d)
  PROVE  IInv'
<1>1. /\ crashes' = crashes + 1 /\ local' = [local EXCEPT ![d] = disk[d]]
      /\ late' = late \cup {t.remote : t \in {x \in {task[d], mini[d]} : x.pc = "upload"}}
      /\ task' = [task EXCEPT ![d] = Idle] /\ mini' = [mini EXCEPT ![d] = MiniIdle]
      /\ UNCHANGED <<vlob, disk, has, published, backup, made, giveUps>>
  BY DEF Crash
<1>2. local' = local
  <2>1. local \in [Devices -> Manifest] /\ disk[d] = local[d]
    BY DEF IInv, TypeOK, Stored1
  <2>2. QED
    BY <1>1, <2>1
<1>3. \A req : GoodRequest(req)' = GoodRequest(req)
  BY <1>1, <1>2 DEF GoodRequest
<1>4. \A req \in late' : req \in late \/ GoodRequest(req)
  BY <1>1, Facts DEF TaskInv, MiniInv
<1>5. late' \subseteq RemoteManifest
  BY <1>4, Facts DEF GoodRequest
<1>6. /\ task' \in [Devices -> TaskType] /\ mini' \in [Devices -> MiniType]
      /\ task'[d] = Idle /\ mini'[d] = MiniIdle
      /\ \A c \in Devices \ {d} : task'[c] = task[c] /\ mini'[c] = mini[c]
  BY <1>1, IdleTypes, Facts
<1>7. TaskInv(d)' /\ MiniInv(d)'
  BY <1>6, IdleTypes DEF TaskInv, MiniInv
<1>8. crashes' \in Nat /\ giveUps' \in Nat
  BY <1>1, Facts
<1>9. QED
  BY <1>1, <1>2, <1>3, <1>4, <1>5, <1>6, <1>7, <1>8, TaskStepPreserves

\* A folder is never in conflict.
LEMMA NoConflict ==
  ASSUME IInv, Kind = "folder", NEW d \in Devices
  PROVE  ~SyncConflict(d) /\ ~ConflictBackup(d) /\ ~ConflictReset(d)
<1>1. ~SyncConflict(d)
  BY DEF SyncConflict, FileConflict
<1>2. task[d].pc # "conflict" /\ task[d].pc # "reset"
  BY Facts DEF TaskInv
<1>3. QED
  BY <1>1, <1>2 DEF ConflictBackup, ConflictReset

\* A flush (there is nothing to flush for a folder) preserves the invariant.
LEMMA FlushPreserves ==
  ASSUME IInv, NEW d \in Devices, Flush(d)
  PROVE  IInv'
BY Facts DEF Flush, Stored1

\* Publishing the entry preserves the invariant.
LEMMA PublishPreserves ==
  ASSUME IInv, Publish
  PROVE  IInv'
<1>1. /\ published' = TRUE /\ local[Creator].base > 0
      /\ UNCHANGED <<vlob, local, disk, has, task, mini, late, backup, made, giveUps, crashes>>
  BY DEF Publish
<1>2. TypeOK'
  BY <1>1 DEF IInv, TypeOK
<1>3. Core' /\ Grows
  BY <1>1, Facts, SameCore, SameGrows
<1>4. Len(vlob') >= 1
  <2>1. local[Creator].base \in Nat /\ Len(vlob) \in Nat
    BY DeviceAssumption DEF IInv, TypeOK, Manifest
  <2>2. local[Creator].base <= Len(vlob)
    BY DeviceAssumption, Facts DEF Core, BaseInv
  <2>3. QED
    BY <1>1, <2>1, <2>2
<1>5. \A c \in Devices : Stored1(c)'
  BY <1>1, Facts DEF Stored1
<1>6. QED
  BY <1>1, <1>2, <1>3, <1>4, <1>5, RestPreserved

\* Every step of the specification preserves the invariant.
LEMMA NextInv ==
  ASSUME Kind = "folder", IInv, [Next]_vars
  PROVE  IInv'
<1>1. CASE UNCHANGED vars
  BY <1>1, Facts, TaskStepPreserves DEF vars
<1>2. CASE Publish
  BY <1>2, PublishPreserves
<1>3. ASSUME NEW req \in late, LateDelivery(req) PROVE IInv'
  BY <1>3, LateDeliveryPreserves
<1>4. ASSUME NEW d \in Devices, NEW e \in Edits, NEW reshaped \in BOOLEAN, Edit(d, e, reshaped)
      PROVE  IInv'
  BY <1>4, EditPreserves
<1>5. ASSUME NEW d \in Devices, Flush(d) \/ Fetch(d) \/ Crash(d) PROVE IInv'
  BY <1>5, FlushPreserves, FetchPreserves, CrashPreserves
<1>6. ASSUME NEW d \in Devices, NEW remoteChanged \in BOOLEAN, SyncStart(d, remoteChanged)
      PROVE  IInv'
  BY <1>6, SyncStartPreserves
<1>7. ASSUME NEW d \in Devices, Sync(d) PROVE IInv'
  BY <1>7, SyncStepPreserves, SyncUploadPreserves, SyncRefusedPreserves, SyncReloadPreserves,
     NoConflict DEF Sync
<1>8. ASSUME NEW d \in Devices, Minimal(d) PROVE IInv'
  BY <1>8, MiniStartPreserves, MiniUploadPreserves, MiniReloadPreserves, MiniStepPreserves
     DEF Minimal
<1>9. ASSUME NEW d \in Devices, SyncGiveUp(d) \/ MiniGiveUp(d) PROVE IInv'
  BY <1>9, SyncGiveUpPreserves, MiniGiveUpPreserves
<1>10. QED
  BY <1>1, <1>2, <1>3, <1>4, <1>5, <1>6, <1>7, <1>8, <1>9 DEF Next

\* The invariant holds in every reachable state.
THEOREM FolderInvariant == Kind = "folder" => (Spec => []IInv)
<1> SUFFICES ASSUME Kind = "folder" PROVE Spec => []IInv
  OBVIOUS
<1>1. IInv /\ [Next]_vars => IInv'
  BY NextInv
<1>2. QED
  BY InitInv, <1>1, PTL DEF Spec

\* Whatever requests of synchronization are lost, repeated or late, and whichever
\* device crashes, an edit of a folder is never lost.
THEOREM FolderEditsAreKept == Kind = "folder" => (Spec => []NoEditLost)
<1>1. IInv => NoEditLost
  BY DEF IInv, Core
<1>2. QED
  BY <1>1, FolderInvariant, PTL

\* No version of a folder takes back what an earlier one holds.
THEOREM FolderNeverReverted == Kind = "folder" => (Spec => []NothingReverted)
<1>1. IInv => NothingReverted
  BY DEF IInv, Core
<1>2. QED
  BY <1>1, FolderInvariant, PTL

\* merge_manifests may acknowledge a version of its own without looking at it.
THEOREM FolderAcknowledgesRightly == Kind = "folder" => (Spec => []OwnVersionsAreNext)
<1>1. ASSUME IInv PROVE OwnVersionsAreNext
  <2>1. DOMAIN vlob = 1..Len(vlob) /\ has \subseteq Devices
    BY <1>1 DEF IInv, TypeOK
  <2>2. QED
    BY <1>1, <2>1 DEF IInv, Core, OwnInv, OwnVersionsAreNext
<1>2. QED
  BY <1>1, FolderInvariant, PTL

\* A folder with nothing to sync is the version it is based on.
THEOREM FolderCleanIsRemote == Kind = "folder" => (Spec => []CleanIsRemote)
<1>1. ASSUME IInv PROVE CleanIsRemote
  <2>1. DOMAIN vlob = 1..Len(vlob) /\ has \subseteq Devices /\ Len(vlob) \in Nat
        /\ \A d \in Devices : local[d].base \in Nat
    BY <1>1 DEF IInv, TypeOK, Manifest
  <2>2. QED
    BY <1>1, <2>1 DEF IInv, Core, BaseInv, CleanIsRemote
<1>2. QED
  BY <1>1, FolderInvariant, PTL

=============================================================================

--------------------------- MODULE VersionLister ---------------------------
(***************************************************************************)
(* The history of a path: which version of which entry was there, and      *)
(* when.  Workers list the versions of the entries along the path and      *)
(* download their manifests, the earliest first; a limit on the downloads  *)
(* interrupts all of them, and the user may then ask for more.             *)
(* Timestamps are even numbers, so that the instant before one is odd.     *)
(***************************************************************************)
EXTENDS Integers, FiniteSets, Sequences, TLC

LOCAL INSTANCE FiniteSetsExt
LOCAL INSTANCE SequencesExt

CONSTANTS
  Histories,    \* what the server has: versions of each entry, the path asked for, now
  ListWorkers,  \* the workers
  QueryLimits,  \* limits of the downloads of one call (0: none)
  MaxLists      \* bound: calls

ASSUME HistoriesAssumption ==
  \A h \in Histories : 0 \in DOMAIN h.versions /\ MaxLists \in Nat /\ QueryLimits \subseteq Nat

VARIABLES
  hist, queryLimit, skipMinimal,  \* the setting (rigid)
  nodes,         \* the tree of tasks of the call
  heap,          \* the tasks to run
  working,       \* what each worker does
  counter,       \* downloads of the call
  cached,        \* the manifests in the cache: <<entry, version>>
  frames,        \* the timeframes for which a cached version was returned
  found,         \* return_dict
  listing,       \* "running", "done"
  listed,        \* the list returned
  listComplete,  \* the second result of list
  lists          \* calls so far

listVars == <<hist, queryLimit, skipMinimal, nodes, heap, working, counter, cached, frames, found,
              listing, listed, listComplete, lists>>

SyncGuessedTimeFrame == 6

-----------------------------------------------------------------------------
(* What the server answers (external) *)

Versions(id) == hist.versions[id]
VersionAt(id, t) == Cardinality({v \in DOMAIN Versions(id) : Versions(id)[v].ts <= t})
ManifestAt(id, t) == Versions(id)[VersionAt(id, t)]

-----------------------------------------------------------------------------
(* The cache of manifests *)

\* get, by a timestamp: a version whose timeframe contains it.
InFrame(t, id) == {v \in DOMAIN Versions(id) :
  <<id, v>> \in DOMAIN frames /\ frames[<<id, v>>][1] <= t /\ t <= frames[<<id, v>>][2]}

\* update: the timeframe of the version returned is widened.
WidenedOpen(k, times) == <<Min(times), hist.now>>
Widened(k, times) ==
  LET all == times \cup (IF k \in DOMAIN frames THEN {frames[k][1], frames[k][2]} ELSE {})
  IN <<Min(all), Max(all)>>

\* load, by a timestamp: from the cache, otherwise from the server.
LoadAt(id, t) == IF InFrame(t, id) # {} THEN CHOOSE v \in InFrame(t, id) : TRUE ELSE VersionAt(id, t)

NoPath == <<"none">>

\* get_path_at_timestamp: the names from the entry up to the root; a name is missing when
\* the entry was not in its parent at that time.
NameIn(children, id) == IF \E n \in DOMAIN children : children[n] = id
                        THEN <<CHOOSE n \in DOMAIN children : children[n] = id>> ELSE <<>>
Ancestors(id) == IF id = 0 THEN <<>>
                 ELSE LET p == Versions(id)[1].parent IN IF p = 0 THEN <<id, 0>> ELSE <<id, p, 0>>
PathAt(id, t) ==
  LET up == Ancestors(id)
      name(i) == LET p == up[i + 1] IN NameIn(Versions(p)[LoadAt(p, t)].children, up[i])
      steps == 1 .. Len(up) - 1
  IN CASE id = 0 -> <<>>
       [] \E i \in DOMAIN up : LoadAt(up[i], t) = 0 -> NoPath
       [] \E i \in steps : name(i) = <<>> -> NoPath
       [] OTHER -> [k \in steps |-> name(Len(up) - k)[1]]

\* The timeframes after the paths at some times were looked for.
FramesAfter(id, times) ==
  LET ids == Range(Ancestors(id)) \cup {id}
      keys == {<<i, LoadAt(i, t)>> : i \in ids, t \in times} \ (ids \X {0})
  IN [k \in keys |-> Widened(k, {t \in times : LoadAt(k[1], t) = k[2]})] @@ frames

-----------------------------------------------------------------------------
(* The tree of tasks *)

Root == [level |-> 0, id |-> 0, version |-> 0, early |-> 0, late |-> hist.now, parent |-> 0, completed |-> FALSE]
Children(ns, n) == {c \in DOMAIN ns : ns[c].parent = n}
NotWorking == [node |-> 0, step |-> "idle", id |-> 0]

\* mark_complete: the task, and its parent when all the children of it are complete.
Marked(ns, n) ==
  LET last == Len(hist.path) + 1
      up[k \in 0 .. last] == IF k = 0 THEN n ELSE IF up[k - 1] = 0 THEN 0 ELSE ns[up[k - 1]].parent
      complete == {up[k] : k \in {k \in 0 .. last : up[k] # 0 /\ \A j \in 1 .. k :
                     \A c \in Children(ns, up[j]) : ns[c].completed \/ c = up[j - 1]}}
  IN [i \in DOMAIN ns |-> IF i \in complete THEN [ns[i] EXCEPT !.completed = TRUE] ELSE ns[i]]

\* The end of run.
Ran(ns, n) == IF \A c \in Children(ns, n) : ns[c].completed THEN Marked(ns, n) ELSE ns

\* get_earliest_completed_consecutive_timestamp; children come after their parent.
EarliestConsecutive ==
  LET of[k \in 0 .. Len(nodes) - 1] ==
        LET n == Len(nodes) - k
            pending == {of[Len(nodes) - c] : c \in {c \in Children(nodes, n) : ~ nodes[c].completed}}
            done == {nodes[c].early : c \in {c \in Children(nodes, n) : nodes[c].completed}}
        IN IF nodes[n].completed \/ pending = {} THEN nodes[n].early
           ELSE LET later == {t \in done : t > Max(pending)}
                IN IF later = {} THEN Max(pending) ELSE Min(later)
  IN of[Len(nodes) - 1]

\* _populate_tree_list_versions: a task for each version, within the timeframe.
VersionTasks(n, level, id) ==
  LET vs == Versions(id)
  IN [v \in DOMAIN vs |->
        [level |-> level, id |-> id, version |-> v, parent |-> n, completed |-> FALSE,
         early |-> IF vs[v].ts > nodes[n].early THEN vs[v].ts ELSE nodes[n].early,
         late |-> IF v < Len(vs) /\ vs[v + 1].ts < nodes[n].late THEN vs[v + 1].ts ELSE nodes[n].late]]

-----------------------------------------------------------------------------
(* The list *)

MergedWith(previous, item) ==
  previous.id = item.id /\ previous.version = item.version /\ previous.late = item.early

\* The empty first version of a file, which the client uploads before its parent.
GuessedMinimal(previous, item) ==
  /\ skipMinimal /\ previous.id = item.id /\ previous.version = item.version - 1
  /\ previous.version = 1 /\ previous.size = 0 /\ previous.folder = item.folder
  /\ previous.late = item.early /\ previous.late < previous.early + SyncGuessedTimeFrame
  /\ previous.source = NoPath

SanitizeStep(acc, item) ==
  IF acc = <<>> THEN <<item>>
  ELSE LET previous == Last(acc)
       IN CASE MergedWith(previous, item) ->
                 Append(Front(acc), [item EXCEPT !.early = previous.early, !.source = previous.source])
            [] ~ MergedWith(previous, item) /\ GuessedMinimal(previous, item) -> Append(Front(acc), item)
            [] OTHER -> Append(acc, item)

ListedBefore(a, b) ==
  \/ a.late < b.late
  \/ a.late = b.late /\ a.id < b.id
  \/ a.late = b.late /\ a.id = b.id /\ a.version < b.version
  \/ a.late = b.late /\ a.id = b.id /\ a.version = b.version /\ a.early < b.early
InOrder(items) == [k \in 1 .. Cardinality(items) |->
  CHOOSE i \in items : Cardinality({j \in items : ListedBefore(j, i)}) = k - 1]
SanitizeList(items) == FoldLeft(SanitizeStep, <<>>, InOrder(items))

\* The end of list: everything, or what is before the timestamp up to which the tasks
\* are complete.
ReturnList(complete, items) ==
  /\ listing' = "done" /\ listComplete' = complete
  /\ listed' = SanitizeList(items)

-----------------------------------------------------------------------------
(* The workers *)

Rigid == UNCHANGED <<hist, queryLimit, skipMinimal>>

\* execute_one: the task with the lowest timestamp.
PopTask(w) ==
  /\ listing = "running" /\ working[w] = NotWorking
  /\ \E n \in heap :
       /\ \A m \in heap : nodes[n].early <= nodes[m].early
       /\ heap' = heap \ {n}
       /\ working' = [working EXCEPT ![w] =
            [node |-> n, id |-> nodes[n].id, step |-> IF n = 1 THEN "list" ELSE "load"]]
  /\ Rigid /\ UNCHANGED <<nodes, counter, cached, frames, found, listing, listed, listComplete, lists>>

ListVersions(w) ==
  /\ working[w].step = "list"
  /\ LET n == working[w].node
         tasks == VersionTasks(n, IF n = 1 THEN 0 ELSE nodes[n].level + 1, working[w].id)
         all == nodes \o tasks
     IN /\ nodes' = Ran(all, n)
        /\ heap' = heap \cup (Len(nodes) + 1 .. Len(all))
  /\ working' = [working EXCEPT ![w] = NotWorking]
  /\ Rigid /\ UNCHANGED <<counter, cached, frames, found, listing, listed, listComplete, lists>>

\* The rest of _populate_tree_load once the manifest is there.
Continue(w) ==
  LET n == working[w].node
      m == Versions(nodes[n].id)[nodes[n].version]
      level == nodes[n].level
  IN IF level = Len(hist.path)
       THEN working' = [working EXCEPT ![w].step = "paths"] /\ UNCHANGED nodes
     ELSE IF hist.path[level + 1] \in DOMAIN m.children
       THEN /\ working' = [working EXCEPT ![w].step = "list", ![w].id = m.children[hist.path[level + 1]]]
            /\ UNCHANGED nodes
     ELSE working' = [working EXCEPT ![w] = NotWorking] /\ nodes' = Ran(nodes, n)

LimitReached == queryLimit # 0 /\ counter >= queryLimit

\* _populate_tree_load and ManifestCacheCounter.load, which raises at the limit.
LoadManifest(w) ==
  /\ working[w].step = "load"
  /\ LET n == working[w].node
         key == <<nodes[n].id, nodes[n].version>>
     IN \/ /\ nodes[n].early > nodes[n].late
           /\ working' = [working EXCEPT ![w] = NotWorking] /\ nodes' = Ran(nodes, n)
           /\ UNCHANGED <<listing, listed, listComplete>>
        \/ /\ nodes[n].early <= nodes[n].late /\ ~ LimitReached
           /\ IF key \in cached THEN Continue(w)
              ELSE working' = [working EXCEPT ![w].step = "download"] /\ UNCHANGED nodes
           /\ UNCHANGED <<listing, listed, listComplete>>
        \/ /\ nodes[n].early <= nodes[n].late /\ LimitReached
           /\ \E until \in {EarliestConsecutive} :
                ReturnList(nodes[1].completed,
                           {i \in found : nodes[1].completed \/ i.early < until})
           /\ working' = [x \in ListWorkers |-> NotWorking] /\ UNCHANGED nodes
  /\ Rigid /\ UNCHANGED <<heap, counter, cached, frames, found, lists>>

CacheAfter(key) == cached \cup {key}

Downloaded(w) ==
  /\ working[w].step = "download"
  /\ LET n == working[w].node
     IN cached' = CacheAfter(<<nodes[n].id, nodes[n].version>>)
  /\ counter' = counter + 1
  /\ Continue(w)
  /\ Rigid /\ UNCHANGED <<heap, frames, found, listing, listed, listComplete, lists>>

\* populate_paths: where the entry was before, is now and is after; a path that is the
\* same as the current one is left out.
PopulatePaths(w) ==
  /\ working[w].step = "paths"
  /\ LET n == working[w].node
         t == nodes[n]
         m == Versions(t.id)[t.version]
     IN /\ \E before \in {PathAt(t.id, t.early - 1)}, here \in {PathAt(t.id, t.early)},
             after \in {PathAt(t.id, t.late)} :
             found' = found \cup
               {[id |-> t.id, version |-> t.version, early |-> t.early, late |-> t.late,
                 folder |-> m.kind = "folder", size |-> m.size,
                 source |-> IF before = here THEN NoPath ELSE before,
                 destination |-> IF after = here THEN NoPath ELSE after]}
        /\ frames' = FramesAfter(t.id, {t.early - 1, t.early, t.late})
        /\ cached' = cached \cup DOMAIN frames'
        /\ nodes' = Ran(nodes, n)
  /\ working' = [working EXCEPT ![w] = NotWorking]
  /\ Rigid /\ UNCHANGED <<heap, counter, listing, listed, listComplete, lists>>

\* The tasks are all done.
ListEnds ==
  /\ listing = "running" /\ heap = {} /\ \A w \in ListWorkers : working[w] = NotWorking
  /\ ReturnList(TRUE, found)
  /\ Rigid /\ UNCHANGED <<nodes, heap, working, counter, cached, frames, found, lists>>

\* The user asks for more: the same caches, a new call.
LoadMore ==
  /\ listing = "done" /\ ~ listComplete /\ lists < MaxLists
  /\ listing' = "running" /\ lists' = lists + 1
  /\ nodes' = <<Root>> /\ heap' = {1} /\ counter' = 0 /\ found' = {} /\ listed' = <<>>
  /\ Rigid /\ UNCHANGED <<working, cached, frames, listComplete>>

VersionInit ==
  /\ hist \in Histories /\ queryLimit \in QueryLimits /\ skipMinimal \in BOOLEAN
  /\ nodes = <<Root>> /\ heap = {1} /\ counter = 0 /\ found = {} /\ listed = <<>>
  /\ working = [w \in ListWorkers |-> NotWorking]
  /\ cached = {} /\ frames = <<>> /\ listing = "running" /\ listComplete = FALSE /\ lists = 1

VersionStep ==
  \/ \E w \in ListWorkers : PopTask(w) \/ ListVersions(w) \/ LoadManifest(w) \/ Downloaded(w) \/ PopulatePaths(w)
  \/ ListEnds
VersionNext == VersionStep \/ LoadMore
VersionSpec == VersionInit /\ [][VersionNext]_listVars
VersionFairSpec == VersionSpec /\ WF_listVars(VersionNext)

-----------------------------------------------------------------------------
(* Properties *)

\* Each worker has its own task, and the limit is exceeded by no more than the downloads
\* that were in progress when it was reached.
VersionTypeOK ==
  /\ \A v, w \in ListWorkers : working[v].node = working[w].node => v = w \/ working[v].node = 0
  /\ queryLimit # 0 => counter <= queryLimit + Cardinality(ListWorkers) - 1

\* What was at the path at a time, followed from the root.
AtPath(t) ==
  LET walk[k \in 0 .. Len(hist.path)] ==
        IF k = 0 THEN 0
        ELSE IF walk[k - 1] = -1 \/ VersionAt(walk[k - 1], t) = 0 THEN -1
        ELSE LET ch == ManifestAt(walk[k - 1], t).children
             IN IF hist.path[k] \in DOMAIN ch THEN ch[hist.path[k]] ELSE -1
  IN walk[Len(hist.path)]

\* The complete list is the history of the path: at every time, it has exactly the entry
\* and the version that were there (but for the empty first versions that it skips).
ListIsHistory ==
  listing = "done" /\ listComplete =>
    \A t \in 1 .. hist.now - 1 :
      LET here == {<<i.id, i.version>> : i \in {i \in Range(listed) : i.early <= t /\ t < i.late}}
          id == AtPath(t)
          true == IF id = -1 \/ VersionAt(id, t) = 0 THEN {} ELSE {<<id, VersionAt(id, t)>>}
      IN here = true \/ (skipMinimal /\ here = {} /\ VersionAt(id, t) = 1 /\ Versions(id)[1].size = 0)

\* A cached version is only returned for times at which it was the current one.
FramesAreTrue ==
  \A k \in DOMAIN frames : \A t \in {frames[k][1], frames[k][2]} : VersionAt(k[1], t) = k[2]

\* Asking for more ends with the complete list, whatever the limit.
MoreIsComplete == <>(listing = "done" /\ listComplete)

\* An incomplete list is a continuous one: no version is missing before the last one it has.
PartialIsContinuous ==
  listing = "done" /\ ~ listComplete /\ ~ skipMinimal =>
    \A t \in 1 .. hist.now - 1 :
      LET id == AtPath(t)
      IN (\E i \in Range(listed) : t < i.early) /\ id # -1 /\ VersionAt(id, t) # 0
           => \E i \in Range(listed) : i.early <= t /\ t < i.late

\* The list of the versions of a path is its history, in the frames of time it was there.
ListIsTrue == VersionTypeOK /\ ListIsHistory /\ FramesAreTrue
=============================================================================

-------------------------- MODULE FolderManifests --------------------------
(***************************************************************************)
(* The manifest of one folder, with the names of its children: local edits *)
(* of one device, versions uploaded by another device, the merge of the    *)
(* two, and the pattern filter.  Children whose names match the filter are *)
(* confined when they are local and filtered when they are remote: neither *)
(* is published nor removed by this device.  EntrySync and FileStorage     *)
(* abstract the names and the filter away.                                 *)
(***************************************************************************)
EXTENDS Naturals, FiniteSets, Sequences, TLC

LOCAL INSTANCE Functions
LOCAL INSTANCE SequencesExt

CONSTANTS
  BaseNames,   \* names that users give
  Filters,     \* the pattern filters that may be set, each the set of names it matches
  Crossing,    \* users may rename a child so that the filter matches another of its names
  MaxEdits,    \* bound: edits of children, on either device; ids of entries
  MaxFilters   \* bound: changes of the filter

ASSUME FolderAssumption ==
  /\ \A f \in Filters : f \subseteq BaseNames
  /\ {} \in Filters /\ Crossing \in BOOLEAN /\ MaxEdits \in Nat /\ MaxFilters \in Nat

VARIABLES
  localFolder,   \* the local manifest: base, children, need, confined, filtered, updated
  remoteFolder,  \* the last version on the server: children, version, author, updated
  filter,        \* the pattern filter of the local storage
  fullyApplied,  \* the filter is fully applied
  outgoing,      \* the version that the synchronization is about to upload, if any
  dropped,       \* entries that a merge of plain names dropped although nobody removed them
  failed,        \* an assertion failed
  edits, filters

folderVars == <<localFolder, remoteFolder, filter, fullyApplied, outgoing, dropped, failed,
                edits, filters>>

\* A name is what the user gave, followed by the suffixes of conflicts; full_name puts
\* them before the extension, so that they do not change what the filter matches.
FullName(name, suffixes) == name \o suffixes
Matches(f, name) == name[1] \in f
Names == {<<n>> : n \in BaseNames}

NoChildren == <<>>
Without(children, ids) == RestrictValues(children, LAMBDA id : id \notin ids)
NameOf(children, id) == CHOOSE n \in DOMAIN children : children[n] = id
Has(children, id) == id \in Range(children)

-----------------------------------------------------------------------------
(* The manifests of folders *)

\* The assertion of evolve_children_and_mark_updated: data gives an entry a name while
\* another name of it remains.
Duplicates(m, data) ==
  \E n \in DOMAIN data : data[n] # 0 /\ Has(Restrict(m.children, DOMAIN m.children \ DOMAIN data), data[n])

\* evolve_children_and_mark_updated: names are removed (0) and added; the manifest needs
\* a synchronization unless all of it is confined.
EvolveChildren(m, data, f, stamp) ==
  LET added == {n \in DOMAIN data : data[n] # 0}
      old == {m.children[n] : n \in DOMAIN data \cap DOMAIN m.children}
      updated == ~(old \subseteq m.confined) \/ \E n \in added : ~Matches(f, n)
  IN  [m EXCEPT !.children = Restrict(data, added) @@ Restrict(@, DOMAIN @ \ DOMAIN data),
                !.confined = (@ \ old) \cup {data[n] : n \in {x \in added : Matches(f, x)}},
                !.need = @ \/ updated,
                !.updated = IF updated THEN stamp ELSE @]

\* _filter_confined_entries.
FilterConfined(m) == [m EXCEPT !.children = Without(@, m.confined), !.confined = {}]

\* What _restore_confined_entries puts back.
PreviouslyConfined(m, other) ==
  RestrictValues(other.children, LAMBDA id : id \in other.confined \cup m.filtered)

RestoreConfined(m, other, f, stamp) ==
  EvolveChildren(m, PreviouslyConfined(m, other), f, stamp)

\* _filter_remote_entries.
FilterRemote(m, f) ==
  LET hit == {m.children[n] : n \in {x \in DOMAIN m.children : Matches(f, x)}}
  IN  IF hit = {} THEN m ELSE [m EXCEPT !.children = Without(@, hit), !.filtered = hit]

\* _restore_filtered_entries.
RestoreFiltered(m) ==
  [m EXCEPT !.children = RestrictValues(m.base.children, LAMBDA id : id \in m.filtered) @@ @,
            !.filtered = {}]

\* The first three steps of apply_filter.
Unfiltered(m, f) == FilterRemote(RestoreFiltered(FilterConfined(m)), f)

\* apply_filter, and whether its assertion fails.
ApplyFilter(m, f, stamp) == RestoreConfined(Unfiltered(m, f), m, f, stamp)
ApplyFilterFails(m, f) == Duplicates(Unfiltered(m, f), PreviouslyConfined(Unfiltered(m, f), m))

\* from_remote: the remote version with the filter, and the confined entries of the
\* local manifest.
Fetched(r, f) ==
  FilterRemote([base |-> r, children |-> r.children, need |-> FALSE, updated |-> r.updated,
                confined |-> {}, filtered |-> {}], f)
FromRemote(r, f, m, stamp) == RestoreConfined(Fetched(r, f), m, f, stamp)
FromRemoteFails(r, f, m) == Duplicates(Fetched(r, f), PreviouslyConfined(Fetched(r, f), m))

\* to_remote.
ToRemote(m) ==
  [children |-> RestoreFiltered(FilterConfined(m)).children, version |-> m.base.version + 1,
   author |-> "us", updated |-> m.updated]

\* match_remote.
MatchRemote(m, r) == ToRemote(m).children = r.children /\ m.updated = r.updated

-----------------------------------------------------------------------------
(* The merge of two sets of children *)

\* Who decides the name of an entry: "local", "remote", "both" (renamed on both sides) or
\* "removed".
Decides(id, base, loc, rem) ==
  LET name(c) == IF Has(c, id) THEN NameOf(c, id) ELSE <<>>
  IN  CASE name(base) = <<>> /\ name(loc) # <<>> -> "local"
        [] name(base) = <<>> /\ name(rem) # <<>> -> "remote"
        [] name(loc) = <<>> \/ name(rem) = <<>> -> "removed"
        [] name(loc) = name(rem) \/ name(base) = name(rem) -> "local"
        [] name(base) = name(loc) -> "remote"
        [] OTHER -> "both"

\* Mutant: a local child with the name of a remote one gets no other name.
AddLocalOverwrites(children, name, id) == (name :> id) @@ children

\* A local child that finds its name taken is renamed.
AddLocal(children, name, id) ==
  ((IF name \in DOMAIN children THEN FullName(name, <<"conflict">>) ELSE name) :> id) @@ children

\* merge_folder_children: the results for every order in which a set of ids may be gone
\* through; a child put under a name that is there takes it.
MergeFolderChildren(base, loc, rem) ==
  LET ids == Range(loc) \cup Range(rem)
      by(who) == {id \in ids : Decides(id, base, loc, rem) \in who}
      addRemote(c, id) ==
        (FullName(NameOf(rem, id),
                  IF id \in by({"both"}) THEN <<"renamed">> ELSE <<>>) :> id) @@ c
      addLocal(c, id) == AddLocal(c, NameOf(loc, id), id)
  IN  UNION {{FoldLeft(addLocal, FoldLeft(addRemote, NoChildren, r), l)
                : l \in SetToSeqs(by({"local"}))} : r \in SetToSeqs(by({"remote", "both"}))}

\* The entries that should remain after a merge.
Kept(base, loc, rem) ==
  {id \in Range(loc) \cup Range(rem) : Decides(id, base, loc, rem) # "removed"}

-----------------------------------------------------------------------------
(* The folder *)

FolderInit ==
  /\ \E f \in Filters :
       /\ filter = f
       /\ remoteFolder = [children |-> NoChildren, version |-> 1, author |-> "other", updated |-> 0]
       /\ localFolder = Fetched(remoteFolder, f)
  /\ fullyApplied = TRUE
  /\ outgoing = <<>>
  /\ dropped = {} /\ failed = FALSE
  /\ edits = 0 /\ filters = 0

\* Some filter matches one of the names and not the other.
Crosses(x, n) == \E f \in Filters : Matches(f, x) # Matches(f, n)

\* The changes of children that a user can make: create, delete, rename.
UserChanges(children) ==
  {(n :> edits + 1) : n \in Names \ DOMAIN children}
  \cup {(n :> 0) : n \in DOMAIN children}
  \cup UNION {{(n :> children[x]) @@ (x :> 0)
                 : n \in {y \in Names \ DOMAIN children : Crossing \/ ~Crosses(x, y)}}
              : x \in DOMAIN children}

\* An operation on entries changes the local manifest.
EditLocal(data) ==
  /\ edits < MaxEdits /\ ~failed
  /\ ~Duplicates(localFolder, data)
  /\ localFolder' = EvolveChildren(localFolder, data, filter, edits + 1)
  /\ edits' = edits + 1
  /\ UNCHANGED <<remoteFolder, filter, fullyApplied, outgoing, dropped, failed, filters>>

\* Another device, without a filter, uploads a version.
EditRemote(data) ==
  /\ edits < MaxEdits /\ ~failed
  /\ remoteFolder' = [children |-> Restrict(data, {n \in DOMAIN data : data[n] # 0})
                                     @@ Restrict(remoteFolder.children,
                                                 DOMAIN remoteFolder.children \ DOMAIN data),
                      version |-> remoteFolder.version + 1, author |-> "other",
                      updated |-> edits + 1]
  /\ edits' = edits + 1
  /\ UNCHANGED <<localFolder, filter, fullyApplied, outgoing, dropped, failed, filters>>

\* merge_manifests: the possible results, with the entries each has dropped.
MergeManifests(m, r) ==
  LET fetched == FromRemote(r, filter, m, 0)
      plain == \A n \in DOMAIN m.children \cup DOMAIN fetched.children : Len(n) = 1
      kept == IF plain THEN Kept(m.base.children, m.children, fetched.children) ELSE {}
  IN  CASE r.version <= m.base.version -> {<<m, {}>>}
        [] r.version > m.base.version /\ (~m.need \/ MatchRemote(m, r)) -> {<<fetched, {}>>}
        [] r.version > m.base.version /\ m.need /\ ~MatchRemote(m, r) /\ r.author = "us" ->
             {<<[m EXCEPT !.base = r], {}>>}
        [] OTHER -> {<<[fetched EXCEPT !.children = c, !.need = TRUE, !.updated = 0],
                       kept \ Range(c)>>
                     : c \in MergeFolderChildren(m.base.children, m.children, fetched.children)}

\* synchronization_step: apply a filter that is not fully applied, merge with the last
\* version, and prepare the next one.
SyncFolder ==
  LET m == IF fullyApplied THEN localFolder ELSE ApplyFilter(localFolder, filter, 0)
      fails == \/ ~fullyApplied /\ ApplyFilterFails(localFolder, filter)
               \/ remoteFolder.version > m.base.version /\ FromRemoteFails(remoteFolder, filter, m)
  IN  /\ ~failed
      /\ IF fails
           THEN failed' = TRUE /\ UNCHANGED <<localFolder, outgoing, dropped>>
           ELSE \E res \in MergeManifests(m, remoteFolder) :
                  /\ localFolder' = res[1]
                  /\ dropped' = dropped \cup res[2]
                  /\ outgoing' = IF res[1].need THEN <<ToRemote(res[1])>> ELSE <<>>
                  /\ UNCHANGED failed
      /\ UNCHANGED <<remoteFolder, filter, fullyApplied, edits, filters>>

\* The upload; a version that is already taken is refused and the synchronization starts
\* again.
UploadFolder ==
  /\ outgoing # <<>> /\ ~failed
  /\ outgoing' = <<>>
  /\ remoteFolder' = IF outgoing[1].version = remoteFolder.version + 1
                       THEN outgoing[1] ELSE remoteFolder
  /\ UNCHANGED <<localFolder, filter, fullyApplied, dropped, failed, edits, filters>>

\* set_pattern_filter, when the workspace is loaded: nothing is being synchronized.
SetFilter(f) ==
  /\ filters < MaxFilters /\ f # filter /\ outgoing = <<>> /\ ~failed
  /\ filters' = filters + 1
  /\ filter' = f
  /\ fullyApplied' = FALSE
  /\ UNCHANGED <<localFolder, remoteFolder, outgoing, dropped, failed, edits>>

\* apply_pattern_filter: the folder, then the flag.
ApplyPatternFilter ==
  /\ ~fullyApplied /\ ~failed
  /\ IF ApplyFilterFails(localFolder, filter)
       THEN failed' = TRUE /\ UNCHANGED <<localFolder, fullyApplied>>
       ELSE /\ localFolder' = ApplyFilter(localFolder, filter, 0)
            /\ fullyApplied' = TRUE
            /\ UNCHANGED failed
  /\ UNCHANGED <<remoteFolder, filter, outgoing, dropped, edits, filters>>

FolderNext ==
  \/ \E data \in UserChanges(localFolder.children) : EditLocal(data)
  \/ \E data \in UserChanges(remoteFolder.children) : EditRemote(data)
  \/ SyncFolder
  \/ UploadFolder
  \/ \E f \in Filters : SetFilter(f)
  \/ ApplyPatternFilter

FolderSpec == FolderInit /\ [][FolderNext]_folderVars

-----------------------------------------------------------------------------
(* Properties *)

Visible(children) == Restrict(children, {n \in DOMAIN children : ~Matches(filter, n)})
Hidden(children) == Restrict(children, {n \in DOMAIN children : Matches(filter, n)})

\* The manifests have their types, and no entry has two names in the local folder,
\* whatever was merged, filtered and restored.
FolderTypeOK ==
  /\ IsInjective(localFolder.children)
  /\ localFolder.confined \subseteq 1 .. MaxEdits
  /\ localFolder.filtered \subseteq 1 .. MaxEdits
  /\ remoteFolder.version \in Nat /\ localFolder.base.version <= remoteFolder.version
  /\ filter \in Filters

\* The assertion "Make sure no entry_id is duplicated" of
\* evolve_children_and_mark_updated (manifest.py:487) never fails in a synchronization.
AssertionsHold == ~failed

\* A version that the server accepts names every entry once.
VersionsNameOnce == IsInjective(remoteFolder.children)

\* What the filter hides is not the business of this device: the version it uploads has
\* the same hidden children as the one it replaces (to_remote, manifest.py:668), as long as
\* the filter has not changed: what the user removed before a filter was set stays removed.
HiddenIsKept ==
  outgoing # <<>> /\ filters = 0 /\ outgoing[1].version = remoteFolder.version + 1 =>
    Hidden(outgoing[1].children) = Hidden(remoteFolder.children)

\* A local manifest that needs no synchronization and is based on the last version would
\* upload that version again: no local change is left out of sight of the synchronization.
SyncedIsEqual ==
  ~localFolder.need /\ localFolder.base = remoteFolder /\ fullyApplied =>
    ToRemote(localFolder).children = remoteFolder.children

\* The comments at sync_transactions.py:152 and workspacefs.py:712: applying the filter
\* once more changes neither what is seen, what is confined nor what is uploaded.  (It
\* may forget filtered entries that the server does not have.)
FilterIsIdempotent ==
  LET once == ApplyFilter(localFolder, filter, 0)
  IN  ~fullyApplied /\ ~ApplyFilterFails(localFolder, filter) =>
        /\ ~ApplyFilterFails(once, filter)
        /\ LET twice == ApplyFilter(once, filter, 0) IN
             /\ twice.children = once.children /\ twice.confined = once.confined
             /\ twice.need = once.need
             /\ ToRemote(twice) = ToRemote(once)

\* A merge keeps every child that nobody removed, when no child has been renamed by an
\* earlier conflict.  Otherwise the new name may be one that another child has, which is
\* then lost (sync_transactions.py:137).
MergeKeepsChildren == dropped = {}

\* The manifests of a folder on their way to the server and back (manifest.py and
\* merge_folder_children): no assertion fails, no child is dropped by a merge, what is hidden
\* from the other devices is kept here, and a synchronized folder is the one on the server.
FolderIsSound ==
  /\ FolderTypeOK /\ AssertionsHold /\ VersionsNameOnce /\ HiddenIsKept
  /\ SyncedIsEqual /\ FilterIsIdempotent /\ MergeKeepsChildren
=============================================================================

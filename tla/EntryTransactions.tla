------------------------- MODULE EntryTransactions -------------------------
(***************************************************************************)
(* The tree of one workspace on one device: tasks (threads of a mountpoint *)
(* or the application) run transactions on paths.  A transaction follows   *)
(* its path one lock at a time, and then works under the lock of the       *)
(* entry, or under those of the parent and of the child.  The operations   *)
(* of WorkspaceFS and of the mountpoints are programs of transactions.     *)
(* A file descriptor stands for the entry it is open on; its data are a    *)
(* sequence of blocks (FileStorage models chunks and descriptors).         *)
(***************************************************************************)
EXTENDS Naturals, FiniteSets, Sequences, TLC

LOCAL INSTANCE Functions
LOCAL INSTANCE SequencesExt

CONSTANTS
  FsTasks,     \* the tasks
  BannedNames, \* the names that begin with a banned prefix
  TreeSetups   \* initial situations: tree, missing, role, and the call of each task

ASSUME TreeAssumption ==
  \A s \in TreeSetups : 0 \in DOMAIN s.tree /\ s.missing \subseteq DOMAIN s.tree

VARIABLES
  entries,     \* the manifests: kind, children, data
  missing,     \* entries that are not in the local storage yet
  entryLocks,  \* who holds the lock of an entry
  wsRole,      \* the role of the user in the workspace
  stack,       \* what each task has still to do, the next call first
  result,      \* what the last call of each task returned
  at,          \* where each task is in its transaction
  initial      \* the data of the files at the beginning, for the properties

treeVars == <<entries, missing, entryLocks, wsRole, stack, result, at, initial>>

-----------------------------------------------------------------------------
(* Calls, results and paths *)

FsNobody == "nobody"
FsRoot == <<>>
Call(fn, path) == [fn |-> fn, path |-> path, dest |-> FsRoot, opts |-> {}, id |-> 0, data |-> <<>>, off |-> 0]
Call2(fn, path, dest) == [Call(fn, path) EXCEPT !.dest = dest]
With(c, opts) == [c EXCEPT !.opts = opts]
OnFd(fn, c, id) == [c EXCEPT !.fn = fn, !.id = id]

Done == [err |-> "", kind |-> "", names |-> {}, id |-> 0, data |-> <<>>]
Raised(err) == [Done EXCEPT !.err = err]
Stats(id) == [Done EXCEPT !.kind = entries[id].kind, !.names = DOMAIN entries[id].children, !.id = id]

NewFolder == [kind |-> "folder", children |-> <<>>, data |-> <<>>]
NewFile == [kind |-> "file", children |-> <<>>, data |-> <<>>]
IsFolder(id) == entries[id].kind = "folder"

Rooted(path) == path = FsRoot
PathParent(path) == IF Rooted(path) THEN path ELSE Front(path)

\* The transactions, by how they lock: nothing but the path, the entry, the parent and
\* the child, or the file of a descriptor.
InfoCalls == {"entry_info"}
EntryCalls == {"file_open", "file_resize"}
ParentCalls == {"entry_rename", "folder_delete", "file_delete", "folder_create", "file_create"}
FdCalls == {"fd_read", "fd_write", "fd_resize"}
FsTransactions == InfoCalls \cup EntryCalls \cup ParentCalls \cup FdCalls

NotWalking == [step |-> "idle", cur |-> 0, rest |-> <<>>, parent |-> 0, child |-> 0]
Walking(step, path) == [NotWalking EXCEPT !.step = step, !.rest = path]

-----------------------------------------------------------------------------
(* WorkspaceFS: what a compound call does next, given what the last call returned *)

Then(calls) == [push |-> calls, res |-> Done]
Raise(err) == [push |-> <<>>, res |-> Raised(err)]
Return(r) == [push |-> <<>>, res |-> r]

Mkdir(c) ==
  IF Rooted(c.path) /\ "exist_ok" \in c.opts THEN Then(<<>>)
  ELSE Then(<<Call("folder_create", c.path), [c EXCEPT !.fn = "mkdir created"]>>)

\* The parents are made first when one is missing; an existing entry must be a folder.
MkdirCreated(c, r) ==
  CASE r.err = "FileNotFound" /\ "parents" \in c.opts /\ ~ Rooted(c.path) ->
         Then(<<With(Call("mkdir", PathParent(c.path)), {"parents", "exist_ok"}),
                With(Call("mkdir", c.path), c.opts \ {"parents"})>>)
    [] r.err = "FileExists" /\ "exist_ok" \in c.opts ->
         Then(<<Call("entry_info", c.path), Call("must be folder", c.path)>>)
    [] OTHER -> Return(r)

MustBeFolder(r) == IF r.kind = "folder" THEN Return(Done) ELSE Raise("FileExists")

Touch(c) == Then(<<Call("file_create", c.path), [c EXCEPT !.fn = "touched"]>>)
Touched(c, r) == IF r.err = "FileExists" /\ "exist_ok" \in c.opts THEN Then(<<>>) ELSE Return(r)

\* open_file: whether the file exists decides between creating and opening it; the modes
\* w and x then truncate it (ainit).
OpenFile(c) ==
  IF "x" \in c.opts THEN Then(<<Call("file_create", c.path), [c EXCEPT !.fn = "opened"]>>)
  ELSE Then(<<Call("entry_info", c.path), [c EXCEPT !.fn = "open existing"]>>)
OpenExisting(c, r) ==
  LET opened == [c EXCEPT !.fn = "opened"]
  IN CASE r.err \in {"FileNotFound", "NotADirectory"} /\ c.opts \cap {"a", "w"} # {} ->
            Then(<<Call("file_create", c.path), opened>>)
       [] r.err \notin {"", "FileNotFound", "NotADirectory"} -> Return(r)
       [] OTHER -> Then(<<With(Call("file_open", c.path), c.opts), opened>>)
Opened(c, r) ==
  IF c.opts \cap {"w", "x"} = {} THEN Return(r) ELSE Then(<<OnFd("fd_resize", c, r.id)>>)

ReadBytes(c) == Then(<<Call("file_open", c.path), [c EXCEPT !.fn = "read opened"]>>)
ReadOpened(c, r) == Then(<<OnFd("fd_read", c, r.id)>>)

\* write_bytes creates the file or opens it, and truncates it at the offset.
WriteBytes(c) == Then(<<Call("file_create", c.path), [c EXCEPT !.fn = "write created"]>>)
WriteCreated(c, r) ==
  CASE r.err = "FileExists" -> Then(<<With(Call("file_open", c.path), {"w"}), [c EXCEPT !.fn = "write opened"]>>)
    [] r.err = "" -> Then(<<OnFd("fd_resize", c, r.id), OnFd("fd_write", c, r.id)>>)
    [] OTHER -> Return(r)
WriteOpened(c, r) == Then(<<OnFd("fd_resize", c, r.id), OnFd("fd_write", c, r.id)>>)

\* copyfile: one block after the other, each opened by its path again.
CopyFile(c) == Then(<<Call("touch", c.dest), [c EXCEPT !.fn = "copy block"]>>)
CopyBlock(c) == Then(<<[c EXCEPT !.fn = "read bytes"], [c EXCEPT !.fn = "copy read"]>>)
CopyRead(c, r) ==
  IF r.data = <<>> THEN Then(<<>>)
  ELSE Then(<<[Call("write bytes", c.dest) EXCEPT !.data = r.data, !.off = c.off],
              [c EXCEPT !.fn = "copy block", !.off = c.off + 1]>>)

\* The children of a listing, in some order.
Listed(names) == SetToSeq(names)
Each(names, Do(_)) == [i \in DOMAIN Listed(names) |-> Do(Listed(names)[i])]

CopyTree(c) == Then(<<Call("entry_info", c.path), [c EXCEPT !.fn = "copy listed"]>>)
CopyListed(c, r) ==
  IF r.kind = "file" THEN Raise("NotADirectory")
  ELSE Then(<<Call("mkdir", c.dest)>> \o
            Each(r.names, LAMBDA n : Call2("copy entry", Append(c.path, n), Append(c.dest, n))))
CopyEntry(c) == Then(<<Call("entry_info", c.path), [c EXCEPT !.fn = "copy known"]>>)
CopyKnown(c, r) ==
  IF r.kind = "folder" THEN Then(<<[c EXCEPT !.fn = "copytree"]>>)
  ELSE Then(<<Call("entry_info", c.path), [c EXCEPT !.fn = "copy checked"]>>)
CopyChecked(c, r) == Then(IF r.kind = "file" THEN <<[c EXCEPT !.fn = "copyfile"]>> ELSE <<>>)

RmTree(c) == Then(<<Call("entry_info", c.path), [c EXCEPT !.fn = "rm listed"]>>)
RmListed(c, r) ==
  IF r.kind = "file" THEN Raise("NotADirectory")
  ELSE Then(Each(r.names, LAMBDA n : Call("rm entry", Append(c.path, n))) \o <<Call("folder_delete", c.path)>>)
RmEntry(c) == Then(<<Call("entry_info", c.path), [c EXCEPT !.fn = "rm known"]>>)
RmKnown(c, r) == Then(<<Call(IF r.kind = "folder" THEN "rmtree" ELSE "file_delete", c.path)>>)

\* move: into the destination when it is a folder; a rename when the parents are the
\* same, otherwise a copy and then a deletion of the source.
Move(c) ==
  IF IsPrefix(c.path, c.dest) THEN Raise("InvalidArgument")
  ELSE Then(<<Call("entry_info", c.dest), [c EXCEPT !.fn = "move known"]>>)
MoveTo(c, dest) ==
  IF PathParent(c.path) = PathParent(dest)
    THEN Then(<<With(Call2("entry_rename", c.path, dest), {"overwrite"})>>)
    ELSE Then(<<Call("entry_info", c.path), [c EXCEPT !.fn = "move source", !.dest = dest]>>)
MoveKnown(c, r) ==
  LET inside == Append(c.dest, Last(c.path))
  IN CASE r.err = "" /\ r.kind = "folder" ->
            Then(<<Call("entry_info", inside), [c EXCEPT !.fn = "move free", !.dest = inside]>>)
       [] r.err \in {"", "FileNotFound"} -> MoveTo(c, c.dest)
       [] OTHER -> Return(r)
MoveFree(c, r) ==
  CASE r.err = "" -> Raise("FileExists")
    [] r.err \in {"FileNotFound", "NotADirectory"} -> MoveTo(c, c.dest)
    [] OTHER -> Return(r)
MoveSource(c, r) ==
  IF r.kind = "folder" THEN Then(<<[c EXCEPT !.fn = "copytree"], Call("rmtree", c.path)>>)
  ELSE Then(<<[c EXCEPT !.fn = "copyfile"], Call("file_delete", c.path)>>)

-----------------------------------------------------------------------------
(* The mountpoints *)

WriteRightRoles == {"OWNER", "MANAGER", "CONTRIBUTOR"}
CheckReadRights == wsRole # "NONE"
CheckWriteRights == wsRole \in WriteRightRoles
RightsError == IF CheckReadRights THEN "ReadOnly" ELSE "NoAccess"

IsBanned(path) == ~ Rooted(path) /\ Last(path) \in BannedNames

FuseCreate(c) == IF IsBanned(c.path) THEN Raise("Access") ELSE Then(<<Call("file_create", c.path)>>)
FuseMkdir(c) == IF IsBanned(c.path) THEN Raise("Access") ELSE Then(<<Call("folder_create", c.path)>>)
FuseRename(c) == Then(<<With(Call2("entry_rename", c.path, c.dest), {"overwrite"})>>)
FuseReaddir(c) == Then(<<Call("entry_info", c.path), Call("fuse listed", c.path)>>)
FuseListed(r) == IF r.kind = "file" THEN Raise("NotADirectory") ELSE Return(r)

WinCreate(c) == Then(<<Call(IF "directory" \in c.opts THEN "folder_create" ELSE "file_create", c.path)>>)
WinRename(c) == Then(<<With(Call2("entry_rename", c.path, c.dest), c.opts)>>)

\* A deletion: open, can_delete and cleanup, which deletes by the name.
WinDelete(c) == Then(<<Call("file_open", c.path), [c EXCEPT !.fn = "win opened"]>>)
WinOpened(c, r) ==
  CASE r.err \notin {"", "IsADirectory"} -> Return(r)
    [] ~ CheckWriteRights -> Raise(RightsError)
    [] OTHER -> Then(<<Call("entry_info", c.path),
                       [c EXCEPT !.fn = "win cleanup", !.opts = IF r.err = "" THEN {"file"} ELSE {}]>>)
WinCleanup(c, r) ==
  CASE r.kind = "folder" /\ Rooted(c.path) -> Raise("ReadOnly")
    [] r.kind = "folder" /\ r.names # {} -> Raise("NotEmpty")
    [] OTHER -> Then(<<Call(IF "file" \in c.opts THEN "file_delete" ELSE "folder_delete", c.path)>>)

\* A listing asks for the folder, its parent and then for each child.
WinReadDirectory(c) == Then(<<Call("entry_info", c.path), [c EXCEPT !.fn = "win listed"]>>)
WinListed(c, r) ==
  IF r.kind = "file" THEN Raise("NotADirectory")
  ELSE Then((IF Rooted(c.path) THEN <<>> ELSE <<Call("entry_info", PathParent(c.path))>>) \o
            Each(r.names, LAMBDA n : Call("entry_info", Append(c.path, n))))

-----------------------------------------------------------------------------
(* Programs *)

\* The calls that catch an error of the call before them.
Handlers == {"mkdir created", "touched", "open existing", "write created", "move known",
             "move free", "win opened"}

React(c, r) ==
  CASE c.fn = "mkdir" -> Mkdir(c)              [] c.fn = "mkdir created" -> MkdirCreated(c, r)
    [] c.fn = "must be folder" -> MustBeFolder(r)
    [] c.fn = "touch" -> Touch(c)              [] c.fn = "touched" -> Touched(c, r)
    [] c.fn = "open file" -> OpenFile(c)       [] c.fn = "open existing" -> OpenExisting(c, r)
    [] c.fn = "opened" -> Opened(c, r)
    [] c.fn = "read bytes" -> ReadBytes(c)     [] c.fn = "read opened" -> ReadOpened(c, r)
    [] c.fn = "write bytes" -> WriteBytes(c)   [] c.fn = "write created" -> WriteCreated(c, r)
    [] c.fn = "write opened" -> WriteOpened(c, r)
    [] c.fn = "copyfile" -> CopyFile(c)        [] c.fn = "copy block" -> CopyBlock(c)
    [] c.fn = "copy read" -> CopyRead(c, r)    [] c.fn = "copytree" -> CopyTree(c)
    [] c.fn = "copy listed" -> CopyListed(c, r) [] c.fn = "copy entry" -> CopyEntry(c)
    [] c.fn = "copy known" -> CopyKnown(c, r)  [] c.fn = "copy checked" -> CopyChecked(c, r)
    [] c.fn = "rmtree" -> RmTree(c)            [] c.fn = "rm listed" -> RmListed(c, r)
    [] c.fn = "rm entry" -> RmEntry(c)         [] c.fn = "rm known" -> RmKnown(c, r)
    [] c.fn = "move" -> Move(c)                [] c.fn = "move known" -> MoveKnown(c, r)
    [] c.fn = "move free" -> MoveFree(c, r)    [] c.fn = "move source" -> MoveSource(c, r)
    [] c.fn = "fuse create" -> FuseCreate(c)   [] c.fn = "fuse mkdir" -> FuseMkdir(c)
    [] c.fn = "fuse rename" -> FuseRename(c)   [] c.fn = "fuse readdir" -> FuseReaddir(c)
    [] c.fn = "fuse listed" -> FuseListed(r)
    [] c.fn = "win create" -> WinCreate(c)     [] c.fn = "win rename" -> WinRename(c)
    [] c.fn = "win delete" -> WinDelete(c)     [] c.fn = "win opened" -> WinOpened(c, r)
    [] c.fn = "win cleanup" -> WinCleanup(c, r)
    [] c.fn = "win readdir" -> WinReadDirectory(c) [] c.fn = "win listed" -> WinListed(c, r)

Top(t) == Head(stack[t])
Running(t, fns) == stack[t] # <<>> /\ Top(t).fn \in fns
InCompound(t) == stack[t] # <<>> /\ Top(t).fn \notin FsTransactions

\* An error leaves the calls that do not catch it.
FsUnwind(t) ==
  /\ stack[t] # <<>> /\ at[t].step = "idle"
  /\ result[t].err # "" /\ Top(t).fn \notin Handlers
  /\ stack' = [stack EXCEPT ![t] = Tail(@)]
  /\ UNCHANGED <<entries, missing, entryLocks, wsRole, result, at, initial>>

FsResume(t) ==
  /\ InCompound(t) /\ (result[t].err = "" \/ Top(t).fn \in Handlers)
  /\ LET next == React(Top(t), result[t])
     IN /\ stack' = [stack EXCEPT ![t] = next.push \o Tail(@)]
        /\ result' = [result EXCEPT ![t] = next.res]
  /\ UNCHANGED <<entries, missing, entryLocks, wsRole, at, initial>>

-----------------------------------------------------------------------------
(* Transactions *)

Free(id) == entryLocks[id] = FsNobody
Held(t) == {id \in DOMAIN entryLocks : entryLocks[id] = t}
Unlocked(t) == [id \in DOMAIN entryLocks |-> IF entryLocks[id] = t THEN FsNobody ELSE entryLocks[id]]

\* The transaction ends: its locks are released and its caller gets the result.
FsReturn(t, r) ==
  /\ stack' = [stack EXCEPT ![t] = Tail(@)]
  /\ result' = [result EXCEPT ![t] = r]
  /\ at' = [at EXCEPT ![t] = NotWalking]

\* The path whose entry a transaction locks.
Target(c) == CASE c.fn = "entry_rename" -> PathParent(c.dest)
               [] c.fn \in ParentCalls -> PathParent(c.path)
               [] OTHER -> c.path
ChildName(c) == Last(IF c.fn = "entry_rename" THEN c.dest ELSE c.path)
NeedsWrite(c) == c.fn \in ParentCalls \cup {"file_resize"} \/ (c.fn = "file_open" /\ "w" \in c.opts)

\* What is refused before any lock is taken.
Refusal(c) ==
  CASE c.fn \in FdCalls -> ""
    [] ~ CheckReadRights \/ (NeedsWrite(c) /\ ~ CheckWriteRights) -> RightsError
    [] c.fn \in ParentCalls /\ Rooted(c.path) -> "Permission"
    [] c.fn = "entry_rename" /\ Rooted(c.dest) -> "Permission"
    [] c.fn = "entry_rename" /\ PathParent(c.path) # PathParent(c.dest) -> "CrossDevice"
    [] OTHER -> ""

FsBegin(t) ==
  /\ Running(t, FsTransactions) /\ at[t].step = "idle" /\ result[t].err = ""
  /\ LET c == Top(t)
     IN IF Refusal(c) # "" THEN FsReturn(t, Raised(Refusal(c)))
        ELSE /\ at' = [at EXCEPT ![t] =
                  CASE c.fn \in FdCalls -> [Walking("walk", FsRoot) EXCEPT !.cur = c.id]
                    [] c.fn = "entry_rename" /\ "overwrite" \in c.opts -> Walking("prefetch", c.path)
                    [] OTHER -> Walking("walk", Target(c))]
             /\ UNCHANGED <<stack, result>>
  /\ UNCHANGED <<entries, missing, entryLocks, wsRole, initial>>

\* _load_and_lock_manifest: the lock of an entry, and its manifest from the server when
\* it is not local.
Moving(t) == at[t].step \in {"prefetch", "walk", "fetch"}
FsLockToLoad(t) ==
  /\ Moving(t) /\ at[t].cur \in missing /\ Free(at[t].cur)
  /\ entryLocks' = [entryLocks EXCEPT ![at[t].cur] = t]
  /\ UNCHANGED <<entries, missing, wsRole, stack, result, at, initial>>

FsLoaded(t) ==
  /\ Moving(t) /\ at[t].cur \in missing /\ at[t].cur \in Held(t)
  /\ entryLocks' = Unlocked(t)
  /\ \/ missing' = missing \ {at[t].cur} /\ UNCHANGED <<stack, result, at>>
     \/ FsReturn(t, Raised("Offline")) /\ UNCHANGED missing
  /\ UNCHANGED <<entries, wsRole, initial>>

\* _entry_id_from_path: one name of the path.
FsWalk(t) ==
  /\ at[t].step \in {"prefetch", "walk"} /\ at[t].rest # <<>>
  /\ at[t].cur \notin missing /\ Free(at[t].cur)
  /\ LET m == entries[at[t].cur]
         name == Head(at[t].rest)
     IN CASE m.kind = "file" -> FsReturn(t, Raised("NotADirectory"))
          [] m.kind = "folder" /\ name \notin DOMAIN m.children -> FsReturn(t, Raised("FileNotFound"))
          [] OTHER -> /\ at' = [at EXCEPT ![t].cur = m.children[name], ![t].rest = Tail(@)]
                      /\ UNCHANGED <<stack, result>>
  /\ UNCHANGED <<entries, missing, entryLocks, wsRole, initial>>

\* The end of the path, when only the manifest was wanted.
FsInfo(t) ==
  /\ at[t].rest = <<>> /\ at[t].cur \notin missing /\ Free(at[t].cur)
  /\ \/ /\ at[t].step = "walk" /\ Top(t).fn \in InfoCalls
        /\ FsReturn(t, Stats(at[t].cur))
     \/ /\ at[t].step \in {"prefetch", "fetch"}
        /\ at' = [at EXCEPT ![t] = Walking("walk", Target(Top(t)))]
        /\ UNCHANGED <<stack, result>>
  /\ UNCHANGED <<entries, missing, entryLocks, wsRole, initial>>

FsLock(t) ==
  /\ at[t].step = "walk" /\ at[t].rest = <<>> /\ Top(t).fn \notin InfoCalls
  /\ at[t].cur \notin missing /\ Free(at[t].cur)
  /\ entryLocks' = [entryLocks EXCEPT ![at[t].cur] = t]
  /\ at' = [at EXCEPT ![t].step = "locked", ![t].parent = at[t].cur]
  /\ UNCHANGED <<entries, missing, wsRole, stack, result, initial>>

\* Data at a block: what is beyond the end is filled with empty blocks.
Resized(data, n) == [i \in 1 .. n |-> IF i <= Len(data) THEN data[i] ELSE 0]
Written(data, off, new) ==
  LET old == IF Len(data) < off THEN Resized(data, off) ELSE data
  IN [i \in 1 .. IF Len(old) > off + Len(new) THEN Len(old) ELSE off + Len(new) |->
        IF i > off /\ i <= off + Len(new) THEN new[i - off] ELSE old[i]]

FsEntry(t) ==
  /\ at[t].step = "locked" /\ Top(t).fn \in EntryCalls \cup FdCalls
  /\ LET c == Top(t)
         id == at[t].cur
         file == entries[id]
     IN IF file.kind # "file"
          THEN FsReturn(t, Raised("IsADirectory")) /\ UNCHANGED entries
          ELSE /\ entries' = [entries EXCEPT ![id].data =
                     CASE c.fn \in {"file_resize", "fd_resize"} -> Resized(@, c.off)
                       [] c.fn = "fd_write" /\ c.data # <<>> -> Written(@, c.off, c.data)
                       [] OTHER -> @]
               /\ FsReturn(t, [Done EXCEPT !.id = id, !.data =
                     IF c.fn = "fd_read" /\ c.off < Len(file.data) THEN <<file.data[c.off + 1]>> ELSE <<>>])
  /\ entryLocks' = Unlocked(t)
  /\ UNCHANGED <<missing, wsRole, initial>>

\* _lock_parent_manifest_from_path, under the lock of the parent: the child, if there is
\* one, is locked too; a child that is not local is loaded without the locks.
FsLockChild(t) ==
  /\ at[t].step = "locked" /\ Top(t).fn \in ParentCalls
  /\ LET name == ChildName(Top(t))
         parent == entries[at[t].parent]
     IN \/ /\ parent.kind # "folder"
           /\ FsReturn(t, Raised("NotADirectory"))
           /\ entryLocks' = Unlocked(t)
        \/ /\ parent.kind = "folder" /\ name \notin DOMAIN parent.children
           /\ at' = [at EXCEPT ![t].step = "apply"]
           /\ UNCHANGED <<entryLocks, stack, result>>
        \/ /\ name \in DOMAIN parent.children
           /\ LET id == parent.children[name]
              IN /\ Free(id)
                 /\ IF id \in missing
                      THEN /\ at' = [at EXCEPT ![t] = [NotWalking EXCEPT !.step = "fetch", !.cur = id]]
                           /\ entryLocks' = Unlocked(t)
                      ELSE /\ at' = [at EXCEPT ![t].step = "apply", ![t].child = id]
                           /\ entryLocks' = [entryLocks EXCEPT ![id] = t]
                 /\ UNCHANGED <<stack, result>>
  /\ UNCHANGED <<entries, missing, wsRole, initial>>

Removed(children, name) == Restrict(children, DOMAIN children \ {name})

\* entry_rename under the locks: what it answers (the empty string when it may rename).
RenameError(c, children, child) ==
  LET source == children[Last(c.path)]
  IN CASE Last(c.path) \notin DOMAIN children -> "FileNotFound"
       [] c.path = c.dest -> "same"
       [] child = 0 -> ""
       [] "overwrite" \notin c.opts -> "FileExists"
       [] ~ IsFolder(source) /\ IsFolder(child) -> "IsADirectory"
       [] IsFolder(source) /\ ~ IsFolder(child) -> "NotADirectory"
       [] IsFolder(source) /\ DOMAIN entries[child].children # {} -> "NotEmpty"
       [] OTHER -> ""
RenamedChildren(c, children) ==
  (Last(c.dest) :> children[Last(c.path)]) @@ Removed(children, Last(c.path))

FsRename(t) ==
  /\ at[t].step = "apply" /\ Running(t, {"entry_rename"})
  /\ LET c == Top(t)
         p == at[t].parent
         err == RenameError(c, entries[p].children, at[t].child)
     IN /\ entries' = IF err = "" THEN [entries EXCEPT ![p].children = RenamedChildren(c, @)] ELSE entries
        /\ FsReturn(t, Raised(IF err = "same" THEN "" ELSE err))
  /\ entryLocks' = Unlocked(t)
  /\ UNCHANGED <<missing, wsRole, initial>>

DeleteErrorFull(c, child) ==
  CASE child = 0 -> "FileNotFound"
    [] c.fn = "folder_delete" /\ ~ IsFolder(child) -> "NotADirectory"
    [] c.fn = "file_delete" /\ IsFolder(child) -> "IsADirectory"
    [] OTHER -> ""
DeleteError(c, child) ==
  CASE child = 0 -> "FileNotFound"
    [] c.fn = "folder_delete" /\ ~ IsFolder(child) -> "NotADirectory"
    [] c.fn = "folder_delete" /\ DOMAIN entries[child].children # {} -> "NotEmpty"
    [] c.fn = "file_delete" /\ IsFolder(child) -> "IsADirectory"
    [] OTHER -> ""

FsDelete(t) ==
  /\ at[t].step = "apply" /\ Running(t, {"folder_delete", "file_delete"})
  /\ LET c == Top(t)
         err == DeleteError(c, at[t].child)
     IN /\ entries' = IF err # "" THEN entries
                      ELSE [entries EXCEPT ![at[t].parent].children = Removed(@, Last(c.path))]
        /\ FsReturn(t, Raised(err))
  /\ entryLocks' = Unlocked(t)
  /\ UNCHANGED <<missing, wsRole, initial>>

FsCreate(t) ==
  /\ at[t].step = "apply" /\ Running(t, {"folder_create", "file_create"})
  /\ LET c == Top(t)
         new == Cardinality(DOMAIN entries)
     IN IF at[t].child # 0
          THEN /\ FsReturn(t, Raised("FileExists"))
               /\ entryLocks' = Unlocked(t) /\ UNCHANGED entries
          ELSE /\ entries' = (new :> IF c.fn = "folder_create" THEN NewFolder ELSE NewFile) @@
                             [entries EXCEPT ![at[t].parent].children = (Last(c.path) :> new) @@ @]
               /\ FsReturn(t, [Done EXCEPT !.id = new])
               /\ entryLocks' = (new :> FsNobody) @@ Unlocked(t)
  /\ UNCHANGED <<missing, wsRole, initial>>

\* The role of the user is changed by a manager of the workspace.
FsRoleChanges ==
  /\ wsRole = "CONTRIBUTOR"
  /\ wsRole' \in {"READER", "NONE"}
  /\ UNCHANGED <<entries, missing, entryLocks, stack, result, at, initial>>

-----------------------------------------------------------------------------
(* The specification *)

InTreeOf(tree) ==
  LET upTo[k \in 0 .. Cardinality(DOMAIN tree)] ==
        IF k = 0 THEN {0} ELSE upTo[k - 1] \cup UNION {Range(tree[id].children) : id \in upTo[k - 1]}
  IN upTo[Cardinality(DOMAIN tree)]
InTree == InTreeOf(entries)

TreeInit ==
  \E s \in TreeSetups :
    /\ entries = s.tree /\ missing = s.missing /\ wsRole = s.role
    /\ entryLocks = [id \in DOMAIN s.tree |-> FsNobody]
    /\ stack = [t \in FsTasks |-> <<s.calls[t]>>]
    /\ result = [t \in FsTasks |-> Done]
    /\ at = [t \in FsTasks |-> NotWalking]
    /\ initial = IF s.keeps THEN {s.tree[id].data : id \in InTreeOf(s.tree)} \ {<<>>} ELSE {}

TaskStep(t) ==
  \/ FsUnwind(t) \/ FsResume(t) \/ FsBegin(t)
  \/ FsLockToLoad(t) \/ FsLoaded(t) \/ FsWalk(t) \/ FsInfo(t)
  \/ FsLock(t) \/ FsEntry(t) \/ FsLockChild(t)
  \/ FsRename(t) \/ FsDelete(t) \/ FsCreate(t)

TreeNext == (\E t \in FsTasks : TaskStep(t)) \/ FsRoleChanges
TreeSpec == TreeInit /\ [][TreeNext]_treeVars
TreeFairSpec == TreeSpec /\ \A t \in FsTasks : WF_treeVars(TaskStep(t))

-----------------------------------------------------------------------------
(* Properties *)

\* The manifests refer to manifests; a task that has returned, or is between two
\* transactions, holds no lock, and a task never holds more than two.
TreeTypeOK ==
  /\ \A id \in DOMAIN entries :
       /\ Range(entries[id].children) \subseteq DOMAIN entries \ {0}
       /\ entries[id].kind = "file" => entries[id].children = <<>>
  /\ missing \subseteq DOMAIN entries /\ DOMAIN entryLocks = DOMAIN entries
  /\ \A t \in FsTasks : /\ Cardinality(Held(t)) <= 2
                        /\ at[t].step = "idle" => Held(t) = {}

\* An entry has one place in the tree, whatever is renamed and overwritten meanwhile.
OnePlacePerEntry ==
  LET places == {<<id, n>> \in InTree \X UNION {DOMAIN entries[id].children : id \in InTree} :
                   n \in DOMAIN entries[id].children}
  IN \A p, q \in places : entries[p[1]].children[p[2]] = entries[q[1]].children[q[2]] => p = q

\* What leaves the tree (deleted or overwritten) is a file or an empty folder: nothing is
\* added to a folder while it is removed, which is why the child is locked too.
OnlyEmptyFoldersLeave ==
  [][\A id \in InTree \ InTree' : entries'[id].children = <<>>]_entries

\* A move (a copy and then a deletion) that another task disturbs, or that stops with an
\* error in the middle, loses no file: its data are always at the source or at the
\* destination.
MoveLosesNothing == \A data \in initial : \E id \in InTree : entries[id].data = data

\* Every call returns: no task waits for a lock for ever.
CallsReturn == \A t \in FsTasks : <>(stack[t] = <<>>)

\* A file or folder that a call has created is in the tree.
CreatedIsInTree ==
  [][\A id \in DOMAIN entries' \ DOMAIN entries : id \in InTree']_entries

\* The tree under pairs of calls: an entry has one place, a move loses no content, and a
\* folder leaves the tree only when it is empty.
TreeIsSound ==
  [](TreeTypeOK /\ OnePlacePerEntry /\ MoveLosesNothing) /\ OnlyEmptyFoldersLeave
=============================================================================

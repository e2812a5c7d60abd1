----------------------------- MODULE FilesView ------------------------------
(***************************************************************************)
(* The list of files of the window of a client.  The window asks for the   *)
(* content of a folder and shows it when it comes; events of the file      *)
(* system make it ask again; the user deletes, renames, creates and        *)
(* imports files of what is shown.  The jobs run in the thread of the      *)
(* client and end in any order; the Qt thread takes their signals in the   *)
(* order they were sent.                                                   *)
(***************************************************************************)
EXTENDS Naturals, Sequences, FiniteSets

CONSTANTS
  Spaces,      \* workspaces
  Folders,     \* paths of folders
  FileNames,   \* names of files
  MaxLoads,    \* bound: requests of a content
  MaxChanges,  \* bound: changes of others
  MaxOrders    \* bound: operations of the user

ASSUME FilesAssumption == "/" \in Folders /\ {MaxLoads, MaxChanges, MaxOrders} \subseteq Nat

VARIABLES
  dirs,     \* each folder: exists, its files, those half imported, and its version
  view,        \* workspace_fs, current_directory, current_directory_uuid
  table,       \* the rows, and the folder and the version they are of
  stats,       \* the jobs that get the content of a folder
  fileJobs,    \* the jobs that delete, rename or create
  import,      \* the job that imports, at most one
  viewSignals,     \* signals that the Qt thread has not taken
  updateTimer, \* the timer is active
  dialog,      \* the question on the screen
  orders, changes, loads, \* counters
  strays       \* ghost: the half imported files that were renamed, with their folder

filesVars ==
  <<dirs, view, table, stats, fileJobs, import, viewSignals, updateTimer, dialog, orders, changes, loads, strays>>

Places == Spaces \X Folders
Here == <<view.ws, view.dir>>
NoDialog == <<>>
NoImport == <<>>
NoTable == [shown |-> FALSE, of |-> <<>>, names |-> {}, at |-> 0]

-----------------------------------------------------------------------------
(* The content of the folders *)

\* FS_ENTRY_UPDATED is sent to the window only if it shows the workspace.
Updated(p) == IF p[1] = view.ws THEN <<[kind |-> "updated", of |-> p]>> ELSE <<>>
WithoutName(at, n) == [at EXCEPT !.files = @ \ {n}, !.partial = @ \ {n}, !.ver = @ + 1]
WithFile(at, n) == [at EXCEPT !.files = @ \cup {n}, !.ver = @ + 1]
Written(p, at) == dirs' = [dirs EXCEPT ![p] = at]

\* The import writes to the file it opened, whatever its name is now, if it has one.
Followed(p, names, name) ==
  IF import # NoImport /\ import.place = p /\ (\E n \in names : import.file = <<n>>)
  THEN [import EXCEPT !.file = name] ELSE import

\* Another program or another device changes a folder, or deletes it.
Change(p) ==
  /\ changes < MaxChanges /\ changes' = changes + 1 /\ dirs[p].here
  /\ \/ \E n \in dirs[p].files : Written(p, WithoutName(dirs[p], n)) /\ import' = Followed(p, {n}, <<>>)
     \/ (\E n \in FileNames \ dirs[p].files : Written(p, WithFile(dirs[p], n))) /\ UNCHANGED import
     \/ /\ p[2] # "/" /\ import' = Followed(p, FileNames, <<>>)
        /\ Written(p, [dirs[p] EXCEPT !.here = FALSE, !.files = {}, !.partial = {}, !.ver = @ + 1])
  /\ viewSignals' \in {viewSignals \o Updated(p), Append(viewSignals, [kind |-> "downsynced", of |-> p])}
  /\ UNCHANGED <<view, table, stats, fileJobs, updateTimer, dialog, orders, loads, strays>>

-----------------------------------------------------------------------------
(* The list *)

\* load: the table is cleared, and a job asks for the content.
Loading(p) ==
  /\ loads < MaxLoads /\ loads' = loads + 1
  /\ stats' = stats \cup {[id |-> loads, of |-> p, read |-> FALSE, ok |-> FALSE, names |-> {}]}
  /\ table' = NoTable

SetWorkspaceFs(s) ==
  /\ dialog = NoDialog /\ import = NoImport /\ orders < MaxOrders /\ orders' = orders + 1
  /\ view' = [view EXCEPT !.ws = s, !.dir = "/"] /\ Loading(<<s, "/">>)
  /\ UNCHANGED <<dirs, fileJobs, import, viewSignals, updateTimer, dialog, changes, strays>>

\* A folder of the table, or its parent, is opened.
ItemActivated(d) ==
  /\ dialog = NoDialog /\ import = NoImport /\ table.shown /\ d # view.dir
  /\ Loading(<<view.ws, d>>)
  /\ UNCHANGED <<dirs, view, fileJobs, import, viewSignals, updateTimer, dialog, orders, changes, strays>>

\* _do_folder_stat: the folder is read, then its children; then the signal is sent.
ReadFolder(j) ==
  /\ ~ j.read
  /\ stats' = (stats \ {j}) \cup {[j EXCEPT !.read = TRUE, !.ok = dirs[j.of].here, !.names = dirs[j.of].files]}
  /\ UNCHANGED <<dirs, view, table, fileJobs, import, viewSignals, updateTimer, dialog, orders, changes, loads, strays>>
StatDone(j) ==
  /\ j.read /\ stats' = stats \ {j}
  /\ viewSignals' = Append(viewSignals, [kind |-> IF j.ok THEN "stat" ELSE "missing", of |-> j.of, names |-> j.names])
  /\ UNCHANGED <<dirs, view, table, fileJobs, import, updateTimer, dialog, orders, changes, loads, strays>>

\* The listing says which folder is the current one; the workspace stays.
OnFolderStatSuccessKeepsPlace(s) == view
OnFolderStatSuccess(s) == [view EXCEPT !.dir = s.of[2], !.uuid = s.of]

\* A folder that is gone: the table has only the row that leads back.
OnFolderStatError == NoTable

TimerReloads == Loading(Here)

\* The events of the file system: one reload at once, one when the timer ends.
Concerns(s) ==
  \/ view.uuid = s.of /\ s.of[1] = view.ws
  \/ s.kind = "updated" /\ table.shown /\ table.of = <<s.of[1], "/">> /\ s.of[2] # "/"
OnFsUpdated(s) ==
  IF Concerns(s) /\ ~ updateTimer THEN updateTimer' = TRUE /\ Loading(Here) ELSE UNCHANGED <<updateTimer, stats, table, loads>>

TimerFires ==
  /\ updateTimer /\ updateTimer' = FALSE /\ TimerReloads
  /\ UNCHANGED <<dirs, view, fileJobs, import, viewSignals, dialog, orders, changes, strays>>

-----------------------------------------------------------------------------
(* The operations of the user *)

\* A new folder takes any name; the other names are those of the table when the question is
\* asked.
CanAsk(op, n) == op = "create" \/ n \in table.names
Ask(op, n) ==
  /\ dialog = NoDialog /\ import = NoImport /\ table.shown /\ orders < MaxOrders
  /\ CanAsk(op, n)
  /\ dialog' = [op |-> op, name |-> n, of |-> table.of]
  /\ UNCHANGED <<dirs, view, table, stats, fileJobs, import, viewSignals, updateTimer, orders, changes, loads, strays>>

\* The folder is the current one when the question is answered.
AnswerDialog(yes) ==
  /\ dialog # NoDialog /\ dialog' = NoDialog
  /\ IF yes THEN fileJobs' = fileJobs \cup {[id |-> orders, op |-> dialog.op, name |-> dialog.name, place |-> Here, of |-> dialog.of]}
            ELSE UNCHANGED fileJobs
  /\ orders' = orders + 1
  /\ UNCHANGED <<dirs, view, table, stats, import, viewSignals, updateTimer, changes, loads, strays>>

\* _do_delete, _do_rename and _do_folder_create; a success asks for the content again.
FileJob(j) ==
  /\ j \in fileJobs /\ fileJobs' = fileJobs \ {j}
  /\ LET at == dirs[j.place]
         done == at.here /\ (IF j.op = "create" THEN j.name \notin at.files ELSE j.name \in at.files)
         end == IF j.op \in {"create", "silent"} THEN <<>> ELSE <<[kind |-> "job", of |-> j.place]>>
     IN \/ ~ done /\ UNCHANGED <<dirs, viewSignals, import, strays>>
        \/ /\ done /\ j.op = "create" /\ Written(j.place, WithFile(at, j.name))
           /\ viewSignals' = viewSignals \o Updated(j.place) /\ UNCHANGED <<import, strays>>
        \/ /\ done /\ j.op \in {"delete", "silent"} /\ Written(j.place, WithoutName(at, j.name))
           /\ viewSignals' = viewSignals \o Updated(j.place) \o end
           /\ import' = Followed(j.place, {j.name}, <<>>) /\ UNCHANGED strays
        \/ /\ done /\ j.op = "rename"
           /\ \E m \in FileNames \ at.files :
                LET half == {m : n \in at.partial \cap {j.name}}
                IN /\ Written(j.place, [WithFile(WithoutName(at, j.name), m) EXCEPT !.partial = @ \cup half])
                   /\ strays' = strays \cup ({j.place} \X half)
                   /\ import' = Followed(j.place, {j.name}, <<m>>)
           /\ viewSignals' = viewSignals \o Updated(j.place) \o end
  /\ UNCHANGED <<view, table, stats, updateTimer, dialog, orders, changes, loads>>

\* import_all; the loading dialog is on the screen until the signal of its end is taken.
ImportAll(ns) ==
  /\ dialog = NoDialog /\ import = NoImport /\ table.shown /\ orders < MaxOrders /\ orders' = orders + 1
  /\ import' = [place |-> Here, todo |-> ns, now |-> <<>>, file |-> <<>>, opened |-> FALSE, ended |-> FALSE]
  /\ UNCHANGED <<dirs, view, table, stats, fileJobs, viewSignals, updateTimer, dialog, changes, loads, strays>>

\* _do_import: the next file, which is opened, written and closed; then the next one.
ImportStep ==
  /\ import # NoImport /\ ~ import.ended
  /\ LET p == import.place
     IN \/ /\ import.now = <<>> /\ import.todo # {}
           /\ \E n \in import.todo : import' = [import EXCEPT !.now = <<n>>, !.todo = @ \ {n}]
           /\ UNCHANGED <<dirs, viewSignals>>
        \/ /\ import.now # <<>> /\ ~ import.opened /\ dirs[p].here
           /\ import' = [import EXCEPT !.opened = TRUE, !.file = import.now]
           /\ Written(p, [WithFile(dirs[p], import.now[1]) EXCEPT !.partial = @ \cup {import.now[1]}])
           /\ viewSignals' = viewSignals \o Updated(p)
        \/ /\ import.now # <<>> /\ import.opened
           /\ import' = [import EXCEPT !.now = <<>>, !.file = <<>>, !.opened = FALSE]
           /\ dirs' = [dirs EXCEPT ![p].partial = {n \in @ : import.file # <<n>>}] /\ UNCHANGED viewSignals
        \/ /\ import.now = <<>> /\ import.todo = {}
           /\ import' = [import EXCEPT !.ended = TRUE]
           /\ viewSignals' = Append(viewSignals, [kind |-> "imported", of |-> p]) /\ UNCHANGED dirs
  /\ UNCHANGED <<view, table, stats, fileJobs, updateTimer, dialog, orders, changes, loads, strays>>

\* The user cancels: the job is joined, with the file it was at.
CancelImport ==
  /\ import # NoImport /\ ~ import.ended /\ import.now # <<>>
  /\ import' = [import EXCEPT !.ended = TRUE]
  /\ viewSignals' = Append(viewSignals, [kind |-> "cancelled", of |-> import.place, name |-> import.now[1]])
  /\ UNCHANGED <<dirs, view, table, stats, fileJobs, updateTimer, dialog, orders, changes, loads, strays>>

OnImportSuccess == NoImport

\* What the cancelled import left is deleted.
OnImportError(s) == fileJobs \cup {[id |-> orders, op |-> "silent", name |-> s.name, place |-> <<view.ws, s.of[2]>>, of |-> s.of]}

-----------------------------------------------------------------------------
(* The signals *)

TakeSignal ==
  /\ viewSignals # <<>> /\ viewSignals' = Tail(viewSignals)
  /\ LET s == Head(viewSignals)
     IN \/ /\ s.kind \in {"updated", "downsynced"} /\ OnFsUpdated(s) /\ UNCHANGED <<view, import, fileJobs>>
        \/ /\ s.kind = "job" /\ Loading(Here) /\ UNCHANGED <<view, import, fileJobs, updateTimer>>
        \/ /\ s.kind = "stat" /\ view' = OnFolderStatSuccess(s)
           /\ table' = [shown |-> TRUE, of |-> s.of, names |-> s.names, at |-> dirs[s.of].ver]
           /\ UNCHANGED <<stats, loads, import, fileJobs, updateTimer>>
        \/ /\ s.kind = "missing" /\ table' = OnFolderStatError /\ UNCHANGED <<view, stats, loads, import, fileJobs, updateTimer>>
        \/ /\ s.kind = "imported" /\ import' = OnImportSuccess /\ UNCHANGED <<view, table, stats, loads, fileJobs, updateTimer>>
        \/ /\ s.kind = "cancelled" /\ import' = NoImport /\ fileJobs' = OnImportError(s)
           /\ UNCHANGED <<view, table, stats, loads, updateTimer>>
  /\ UNCHANGED <<dirs, dialog, orders, changes, strays>>

FilesInit ==
  /\ dirs = [p \in Places |-> [here |-> TRUE, files |-> FileNames, partial |-> {}, ver |-> 0]]
  /\ \E s \in Spaces : view = [ws |-> s, dir |-> "/", uuid |-> <<>>] /\ table = NoTable
       /\ stats = {[id |-> 0, of |-> <<s, "/">>, read |-> FALSE, ok |-> FALSE, names |-> {}]}
  /\ fileJobs = {} /\ import = NoImport /\ viewSignals = <<>> /\ updateTimer = FALSE /\ dialog = NoDialog
  /\ orders = 0 /\ changes = 0 /\ loads = 1 /\ strays = {}

FilesNext ==
  \/ \E p \in Places : Change(p)
  \/ \E s \in Spaces : SetWorkspaceFs(s)
  \/ \E d \in Folders : ItemActivated(d)
  \/ \E j \in stats : ReadFolder(j) \/ StatDone(j)
  \/ \E op \in {"delete", "rename", "create"}, n \in FileNames : Ask(op, n)
  \/ \E yes \in BOOLEAN : AnswerDialog(yes)
  \/ \E j \in fileJobs : FileJob(j)
  \/ \E ns \in SUBSET FileNames \ {{}} : ImportAll(ns)
  \/ ImportStep \/ CancelImport \/ TimerFires \/ TakeSignal

FilesSpec == FilesInit /\ [][FilesNext]_filesVars

-----------------------------------------------------------------------------
(* Properties *)

FilesTypeOK ==
  /\ \A p \in Places : dirs[p].partial \subseteq dirs[p].files /\ (~ dirs[p].here => dirs[p].files = {})
  /\ table.shown => table.of \in Places
  /\ import # NoImport /\ import.ended => \E i \in DOMAIN viewSignals : viewSignals[i].kind \in {"imported", "cancelled"}

\* The rows are those of the current directory, in whatever order the listings come.
RowsAreOfDirectory == table.shown => table.of[2] = view.dir

\* A folder that changes after it is shown is read again: nothing is pending only when no
\* change was missed.
FollowsChanges ==
  table.shown /\ table.of[1] = view.ws /\ table.at < dirs[table.of].ver =>
    \/ updateTimer \/ stats # {} \/ viewSignals # <<>>

\* A cancelled import leaves no half file: it is being imported or will be deleted, unless it
\* was renamed meanwhile.
ImportIsClean ==
  \A p \in Places : \A n \in dirs[p].partial :
    \/ import # NoImport /\ import.place = p
    \/ \E j \in fileJobs : j.op = "silent" /\ j.place = p /\ j.name = n
    \/ <<p, n>> \in strays

\* The file that is deleted is the one of the folder that was shown when the user was asked
\* whether to delete it.
DeletesAsShown == \A j \in fileJobs : j.op = "delete" => j.place = j.of

\* The list of files (files_widget.py): its rows are those of the directory it names, a change
\* is followed, and an import that failed or was cancelled leaves no half of a file.
ViewIsCurrent == FilesTypeOK /\ RowsAreOfDirectory /\ FollowsChanges /\ ImportIsClean
=============================================================================

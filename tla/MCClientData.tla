---------------------------- MODULE MCClientData ----------------------------
(***************************************************************************)
(* Model-checking instances of components that share no state, side by     *)
(* side: every behaviour is one of a single component, which part names.   *)
(* versions: the versions of a path in two histories; tree: two calls on a *)
(* tree of five entries; connection: two commands and the manager of the   *)
(* connection.                                                             *)
(***************************************************************************)
EXTENDS VersionLister, EntryTransactions, Connection

CONSTANTS worker1, worker2, c1, c2, manager

VARIABLE part

-----------------------------------------------------------------------------
(* Histories *)

FolderVersion(ts, parent, children) ==
  [ts |-> ts, kind |-> "folder", children |-> children, size |-> 1, parent |-> parent]
FileVersion(ts, parent, size) ==
  [ts |-> ts, kind |-> "file", children |-> <<>>, size |-> size, parent |-> parent]

\* The file of a name is renamed, and another one gets the name.
RenamedFile ==
  [now |-> 18, path |-> <<"a">>, versions |->
     0 :> <<FolderVersion(2, 0, "a" :> 1), FolderVersion(8, 0, "b" :> 1),
            FolderVersion(14, 0, "a" :> 2 @@ "b" :> 1)>> @@
     1 :> <<FileVersion(4, 0, 0), FileVersion(6, 0, 1)>> @@
     2 :> <<FileVersion(10, 0, 0), FileVersion(12, 0, 1)>>]

\* A file in a folder is replaced, then the folder renamed.
NestedFile ==
  [now |-> 18, path |-> <<"a", "b">>, versions |->
     0 :> <<FolderVersion(2, 0, "a" :> 3), FolderVersion(16, 0, "c" :> 3)>> @@
     3 :> <<FolderVersion(4, 0, "b" :> 1), FolderVersion(10, 0, "b" :> 2)>> @@
     1 :> <<FileVersion(6, 3, 0), FileVersion(12, 3, 1)>> @@
     2 :> <<FileVersion(8, 3, 3)>>]

\* The path has never been there.
NoFile == [now |-> 4, path |-> <<"a">>, versions |-> 0 :> <<FolderVersion(2, 0, <<>>)>>]

MCHistories == {RenamedFile, NestedFile, NoFile}

-----------------------------------------------------------------------------
(* Pairs of calls on a tree: /d/f with two blocks, /e empty and /g. *)

AFolder(children) == [kind |-> "folder", children |-> children, data |-> <<>>]
AFile(data) == [kind |-> "file", children |-> <<>>, data |-> data]

SmallTree ==
  0 :> AFolder("d" :> 1 @@ "e" :> 3 @@ "g" :> 4) @@ 1 :> AFolder("f" :> 2) @@
  2 :> AFile(<<1, 2>>) @@ 3 :> AFolder(<<>>) @@ 4 :> AFile(<<3>>)

Situation(tree, absent, role, keeps, pair) ==
  [tree |-> tree, missing |-> absent, role |-> role, keeps |-> keeps,
   calls |-> "t1" :> pair[1] @@ "t2" :> pair[2]]

MoveCall(source, target) == Call2("move", source, target)
MoveFile == MoveCall(<<"d", "f">>, <<"e">>)
MoveTree == MoveCall(<<"d">>, <<"e">>)

\* Pairs that remove or overwrite no file.
KeepingPairs ==
  {<<MoveFile, Call("folder_delete", <<"e">>)>>,
   <<MoveFile, Call("win delete", <<"e">>)>>,
   <<MoveFile, Call2("fuse rename", <<"e">>, <<"h">>)>>,
   <<MoveFile, With(Call("mkdir", <<"e", "f">>), {"exist_ok"})>>,
   <<MoveTree, Call("fuse mkdir", <<"d", "n">>)>>,
   <<MoveTree, Call2("win rename", <<"d">>, <<"h">>)>>,
   <<MoveCall(<<"g">>, <<"h">>), Call2("fuse rename", <<"e">>, <<"h">>)>>,
   <<MoveCall(<<"g">>, <<"h">>), With(Call("mkdir", <<"h", "k">>), {"parents"})>>}

OtherPairs ==
  {<<MoveFile, Call("win delete", <<"d", "f">>)>>,
   <<Call("win readdir", <<"d">>), Call("rmtree", <<"d">>)>>,
   <<[Call("write bytes", <<"d", "f">>) EXCEPT !.data = <<4>>], Call("win delete", <<"d", "f">>)>>,
   <<With(Call("open file", <<"g">>), {"w"}), Call2("fuse rename", <<"g">>, <<"h">>)>>,
   <<With(Call("open file", <<"h">>), {"a"}), With(Call("open file", <<"h">>), {"x"})>>,
   <<Call("fuse create", <<"d", "x">>), With(Call("win create", <<"e", "d">>), {"directory"})>>,
   <<Call("win create", <<"e", "d">>), [Call("file_resize", <<"g">>) EXCEPT !.off = 2]>>,
   <<Call("read bytes", <<"d", "f">>), Call("fuse readdir", <<"g">>)>>,
   <<With(Call("touch", <<"d", "n">>), {"exist_ok"}), Call("rmtree", <<"d">>)>>,
   <<With(Call2("win rename", <<"e">>, <<"d">>), {"overwrite"}),
     With(Call("mkdir", <<"d", "n">>), {"exist_ok"})>>,
   <<With(Call2("win rename", <<"d">>, <<"e">>), {"overwrite"}), Call("fuse mkdir", <<"e", "n">>)>>,
   <<Call2("win rename", <<"d">>, <<"e">>), Call2("fuse rename", <<"e">>, <<"d">>)>>}

\* An empty workspace, and nothing to list in it.
Nothing ==
  Situation(0 :> AFolder(<<>>), {}, "OWNER", FALSE,
            <<Call("fuse readdir", <<>>), Call("fuse readdir", <<>>)>>)

MCTreeSetups ==
  {Situation(SmallTree, {}, "OWNER", TRUE, pair) : pair \in KeepingPairs}
    \cup {Situation(SmallTree, {}, "CONTRIBUTOR", FALSE, pair) : pair \in OtherPairs}
    \cup {Situation(SmallTree, {1, 2, 3}, "OWNER", FALSE, pair) : pair \in OtherPairs}
    \cup {Nothing}

-----------------------------------------------------------------------------

\* A component that does not run has little to do.
PartsInit ==
  /\ part \in {"versions", "tree", "connection"}
  /\ VersionInit /\ skipMinimal = (hist = RenamedFile)
  /\ part # "versions" => hist = NoFile /\ queryLimit = 0
  /\ TreeInit /\ (part # "tree" => DOMAIN entries = {0})
  /\ ConnInit

InVersions(action) == part = "versions" /\ action /\ UNCHANGED <<treeVars, connVars, part>>
InCalls(action) == part = "tree" /\ action /\ UNCHANGED <<listVars, connVars, part>>
InConnection(action) == part = "connection" /\ action /\ UNCHANGED <<listVars, treeVars, part>>

\* The commands are interchangeable: the first one to begin is c1.
FirstBegins == task[c1].at = "idle" /\ task'[c1].at = "idle" => task'[c2].at = "idle"

PartsNext ==
  \/ InVersions(VersionNext) \/ InCalls(TreeNext)
  \/ InConnection(ConnNext /\ FirstBegins)

partsVars == <<listVars, treeVars, connVars, part>>

\* The fairness of each component, where it runs.
PartsFairness ==
  /\ WF_partsVars(InVersions(VersionNext))
  /\ \A t \in FsTasks : WF_partsVars(InCalls(TaskStep(t)))
  /\ WF_partsVars(InConnection(ManagerStep)) /\ SF_partsVars(InConnection(ManagerConnects))
  /\ WF_partsVars(InConnection(ServerBack))
  /\ \A c \in Commands :
       /\ WF_partsVars(InConnection(CommandStep(c) /\ task[c].at # "idle"))
       /\ SF_partsVars(InConnection(task[c].at = "permit" /\ Acquire(c)))
  /\ \A n \in 1 .. MaxTransports : WF_partsVars(InConnection(n \in DOMAIN transports /\ Serve(n)))

PartsSpec == PartsInit /\ [][PartsNext]_partsVars /\ PartsFairness

\* Where versions are listed, asking for more ends with all of them (MoreIsComplete).
MoreListsAll == part # "versions" \/ MoreIsComplete

\* Where calls are made, they return (CallsReturn).
TreeCallsReturn == part # "tree" \/ CallsReturn

\* Where there is a connection, it comes back (Recovers).
ConnectionRecovers == part # "connection" \/ Recovers

\* What was asked is answered: more versions until all are listed, every call on the tree,
\* every command; and a connection that was lost comes back.
RequestsAreAnswered == MoreListsAll /\ TreeCallsReturn /\ ConnectionRecovers /\ CommandsReturn
=============================================================================

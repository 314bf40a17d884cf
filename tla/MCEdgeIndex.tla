---------------------------- MODULE MCEdgeIndex -----------------------------
(***************************************************************************)
(* Two ways in which what the graph is told can be out of date, checked in *)
(* one run though they share nothing: the index of duplicates and the      *)
(* derived caches of the graph (EdgeIndex), and the index of files that    *)
(* the workspace scanner compares with (WorkspaceSync). A behaviour is of  *)
(* one of them, and the other does nothing.                                *)
(***************************************************************************)
EXTENDS EdgeIndex

CONSTANTS x, y, z, w   \* four nodes

CONSTANTS Paths, Contents, Symlink, Unreadable, Absent, MaxFiles, MaxEdits  \* see WorkspaceSync

VARIABLES machine,  \* which of the two it is
          tree, edits, call, unlisted, todo, current, index, engine, resident, demoted,
          during, unapplied, returned

\* A ring of links, one of them owned by a resolution.
Square == {<<x, y>>, <<x, z>>, <<y, w>>, <<w, z>>}
Resolved == {<<x, z>>}

WS == INSTANCE WorkspaceSync WITH cold <- demoted

workspaceVars == <<tree, edits, call, unlisted, todo, current, index, engine, resident,
                   demoted, during, unapplied, returned>>

EitherInit ==
  /\ machine \in {"links", "workspace"} /\ Init /\ WS!Init
  /\ machine = "links" => tree = [p \in Paths |-> Absent]

EitherNext ==
  \/ machine = "links" /\ Next /\ UNCHANGED <<machine, workspaceVars>>
  \/ machine = "workspace" /\ WS!Next /\ UNCHANGED <<machine, vars>>

EitherSpec == EitherInit /\ [][EitherNext]_<<machine, vars, workspaceVars>>

\* The graph follows the tree through the index, see WorkspaceSync.
GraphFollowsTree == WS!GraphFollowsTree

=============================================================================

--------------------------- MODULE WorkspaceSync ----------------------------
(***************************************************************************)
(* The workspace scanner (src/workspace.rs) above the incremental engine   *)
(* (src/incremental.rs) and a graph: a call lists the sources of a tree,   *)
(* reads them one after the other while the tree is edited, compares what  *)
(* it read with the index of the call before it, and keeps it as the new   *)
(* index. sync hands the difference to the graph; scan_workspace, which    *)
(* update_delta and each poll of watch_changes call, does not.             *)
(*                                                                         *)
(* A content has one node of its own, the symbol it defines, and is its    *)
(* own hash. Paging (ColdTier) demotes a node and brings it back.          *)
(***************************************************************************)
EXTENDS Naturals, FiniteSetsExt, Functions

CONSTANTS
  Paths,       \* paths of Rust sources, numbered in their order
  Contents,    \* sources that are read
  Symlink,     \* a link in place of a source: the listing is refused
  Unreadable,  \* a source over a limit, not UTF-8, or not regular: the read is refused
  Absent,      \* no file
  MaxFiles,    \* MAX_WORKSPACE_RUST_FILES
  MaxEdits     \* bound

Sources == Contents \cup {Symlink, Unreadable}

VARIABLES
  tree,       \* tree[p]: what is at p
  edits,
  call,       \* the call that runs, or "none"
  unlisted,   \* the paths whose directory entry is not looked at yet
  todo,       \* the listed paths that are not read yet
  current,    \* what was read
  index,      \* files: the contents of the last call that came to its end
  engine,     \* file_states: the hashes of what was parsed
  resident, cold, \* the nodes <<path, content>> of the graph
  during,     \* observed: during[p]: what was at p since the call began
  unapplied,  \* observed: what a scan took note of and no sync since
  returned    \* observed: nodes of former versions that paging brought back

calls == <<call, unlisted, todo, current>>
store == <<engine, resident, cold, unapplied, returned>>
vars == <<tree, edits, calls, index, store, during>>

At(f, p) == IF p \in DOMAIN f THEN f[p] ELSE Absent

Init ==
  /\ tree \in [Paths -> {Absent} \cup Contents]
  /\ edits = 0
  /\ call = "none"
  /\ unlisted = {} /\ todo = {}
  /\ current = << >> /\ index = << >> /\ engine = << >>
  /\ resident = {} /\ cold = {}
  /\ during = [p \in Paths |-> {}]
  /\ unapplied = {} /\ returned = {}

-----------------------------------------------------------------------------
(* The tree *)

Edit(p, c) ==
  /\ edits < MaxEdits
  /\ tree[p] # c
  /\ tree' = [tree EXCEPT ![p] = c]
  /\ edits' = edits + 1
  /\ during' = IF call = "none" THEN during ELSE [during EXCEPT ![p] = @ \cup {c}]
  /\ UNCHANGED <<calls, index, store>>

-----------------------------------------------------------------------------
(* A call *)

Start(kind) ==
  /\ call = "none"
  /\ call' = kind
  /\ unlisted' = Paths
  /\ todo' = {}
  /\ current' = << >>
  /\ during' = [p \in Paths |-> {tree[p]}]
  /\ UNCHANGED <<tree, edits, index, store>>

\* An error ends the call with nothing done.
Refuse ==
  /\ call' = "none"
  /\ unlisted' = {} /\ todo' = {}
  /\ current' = << >>

\* collect_rs_unix looks at an entry, in any order.
List(p) ==
  /\ p \in unlisted
  /\ IF \/ tree[p] = Symlink
        \/ tree[p] # Absent /\ Cardinality(todo) = MaxFiles
     THEN Refuse
     ELSE /\ unlisted' = unlisted \ {p}
          /\ todo' = IF tree[p] = Absent THEN todo ELSE todo \cup {p}
          /\ UNCHANGED <<call, current>>
  /\ UNCHANGED <<tree, edits, index, store, during>>

\* read_regular_file: a source that is gone meanwhile is passed over.
Read(p) ==
  /\ unlisted = {}
  /\ todo # {} /\ p = Min(todo)
  /\ IF tree[p] \in {Symlink, Unreadable}
     THEN Refuse
     ELSE /\ todo' = todo \ {p}
          /\ current' = IF tree[p] = Absent THEN current
                        ELSE [q \in DOMAIN current \cup {p} |->
                                IF q = p THEN tree[p] ELSE current[q]]
          /\ UNCHANGED <<call, unlisted>>
  /\ UNCHANGED <<tree, edits, index, store, during>>

\* Fault: files are told apart by their paths alone.
DiffByPath(previous, now) ==
  [added |-> DOMAIN now \ DOMAIN previous, modified |-> {},
   removed |-> DOMAIN previous \ DOMAIN now]

Diff(previous, now) ==
  [added    |-> DOMAIN now \ DOMAIN previous,
   modified |-> {p \in DOMAIN now \cap DOMAIN previous : now[p] # previous[p]},
   removed  |-> DOMAIN previous \ DOMAIN now]

\* sync: the resident nodes of a changed file are evicted, and its new version is
\* parsed; a node that is parsed supersedes a COLD one of its name.
Apply(parsed, removed) ==
  LET fresh == {<<p, current[p]>> : p \in parsed}
      Former(n) == n[1] \in parsed \cup removed
  IN  /\ resident' = {n \in resident : ~Former(n)} \cup fresh
      /\ cold' = cold \ fresh
      /\ engine' = [p \in (DOMAIN engine \cup parsed) \ removed |->
                      IF p \in parsed THEN current[p] ELSE engine[p]]
      /\ unapplied' = unapplied \ (parsed \cup removed)
      /\ returned' = {n \in returned : ~Former(n)}

Finish ==
  LET delta == Diff(index, current)
      parsed == delta.added \cup delta.modified
  IN
  /\ call # "none" /\ unlisted = {} /\ todo = {}
  /\ index' = current
  /\ call' = "none"
  /\ current' = << >>
  /\ IF call = "sync"
     THEN Apply(parsed, delta.removed)
     ELSE /\ unapplied' = unapplied \cup parsed \cup delta.removed
          /\ UNCHANGED <<engine, resident, cold, returned>>
  /\ UNCHANGED <<tree, edits, unlisted, todo, during>>

-----------------------------------------------------------------------------
(* Paging: sync has the graph for the whole of its call, and a scan does not *)
(* look at it.                                                               *)

Demote(n) ==
  /\ call = "none"
  /\ n \in resident
  /\ resident' = resident \ {n}
  /\ cold' = cold \cup {n}
  /\ UNCHANGED <<tree, edits, calls, index, engine, during, unapplied, returned>>

PageIn(n) ==
  /\ call = "none"
  /\ n \in cold
  /\ cold' = cold \ {n}
  /\ resident' = resident \cup {n}
  /\ returned' = IF At(engine, n[1]) = n[2] THEN returned ELSE returned \cup {n}
  /\ UNCHANGED <<tree, edits, calls, index, engine, during, unapplied>>

Next ==
  \/ \E p \in Paths :
       \/ \E c \in {Absent} \cup Sources : Edit(p, c)
       \/ List(p)
       \/ Read(p)
       \/ \E c \in Contents : Demote(<<p, c>>) \/ PageIn(<<p, c>>)
  \/ \E kind \in {"sync", "scan"} : Start(kind)
  \/ Finish

Spec == Init /\ [][Next]_vars

-----------------------------------------------------------------------------
(* Properties *)

\* The index is a reading of the tree: each file of it was there as it has it, and
\* each that it lacks was gone, at some time of the call that made it.
IndexWasRead ==
  index' # index => \A p \in Paths : At(index', p) \in during[p]

\* Between calls the record of what was parsed is what the index says, its nodes are
\* there, and no others are resident, whatever was edited, refused or left half
\* read. But what a scan took note of comes to the graph only with the next change
\* of that file, and a node of a former version that was COLD may come back.
GraphFollowsIndex ==
  call = "none" => \A p \in Paths \ unapplied :
    /\ At(engine, p) = At(index, p)
    /\ p \in DOMAIN index => <<p, index[p]>> \in resident \cup cold
    /\ \A n \in resident : n[1] = p => n[2] = At(index, p) \/ n \in returned

(* The graph follows the tree through the index: no call leaves it, or the   *)
(* index, with a version of a file that was not there.                       *)
GraphFollowsTree == [][IndexWasRead /\ GraphFollowsIndex']_vars

=============================================================================

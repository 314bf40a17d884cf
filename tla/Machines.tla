------------------------------ MODULE Machines ------------------------------
(***************************************************************************)
(* Three machines that share nothing, side by side: processes that share a *)
(* snapshot (SnapshotWriters), runs of `ccos runtime` that share a tree    *)
(* and a state directory (Runtime), and the region engine (Regions). A     *)
(* behaviour is of one of them, and the others do nothing. Regions starts  *)
(* with any of its nodes and all the links between them.                   *)
(***************************************************************************)
EXTENDS SnapshotWriters

CONSTANTS Runs, Paths, Contents, Absent, Priority, Cost, Budget, MaxEdits     \* see Runtime
CONSTANTS Nodes, Links, External, Full, Boost, Warm, Energies, Coolings, MaxCalls
                                                                      \* see Regions

VARIABLES machine,  \* which of the three it is
          tree, edits, phase, todo, made, files, restored, disturbed,
          graph, engine, log, calls, noted

RT == INSTANCE Runtime WITH pc <- phase
R == INSTANCE Regions WITH seen <- noted

ASSUME RuntimeAssumption == RT!ConstantsOK
ASSUME RegionsAssumption == R!ConstantsOK

runtimeVars == <<tree, edits, phase, todo, made, files, restored, disturbed>>
regionVars == <<graph, engine, log, calls, noted>>

AnyInit ==
  /\ machine \in {"snapshot", "runtime", "regions"}
  /\ Init /\ RT!Init /\ R!Init
  /\ machine # "runtime" => tree = [p \in Paths |-> Absent]
  /\ IF machine = "regions"
     THEN graph.links = {e \in Links : {e[1], e[2]} \subseteq graph.nodes}
     ELSE graph.nodes = {}

AnyNext ==
  \/ machine = "snapshot" /\ Next /\ UNCHANGED <<machine, runtimeVars, regionVars>>
  \/ machine = "runtime" /\ RT!Next /\ UNCHANGED <<machine, vars, regionVars>>
  \/ machine = "regions" /\ R!Next /\ UNCHANGED <<machine, vars, runtimeVars>>

AnySpec == AnyInit /\ [][AnyNext]_<<machine, vars, runtimeVars, regionVars>>

\* What is restored is what was made, see Runtime.
RestoredIsOwn == RT!RestoredIsOwn

\* Equal readings give equal logs, see Runtime.
SameTreeSameLogs == RT!SameTreeSameLogs

\* Regions are the connected components of the files, see Regions.
ClustersAreComponents == R!ClustersAreComponents

\* A replay of the log restores the engine as far as the log has it, see Regions.
ReplayRestoresEngine == R!ReplayRestoresEngine

=============================================================================

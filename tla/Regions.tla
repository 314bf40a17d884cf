------------------------------- MODULE Regions -------------------------------
(***************************************************************************)
(* The region engine (src/region_engine.rs, src/context_region.rs) above a *)
(* changing graph, with the event log it writes and the replay of that log *)
(* (ContextRegionEngine::replay_from on the graph that GraphReconstructor  *)
(* rebuilds). A node is a pair of its file and a number; the external file *)
(* stands for all dep: nodes, and file numbers are in the order of the     *)
(* region ids. The causal score of a node and the heat it lends to its     *)
(* region are one number here, its energy: both are read from the same     *)
(* fields. Temperatures are parts of Full, products and means rounded down.*)
(* The graph has no dangling link (EdgeIndex).                             *)
(***************************************************************************)
EXTENDS Naturals, SequencesExt, FiniteSetsExt

CONSTANTS
  Nodes,     \* pairs <<file, number>>
  Links,     \* pairs of nodes: the links that can be added
  External,  \* the file of the dep: nodes
  Full,      \* the temperature 1.0
  Boost,     \* what an activation adds: 0.25
  Warm,      \* the energies of a node ingested once, twice, ...; the last one stays
  Energies,  \* the energies that failures, accesses and decay may give one
  Coolings,  \* the arguments of tick_cooldown: decay and floor, parts of Full
  MaxCalls   \* bound: calls

ConstantsOK ==
  /\ IsFiniteSet(Nodes) /\ Nodes \subseteq Nat \X Nat /\ Links \subseteq Nodes \X Nodes
  /\ {External, Boost, MaxCalls} \cup Energies \subseteq Nat
  /\ Warm \in Seq(Nat) /\ Warm # << >>
  /\ Full \in Nat \ {0} /\ Coolings \subseteq Nat \X Nat

VARIABLES
  graph,   \* the memory graph: nodes, links, energy of each node
  engine,  \* the regions by id, and the clock of activations
  log,     \* the event log
  calls,   \* calls so far
  seen     \* observed: initialisations, the graph of the last one, any cooling

vars == <<graph, engine, log, calls, seen>>

-----------------------------------------------------------------------------
(* Clustering *)

File(n) == n[1]

\* Fault: a link joins its files one way only.
JoinedForward(g) ==
  {fg \in {<<File(e[1]), File(e[2])>> : e \in g.links} :
     fg[1] # fg[2] /\ External \notin {fg[1], fg[2]}}

\* Files that a link between two of their nodes joins, external ones never.
Joined(g) ==
  LET cross == {<<File(e[1]), File(e[2])>> : e \in g.links}
  IN  {fg \in cross \cup {<<x[2], x[1]>> : x \in cross} :
         fg[1] # fg[2] /\ External \notin {fg[1], fg[2]}}

\* The search from one file: in each round the neighbours of what was found.
Grow(adj, found) == found \cup {fg[2] : fg \in {x \in adj : x[1] \in found}}
Component(adj, f, files) ==
  LET search[i \in 0..Cardinality(files)] ==
        IF i = 0 THEN {f} ELSE Grow(adj, search[i - 1])
  IN  search[Cardinality(files)]

\* The files of a graph by the region they make, which is named for the least.
FileClusters(files, adj) ==
  LET inner == files \ {External}
      comp == [f \in inner |-> Component(adj, f, files)]
      reps == {Min(comp[f]) : f \in inner}
  IN  [r \in reps \cup (files \cap {External}) |->
         IF r = External THEN {External} ELSE comp[r]]

ClusterNodes(g) ==
  LET clusters == FileClusters({File(n) : n \in g.nodes}, Joined(g))
  IN  [r \in DOMAIN clusters |-> {n \in g.nodes : File(n) \in clusters[r]}]

-----------------------------------------------------------------------------
(* Energy *)

\* The energy of a node that was ingested k times and not otherwise rated.
Warmth(k) == IF k < Len(Warm) THEN Warm[k] ELSE Warm[Len(Warm)]
Fresh == Warmth(1)

-----------------------------------------------------------------------------
(* Regions *)

Before(m, n) == m[1] < n[1] \/ (m[1] = n[1] /\ m[2] < n[2])

\* The member with the highest score, the least of them in a tie.
PickCenter(g, members) ==
  CHOOSE n \in members : \A m \in members \ {n} :
    g.energy[n] > g.energy[m] \/ (g.energy[n] = g.energy[m] /\ Before(n, m))

\* recompute: the mean heat of the members.
MeanHeat(g, members) ==
  MapThenSumSet(LAMBDA n : g.energy[n], members) \div Cardinality(members)

NewRegion(g, members) ==
  [members |-> members, center |-> PickCenter(g, members),
   temperature |-> MeanHeat(g, members), activations |-> 0, last |-> 0]

Built(g) == LET clusters == ClusterNodes(g)
            IN  [r \in DOMAIN clusters |-> NewRegion(g, clusters[r])]

Activated(region, tick) ==
  [region EXCEPT !.activations = @ + 1, !.last = tick,
                 !.temperature = Min({@ + Boost, Full})]

Cooled(region, decay) ==
  [region EXCEPT !.temperature = (@ * decay) \div Full]

\* Distinct files of a region; a dep: node counts as a file of its own.
FilesOf(members) == {IF File(n) = External THEN n ELSE <<File(n)>> : n \in members}

-----------------------------------------------------------------------------
(* The event log *)

GraphEvent(g) == [type |-> "Graph", nodes |-> g.nodes, links |-> g.links]
Event(type, r, tick) == [type |-> type, region |-> r, tick |-> tick]

\* The members of a set of ids, the least first.
InOrder(ids) ==
  [i \in 1..Cardinality(ids) |->
     CHOOSE r \in ids : Cardinality({s \in ids : s <= r}) = i]

\* Per region, in the order of the ids: merged if it has several files, created.
Announced(regions) ==
  FlattenSeq([i \in 1..Cardinality(DOMAIN regions) |->
    LET r == InOrder(DOMAIN regions)[i]
    IN  (IF Cardinality(FilesOf(regions[r].members)) > 1
         THEN <<Event("RegionMerged", r, 0)>> ELSE << >>)
        \o <<Event("RegionCreated", r, 0)>>])

\* How often the log has a node: a graph may be recorded again.
Times(events, n) ==
  Cardinality({i \in DOMAIN events : events[i].type = "Graph" /\ n \in events[i].nodes})

\* GraphReconstructor upserts nodes and adds links, it never removes any; a node
\* that it has got already is warmer for it.
Rebuilt(events) ==
  LET recorded == {events[i] : i \in {j \in DOMAIN events : events[j].type = "Graph"}}
      nodes == UNION {e.nodes : e \in recorded}
  IN  [nodes |-> nodes, links |-> UNION {e.links : e \in recorded},
       energy |-> [n \in nodes |-> Warmth(Times(events, n))]]

ReplayEvent(eng, e) ==
  CASE e.type = "RegionActivated" ->
         [regions |-> IF e.region \in DOMAIN eng.regions
                      THEN [eng.regions EXCEPT ![e.region] = Activated(@, e.tick)]
                      ELSE eng.regions,
          clock |-> Max({eng.clock, e.tick + 1})]
    [] e.type = "RegionEvicted" ->
         [eng EXCEPT !.regions = Restrict(@, DOMAIN @ \ {e.region})]
    [] OTHER -> eng

Replay(eng, events) ==
  LET after[i \in 0..Len(events)] ==
        IF i = 0 THEN eng ELSE ReplayEvent(after[i - 1], events[i])
  IN  after[Len(events)]

ReplayFrom(g, events) == Replay([regions |-> Built(g), clock |-> 0], events)

Replayed == ReplayFrom(Rebuilt(log), log)

-----------------------------------------------------------------------------
(* The graph changes below the engine *)

Called == calls < MaxCalls /\ calls' = calls + 1
FreshGraph(nodes, links) ==
  [nodes |-> nodes, links |-> links, energy |-> [n \in nodes |-> Fresh]]

Upsert(n) ==
  /\ Called /\ n \notin graph.nodes
  /\ graph' = [graph EXCEPT !.nodes = @ \cup {n},
                            !.energy = (n :> Fresh) @@ @]
  /\ UNCHANGED <<engine, log, seen>>

AddLink(e) ==
  /\ Called /\ {e[1], e[2]} \subseteq graph.nodes /\ e \notin graph.links
  /\ graph' = [graph EXCEPT !.links = @ \cup {e}]
  /\ UNCHANGED <<engine, log, seen>>

RemoveNode(n) ==
  /\ Called /\ n \in graph.nodes
  /\ graph' = [nodes |-> graph.nodes \ {n},
               links |-> {e \in graph.links : n \notin {e[1], e[2]}},
               energy |-> Restrict(graph.energy, graph.nodes \ {n})]
  /\ UNCHANGED <<engine, log, seen>>

\* An access, another ingest, a failure signal or decay.
Rescore(n, x) ==
  /\ Called /\ n \in graph.nodes /\ graph.energy[n] # x
  /\ graph' = [graph EXCEPT !.energy[n] = x]
  /\ UNCHANGED <<engine, log, seen>>

-----------------------------------------------------------------------------
(* The calls of the engine *)

RecordGraph ==
  /\ Called
  /\ log' = Append(log, GraphEvent(graph))
  /\ UNCHANGED <<graph, engine, seen>>

\* Rebuilds every region; the clock goes on.
InitializeRegions ==
  /\ Called
  /\ engine' = [engine EXCEPT !.regions = Built(graph)]
  /\ log' = log \o Announced(engine'.regions)
  /\ seen' = [seen EXCEPT !.inits = @ + 1, !.base = graph]
  /\ UNCHANGED graph

\* The region that owns a node, whatever became of the node since.
RegionOf(n) == {r \in DOMAIN engine.regions : n \in engine.regions[r].members}

HottestRegion ==
  {r \in DOMAIN engine.regions :
     \A s \in DOMAIN engine.regions \ {r} :
       LET tr == engine.regions[r].temperature
           ts == engine.regions[s].temperature
       IN  tr > ts \/ (tr = ts /\ r < s)}

ActivateRegion(r) ==
  /\ Called
  /\ engine' = [regions |-> [engine.regions EXCEPT ![r] = Activated(@, engine.clock)],
                clock |-> engine.clock + 1]
  /\ log' = log \o <<Event("RegionActivated", r, engine.clock),
                     Event("ContextWindowGenerated", r, 0)>>
  /\ UNCHANGED <<graph, seen>>

\* Fault: evictions are not logged.
TickCooldownSilent(decay, floor) ==
  /\ Called
  /\ LET cool == [r \in DOMAIN engine.regions |-> Cooled(engine.regions[r], decay)]
     IN  engine' = [engine EXCEPT !.regions =
           Restrict(cool, {r \in DOMAIN cool : cool[r].temperature >= floor})]
  /\ seen' = [seen EXCEPT !.cooled = TRUE]
  /\ UNCHANGED <<graph, log>>

\* Every region cools, those below the floor go; only the latter is logged.
TickCooldown(decay, floor) ==
  /\ Called
  /\ LET cool == [r \in DOMAIN engine.regions |-> Cooled(engine.regions[r], decay)]
         evicted == {r \in DOMAIN cool : cool[r].temperature < floor}
     IN  /\ engine' = [engine EXCEPT !.regions = Restrict(cool, DOMAIN cool \ evicted)]
         /\ log' = log \o [i \in 1..Cardinality(evicted) |->
                             Event("RegionEvicted", InOrder(evicted)[i], 0)]
  /\ seen' = [seen EXCEPT !.cooled = TRUE]
  /\ UNCHANGED graph

Init ==
  /\ \E nodes \in SUBSET Nodes : \E links \in SUBSET {e \in Links : {e[1], e[2]} \subseteq nodes} :
       graph = FreshGraph(nodes, links)
  /\ engine = [regions |-> << >>, clock |-> 0]
  /\ log = << >> /\ calls = 0
  /\ seen = [inits |-> 0, base |-> FreshGraph({}, {}), cooled |-> FALSE]

GraphNext ==
  \/ \E n \in Nodes : Upsert(n) \/ RemoveNode(n) \/ \E x \in Energies : Rescore(n, x)
  \/ \E e \in Links : AddLink(e)

Next ==
  \/ GraphNext
  \/ RecordGraph
  \/ InitializeRegions
  \/ \E r \in HottestRegion \cup UNION {RegionOf(n) : n \in Nodes} : ActivateRegion(r)
  \/ \E c \in Coolings : TickCooldown(c[1], c[2])

Spec == Init /\ [][Next]_vars

-----------------------------------------------------------------------------
(* Properties *)

\* Clustering, said without the search: the regions divide the nodes, and two
\* nodes are in one region if and only if no set of files that links do not leave
\* tells them apart; a region is named for the least of its files.
Closed(g, C) ==
  \A e \in g.links : External \in {File(e[1]), File(e[2])}
                     \/ (File(e[1]) \in C <=> File(e[2]) \in C)
ClustersAreComponents ==
  LET c == ClusterNodes(graph)
      files == {File(n) : n \in graph.nodes}
      closed == {C \in SUBSET files : Closed(graph, C)}
  IN  /\ \A r \in DOMAIN c : c[r] # {} /\ r = Min({File(n) : n \in c[r]})
      /\ UNION {c[r] : r \in DOMAIN c} = graph.nodes
      /\ \A m, n \in graph.nodes :
           (\E r \in DOMAIN c : {m, n} \subseteq c[r])
             <=> \A C \in closed : File(m) \in C <=> File(n) \in C

\* What a replay restores. Its clock is where the live engine's is, whatever was
\* initialised, activated, cooled and evicted in between. Where the log holds the
\* graph that the engine was initialised from, and it was initialised once, it has
\* the regions that are left, with their members and activations, although the
\* graph may have changed since. If moreover nothing has cooled and every node was
\* rated by then as one ingested as often as the log has it, it is the live engine,
\* centers and temperatures included. (A graph that is recorded twice is rebuilt
\* warmer than one that was ingested once.)
SameStructure(g, h) == g.nodes = h.nodes /\ g.links = h.links
SameHistory(a, b) ==
  /\ DOMAIN a = DOMAIN b
  /\ \A r \in DOMAIN a : /\ a[r].members = b[r].members
                         /\ a[r].activations = b[r].activations
                         /\ a[r].last = b[r].last
AsRecorded == seen.base.energy = [n \in seen.base.nodes |-> Warmth(Times(log, n))]
ReplayRestoresEngine ==
  LET replayed == Replayed
  IN  /\ replayed.clock = engine.clock
      /\ seen.inits = 1 /\ SameStructure(seen.base, Rebuilt(log)) =>
           /\ SameHistory(engine.regions, replayed.regions)
           /\ AsRecorded /\ ~seen.cooled => replayed = engine

=============================================================================

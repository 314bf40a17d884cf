------------------------------ MODULE EdgeIndex ------------------------------
(***************************************************************************)
(* The duplicate-link index of a MemoryGraph (edge_set of src/memory.rs)   *)
(* beside the links it indexes. edges is a list that may hold a link       *)
(* twice; edge_set is consulted by add_edge only, and taken to be exact    *)
(* whenever it has as many members as the list. The caches derived from the*)
(* links (in-degrees, adjacency) are kept until their number changes.      *)
(*                                                                         *)
(* Every other operation changes the list alone: removals and demotions    *)
(* take links away, a page-in appends those it brings back. The list is the*)
(* set of its links, each with the number of its copy (nothing depends on  *)
(* their order), and the COLD tier is the links archived on each demoted   *)
(* node.                                                                   *)
(***************************************************************************)
EXTENDS Naturals, FiniteSets

CONSTANTS
  Nodes,
  Links,     \* the links that can be added, pairs of distinct nodes
  Owned,     \* the links that a resolution owns: it prunes and rebuilds them
  Cap,       \* max_in_memory_nodes
  MaxCopies  \* bound: copies of one link in the list

ASSUME LinksAssumption == Links \subseteq Nodes \X Nodes /\ \A e \in Links : e[1] # e[2]
ASSUME OwnedAssumption == Owned \subseteq Links
ASSUME CapAssumption == {Cap, MaxCopies} \subseteq Nat \ {0} /\ IsFiniteSet(Nodes)

VARIABLES
  nodes,    \* the resident nodes
  cold,     \* cold[n]: the links archived on the COLD node n
  edges,    \* the list of links: pairs of a link and the number of its copy
  edgeSet,  \* the index
  bypassed, \* observed: the list was appended to since the index was last rebuilt
  cached,   \* the links that the derived caches were computed from
  since     \* what happened since: "unfilled", "nothing", "one" call, "swap", "many"

vars == <<nodes, cold, edges, edgeSet, bypassed, cached, since>>

-----------------------------------------------------------------------------
(* Lists of links *)

Touching(E, n) == {e \in E : n \in {e[1], e[2]}}
Other(e, n) == IF e[1] = n THEN e[2] ELSE e[1]
LinksOf(L) == {x[1] : x \in L}
Without(L, S) == {x \in L : x[1] \notin S}
Copies(L, e) == Cardinality({x \in L : x[1] = e})
Appended(L, S) == L \cup {<<e, Copies(L, e) + 1>> : e \in S}

-----------------------------------------------------------------------------
(* Demotion *)

\* The graph after v, one of the nodes that may go, went to the COLD tier.
Demoted(g, v) ==
  [nodes |-> g.nodes \ {v},
   edges |-> Without(g.edges, Touching(LinksOf(g.edges), v)),
   cold  |-> [n \in DOMAIN g.cold \cup {v} |->
                IF n = v THEN Touching(LinksOf(g.edges), v) ELSE g.cold[n]]]

\* enforce_paging, and the swap of a page-in, which spares the node itself.
Paged(g, spared) ==
  IF Cardinality(g.nodes) <= Cap THEN {g}
  ELSE {Demoted(g, v) : v \in g.nodes \ spared}

Graph == [nodes |-> nodes, edges |-> edges, cold |-> cold]

Becomes(g) ==
  /\ nodes' = g.nodes
  /\ edges' = g.edges
  /\ cold' = g.cold

-----------------------------------------------------------------------------
(* The derived caches *)

\* Fault: a cache is computed once.
NeverExpired == since = "unfilled"

\* The caches (the in-degrees, the dependency adjacency) are keyed on the length
\* of the list: one of another length is computed again.
Expired == since = "unfilled" \/ Cardinality(cached) # Cardinality(edges)

\* What a reader of a cache is served.
Served == IF Expired THEN edges ELSE cached

\* with_causal_adjacency, node_in_degree.
ReadCache ==
  /\ cached' = Served
  /\ since' = IF Expired THEN "nothing" ELSE since
  /\ UNCHANGED <<nodes, cold, edges, edgeSet, bypassed>>

\* A call on the graph leaves the caches alone: observed is how it looks to them.
\* A swap is one call that may take links away and append others.
Called(kind) ==
  /\ since' = CASE since = "unfilled" -> since
              [] since = "nothing" -> kind
              [] OTHER -> "many"
  /\ UNCHANGED cached

-----------------------------------------------------------------------------
(* Actions *)

Init ==
  /\ nodes = {}
  /\ cold = [n \in {} |-> {}]
  /\ edges = {}
  /\ edgeSet = {}
  /\ bypassed = FALSE
  /\ cached = {}
  /\ since = "unfilled"

\* The index is behind a list L of another size; add_edge then rebuilds it.
Behind(L) == Cardinality(edgeSet) # Cardinality(L)
Index(L) == IF Behind(L) THEN LinksOf(L) ELSE edgeSet

\* Fault: a demotion or removal goes unnoticed, the index is never rebuilt.
AddedTrusting(L, S) ==
  /\ edges' = Appended(L, S \ edgeSet)
  /\ edgeSet' = edgeSet \cup S
  /\ UNCHANGED bypassed

\* add_edge for each link of S, all of resident nodes, on the list L: what the
\* index has is refused, the others are appended.
Added(L, S) ==
  /\ edges' = Appended(L, S \ Index(L))
  /\ edgeSet' = IF S = {} THEN edgeSet ELSE Index(L) \cup S
  /\ bypassed' = (bypassed /\ (S = {} \/ ~Behind(L)))

Resident(E) == {e \in E : {e[1], e[2]} \subseteq nodes}

AddEdge(e) ==
  /\ e \in Resident(Links)
  /\ Copies(edges, e) < MaxCopies
  /\ Added(edges, {e})
  /\ Called("one")
  /\ UNCHANGED <<nodes, cold>>

\* resolve_all: the owned links are pruned, then those that resolve are added.
ResolveAll ==
  /\ \E S \in SUBSET Resident(Owned) : Added(Without(edges, Owned), S)
  /\ Called("swap")
  /\ UNCHANGED <<nodes, cold>>

UpsertNode(n) ==
  /\ \E g \in Paged([nodes |-> nodes \cup {n}, edges |-> edges,
                     cold |-> [m \in DOMAIN cold \ {n} |-> cold[m]]], {}) : Becomes(g)
  /\ Called("one")
  /\ UNCHANGED <<edgeSet, bypassed>>

RemoveNode(n) ==
  /\ nodes' = nodes \ {n}
  /\ cold' = [m \in DOMAIN cold \ {n} |-> cold[m]]
  /\ edges' = Without(edges, Touching(LinksOf(edges), n))
  /\ Called("one")
  /\ UNCHANGED <<edgeSet, bypassed>>

\* page_in: links to resident nodes that the list does not have are appended,
\* those to COLD nodes are handed to them, the others are stale.
PageIn(n) ==
  LET relinked == {e \in cold[n] : Other(e, n) \in nodes /\ e \notin LinksOf(edges)}
      restored == [nodes |-> nodes \cup {n},
                   edges |-> Appended(edges, relinked),
                   cold  |-> [m \in DOMAIN cold \ {n} |->
                                cold[m] \cup {e \in cold[n] : Other(e, n) = m}]]
  IN
  /\ n \in DOMAIN cold
  /\ \E g \in Paged(restored, {n}) : Becomes(g)
  /\ bypassed' = (bypassed \/ relinked # {})
  /\ Called("swap")
  /\ UNCHANGED edgeSet

\* A checkpoint and a reload: index and caches are not part of a snapshot.
Reload ==
  /\ edgeSet' = {}
  /\ bypassed' = FALSE
  /\ cached' = {}
  /\ since' = "unfilled"
  /\ UNCHANGED <<nodes, cold, edges>>

Next ==
  \/ \E e \in Links : AddEdge(e)
  \/ \E n \in Nodes : UpsertNode(n) \/ RemoveNode(n)
  \/ ResolveAll
  \/ \E n \in DOMAIN cold : PageIn(n)
  \/ ReadCache
  \/ Reload

Spec == Init /\ [][Next]_vars

-----------------------------------------------------------------------------
(* Properties *)

(* Every variable has its type, and a link in the list joins two resident    *)
(* nodes: nothing dangles, whatever was removed, demoted and brought back.   *)
TypeOK ==
  /\ nodes \subseteq Nodes
  /\ DOMAIN cold \subseteq Nodes \ nodes
  /\ \A n \in DOMAIN cold : cold[n] \subseteq Links
  /\ edges \subseteq {e \in Links : {e[1], e[2]} \subseteq nodes} \X (1..MaxCopies)
  /\ edgeSet \subseteq Links
  /\ bypassed \in BOOLEAN
  /\ cached \subseteq Links \X (1..MaxCopies)
  /\ since \in {"unfilled", "nothing", "one", "swap", "many"}

(* What add_edge consults is exact, unless a page-in has appended links      *)
(* behind its back since the last rebuild, or a link is there twice because  *)
(* of it: no removal, demotion, resolution or reload misleads it.            *)
OnlyPageInMisleads ==
  ~bypassed /\ (\A x \in edges : x[2] = 1) => Index(edges) = LinksOf(edges)

(* A reader of a cache is served the links as they are after any one call    *)
(* since the cache was filled, unless that call is one that both takes links *)
(* away and appends others: a page-in that demotes, or a resolution. (After  *)
(* several calls the length may happen to be the same again.)                *)
OnlySwapsFoolCaches ==
  Served # edges => since \in {"swap", "many"}

=============================================================================

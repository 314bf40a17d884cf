--------------------------- MODULE EdgeIndexProofs ---------------------------
(***************************************************************************)
(* Proofs about EdgeIndex, for every set of nodes and links, every window  *)
(* and every number of copies: its types, what the duplicate index may     *)
(* miss, and which calls leave a derived cache stale.                      *)
(***************************************************************************)
EXTENDS EdgeIndex, FiniteSetTheorems, TLAPS

\* The links of a graph join resident nodes, those archived touch their node.
Sound(g) ==
  /\ g.nodes \subseteq Nodes
  /\ DOMAIN g.cold \subseteq Nodes \ g.nodes
  /\ \A n \in DOMAIN g.cold : g.cold[n] \subseteq Touching(Links, n)
  /\ g.edges \subseteq {e \in Links : {e[1], e[2]} \subseteq g.nodes} \X (1..MaxCopies)

\* The index, when it is in use, has every link of the list.
IndexInv == ~bypassed => edgeSet = {} \/ LinksOf(edges) \subseteq edgeSet

\* One call that is not a swap makes the list shorter or longer, not both.
CacheInv ==
  /\ since = "nothing" => cached = edges
  /\ since = "one" => cached \subseteq edges \/ edges \subseteq cached

IInv == TypeOK /\ Sound(Graph) /\ IndexInv /\ CacheInv

\* The lists of links of E within the bound on copies are the subsets of this.
Copied(E) == E \X (1..MaxCopies)

USE DEF LinksOf, Without

-----------------------------------------------------------------------------
(* Finiteness *)

(* There are finitely many links, and lists of them are finite.              *)
LEMMA ListsAreFinite ==
  /\ IsFiniteSet(Links)
  /\ \A L : L \subseteq Links \X (1..MaxCopies) => IsFiniteSet(L)
<1>1. IsFiniteSet(Nodes \X Nodes)
  BY CapAssumption, FS_Product
<1>2. IsFiniteSet(Links)
  BY <1>1, LinksAssumption, FS_Subset
<1>3. IsFiniteSet(1..MaxCopies)
  BY CapAssumption, FS_Interval
<1>4. IsFiniteSet(Links \X (1..MaxCopies))
  BY <1>2, <1>3, FS_Product
<1>5. QED
  BY <1>2, <1>4, FS_Subset

(* A list without second copies has as many members as links.                *)
LEMMA SingleCopies ==
  ASSUME NEW L, L \subseteq Links \X (1..MaxCopies), \A x \in L : x[2] = 1
  PROVE  IsFiniteSet(LinksOf(L)) /\ Cardinality(LinksOf(L)) = Cardinality(L)
<1> DEFINE f == [x \in L |-> x[1]]
<1>1. IsFiniteSet(L)
  BY ListsAreFinite
<1>2. f \in Bijection(L, LinksOf(L))
  <2>1. f \in [L -> LinksOf(L)] /\ \A e \in LinksOf(L) : \E x \in L : f[x] = e
    OBVIOUS
  <2>2. ASSUME NEW x \in L, NEW y \in L, f[x] = f[y] PROVE x = y
    <3>1. x = <<x[1], x[2]>> /\ y = <<y[1], y[2]>>
      OBVIOUS
    <3>2. QED
      BY <2>2, <3>1
  <2>3. QED
    BY <2>1, <2>2 DEF Bijection, Injection, Surjection, IsInjective
<1>3. QED
  BY <1>1, <1>2, FS_Bijection DEF ExistsBijection

(* Copies are counted by a natural, and what is not in a list has none there.*)
LEMMA CopiesBound ==
  ASSUME NEW L, L \subseteq Links \X (1..MaxCopies), NEW e
  PROVE  /\ Copies(L, e) \in Nat
         /\ e \notin LinksOf(L) => Copies(L, e) = 0
<1> DEFINE C == {x \in L : x[1] = e}
<1>1. IsFiniteSet(C)
  BY ListsAreFinite
<1>2. e \notin LinksOf(L) => C = {}
  OBVIOUS
<1>3. QED
  BY <1>1, <1>2, FS_CardinalityType, FS_EmptySet DEF Copies

(* Links that are appended once each, to a list that does not have them or   *)
(* has room for another copy, keep it within its bounds.                     *)
LEMMA AppendedList ==
  ASSUME NEW E \in SUBSET Links, NEW L \in SUBSET Copied(E), NEW S \in SUBSET E,
         \A e \in S : Copies(L, e) < MaxCopies
  PROVE  /\ L \subseteq Appended(L, S)
         /\ Appended(L, S) \subseteq Copied(E)
         /\ LinksOf(Appended(L, S)) = LinksOf(L) \cup S
<1>1. \A e \in S : Copies(L, e) + 1 \in 1..MaxCopies
  <2> TAKE e \in S
  <2>1. Copies(L, e) \in Nat /\ Copies(L, e) < MaxCopies
    BY CopiesBound DEF Copied
  <2>2. QED
    BY <2>1, CapAssumption
<1> DEFINE new == {<<e, Copies(L, e) + 1>> : e \in S}
<1>2. new \subseteq Copied(E)
  BY <1>1 DEF Copied
<1>3. LinksOf(new) = S
  <2>1. \A e \in S : <<e, Copies(L, e) + 1>>[1] = e
    OBVIOUS
  <2>2. QED
    BY <2>1
<1>4. LinksOf(L \cup new) = LinksOf(L) \cup LinksOf(new)
  <2> HIDE DEF new
  <2>1. QED
    OBVIOUS
<1>5. QED
  <2> HIDE DEF LinksOf, new
  <2>1. Appended(L, S) = L \cup new
    BY DEF Appended, new
  <2>2. QED
    BY <1>2, <1>3, <1>4, <2>1

-----------------------------------------------------------------------------
(* Demotion *)

(* Whichever node is demoted, if any, the graph stays sound and its list only*)
(* gets shorter.                                                             *)
LEMMA PagedSound ==
  ASSUME NEW nds, NEW eds, NEW cld, Sound([nodes |-> nds, edges |-> eds, cold |-> cld]),
         NEW spared, NEW g \in Paged([nodes |-> nds, edges |-> eds, cold |-> cld], spared)
  PROVE  Sound(g) /\ g.edges \subseteq eds
<1> DEFINE g0 == [nodes |-> nds, edges |-> eds, cold |-> cld]
<1>1. CASE g = g0
  BY <1>1
<1>2. ASSUME NEW v \in nds, g = Demoted(g0, v) PROVE Sound(g) /\ g.edges \subseteq eds
  <2>1. /\ g.nodes = nds \ {v}
        /\ g.edges = {x \in eds : x[1] \notin Touching(LinksOf(eds), v)}
        /\ g.cold = [n \in DOMAIN cld \cup {v} |->
                       IF n = v THEN Touching(LinksOf(eds), v) ELSE cld[n]]
    BY <1>2 DEF Demoted
  <2>2. LinksOf(eds) \subseteq {e \in Links : {e[1], e[2]} \subseteq nds}
    BY DEF Sound
  <2>3. g.nodes \subseteq Nodes /\ DOMAIN g.cold \subseteq Nodes \ g.nodes
    BY <2>1 DEF Sound
  <2>4. ASSUME NEW n \in DOMAIN g.cold PROVE g.cold[n] \subseteq Touching(Links, n)
    BY <2>1, <2>2 DEF Sound, Touching
  <2>5. ASSUME NEW x \in g.edges
        PROVE  x \in {e \in Links : {e[1], e[2]} \subseteq g.nodes} \X (1..MaxCopies)
    <3>1. x \in {e \in Links : {e[1], e[2]} \subseteq nds} \X (1..MaxCopies)
      BY <2>1 DEF Sound
    <3>2. x[1] \in LinksOf(eds) /\ v \notin {x[1][1], x[1][2]}
      BY <2>1 DEF Touching
    <3>3. QED
      BY <2>1, <3>1, <3>2
  <2>6. QED
    BY <2>1, <2>3, <2>4, <2>5 DEF Sound
<1>3. QED
  BY <1>1, <1>2 DEF Paged

-----------------------------------------------------------------------------
(* The actions *)

(* What is left to check of a call: a call that is not a swap keeps the      *)
(* caches within the list or around it, and after a swap nothing is said of  *)
(* them.                                                                     *)
LEMMA CallInv ==
  ASSUME IInv, NEW kind \in {"one", "swap"}, Called(kind),
         kind = "one" => edges \subseteq edges' \/ edges' \subseteq edges,
         Sound(Graph)', IndexInv', edgeSet' \subseteq Links, bypassed' \in BOOLEAN
  PROVE  IInv'
<1>1. /\ cached' \subseteq Links \X (1..MaxCopies)
      /\ since' \in {"unfilled", "nothing", "one", "swap", "many"}
  BY DEF IInv, TypeOK, Called
<1>2. CacheInv'
  BY DEF IInv, TypeOK, CacheInv, Called
<1>3. TypeOK'
  BY <1>1 DEF Sound, Graph, TypeOK, Touching
<1>4. QED
  BY <1>2, <1>3 DEF IInv

(* Adding links to what is left of the list keeps list and index as they     *)
(* should be.                                                                *)
LEMMA AddedSound ==
  ASSUME IInv, NEW L \in SUBSET edges, NEW S \in SUBSET Resident(Links),
         \A e \in S : Copies(L, e) < MaxCopies,
         Added(L, S), UNCHANGED <<nodes, cold>>
  PROVE  /\ Sound(Graph)' /\ IndexInv' /\ L \subseteq edges'
         /\ edgeSet' \subseteq Links /\ bypassed' \in BOOLEAN
<1> DEFINE T == S \ Index(L)
<1>1. L \subseteq Copied(Resident(Links))
  BY DEF Copied, IInv, TypeOK, Resident
<1>2. /\ L \subseteq edges'
      /\ edges' \subseteq Copied(Resident(Links))
      /\ LinksOf(edges') = LinksOf(L) \cup T
  <2>1. Resident(Links) \subseteq Links
    BY DEF Resident
  <2>2. edges' = Appended(L, T)
    BY DEF Added
  <2>3. T \subseteq Resident(Links) /\ \A e \in T : Copies(L, e) < MaxCopies
    OBVIOUS
  <2> HIDE DEF T, LinksOf
  <2>4. QED
    BY <1>1, <2>1, <2>2, <2>3, AppendedList
<1>3. Sound(Graph)'
  BY <1>2 DEF IInv, Sound, Graph, Resident, Copied
<1>4. LinksOf(L) \subseteq Links /\ Index(L) \subseteq Links
  BY <1>1 DEF Index, Resident, Copied, IInv, TypeOK
<1>5. edgeSet' \subseteq Links /\ bypassed' \in BOOLEAN
  BY <1>4 DEF Added, IInv, TypeOK, Resident
<1>6. IndexInv'
  <2>1. CASE S = {}
    BY <1>2, <2>1 DEF IInv, TypeOK, IndexInv, Added
  <2>2. CASE S # {} /\ Behind(L)
    BY <1>2, <2>2 DEF IndexInv, Added, Index
  <2>3. CASE S # {} /\ ~Behind(L)
    <3>1. edgeSet' = edgeSet \cup S /\ bypassed' = bypassed /\ T = S \ edgeSet
      BY <2>3 DEF Added, Index, IInv, TypeOK
    <3>2. ASSUME edgeSet = {} PROVE L = {}
      <4>1. IsFiniteSet(L)
        BY <1>1, ListsAreFinite DEF Resident, Copied
      <4>2. Cardinality(L) = 0
        BY <2>3, <3>2, FS_EmptySet DEF Behind
      <4>3. QED
        BY <4>1, <4>2, FS_EmptySet
    <3>3. bypassed \/ LinksOf(L) \subseteq edgeSet
      BY <3>2 DEF IInv, IndexInv
    <3>4. QED
      BY <1>2, <3>1, <3>3 DEF IndexInv
  <2>4. QED
    BY <2>1, <2>2, <2>3
<1>7. QED
  BY <1>2, <1>3, <1>5, <1>6

(* A list that only got shorter is indexed as well as before.                *)
LEMMA ShorterIndex ==
  ASSUME IInv, edges' \subseteq edges, UNCHANGED <<edgeSet, bypassed>>
  PROVE  IndexInv' /\ edgeSet' \subseteq Links /\ bypassed' \in BOOLEAN
BY DEF IInv, IndexInv, TypeOK

(* add_edge keeps the invariant.                                             *)
LEMMA AddEdgeInv ==
  ASSUME IInv, NEW e \in Links, AddEdge(e)
  PROVE  IInv'
<1>1. Sound(Graph)' /\ IndexInv' /\ edges \subseteq edges'
      /\ edgeSet' \subseteq Links /\ bypassed' \in BOOLEAN
  BY AddedSound DEF AddEdge
<1>2. QED
  BY <1>1, CallInv DEF AddEdge

(* resolve_all keeps the invariant: the links it adds are owned, and no copy *)
(* of an owned link is left when it adds them.                               *)
LEMMA ResolveAllInv ==
  ASSUME IInv, ResolveAll
  PROVE  IInv'
<1>1. PICK S \in SUBSET Resident(Owned) : Added(Without(edges, Owned), S)
  BY DEF ResolveAll
<1>2. ASSUME NEW e \in S PROVE Copies(Without(edges, Owned), e) < MaxCopies
  <2>1. e \in Owned /\ e \notin LinksOf(Without(edges, Owned))
    BY DEF Resident
  <2>2. Without(edges, Owned) \subseteq Links \X (1..MaxCopies)
    BY DEF IInv, TypeOK
  <2>3. QED
    BY <2>1, <2>2, CopiesBound, CapAssumption
<1>3. S \subseteq Resident(Links)
  BY OwnedAssumption DEF Resident
<1>4. Sound(Graph)' /\ IndexInv' /\ edgeSet' \subseteq Links /\ bypassed' \in BOOLEAN
  BY <1>1, <1>2, <1>3, AddedSound DEF ResolveAll
<1>5. QED
  BY <1>4, CallInv DEF ResolveAll

(* upsert_node, with the demotion it may cause, keeps the invariant.         *)
LEMMA UpsertNodeInv ==
  ASSUME IInv, NEW n \in Nodes, UpsertNode(n)
  PROVE  IInv'
<1> DEFINE cld == [m \in DOMAIN cold \ {n} |-> cold[m]]
<1>1. PICK g \in Paged([nodes |-> nodes \cup {n}, edges |-> edges, cold |-> cld], {}) :
        Becomes(g)
  BY DEF UpsertNode
<1>2. Sound([nodes |-> nodes \cup {n}, edges |-> edges, cold |-> cld])
  BY DEF IInv, Sound, Graph
<1>3. Sound(g) /\ g.edges \subseteq edges
  BY <1>2, PagedSound
<1>4. Sound(Graph)' /\ edges' \subseteq edges
  BY <1>1, <1>3 DEF Becomes, Graph, Sound
<1>5. QED
  BY <1>4, ShorterIndex, CallInv DEF UpsertNode

(* remove_node keeps the invariant.                                          *)
LEMMA RemoveNodeInv ==
  ASSUME IInv, NEW n \in Nodes, RemoveNode(n)
  PROVE  IInv'
<1>1. edges' \subseteq edges
  BY DEF RemoveNode
<1>2. ASSUME NEW x \in edges' PROVE x[1] \in LinksOf(edges) /\ n \notin {x[1][1], x[1][2]}
  BY <1>2 DEF RemoveNode, Touching
<1>3. edges' \subseteq {e \in Links : {e[1], e[2]} \subseteq nodes'} \X (1..MaxCopies)
  BY <1>1, <1>2 DEF RemoveNode, IInv, TypeOK
<1>4. Sound(Graph)'
  BY <1>3 DEF RemoveNode, IInv, Sound, Graph
<1>5. QED
  BY <1>1, <1>4, ShorterIndex, CallInv DEF RemoveNode

(* page_in, with the demotion that makes room, keeps the invariant: what it  *)
(* appends was not in the list and joins nodes that are resident now.        *)
LEMMA PageInInv ==
  ASSUME IInv, NEW n \in DOMAIN cold, PageIn(n)
  PROVE  IInv'
<1> DEFINE relinked == {e \in cold[n] : Other(e, n) \in nodes /\ e \notin LinksOf(edges)}
           nds == nodes \cup {n}
           eds == Appended(edges, relinked)
           cld == [m \in DOMAIN cold \ {n} |->
                     cold[m] \cup {e \in cold[n] : Other(e, n) = m}]
<1>1. cold[n] \subseteq Touching(Links, n) /\ n \in Nodes
  BY DEF IInv, Sound, Graph
<1> DEFINE E == {e \in Links : {e[1], e[2]} \subseteq nds}
<1>2. relinked \subseteq E
  BY <1>1 DEF Touching, Other
<1>3. edges \subseteq Copied(E)
  BY DEF Copied, IInv, TypeOK
<1>4. \A e \in relinked : Copies(edges, e) < MaxCopies
  <2>1. edges \subseteq Links \X (1..MaxCopies)
    BY DEF IInv, TypeOK
  <2>2. QED
    BY <2>1, CopiesBound, CapAssumption
<1>5. /\ eds \subseteq Copied(E)
      /\ LinksOf(eds) = LinksOf(edges) \cup relinked
  <2>1. E \in SUBSET Links /\ edges \in SUBSET Copied(E) /\ relinked \in SUBSET E
    BY <1>2, <1>3
  <2> HIDE DEF relinked, E, LinksOf
  <2>2. /\ Appended(edges, relinked) \subseteq Copied(E)
        /\ LinksOf(Appended(edges, relinked)) = LinksOf(edges) \cup relinked
    BY <1>4, <2>1, AppendedList
  <2>3. QED
    BY <2>2
<1>6. \A m \in DOMAIN cld : cld[m] \subseteq Touching(Links, m)
  <2> TAKE m \in DOMAIN cld
  <2>1. cold[m] \subseteq Touching(Links, m)
    BY DEF IInv, Sound, Graph
  <2>2. {e \in cold[n] : Other(e, n) = m} \subseteq Touching(Links, m)
    BY <1>1 DEF Touching, Other
  <2>3. QED
    BY <2>1, <2>2
<1>7. nds \subseteq Nodes /\ DOMAIN cld \subseteq Nodes \ nds
  BY <1>1 DEF IInv, TypeOK
<1>8. PICK g \in Paged([nodes |-> nds, edges |-> eds, cold |-> cld], {n}) : Becomes(g)
  BY DEF PageIn
<1> HIDE DEF relinked, nds, eds, cld
<1>9. Sound([nodes |-> nds, edges |-> eds, cold |-> cld])
  BY <1>5, <1>6, <1>7 DEF Sound, Copied
<1>10. Sound(g) /\ g.edges \subseteq eds
  BY <1>8, <1>9, PagedSound
<1>11. Sound(Graph)' /\ edges' \subseteq eds
  BY <1>8, <1>10 DEF Becomes, Graph, Sound
<1>12. bypassed' = (bypassed \/ relinked # {}) /\ Called("swap") /\ UNCHANGED edgeSet
  BY DEF PageIn, relinked
<1>13. IndexInv'
  <2>1. CASE relinked # {}
    BY <1>12, <2>1 DEF IndexInv
  <2>2. CASE relinked = {}
    BY <1>5, <1>11, <1>12, <2>2 DEF IndexInv, IInv
  <2>3. QED
    BY <2>1, <2>2
<1>14. edgeSet' \subseteq Links /\ bypassed' \in BOOLEAN
  BY <1>12 DEF IInv, TypeOK
<1>15. QED
  BY <1>11, <1>12, <1>13, <1>14, CallInv

-----------------------------------------------------------------------------
(* The invariant *)

(* The invariant holds of an empty graph.                                    *)
LEMMA InitInv == Init => IInv
BY DEF Init, IInv, TypeOK, Sound, Graph, IndexInv, CacheInv

(* Every step keeps the invariant.                                           *)
LEMMA NextInv == IInv /\ [Next]_vars => IInv'
<1> SUFFICES ASSUME IInv, [Next]_vars PROVE IInv'
  OBVIOUS
<1>1. CASE UNCHANGED vars
  BY <1>1 DEF vars, IInv, TypeOK, Sound, Graph, IndexInv, CacheInv
<1>2. CASE ReadCache
  <2>1. UNCHANGED <<nodes, cold, edges, edgeSet, bypassed>>
    BY <1>2 DEF ReadCache
  <2>2. edges \subseteq Links \X (1..MaxCopies)
    BY DEF IInv, TypeOK
  <2>3. /\ cached' \subseteq Links \X (1..MaxCopies)
        /\ since' \in {"unfilled", "nothing", "one", "swap", "many"}
    BY <1>2, <2>2 DEF ReadCache, Served, IInv, TypeOK
  <2>4. CacheInv'
    BY <1>2 DEF ReadCache, Served, IInv, CacheInv
  <2>5. QED
    BY <2>1, <2>3, <2>4 DEF IInv, TypeOK, Sound, Graph, IndexInv
<1>3. CASE Reload
  BY <1>3 DEF Reload, IInv, TypeOK, Sound, Graph, IndexInv, CacheInv
<1>4. QED
  BY <1>1, <1>2, <1>3, AddEdgeInv, ResolveAllInv, UpsertNodeInv, RemoveNodeInv, PageInInv
     DEF Next

(* The invariant holds in every reachable state.                             *)
LEMMA Invariance == Spec => []IInv
BY InitInv, NextInv, PTL DEF Spec

-----------------------------------------------------------------------------
(* Theorems *)

(* Every reachable state is well typed, and no link dangles.                 *)
THEOREM TypeCorrect == Spec => []TypeOK
<1>1. IInv => TypeOK
  BY DEF IInv
<1>2. QED
  BY <1>1, Invariance, PTL

(* Until a page-in appends behind its back, the index is exact on a list     *)
(* without second copies, whatever its size was trusted to tell.             *)
THEOREM IndexIsExact == Spec => []OnlyPageInMisleads
<1>1. ASSUME IInv, ~bypassed, \A x \in edges : x[2] = 1
      PROVE  Index(edges) = LinksOf(edges)
  <2>1. edges \subseteq Links \X (1..MaxCopies) /\ edgeSet \subseteq Links
    BY <1>1 DEF IInv, TypeOK
  <2>2. IsFiniteSet(edges) /\ IsFiniteSet(edgeSet)
    BY <2>1, ListsAreFinite, FS_Subset
  <2>3. IsFiniteSet(LinksOf(edges)) /\ Cardinality(LinksOf(edges)) = Cardinality(edges)
    <3> HIDE DEF LinksOf
    <3>1. QED
      BY <1>1, <2>1, SingleCopies
  <2>4. CASE Behind(edges)
    BY <2>4 DEF Index
  <2>5. CASE ~Behind(edges)
    <3>1. Cardinality(edgeSet) = Cardinality(LinksOf(edges)) /\ Index(edges) = edgeSet
      BY <2>3, <2>5 DEF Behind, Index
    <3>2. CASE edgeSet = {}
      <4>1. Cardinality(edges) = 0
        BY <2>5, <3>2, FS_EmptySet DEF Behind
      <4>2. edges = {}
        BY <2>2, <4>1, FS_EmptySet
      <4>3. QED
        BY <3>1, <3>2, <4>2
    <3>3. CASE LinksOf(edges) \subseteq edgeSet
      <4> HIDE DEF LinksOf
      <4>1. edgeSet = LinksOf(edges)
        BY <2>2, <3>1, <3>3, FS_Subset
      <4>2. QED
        BY <3>1, <4>1
    <3>4. QED
      BY <1>1, <3>2, <3>3 DEF IInv, IndexInv
  <2>6. QED
    BY <2>4, <2>5
<1>2. IInv => OnlyPageInMisleads
  BY <1>1 DEF OnlyPageInMisleads
<1>3. QED
  BY <1>2, Invariance, PTL

(* A cache that is served while it is stale was filled before a swap, or     *)
(* before several calls: its length tells every other single call.           *)
THEOREM SingleCallsAreNoticed == Spec => []OnlySwapsFoolCaches
<1>1. ASSUME IInv, Served # edges PROVE since \in {"swap", "many"}
  <2>1. since # "unfilled" /\ Cardinality(cached) = Cardinality(edges) /\ cached # edges
    BY <1>1 DEF Served, Expired
  <2>2. IsFiniteSet(cached) /\ IsFiniteSet(edges)
    BY <1>1, ListsAreFinite DEF IInv, TypeOK
  <2>3. ~(cached \subseteq edges) /\ ~(edges \subseteq cached)
    BY <2>1, <2>2, FS_Subset
  <2>4. QED
    BY <1>1, <2>1, <2>3 DEF IInv, TypeOK, CacheInv
<1>2. IInv => OnlySwapsFoolCaches
  BY <1>1 DEF OnlySwapsFoolCaches
<1>3. QED
  BY <1>2, Invariance, PTL

=============================================================================

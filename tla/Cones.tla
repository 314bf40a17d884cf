------------------------------- MODULE Cones --------------------------------
(***************************************************************************)
(* The walks over the causal graph that answer what a node rests on and    *)
(* what rests on it: the window of Causal Flash (causal_flash.rs),         *)
(* intervene, blame and find_cycles (memory.rs), the walk of query.rs, and *)
(* the hops that rank a recall around a node (hop_distances of             *)
(* external_memory.rs). Each walks by itself, and has its own kinds of     *)
(* links and its own idea of what stops it.                                *)
(*                                                                         *)
(* An id is a number; ids have an order. Weights, damping and              *)
(* relevance are parts of Full, products rounded down. No link dangles     *)
(* (EdgeIndex). The order in which a result is listed is left out, but for *)
(* which callers of a window are dropped.                                  *)
(***************************************************************************)
EXTENDS Naturals, FiniteSetsExt, SequencesExt, Functions

CONSTANTS
  Ids,         \* the nodes
  Candidates,  \* the links <<source, target, kind>> there may be
  Hubs,        \* the nodes whose id starts with "dep:"
  Weight,      \* Weight[k]: the weight of a link of kind k
  Depends,     \* the kinds that intervene and blame follow: Calls, DependsOn, DataFlow
  Flash,       \* those that Causal Flash follows, also Contains, References, Causes
  Full,        \* 1.0
  Damping,     \* the decay of the window and the damping of intervene and blame
  MaxDepth     \* bound: depths and horizons asked for

VARIABLES
  links,    \* the links there are
  orphans   \* the nodes in the state Orphan

vars == <<links, orphans>>

Times(x, y) == (x * y) \div Full
Ascending(S) == SetToSortSeq(S, <)

\* Links as pairs, one way or the other.
Forward(E) == {<<e[1], e[2]>> : e \in E}
Backward(E) == {<<e[2], e[1]>> : e \in E}

OfKind(kinds) == {e \in links : e[3] \in kinds}
Live(E) == {e \in E : e[1] \notin orphans /\ e[2] \notin orphans}

-----------------------------------------------------------------------------
(* intervene and blame *)

Empty == << >>
MassOf(f, n) == IF n \in DOMAIN f THEN f[n] ELSE 0

\* What flows over the links E, from the end from to the end to of each.
Flow(E, from, to, current) ==
  LET fed(n) == {e \in E : e[to] = n /\ e[from] \in DOMAIN current}
      mass(n) == MapThenSumSet(
                   LAMBDA e : Times(Times(current[e[from]], Weight[e[3]]), Damping), fed(n))
  IN  [n \in {m \in Ids : mass(m) > 0} |-> mass(n)]

\* Fault: the origin is driven by what comes back to it.
Reached(next, origin) == next

\* The origin is severed: nothing drives it.
Severed(next, origin) == Restrict(next, DOMAIN next \ {origin})

\* Sum of what each of the rounds brings, by node.
Spread(E, from, to, origin, depth) ==
  FoldLeft(LAMBDA s, round :
             LET next == Severed(Flow(E, from, to, s.current), origin)
             IN  [current |-> next,
                  sum |-> [n \in DOMAIN s.sum \cup DOMAIN next |->
                             MassOf(s.sum, n) + MassOf(next, n)]],
           [current |-> [n \in {origin} |-> Full], sum |-> Empty],
           [round \in 1..depth |-> round]).sum

\* What a change of origin forces: who depends on it.
Intervene(origin, depth) == Spread(Live(OfKind(Depends)), 2, 1, origin, depth)

\* What a failure of origin may come from: what it depends on.
Blame(origin, depth) == Spread(Live(OfKind(Depends)), 1, 2, origin, depth)

-----------------------------------------------------------------------------
(* Breadth-first walks *)

\* The distance of every node that a walk over the pairs finds within max hops.
BreadthFirst(pairs, origin, max) ==
  FoldLeft(LAMBDA dist, d :
             LET new == {p[2] : p \in {q \in pairs : /\ q[1] \in DOMAIN dist /\ dist[q[1]] = d - 1
                                                     /\ q[2] \notin DOMAIN dist}}
             IN  [n \in DOMAIN dist \cup new |-> IF n \in new THEN d ELSE dist[n]],
           [n \in {origin} |-> 0],
           [d \in 1..max |-> d])

\* walk, downstream and upstream, over links of all kinds. The origin is left out.
ImpactSet(origin, max) ==
  LET dist == BreadthFirst(Forward(links), origin, max) IN Restrict(dist, DOMAIN dist \ {origin})
SourceSet(origin, max) ==
  LET dist == BreadthFirst(Backward(links), origin, max) IN Restrict(dist, DOMAIN dist \ {origin})

\* Both ways, and a hub is reached but never passed.
HopDistances(anchor, max) ==
  BreadthFirst({p \in Forward(links) \cup Backward(links) : p[1] \notin Hubs}, anchor, max)

-----------------------------------------------------------------------------
(* find_cycles *)

RECURSIVE Search(_, _)

\* A depth-first search that goes on from the end of path; a node of the path that
\* it meets again closes a cycle, and a node that it has left is not entered again.
Search(s, path) ==
  LET node == Last(path)
      step(t, child) ==
        IF child \in t.done THEN t
        ELSE IF child \in Range(path)
        THEN [t EXCEPT !.cycles = @ \cup
               {SubSeq(path, CHOOSE i \in DOMAIN path : path[i] = child, Len(path))}]
        ELSE Search(t, Append(path, child))
      left == FoldLeft(step, s, Ascending({e[2] : e \in {x \in links : x[1] = node}}))
  IN  [left EXCEPT !.done = @ \cup {node}]

FindCycles ==
  FoldLeft(LAMBDA s, start : IF start \in s.done THEN s ELSE Search(s, <<start>>),
           [done |-> {}, cycles |-> {}], Ascending(Ids)).cycles

-----------------------------------------------------------------------------
(* Causal Flash *)

\* The links to dependencies that are not orphans.
ConeLinks == {e \in OfKind(Flash) : e[2] \notin orphans}

\* One node of the frontier hands its relevance, as it is by now, to its dependencies.
Visit(s, parent, d) ==
  LET E == {e \in ConeLinks : e[1] = parent}
      new == {e[2] : e \in E} \ DOMAIN s.depth
      gain(n) == MapThenSumSet(
                   LAMBDA e : Times(Times(s.relevance[parent], Damping), Weight[e[3]]),
                   {e \in E : e[2] = n})
  IN  [relevance |-> [n \in DOMAIN s.relevance \cup new |-> MassOf(s.relevance, n) + gain(n)],
       depth |-> [n \in DOMAIN s.depth \cup new |-> IF n \in new THEN d ELSE s.depth[n]],
       frontier |-> s.frontier,
       next |-> s.next \cup new]

Layer(s, d) ==
  LET t == FoldLeft(LAMBDA u, parent : Visit(u, parent, d),
                    [s EXCEPT !.next = {}], Ascending(s.frontier))
  IN  [t EXCEPT !.frontier = t.next]

\* The cone of dependencies of the seeds.
Cone(seeds, horizon) ==
  FoldLeft(Layer, [relevance |-> [n \in seeds |-> Full], depth |-> [n \in seeds |-> 0],
                   frontier |-> seeds, next |-> {}],
           [d \in 1..horizon |-> d])

\* The dependencies cut at the horizon. Without any layer none is looked for.
CutDeps(cone, horizon) ==
  IF horizon = 0 THEN {}
  ELSE {e[2] : e \in {x \in ConeLinks : x[1] \in cone.frontier}} \ DOMAIN cone.depth

\* The ring of callers, each by the first node of the cone that it calls.
Callers(cone) ==
  LET hosts(n) == {e[2] : e \in {x \in OfKind(Flash) : x[1] = n /\ x[2] \in DOMAIN cone.depth}}
      ring == {n \in Ids \ (DOMAIN cone.depth \cup orphans) : hosts(n) # {}}
  IN  [n \in ring |-> Times(cone.relevance[Min(hosts(n))], Damping)]

\* What the budget of nodes costs: the least relevant callers, ties by id.
Dropped(callers, excess) ==
  {n \in DOMAIN callers :
     Cardinality({m \in DOMAIN callers : \/ callers[m] < callers[n]
                                         \/ callers[m] = callers[n] /\ m < n}) < excess}

\* What a cone, the dependencies cut and the callers make of a budget of cap nodes.
Budgeted(cone, cut, callers, cap) ==
  LET size == Cardinality(DOMAIN cone.depth) + Cardinality(DOMAIN callers)
      dropped == Dropped(callers, IF size > cap THEN size - cap ELSE 0)
  IN  [cone |-> cone.depth, relevance |-> cone.relevance,
       callers |-> Restrict(callers, DOMAIN callers \ dropped),
       complete |-> cut = {}, omitted |-> Cardinality(cut) + Cardinality(dropped)]

WindowAround(cone, horizon, cap) == Budgeted(cone, CutDeps(cone, horizon), Callers(cone), cap)

\* causal_flash_window_with: orphans are no seeds.
Window(seedIds, horizon, cap) == WindowAround(Cone(seedIds \ orphans, horizon), horizon, cap)

-----------------------------------------------------------------------------
(* The graph *)

Init ==
  /\ links = {}
  /\ orphans \in SUBSET Ids

AddEdge(e) ==
  /\ links' = links \cup {e}
  /\ UNCHANGED orphans

Next == \E e \in Candidates \ links : AddEdge(e)

Spec == Init /\ [][Next]_vars

-----------------------------------------------------------------------------
(* Properties *)

\* The pairs of nodes that k of the given pairs lead from one to the other.
Paths(pairs, k) ==
  LET after[i \in 0..k] ==
        IF i = 0 THEN {<<n, n>> : n \in Ids}
        ELSE {<<z[1][1], z[2][2]>> : z \in {y \in after[i - 1] \X pairs : y[1][2] = y[2][1]}}
  IN  after[k]

\* How far the other end is, for those within max.
Distances(pairs, origins, max) ==
  LET at == [k \in 0..max |-> {p[2] : p \in {q \in Paths(pairs, k) : q[1] \in origins}}]
      found == UNION {at[k] : k \in 0..max}
  IN  [n \in found |-> Min({k \in 0..max : n \in at[k]})]

Acyclic(pairs) == \A k \in 1..Cardinality(Ids), n \in Ids : <<n, n>> \notin Paths(pairs, k)

\* A walk finds what is near, at its shortest distance, and no walk of hops goes
\* through a hub.
NearIsFound ==
  \A depth \in 1..MaxDepth, x \in Ids :
    LET near(pairs) == Distances(pairs, {x}, depth)
        others(dist) == Restrict(dist, DOMAIN dist \ {x})
        both == Forward(links) \cup Backward(links)
    IN  /\ ImpactSet(x, depth) = others(near(Forward(links)))
        /\ SourceSet(x, depth) = others(near(Backward(links)))
        /\ HopDistances(x, depth) = near({p \in both : p[1] \notin Hubs})

\* do(x) and blame(x) are duals: y is forced by a change of x exactly when x is a
\* candidate cause of y, which is when a path of at most so many dependencies
\* between live nodes leads from y to x; nothing drives the origin. Where there is
\* no cycle they also agree on how much.
DoAndBlameAreDual ==
  LET deps == Forward(Live(OfKind(Depends))) IN
  \A depth \in 1..MaxDepth, x, y \in Ids :
    LET forced == Intervene(x, depth)
        blamed == Blame(y, depth)
        near == x # y /\ x \in DOMAIN Distances(deps, {y}, depth)
    IN  /\ y \in DOMAIN forced <=> near
        /\ x \in DOMAIN blamed <=> near
        /\ near /\ Acyclic(deps) => forced[y] = blamed[x]

\* What is listed as a cycle is one, without a node twice, and there is none only
\* when none is listed.
CyclesAreFound ==
  LET pairs == Forward(links) IN
  /\ \A c \in FindCycles :
       /\ \A i \in DOMAIN c : <<c[i], c[IF i = Len(c) THEN 1 ELSE i + 1]>> \in pairs
       /\ Cardinality(Range(c)) = Len(c)
  /\ FindCycles = {} <=> Acyclic(pairs)

\* all: every dependency of the seeds at its distance; whole: a window without a budget.
WholeIsHonest(all, whole, horizon) ==
  LET layered == \A e \in ConeLinks : e[1] \in DOMAIN all => all[e[2]] = all[e[1]] + 1
  IN  /\ whole.cone = [n \in {m \in DOMAIN all : all[m] <= horizon} |-> all[n]]
      /\ whole.complete <=> DOMAIN whole.cone = DOMAIN all
      /\ layered => \A n \in DOMAIN whole.cone : whole.cone[n] > 0 =>
           whole.relevance[n] = MapThenSumSet(
             LAMBDA e : Times(Times(whole.relevance[e[1]], Damping), Weight[e[3]]),
             {e \in ConeLinks : e[2] = n /\ e[1] \in DOMAIN whole.cone})

\* w: the same window with a budget of cap nodes.
BudgetIsHonest(whole, w, cap) ==
  LET size == Cardinality(DOMAIN w.cone \cup DOMAIN w.callers)
      gone == DOMAIN whole.callers \ DOMAIN w.callers
  IN  /\ w.cone = whole.cone
      /\ gone # {} => size >= cap
      /\ w.callers # << >> => size <= cap
      /\ \A m \in gone, n \in DOMAIN w.callers : whole.callers[m] <= whole.callers[n]

\* A window of Causal Flash has every dependency within its horizon, at its distance
\* from the nearest seed, and says complete exactly when there is no other beyond;
\* the budget takes callers only, never one that is more relevant than one it
\* leaves. Where every link leads one layer on, the relevance of a node is what its
\* dependents hand it, each on the strength of all that it got.
WindowIsHonest ==
  \A seeds \in SUBSET Ids, horizon \in 1..MaxDepth :
    \A whole \in {Window(seeds, horizon, 2 * Cardinality(Ids))} :
      /\ WholeIsHonest(Distances(Forward(ConeLinks), seeds \ orphans, Cardinality(Ids)),
                       whole, horizon)
      /\ \A cap \in 1..Cardinality(Ids) :
           BudgetIsHonest(whole, Window(seeds, horizon, cap), cap)

(* Every walk finds what it says it finds: what is near, what a change forces *)
(* and a failure blames, the cycles, the window. They are separate loops that *)
(* answer the same questions for an agent, and may not contradict each other. *)
WalksAreExact ==
  /\ NearIsFound
  /\ DoAndBlameAreDual
  /\ CyclesAreFound
  /\ WindowIsHonest

=============================================================================

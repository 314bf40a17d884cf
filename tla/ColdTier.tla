------------------------------ MODULE ColdTier ------------------------------
(***************************************************************************)
(* The residence of the nodes of a MemoryGraph (src/memory.rs): the        *)
(* resident window, the COLD tier below it, and the swap files of the COLD *)
(* tier: content blobs, blobs of whole nodes, the index of deep-spilled    *)
(* husks and the reverse-adjacency index.                                  *)
(*                                                                         *)
(* Scores and byte sizes are abstracted: which nodes are coldest, and how  *)
(* many of them a budget reaches, is any choice. A blob is named by what   *)
(* it holds (its SHA-256). The two indices are what HuskStore promises     *)
(* (DurableMap): a live map, of which a restart keeps the last flush.      *)
(***************************************************************************)
EXTENDS Integers, FiniteSetsExt, SequencesExt

CONSTANTS
  Nodes,
  Links,       \* the links that can be added, pairs of distinct nodes
  Contents,
  Summary,     \* the lossy form compact_content gives a content
  NoText,
  Caps,        \* resident-window caps that can be set
  Compacts,    \* whether a COLD content budget may be set
  Deepens,     \* whether a COLD resident budget may be set
  IndexFails,  \* whether the flush inside an index update can fail
  Stops        \* "never", "clean": at a checkpoint, or "any"

ASSUME LinksAssumption == Links \subseteq Nodes \X Nodes /\ \A e \in Links : e[1] # e[2]
ASSUME TextsAssumption == Summary \notin Contents /\ NoText \notin Contents \cup {Summary}
ASSUME CapsAssumption == Caps \subseteq Nat /\ Caps # {} /\ IsFiniteSet(Nodes)
ASSUME SwitchesAssumption ==
  /\ {Compacts, Deepens, IndexFails} \subseteq BOOLEAN
  /\ Stops \in {"never", "clean", "any"}

VARIABLES
  tier,   \* the graph, its COLD tier and the files it can reach
  cap,    \* max_in_memory_nodes
  todo,   \* the ensure_resident under way: its anchor, and the nodes still to page in
  saved,  \* what a restart finds: the snapshot and the flushed indices
  updated \* observed: the node the last step re-ingested or removed, if it did

vars == <<tier, cap, todo, saved, updated>>

-----------------------------------------------------------------------------
(* Links and maps *)

Nothing == [n \in {} |-> NoText]
Put(f, n, v) == [m \in DOMAIN f \cup {n} |-> IF m = n THEN v ELSE f[m]]
Drop(f, S) == [m \in DOMAIN f \ S |-> f[m]]

Touching(E, n) == {e \in E : n \in {e[1], e[2]}}
Other(e, n) == IF e[1] = n THEN e[2] ELSE e[1]
\* The reverse-adjacency entries of links of n.
Pairs(n, E) == {<<n, Other(e, n)>> : e \in E} \cup {<<Other(e, n), n>> : e \in E}

HasBody(t, n) ==
  n \in DOMAIN t.husk /\ [node |-> n, entry |-> t.husk[n]] \in t.bodies

\* Fault: the blobs go without a look at the other entries.
CollectAlways(t, C) == [t EXCEPT !.texts = @ \ C]

\* Content blobs no COLD entry refers to any more go, of those in C.
Collect(t, C) ==
  [t EXCEPT !.texts = @ \ {c \in C : \A n \in DOMAIN t.cold :
                                       t.cold[n].spilled => t.cold[n].text # c}]

-----------------------------------------------------------------------------
(* Enforcing the COLD budgets *)

\* The content of a COLD entry can be read.
Readable(t, n) ==
  t.cold[n].spilled => t.attached /\ t.cold[n].text \in t.texts

CompactAll(t, K) ==
  LET shrunk == [n \in DOMAIN t.cold |->
                   IF n \in K
                   THEN [text |-> Summary, edges |-> t.cold[n].edges, spilled |-> FALSE]
                   ELSE t.cold[n]]
  IN  Collect([t EXCEPT !.cold = shrunk],
              {t.cold[n].text : n \in {m \in K : t.cold[m].spilled}})

Compactable(t) ==
  IF Compacts THEN {n \in DOMAIN t.cold : t.cold[n].text # Summary /\ Readable(t, n)} ELSE {}

SpillAll(t, S) ==
  [t EXCEPT !.cold = [n \in DOMAIN @ |-> IF n \in S THEN [@[n] EXCEPT !.spilled = TRUE]
                                         ELSE @[n]],
            !.texts = @ \cup {t.cold[n].text : n \in S}]

Spillable(t) ==
  IF t.attached THEN {n \in DOMAIN t.cold : ~t.cold[n].spilled} ELSE {}

\* Each entry of D goes, content and links, into a body blob, and a husk in the
\* index stands for it; one whose index update fails stays, its husk stays too.
DeepenAll(t, D, failed) ==
  LET entry(n) == [text |-> t.cold[n].text, edges |-> t.cold[n].edges]
      u == [t EXCEPT !.cold   = Drop(@, D \ failed),
                     !.husk   = [n \in DOMAIN @ \cup D |-> IF n \in D THEN entry(n) ELSE @[n]],
                     !.bodies = @ \cup {[node |-> n, entry |-> entry(n)] : n \in D}]
  IN  Collect(u, {t.cold[n].text : n \in {m \in D \ failed : t.cold[m].spilled}})

Deepenable(t) ==
  IF Deepens /\ t.attached THEN {n \in DOMAIN t.cold : Readable(t, n)} ELSE {}

\* enforce_cold_budget, then enforce_cold_resident_budget.
SpillOutcomes(t) ==
  UNION {LET u == SpillAll(t, S) IN
         {DeepenAll(u, D, failed) :
            D \in SUBSET Deepenable(u),
            failed \in IF IndexFails THEN SUBSET Deepenable(u) ELSE {{}}}
         : S \in SUBSET Spillable(t)}

EnforceOutcomes(t) ==
  UNION {SpillOutcomes(CompactAll(t, K)) : K \in SUBSET Compactable(t)}

-----------------------------------------------------------------------------
(* Demotion *)

\* Fault: the reverse-adjacency index is not told.
DemoteUnindexed(t, n) ==
  LET own == Touching(t.edges, n)
  IN  [t EXCEPT !.res   = Drop(@, {n}),
                !.edges = @ \ own,
                !.cold  = Put(@, n, [text |-> t.res[n], edges |-> own, spilled |-> FALSE])]

Demote(t, n) ==
  LET own == Touching(t.edges, n)
  IN  [t EXCEPT !.res   = Drop(@, {n}),
                !.edges = @ \ own,
                !.cold  = Put(@, n, [text |-> t.res[n], edges |-> own, spilled |-> FALSE]),
                !.radj  = IF t.attached THEN @ \cup Pairs(n, own) ELSE @]

\* The tiers a demotion of the nodes of seq, one after the other, passes through.
Demotions(t, seq) ==
  LET after[i \in 0..Len(seq)] == IF i = 0 THEN t ELSE Demote(after[i - 1], seq[i])
  IN  after

\* Any k of the nodes in S, in any order, and the budgets then.
DemoteOutcomes(t, S, k) ==
  UNION {EnforceOutcomes(Demotions(t, seq)[Len(seq)]) :
         seq \in UNION {SetToSeqs(V) : V \in kSubset(k, S)}}

\* enforce_paging
PagingOutcomes(t, limit) ==
  LET resident == DOMAIN t.res IN
  IF Cardinality(resident) <= limit THEN {t}
  ELSE DemoteOutcomes(t, resident, Cardinality(resident) - limit)

-----------------------------------------------------------------------------
(* Page-in *)

\* Husks of M go back to full entries, and their body blobs go.
FaultInDeep(t, M) ==
  [t EXCEPT !.husk   = Drop(@, M),
            !.cold   = [n \in DOMAIN @ \cup M |->
                          IF n \in M THEN [text |-> t.husk[n].text, edges |-> t.husk[n].edges,
                                           spilled |-> FALSE]
                          ELSE @[n]],
            !.bodies = @ \ {[node |-> n, entry |-> t.husk[n]] : n \in M}]

\* The spilled content of n goes back inline.
FaultInText(t, n) ==
  IF t.cold[n].spilled
  THEN Collect([t EXCEPT !.cold[n].spilled = FALSE], {t.cold[n].text})
  ELSE t

\* Fault: links whose other end is not resident are dropped.
RestoreNodeOnly(t, n) ==
  LET E      == t.cold[n].edges
      relink == {e \in E : Other(e, n) \in DOMAIN t.res}
  IN  [t EXCEPT !.res   = Put(@, n, t.cold[n].text),
                !.edges = @ \cup relink,
                !.cold  = Drop(@, {n}),
                !.radj  = @ \ Pairs(n, E)]

\* n becomes resident. Its links are re-linked to resident nodes; the others
\* are handed to the COLD node at their other end, faulted in for it if deep.
RestoreNode(t, n) ==
  LET E        == t.cold[n].edges
      relink   == {e \in E : Other(e, n) \in DOMAIN t.res}
      far      == {Other(e, n) : e \in E \ relink}
      deep     == {m \in far \ DOMAIN t.cold : HasBody(t, m)}
      u        == FaultInDeep([t EXCEPT !.cold = Drop(@, {n})], deep)
      homeless == {e \in E \ relink : Other(e, n) \notin DOMAIN u.cold}
  IN  [u EXCEPT !.res   = Put(@, n, t.cold[n].text),
                !.edges = @ \cup relink,
                !.cold  = [m \in DOMAIN u.cold |->
                             [u.cold[m] EXCEPT
                                !.edges = @ \cup {e \in E \ relink : Other(e, n) = m}]],
                !.radj  = @ \ Pairs(n, relink \cup homeless)]

\* Fault: the node just restored can be the one swapped out.
SwapOutcomesAny(t, n, limit) ==
  LET resident == DOMAIN t.res IN
  DemoteOutcomes(t, resident,
    IF Cardinality(resident) > limit
    THEN Min({Cardinality(resident) - limit, Cardinality(resident) - 1}) ELSE 0)

\* While over the cap, a node other than n is demoted.
SwapOutcomes(t, n, limit) ==
  LET others == DOMAIN t.res \ {n}
      over   == Cardinality(DOMAIN t.res) - limit
  IN  DemoteOutcomes(t, others, IF over > 0 THEN Min({over, Cardinality(others)}) ELSE 0)

PageInOutcomes(t, n, limit) ==
  LET u == IF HasBody(t, n) THEN FaultInDeep(t, {n}) ELSE t IN
  IF n \in DOMAIN u.husk \/ n \notin DOMAIN u.cold \/ ~Readable(u, n)
  THEN {u}
  ELSE SwapOutcomes(RestoreNode(FaultInText(u, n), n), n, limit)

-----------------------------------------------------------------------------
(* Forgetting *)

\* Fault: a deep-spilled shadow is left in the index.
ForgetColdEntry(t, n) ==
  LET full == n \in DOMAIN t.cold
      u == [t EXCEPT !.cold = Drop(@, {n}),
                     !.radj = IF full THEN @ \ Pairs(n, t.cold[n].edges) ELSE @]
  IN  IF full /\ t.cold[n].spilled THEN Collect(u, {t.cold[n].text}) ELSE u

ForgetColdShadow(t, n) ==
  LET full  == n \in DOMAIN t.cold
      deep  == n \in DOMAIN t.husk
      known == (IF full THEN t.cold[n].edges ELSE {}) \cup (IF deep THEN t.husk[n].edges ELSE {})
      u == [t EXCEPT !.cold   = Drop(@, {n}),
                     !.husk   = Drop(@, {n}),
                     !.bodies = IF deep THEN @ \ {[node |-> n, entry |-> t.husk[n]]} ELSE @,
                     !.radj   = @ \ Pairs(n, known)]
  IN  IF full /\ t.cold[n].spilled THEN Collect(u, {t.cold[n].text}) ELSE u

-----------------------------------------------------------------------------
(* The graph's operations *)

Snap(t, c) == [res |-> t.res, edges |-> t.edges, cold |-> t.cold, cap |-> c]

NoGraph == [res |-> Nothing, edges |-> {}, cold |-> Nothing, husk |-> Nothing, radj |-> {},
            texts |-> {}, bodies |-> {}, attached |-> FALSE]

NoCall == [anchor |-> {}, rest |-> << >>]
Idle == todo = NoCall

Unsaved == [snap |-> Snap(NoGraph, cap), husk |-> Nothing, radj |-> {}]

\* What is on disk after a call. Where only a checkpoint just made is restarted
\* from, an older one is forgotten, to keep the states few.
Kept == IF Stops = "any" THEN saved ELSE Unsaved

Init ==
  /\ updated = {}
  /\ tier = NoGraph
  /\ cap \in Caps
  /\ todo = NoCall
  /\ saved = Unsaved

UpsertNode(n, c) ==
  LET t == ForgetColdShadow(tier, n) IN
  /\ Idle
  /\ updated' = {n}
  /\ tier' \in PagingOutcomes([t EXCEPT !.res = Put(@, n, c)], cap)
  /\ saved' = Kept
  /\ UNCHANGED <<cap, todo>>

AddEdge(e) ==
  /\ Idle
  /\ updated' = {}
  /\ {e[1], e[2]} \subseteq DOMAIN tier.res
  /\ tier' = [tier EXCEPT !.edges = @ \cup {e}]
  /\ saved' = Kept
  /\ UNCHANGED <<cap, todo>>

RemoveNode(n) ==
  LET t == ForgetColdShadow([tier EXCEPT !.res = Drop(@, {n})], n) IN
  /\ Idle
  /\ updated' = {n}
  /\ tier' = [t EXCEPT !.edges = @ \ Touching(@, n)]
  /\ saved' = Kept
  /\ UNCHANGED <<cap, todo>>

SetMaxResident(k) ==
  /\ Idle
  /\ updated' = {}
  /\ cap' = k
  /\ tier' \in PagingOutcomes(tier, k)
  /\ saved' = Kept
  /\ UNCHANGED todo

\* A COLD budget is set, and enforced.
SetBudget ==
  /\ Idle
  /\ updated' = {}
  /\ tier' \in EnforceOutcomes(tier)
  /\ saved' = Kept
  /\ UNCHANGED <<cap, todo>>

\* A failure signal on a node that is not resident.
PageIn(n) ==
  /\ Idle
  /\ updated' = {}
  /\ n \notin DOMAIN tier.res
  /\ tier' \in PageInOutcomes(tier, n, cap)
  /\ saved' = Kept
  /\ UNCHANGED <<cap, todo>>

IsCold(t, n) == n \in DOMAIN t.cold \cup DOMAIN t.husk

Archived(t) == UNION ({t.cold[n].edges : n \in DOMAIN t.cold}
                      \cup {t.husk[n].edges : n \in DOMAIN t.husk})

\* From the index when there is one, else from the entries themselves.
ColdNeighbours(t, n) ==
  {m \in Nodes \ {n} : IsCold(t, m) /\
     IF t.attached THEN <<n, m>> \in t.radj
     ELSE \E e \in Archived(t) : n \in {e[1], e[2]} /\ Other(e, n) = m}

\* Fault: the anchor is not restored again after its neighbours.
EnsureResidentOnce(n) ==
  /\ Idle
  /\ updated' = {}
  /\ \E seq \in SetToSeqs(ColdNeighbours(tier, n)) :
       todo' = [anchor |-> {n}, rest |-> <<n>> \o seq]
  /\ saved' = Kept
  /\ UNCHANGED <<tier, cap>>

\* ensure_resident: the anchor, its COLD neighbours, and the anchor again.
EnsureResident(n) ==
  /\ Idle
  /\ updated' = {}
  /\ \E seq \in SetToSeqs(ColdNeighbours(tier, n)) :
       todo' = [anchor |-> {n}, rest |-> <<n>> \o seq \o <<n>>]
  /\ saved' = Kept
  /\ UNCHANGED <<tier, cap>>

PageInNext ==
  /\ ~Idle
  /\ updated' = {}
  /\ tier' \in PageInOutcomes(tier, Head(todo.rest), cap)
  /\ todo' = IF Len(todo.rest) = 1 THEN NoCall ELSE [todo EXCEPT !.rest = Tail(@)]
  /\ saved' = Kept
  /\ UNCHANGED cap

-----------------------------------------------------------------------------
(* The store, checkpoints and restarts *)

\* The indices as last flushed, and every archived link indexed again.
AttachOutcomes(t) ==
  LET u == [t EXCEPT !.attached = TRUE, !.husk = saved.husk]
      known(n) == IF n \in DOMAIN u.cold THEN u.cold[n].edges ELSE {}
      deep(n)  == IF n \in DOMAIN u.husk THEN u.husk[n].edges ELSE {}
  IN  SpillOutcomes([u EXCEPT !.radj =
        saved.radj \cup UNION {Pairs(n, known(n) \cup deep(n)) : n \in Nodes}])

AttachColdSpill ==
  /\ Idle
  /\ updated' = {}
  /\ ~tier.attached
  /\ tier' \in AttachOutcomes(tier)
  /\ saved' = Kept
  /\ UNCHANGED <<cap, todo>>

\* What can be had back of the graph: by recall, page-in and fault-in.
Text(t, n) ==
  IF n \in DOMAIN t.res THEN t.res[n]
  ELSE IF n \in DOMAIN t.husk THEN IF HasBody(t, n) THEN t.husk[n].text ELSE NoText
  ELSE IF n \in DOMAIN t.cold /\ Readable(t, n) THEN t.cold[n].text
  ELSE NoText

\* A link counts while both its ends are in the graph.
Whole(t) ==
  [text  |-> [n \in Nodes |-> Text(t, n)],
   links |-> {e \in t.edges \cup Archived(t) : \A n \in {e[1], e[2]} : Text(t, n) # NoText}]

\* checkpoint_to flushes the indices first; checkpoint does not.
Checkpoint(flush) ==
  /\ Idle
  /\ Stops # "never"
  /\ updated' = {}
  /\ saved' = [saved EXCEPT !.snap = Snap(tier, cap),
                            !.husk = IF flush THEN tier.husk ELSE @,
                            !.radj = IF flush THEN tier.radj ELSE @]
  /\ UNCHANGED <<tier, cap, todo>>

\* A full memtable of either index is flushed.
IndexFlush ==
  /\ Stops # "never"
  /\ updated' = {}
  /\ tier.attached
  /\ \/ saved' = [saved EXCEPT !.husk = tier.husk]
     \/ saved' = [saved EXCEPT !.radj = tier.radj]
  /\ UNCHANGED <<tier, cap, todo>>

\* The process ends; the next one loads the snapshot and re-attaches the store.
Restart ==
  LET t == [tier EXCEPT !.res = saved.snap.res, !.edges = saved.snap.edges,
                        !.cold = saved.snap.cold, !.husk = Nothing, !.radj = {},
                        !.attached = FALSE]
  IN
  /\ Stops # "never"
  /\ updated' = {}
  /\ Stops = "clean" => /\ saved.snap = Snap(tier, cap)
                        /\ saved.husk = tier.husk /\ saved.radj = tier.radj
  /\ cap' = saved.snap.cap
  /\ todo' = NoCall
  /\ IF tier.attached THEN tier' \in AttachOutcomes(t) ELSE tier' = t
  /\ saved' = Kept

Next ==
  \/ \E n \in Nodes, c \in Contents : UpsertNode(n, c)
  \/ \E e \in Links : AddEdge(e)
  \/ \E n \in Nodes : RemoveNode(n) \/ PageIn(n) \/ EnsureResident(n)
  \/ PageInNext
  \/ \E k \in Caps : SetMaxResident(k)
  \/ SetBudget
  \/ AttachColdSpill
  \/ \E flush \in BOOLEAN : Checkpoint(flush)
  \/ IndexFlush
  \/ Restart

Spec == Init /\ [][Next]_vars

-----------------------------------------------------------------------------
(* Properties *)

PartialMaps(S) == UNION {[N -> S] : N \in SUBSET Nodes}
\* Link e is archived on node n.
Holds(t, n, e) ==
  \/ n \in DOMAIN t.cold /\ e \in t.cold[n].edges
  \/ n \in DOMAIN t.husk /\ e \in t.husk[n].edges

(* A node is in one place: resident, a COLD entry or a husk; and so is a     *)
(* link: between resident nodes, or archived on one of its own that is not.  *)
OnePlace ==
  /\ \A n \in DOMAIN tier.cold : tier.cold[n].edges = Touching(tier.cold[n].edges, n)
  /\ DOMAIN tier.res \cap DOMAIN tier.cold = {}
  /\ DOMAIN tier.husk \cap (DOMAIN tier.res \cup DOMAIN tier.cold) = {}
  /\ \A e \in tier.edges : {e[1], e[2]} \subseteq DOMAIN tier.res /\ e \notin Archived(tier)
  /\ \A e \in Archived(tier) : ~(Holds(tier, e[1], e) /\ Holds(tier, e[2], e))

(* The swap files hold exactly what the COLD tier refers to: no blob leaks,  *)
(* and none goes while an entry, perhaps another with the same content, still*)
(* needs it.                                                                 *)
NoOrphanedBlobs ==
  /\ tier.texts = {tier.cold[n].text : n \in {m \in DOMAIN tier.cold : tier.cold[m].spilled}}
  /\ tier.bodies = {[node |-> n, entry |-> tier.husk[n]] : n \in DOMAIN tier.husk}

(* The reverse-adjacency index answers what a scan of the whole COLD tier    *)
(* would, the husks on disk included.                                        *)
NeighboursExact ==
  \A n \in Nodes :
    ColdNeighbours(tier, n) =
      {m \in Nodes \ {n} : IsCold(tier, m) /\
         \E e \in Archived(tier) : n \in {e[1], e[2]} /\ Other(e, n) = m}

(* ensure_resident delivers its anchor: however small the window and whatever*)
(* its neighbours pushed out, the anchor is resident when it returns.        *)
AnchorDelivered ==
  [][\A n \in todo.anchor : PageInNext /\ Idle' /\ Text(tier', n) # NoText =>
       n \in DOMAIN tier'.res]_vars

(* Nothing is lost: paging, spilling and page-in leave every node's content  *)
(* and every link retrievable; only a re-ingest or a removal takes them away,*)
(* and a compaction leaves a summary.                                        *)
VG == INSTANCE VirtualGraph WITH
        text <- Whole(tier).text, links <- Whole(tier).links, Lossy <- Compacts
ImplementsVirtualGraph == VG!Spec

=============================================================================

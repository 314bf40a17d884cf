--------------------------- MODULE ColdTierProofs ---------------------------
(***************************************************************************)
(* Proofs about ColdTier, for every set of nodes, links and contents, every*)
(* resident cap and every COLD budget: a node and a link are in one place, *)
(* the swap files hold what the COLD tier refers to and nothing else, the  *)
(* reverse-adjacency index is exact, ensure_resident delivers its anchor,  *)
(* and the tiers together implement VirtualGraph. Index updates are assumed*)
(* not to fail, and a restart to be from a checkpoint of the last state.   *)
(***************************************************************************)
EXTENDS ColdTier, FiniteSetTheorems, SequenceTheorems, WellFoundedInduction, TLAPS

-----------------------------------------------------------------------------
(* Induction over the naturals, and functions defined by recursion *)

(* A set of naturals that holds 0 and the successor of each of its members   *)
(* holds every natural: induction, stated with a set so that the first-order *)
(* provers can instantiate it.                                               *)
LEMMA SetInduction ==
  ASSUME NEW T, T \subseteq Nat, 0 \in T, \A n \in T : n + 1 \in T
  PROVE  T = Nat
<1> SUFFICES ASSUME T # Nat PROVE FALSE
  OBVIOUS
<1> DEFINE R == OpToRel(<, Nat)
<1>1. IsWellFoundedOn(R, Nat)
  BY NatLessThanWellFounded
<1>2. \A y, x \in Nat : y < x => <<y, x>> \in R
  BY DEF OpToRel
<1> HIDE DEF R
<1>3. PICK x \in Nat \ T : \A y \in Nat \ T : ~(<<y, x>> \in R)
  BY <1>1, WFMin
<1>4. x # 0 /\ x - 1 \in Nat /\ x - 1 < x
  OBVIOUS
<1>5. x - 1 \in T
  BY <1>2, <1>3, <1>4
<1> QED
  BY <1>3, <1>4, <1>5

\* f runs through 0..n from b, each value being A of its index and the one before.
IsRun(f, n, S, b, A) ==
  /\ f \in [0..n -> S]
  /\ f[0] = b
  /\ \A i \in 1..n : f[i] = A[i][f[i - 1]]

(* A function on 0..n given by its value b at 0 and, from then on, by a step *)
(* function applied to the index and the previous value exists, and has its  *)
(* values in the set S those live in: the form of every replay of a log.     *)
LEMMA RecursionExists ==
  ASSUME NEW n \in Nat, NEW S, NEW b \in S, NEW A \in [1..n -> [S -> S]]
  PROVE  \E f : IsRun(f, n, S, b, A)
<1> DEFINE Partial(k) == \E f \in [0..k -> S] :
                           /\ f[0] = b
                           /\ \A i \in 1..k : f[i] = A[i][f[i - 1]]
           T == {k \in Nat : k <= n => Partial(k)}
<1>1. 0 \in T
  <2> DEFINE f == [i \in 0..0 |-> b]
  <2>1. f \in [0..0 -> S] /\ f[0] = b /\ \A i \in 1..0 : f[i] = A[i][f[i - 1]]
    OBVIOUS
  <2>2. QED
    BY <2>1
<1>2. ASSUME NEW k \in T PROVE k + 1 \in T
  <2>0. k \in Nat /\ (k <= n => Partial(k))
    OBVIOUS
  <2> HIDE DEF Partial
  <2> SUFFICES ASSUME k + 1 <= n PROVE Partial(k + 1)
    BY <2>0
  <2>1. k \in Nat /\ Partial(k)
    BY <2>0
  <2>2. PICK f \in [0..k -> S] : /\ f[0] = b
                                 /\ \A i \in 1..k : f[i] = A[i][f[i - 1]]
    BY <2>1 DEF Partial
  <2> DEFINE g == [i \in 0..(k + 1) |-> IF i = k + 1 THEN A[k + 1][f[k]] ELSE f[i]]
  <2>3. f[k] \in S /\ k + 1 \in 1..n
    BY <2>1
  <2>4. A[k + 1][f[k]] \in S
    BY <2>3
  <2>5. g \in [0..(k + 1) -> S]
    BY <2>1, <2>4
  <2>6. g[0] = b
    BY <2>1, <2>2
  <2>7. ASSUME NEW i \in 1..(k + 1) PROVE g[i] = A[i][g[i - 1]]
    <3>1. i - 1 \in 0..k /\ g[i - 1] = f[i - 1]
      BY <2>1
    <3>2. CASE i = k + 1
      BY <3>1, <3>2, <2>1
    <3>3. CASE i # k + 1
      BY <3>1, <3>3, <2>1, <2>2
    <3>4. QED
      BY <3>2, <3>3
  <2>8. QED
    BY <2>5, <2>6, <2>7 DEF Partial
<1> HIDE DEF T
<1>3. T = Nat
  <2>1. T \subseteq Nat
    BY DEF T
  <2>2. QED
    BY <1>1, <1>2, <2>1, SetInduction
<1>4. Partial(n)
  BY <1>3 DEF T
<1>5. QED
  BY <1>4 DEF IsRun


-----------------------------------------------------------------------------
(* The types                                                                 *)

Texts == Contents \cup {Summary}
Entries == [text : Texts, edges : SUBSET Links, spilled : BOOLEAN]
Husks == [text : Texts, edges : SUBSET Links]

Tiers ==
  [res : PartialMaps(Texts), edges : SUBSET Links,
   cold : PartialMaps(Entries), husk : PartialMaps(Husks),
   radj : SUBSET (Nodes \X Nodes), texts : SUBSET Texts,
   bodies : SUBSET [node : Nodes, entry : Husks], attached : BOOLEAN]

(* A partial map of nodes is a function on a set of nodes.                   *)
LEMMA MapIs ==
  ASSUME NEW S, NEW f
  PROVE  f \in PartialMaps(S) <=> DOMAIN f \in SUBSET Nodes /\ f \in [DOMAIN f -> S]
<1>1. ASSUME f \in PartialMaps(S) PROVE DOMAIN f \in SUBSET Nodes /\ f \in [DOMAIN f -> S]
  <2>1. PICK N \in SUBSET Nodes : f \in [N -> S]
    BY <1>1 DEF PartialMaps
  <2>2. QED
    BY <2>1
<1>2. ASSUME DOMAIN f \in SUBSET Nodes, f \in [DOMAIN f -> S] PROVE f \in PartialMaps(S)
  BY <1>2 DEF PartialMaps
<1>3. QED
  BY <1>1, <1>2

(* A value put into a partial map of such values gives another.              *)
LEMMA PutMap ==
  ASSUME NEW S, NEW f \in PartialMaps(S), NEW n \in Nodes, NEW v \in S
  PROVE  Put(f, n, v) \in PartialMaps(S)
<1>1. DOMAIN f \in SUBSET Nodes /\ f \in [DOMAIN f -> S]
  BY MapIs
<1>2. DOMAIN Put(f, n, v) = DOMAIN f \cup {n} /\ Put(f, n, v) \in [DOMAIN f \cup {n} -> S]
  BY <1>1 DEF Put
<1>3. QED
  BY <1>1, <1>2, MapIs

(* Nodes dropped from a partial map leave one.                               *)
LEMMA DropMap ==
  ASSUME NEW S, NEW f \in PartialMaps(S), NEW D
  PROVE  Drop(f, D) \in PartialMaps(S)
<1>1. DOMAIN f \in SUBSET Nodes /\ f \in [DOMAIN f -> S]
  BY MapIs
<1>2. DOMAIN Drop(f, D) = DOMAIN f \ D /\ Drop(f, D) \in [DOMAIN f \ D -> S]
  BY <1>1 DEF Drop
<1>3. QED
  BY <1>1, <1>2, MapIs

(* A tier is a record of its parts, each of its type.                        *)
LEMMA TierIs ==
  ASSUME NEW t
  PROVE  t \in Tiers <=>
         /\ t = [res |-> t.res, edges |-> t.edges, cold |-> t.cold, husk |-> t.husk,
                 radj |-> t.radj, texts |-> t.texts, bodies |-> t.bodies,
                 attached |-> t.attached]
         /\ t.res \in PartialMaps(Texts) /\ t.edges \in SUBSET Links
         /\ t.cold \in PartialMaps(Entries) /\ t.husk \in PartialMaps(Husks)
         /\ t.radj \in SUBSET (Nodes \X Nodes) /\ t.texts \in SUBSET Texts
         /\ t.bodies \in SUBSET [node : Nodes, entry : Husks]
         /\ t.attached \in BOOLEAN
BY DEF Tiers

(* What the parts of a tier are.                                             *)
LEMMA TierParts ==
  ASSUME NEW t \in Tiers
  PROVE  /\ DOMAIN t.res \in SUBSET Nodes /\ DOMAIN t.cold \in SUBSET Nodes
         /\ DOMAIN t.husk \in SUBSET Nodes
         /\ \A n \in DOMAIN t.res : t.res[n] \in Texts
         /\ \A n \in DOMAIN t.cold : /\ t.cold[n] \in Entries
                                     /\ t.cold[n].text \in Texts
                                     /\ t.cold[n].edges \in SUBSET Links
                                     /\ t.cold[n].spilled \in BOOLEAN
         /\ \A n \in DOMAIN t.husk : /\ t.husk[n] \in Husks
                                     /\ t.husk[n].text \in Texts
                                     /\ t.husk[n].edges \in SUBSET Links
         /\ t.edges \in SUBSET Links /\ t.attached \in BOOLEAN
<1>1. /\ t.res \in PartialMaps(Texts) /\ t.edges \in SUBSET Links
      /\ t.cold \in PartialMaps(Entries) /\ t.husk \in PartialMaps(Husks)
      /\ t.attached \in BOOLEAN
  BY TierIs
<1>2. /\ DOMAIN t.res \in SUBSET Nodes /\ t.res \in [DOMAIN t.res -> Texts]
      /\ DOMAIN t.cold \in SUBSET Nodes /\ t.cold \in [DOMAIN t.cold -> Entries]
      /\ DOMAIN t.husk \in SUBSET Nodes /\ t.husk \in [DOMAIN t.husk -> Husks]
  BY <1>1, MapIs
<1>3. QED
  BY <1>1, <1>2 DEF Entries, Husks

-----------------------------------------------------------------------------
(* What is true of a tier between any two of its operations                  *)

\* The links archived on n, where a node has one entry.
Held(t, n) ==
  IF n \in DOMAIN t.cold THEN t.cold[n].edges
  ELSE IF n \in DOMAIN t.husk THEN t.husk[n].edges ELSE {}

\* The texts of the entries that are spilled.
Refs(t) == {t.cold[n].text : n \in {m \in DOMAIN t.cold : t.cold[m].spilled}}

BodiesOf(t) == {[node |-> n, entry |-> t.husk[n]] : n \in DOMAIN t.husk}

SameEnds(e, d) == \/ e[1] = d[1] /\ e[2] = d[2]
                  \/ e[1] = d[2] /\ e[2] = d[1]

\* The ends of the links in E, both ways.
Adjacency(E) == {<<e[1], e[2]>> : e \in E} \cup {<<e[2], e[1]>> : e \in E}

Present(t) == DOMAIN t.res \cup DOMAIN t.cold \cup DOMAIN t.husk

\* The text of a node, wherever the node is, its blob aside.
TextOf(t, n) ==
  IF n \in DOMAIN t.res THEN t.res[n]
  ELSE IF n \in DOMAIN t.husk THEN t.husk[n].text
  ELSE IF n \in DOMAIN t.cold THEN t.cold[n].text ELSE NoText

Apart(t) ==
  /\ DOMAIN t.res \cap DOMAIN t.cold = {}
  /\ DOMAIN t.husk \cap (DOMAIN t.res \cup DOMAIN t.cold) = {}

Owned(t) == \A n \in Nodes : Held(t, n) \subseteq Touching(Links, n)

\* The archived links between two nodes are all on the same one.
OneHolder(t) ==
  \A m, n \in Nodes : m # n =>
    \A e \in Held(t, m), d \in Held(t, n) : ~SameEnds(e, d)

BlobsExact(t) == t.texts = Refs(t) /\ t.bodies = BodiesOf(t)

Indexed(t) == t.attached => t.radj = Adjacency(Archived(t))

\* Without a store nothing is spilled and nothing is indexed.
Detached(t) == ~t.attached => t.husk = Nothing /\ t.radj = {} /\ Refs(t) = {}

Sound(t) ==
  t \in Tiers /\ Apart(t) /\ Owned(t) /\ OneHolder(t) /\ BlobsExact(t) /\ Indexed(t)
    /\ Detached(t)

\* The links between resident nodes are just that.
Linked(t) == \A e \in t.edges : e[1] \in DOMAIN t.res /\ e[2] \in DOMAIN t.res

(* An archived link is held by some node.                                    *)
LEMMA ArchivedIs ==
  ASSUME NEW t \in Tiers, Apart(t)
  PROVE  \A e : e \in Archived(t) <=> \E n \in Nodes : e \in Held(t, n)
<1>1. DOMAIN t.cold \in SUBSET Nodes /\ DOMAIN t.husk \in SUBSET Nodes
  BY TierParts
<1>2. ASSUME NEW e, e \in Archived(t) PROVE \E n \in Nodes : e \in Held(t, n)
  BY <1>1, <1>2 DEF Archived, Held, Apart
<1>3. ASSUME NEW e, NEW n \in Nodes, e \in Held(t, n) PROVE e \in Archived(t)
  BY <1>3 DEF Archived, Held
<1>4. QED
  BY <1>2, <1>3

(* In a sound tier every blob is there: what can be had back of a node is its*)
(* text.                                                                     *)
LEMMA TextIs ==
  ASSUME NEW t, Sound(t)
  PROVE  /\ \A n : HasBody(t, n) <=> n \in DOMAIN t.husk
         /\ \A n \in DOMAIN t.cold : Readable(t, n)
         /\ \A n : Text(t, n) = TextOf(t, n)
         /\ \A n : Text(t, n) # NoText <=> n \in Present(t)
<1>1. ASSUME NEW n PROVE HasBody(t, n) <=> n \in DOMAIN t.husk
  BY DEF Sound, BlobsExact, BodiesOf, HasBody
<1>2. ASSUME NEW n \in DOMAIN t.cold PROVE Readable(t, n)
  BY DEF Sound, BlobsExact, Refs, Detached, Readable
<1>3. ASSUME NEW n PROVE Text(t, n) = TextOf(t, n)
  BY <1>1, <1>2 DEF Text, TextOf
<1>4. ASSUME NEW n PROVE Text(t, n) # NoText <=> n \in Present(t)
  BY <1>3, TierParts, TextsAssumption DEF Sound, TextOf, Present, Texts
<1>5. QED
  BY <1>1, <1>2, <1>3, <1>4

\* u keeps the nodes and links of t in the same places, but that an archived node
\* may go from the COLD tier to the index or back.
SameShape(t, u) ==
  /\ u.res = t.res /\ u.edges = t.edges /\ u.radj = t.radj /\ u.attached = t.attached
  /\ DOMAIN u.cold \cup DOMAIN u.husk = DOMAIN t.cold \cup DOMAIN t.husk
  /\ \A n \in Nodes : Held(u, n) = Held(t, n)

(* Such a u is sound when its blobs are.                                     *)
LEMMA SameShapeSound ==
  ASSUME NEW t, Sound(t), NEW u \in Tiers, SameShape(t, u),
         DOMAIN u.cold \cap DOMAIN u.husk = {}, BlobsExact(u), Detached(u)
  PROVE  Sound(u) /\ Archived(u) = Archived(t)
<1>1. Apart(u)
  BY DEF Sound, Apart, SameShape
<1>2. Owned(u) /\ OneHolder(u)
  BY DEF Sound, Owned, OneHolder, SameShape
<1>3. Archived(u) = Archived(t)
  <2>1. \A e : e \in Archived(t) <=> \E n \in Nodes : e \in Held(t, n)
    BY ArchivedIs DEF Sound
  <2>2. \A e : e \in Archived(u) <=> \E n \in Nodes : e \in Held(u, n)
    BY <1>1, ArchivedIs
  <2>3. \A e : e \in Archived(u) <=> e \in Archived(t)
    BY <2>1, <2>2 DEF SameShape
  <2>4. QED
    BY <2>3
<1>4. Indexed(u)
  BY <1>3 DEF Sound, Indexed, SameShape
<1>5. QED
  BY <1>1, <1>2, <1>3, <1>4 DEF Sound

(* Collect leaves the blobs of the spilled entries, when all others are among*)
(* those it was told to look at.                                             *)
LEMMA CollectIs ==
  ASSUME NEW t \in Tiers, NEW C, Refs(t) \subseteq t.texts, t.texts \subseteq Refs(t) \cup C
  PROVE  LET u == Collect(t, C) IN
         /\ u \in Tiers /\ u.texts = Refs(t)
         /\ u.res = t.res /\ u.edges = t.edges /\ u.cold = t.cold /\ u.husk = t.husk
         /\ u.radj = t.radj /\ u.bodies = t.bodies /\ u.attached = t.attached
<1> DEFINE D == {c \in C : \A n \in DOMAIN t.cold : t.cold[n].spilled => t.cold[n].text # c}
           u == Collect(t, C)
<1>1. t.texts \ D = Refs(t)
  BY DEF Refs
<1>2. u = [t EXCEPT !.texts = @ \ D]
  BY DEF Collect
<1> HIDE DEF D, u
<1>3. /\ t = [res |-> t.res, edges |-> t.edges, cold |-> t.cold, husk |-> t.husk,
              radj |-> t.radj, texts |-> t.texts, bodies |-> t.bodies,
              attached |-> t.attached]
  BY TierIs
<1>4. u = [res |-> t.res, edges |-> t.edges, cold |-> t.cold, husk |-> t.husk,
           radj |-> t.radj, texts |-> Refs(t), bodies |-> t.bodies,
           attached |-> t.attached]
  BY <1>1, <1>2, <1>3
<1>5. u \in Tiers
  BY <1>1, <1>4, TierIs
<1>6. QED
  BY <1>4, <1>5 DEF u

-----------------------------------------------------------------------------
(* The COLD budgets                                                          *)

(* A compaction keeps the shape and gives the compacted nodes their summary, *)
(* with no blob lost that another entry shares.                              *)
LEMMA CompactAllSound ==
  ASSUME NEW t, Sound(t), NEW K \in SUBSET Compactable(t)
  PROVE  LET u == CompactAll(t, K) IN
         /\ Sound(u) /\ SameShape(t, u) /\ Archived(u) = Archived(t)
         /\ \A n \in Nodes : TextOf(u, n) = IF n \in K THEN Summary ELSE TextOf(t, n)
         /\ \A n \in K : n \in Nodes /\ TextOf(t, n) \in Contents
         /\ Compacts \/ K = {}
<1> DEFINE shrunk == [n \in DOMAIN t.cold |->
                        IF n \in K
                        THEN [text |-> Summary, edges |-> t.cold[n].edges, spilled |-> FALSE]
                        ELSE t.cold[n]]
           v == [t EXCEPT !.cold = shrunk]
           C == {t.cold[n].text : n \in {m \in K : t.cold[m].spilled}}
           u == CompactAll(t, K)
<1>0. t \in Tiers /\ t.texts = Refs(t) /\ t.bodies = BodiesOf(t) /\ Apart(t) /\ Detached(t)
  BY DEF Sound, BlobsExact
<1>1. /\ K \subseteq DOMAIN t.cold
      /\ \A n \in K : t.cold[n].text # Summary
      /\ Compacts \/ K = {}
  BY DEF Compactable
<1>2. /\ DOMAIN t.cold \in SUBSET Nodes
      /\ \A n \in DOMAIN t.cold : /\ t.cold[n] \in Entries /\ t.cold[n].text \in Texts
                                  /\ t.cold[n].edges \in SUBSET Links
  BY <1>0, TierParts
<1>3. /\ DOMAIN shrunk = DOMAIN t.cold
      /\ \A n \in K : /\ shrunk[n].text = Summary /\ shrunk[n].edges = t.cold[n].edges
                      /\ shrunk[n].spilled = FALSE
      /\ \A n \in DOMAIN t.cold \ K : shrunk[n] = t.cold[n]
  BY <1>1
<1>4. shrunk \in [DOMAIN shrunk -> Entries]
  <2>1. \A n \in DOMAIN t.cold : shrunk[n] \in Entries
    BY <1>1, <1>2 DEF Entries, Texts
  <2>2. QED
    BY <2>1
<1>5. shrunk \in PartialMaps(Entries)
  BY <1>2, <1>3, <1>4, MapIs
<1>6. u = Collect(v, C)
  BY DEF CompactAll
<1> HIDE DEF shrunk, C, u
<1>7. v = [res |-> t.res, edges |-> t.edges, cold |-> shrunk, husk |-> t.husk,
           radj |-> t.radj, texts |-> t.texts, bodies |-> t.bodies, attached |-> t.attached]
  BY <1>0, TierIs
<1> HIDE DEF v
<1>8. v \in Tiers
  BY <1>0, <1>5, <1>7, TierIs
<1>9. Refs(v) \subseteq t.texts /\ t.texts \subseteq Refs(v) \cup C
  BY <1>0, <1>1, <1>3, <1>7 DEF Refs, C
<1>10. /\ u \in Tiers /\ u.texts = Refs(v)
       /\ u.res = t.res /\ u.edges = t.edges /\ u.cold = shrunk /\ u.husk = t.husk
       /\ u.radj = t.radj /\ u.bodies = t.bodies /\ u.attached = t.attached
  BY <1>6, <1>7, <1>8, <1>9, CollectIs
<1>11. Refs(u) = Refs(v) /\ BodiesOf(u) = BodiesOf(t)
  BY <1>7, <1>10 DEF Refs, BodiesOf
<1>12. SameShape(t, u)
  BY <1>1, <1>3, <1>10 DEF SameShape, Held
<1>13. BlobsExact(u) /\ Detached(u)
  BY <1>0, <1>9, <1>10, <1>11 DEF BlobsExact, Detached
<1>14. Sound(u) /\ Archived(u) = Archived(t)
  BY <1>0, <1>3, <1>10, <1>12, <1>13, SameShapeSound DEF Apart
<1>15. \A n \in Nodes : TextOf(u, n) = IF n \in K THEN Summary ELSE TextOf(t, n)
  BY <1>0, <1>1, <1>3, <1>10 DEF TextOf, Apart
<1>16. \A n \in K : n \in Nodes /\ TextOf(t, n) \in Contents
  BY <1>0, <1>1, <1>2 DEF TextOf, Apart, Texts
<1>17. QED
  BY <1>1, <1>12, <1>14, <1>15, <1>16 DEF u

(* A spill moves contents to blobs and nothing else.                         *)
LEMMA SpillAllSound ==
  ASSUME NEW t, Sound(t), NEW S \in SUBSET Spillable(t)
  PROVE  LET u == SpillAll(t, S) IN
         /\ Sound(u) /\ SameShape(t, u) /\ Archived(u) = Archived(t)
         /\ \A n \in Nodes : TextOf(u, n) = TextOf(t, n)
<1> DEFINE cold == [n \in DOMAIN t.cold |-> IF n \in S THEN [t.cold[n] EXCEPT !.spilled = TRUE]
                                            ELSE t.cold[n]]
           new == {t.cold[n].text : n \in S}
           u == SpillAll(t, S)
<1>0. t \in Tiers /\ t.texts = Refs(t) /\ t.bodies = BodiesOf(t) /\ Apart(t) /\ Detached(t)
  BY DEF Sound, BlobsExact
<1>1. S \subseteq DOMAIN t.cold /\ (t.attached \/ S = {}) /\ \A n \in S : ~t.cold[n].spilled
  BY DEF Spillable
<1>2. /\ DOMAIN t.cold \in SUBSET Nodes /\ t.attached \in BOOLEAN
      /\ \A n \in DOMAIN t.cold : /\ t.cold[n] \in Entries /\ t.cold[n].text \in Texts
                                  /\ t.cold[n].edges \in SUBSET Links
  BY <1>0, TierParts
<1>3. /\ DOMAIN cold = DOMAIN t.cold
      /\ \A n \in S : /\ cold[n] \in Entries
                      /\ cold[n].text = t.cold[n].text /\ cold[n].edges = t.cold[n].edges
                      /\ cold[n].spilled
      /\ \A n \in DOMAIN t.cold \ S : cold[n] = t.cold[n]
  BY <1>1, <1>2 DEF Entries
<1>4. cold \in [DOMAIN cold -> Entries]
  <2>1. \A n \in DOMAIN t.cold : cold[n] \in Entries
    BY <1>1, <1>2, <1>3
  <2>2. QED
    BY <2>1
<1>5. cold \in PartialMaps(Entries)
  BY <1>2, <1>3, <1>4, MapIs
<1>6. u = [res |-> t.res, edges |-> t.edges, cold |-> cold, husk |-> t.husk,
           radj |-> t.radj, texts |-> t.texts \cup new, bodies |-> t.bodies,
           attached |-> t.attached]
  <2> DEFINE a == [t EXCEPT !.cold = cold]
  <2>1. u = [a EXCEPT !.texts = t.texts \cup new]
    BY DEF SpillAll
  <2> HIDE DEF cold
  <2>2. a = [res |-> t.res, edges |-> t.edges, cold |-> cold, husk |-> t.husk,
             radj |-> t.radj, texts |-> t.texts, bodies |-> t.bodies,
             attached |-> t.attached]
    BY <1>0, TierIs
  <2> HIDE DEF a, new, u
  <2>3. QED
    BY <2>1, <2>2
<1> HIDE DEF cold, u
<1>7. new \in SUBSET Texts
  BY <1>1, <1>2
<1> HIDE DEF new
<1>8. u \in Tiers
  BY <1>0, <1>5, <1>6, <1>7, TierIs
<1>9. Refs(u) = t.texts \cup new /\ BodiesOf(u) = BodiesOf(t)
  BY <1>0, <1>1, <1>3, <1>6 DEF Refs, BodiesOf, new
<1>10. SameShape(t, u)
  BY <1>1, <1>3, <1>6 DEF SameShape, Held
<1>11. BlobsExact(u) /\ Detached(u)
  BY <1>0, <1>1, <1>6, <1>9 DEF BlobsExact, Detached, new
<1>12. Sound(u) /\ Archived(u) = Archived(t)
  BY <1>0, <1>3, <1>6, <1>8, <1>10, <1>11, SameShapeSound DEF Apart
<1>13. \A n \in Nodes : TextOf(u, n) = TextOf(t, n)
  BY <1>1, <1>3, <1>6 DEF TextOf
<1>14. QED
  BY <1>10, <1>12, <1>13 DEF u

(* A deep spill moves whole entries to the index and their bodies to blobs,  *)
(* and takes along the content blobs no entry shares.                        *)
LEMMA DeepenAllSound ==
  ASSUME NEW t, Sound(t), NEW D \in SUBSET Deepenable(t)
  PROVE  LET u == DeepenAll(t, D, {}) IN
         /\ Sound(u) /\ SameShape(t, u) /\ Archived(u) = Archived(t)
         /\ \A n \in Nodes : TextOf(u, n) = TextOf(t, n)
<1> DEFINE cold == Drop(t.cold, D \ {})
           entry(n) == [text |-> t.cold[n].text, edges |-> t.cold[n].edges]
           husk == [n \in DOMAIN t.husk \cup D |-> IF n \in D THEN entry(n) ELSE t.husk[n]]
           new == {[node |-> n, entry |-> entry(n)] : n \in D}
           a == [t EXCEPT !.cold = cold]
           b == [a EXCEPT !.husk = husk]
           v == [b EXCEPT !.bodies = t.bodies \cup new]
           C == {t.cold[n].text : n \in {m \in D \ {} : t.cold[m].spilled}}
           u == DeepenAll(t, D, {})
<1>0. t \in Tiers /\ t.texts = Refs(t) /\ t.bodies = BodiesOf(t) /\ Apart(t) /\ Detached(t)
  BY DEF Sound, BlobsExact
<1>1. D \subseteq DOMAIN t.cold /\ (t.attached \/ D = {})
  BY DEF Deepenable
<1>2. /\ DOMAIN t.cold \in SUBSET Nodes /\ DOMAIN t.husk \in SUBSET Nodes
      /\ t.cold \in PartialMaps(Entries) /\ t.bodies \in SUBSET [node : Nodes, entry : Husks]
      /\ \A n \in DOMAIN t.cold : /\ t.cold[n].text \in Texts
                                  /\ t.cold[n].edges \in SUBSET Links
      /\ \A n \in DOMAIN t.husk : t.husk[n] \in Husks
      /\ DOMAIN t.cold \cap DOMAIN t.husk = {}
  BY <1>0, TierParts, TierIs DEF Apart
<1>3. /\ cold \in PartialMaps(Entries) /\ DOMAIN cold = DOMAIN t.cold \ D
      /\ \A n \in DOMAIN t.cold \ D : cold[n] = t.cold[n]
  <2>1. cold \in PartialMaps(Entries)
    BY <1>2, DropMap
  <2>2. QED
    BY <2>1 DEF Drop
<1>4. /\ DOMAIN husk = DOMAIN t.husk \cup D
      /\ \A n \in D : /\ husk[n].text = t.cold[n].text /\ husk[n].edges = t.cold[n].edges
                      /\ husk[n] = entry(n)
      /\ \A n \in DOMAIN t.husk : husk[n] = t.husk[n]
      /\ \A n \in DOMAIN husk : husk[n] \in Husks
  BY <1>1, <1>2 DEF Husks
<1>5. husk \in PartialMaps(Husks)
  <2>1. husk \in [DOMAIN husk -> Husks] /\ DOMAIN husk \in SUBSET Nodes
    BY <1>1, <1>2, <1>4
  <2> HIDE DEF husk
  <2>2. QED
    BY <2>1, MapIs
<1>6. new \in SUBSET [node : Nodes, entry : Husks]
  BY <1>1, <1>2 DEF Husks
<1>7. u = Collect(v, C)
  BY DEF DeepenAll
<1>8. new = {[node |-> n, entry |-> husk[n]] : n \in D}
  BY <1>4
<1> HIDE DEF cold, husk, C, u, v, new
<1>9. v = [res |-> t.res, edges |-> t.edges, cold |-> cold, husk |-> husk,
           radj |-> t.radj, texts |-> t.texts, bodies |-> t.bodies \cup new,
           attached |-> t.attached]
  <2>1. a = [res |-> t.res, edges |-> t.edges, cold |-> cold, husk |-> t.husk,
             radj |-> t.radj, texts |-> t.texts, bodies |-> t.bodies,
             attached |-> t.attached]
    BY <1>0, TierIs
  <2> HIDE DEF a
  <2>2. b = [res |-> t.res, edges |-> t.edges, cold |-> cold, husk |-> husk,
             radj |-> t.radj, texts |-> t.texts, bodies |-> t.bodies,
             attached |-> t.attached]
    BY <2>1
  <2> HIDE DEF b
  <2>3. QED
    BY <2>2 DEF v
<1>10. v \in Tiers
  BY <1>0, <1>2, <1>3, <1>5, <1>6, <1>9, TierIs
<1>11. Refs(v) \subseteq t.texts /\ t.texts \subseteq Refs(v) \cup C
  BY <1>0, <1>1, <1>3, <1>9 DEF Refs, C
<1>12. /\ u \in Tiers /\ u.texts = Refs(v)
       /\ u.res = t.res /\ u.edges = t.edges /\ u.cold = cold /\ u.husk = husk
       /\ u.radj = t.radj /\ u.bodies = t.bodies \cup new /\ u.attached = t.attached
  BY <1>7, <1>9, <1>10, <1>11, CollectIs
<1>13. Refs(u) = Refs(v)
  BY <1>9, <1>12 DEF Refs
<1>14. u.bodies = BodiesOf(u)
  BY <1>0, <1>4, <1>8, <1>12 DEF BodiesOf
<1>15. SameShape(t, u)
  BY <1>1, <1>2, <1>3, <1>4, <1>12 DEF SameShape, Held
<1>16. Detached(u)
  <2>1. CASE D = {}
    <3>1. t.husk \in [DOMAIN t.husk -> Husks]
      BY <1>0, TierIs, MapIs
    <3>2. husk = t.husk
      BY <2>1, <3>1 DEF husk
    <3>3. QED
      BY <1>0, <1>11, <1>12, <1>13, <3>2 DEF Detached
  <2>2. QED
    BY <1>1, <1>12, <2>1 DEF Detached
<1>17. Sound(u) /\ Archived(u) = Archived(t)
  BY <1>2, <1>3, <1>4, <1>12, <1>13, <1>14, <1>15, <1>16, SameShapeSound DEF BlobsExact
<1>18. \A n \in Nodes : TextOf(u, n) = TextOf(t, n)
  BY <1>0, <1>1, <1>2, <1>3, <1>4, <1>12 DEF TextOf, Apart
<1>19. QED
  BY <1>15, <1>17, <1>18 DEF u

(* Keeping the shape is transitive.                                          *)
LEMMA SameShapeChain ==
  ASSUME NEW t, NEW u, NEW v, SameShape(t, u), SameShape(u, v)
  PROVE  SameShape(t, v)
BY DEF SameShape

\* Some contents of t are compacted in u.
Shrinks(t, u) ==
  \E K \in SUBSET {n \in Nodes : TextOf(t, n) \in Contents} :
    /\ Compacts \/ K = {}
    /\ \A n \in Nodes : TextOf(u, n) = IF n \in K THEN Summary ELSE TextOf(t, n)

(* The budgets of content and of the resident window, enforced.              *)
LEMMA SpillOutcomesSound ==
  ASSUME ~IndexFails, NEW t, Sound(t), NEW u \in SpillOutcomes(t)
  PROVE  /\ Sound(u) /\ SameShape(t, u) /\ Archived(u) = Archived(t)
         /\ \A n \in Nodes : TextOf(u, n) = TextOf(t, n)
<1>1. PICK S \in SUBSET Spillable(t) :
        \E D \in SUBSET Deepenable(SpillAll(t, S)) : u = DeepenAll(SpillAll(t, S), D, {})
  BY DEF SpillOutcomes
<1> DEFINE v == SpillAll(t, S)
<1>2. /\ Sound(v) /\ SameShape(t, v) /\ Archived(v) = Archived(t)
      /\ \A n \in Nodes : TextOf(v, n) = TextOf(t, n)
  BY SpillAllSound
<1>3. PICK D \in SUBSET Deepenable(v) : u = DeepenAll(v, D, {})
  BY <1>1
<1> HIDE DEF v
<1>4. /\ Sound(u) /\ SameShape(v, u) /\ Archived(u) = Archived(v)
      /\ \A n \in Nodes : TextOf(u, n) = TextOf(v, n)
  BY <1>2, <1>3, DeepenAllSound
<1>5. QED
  BY <1>2, <1>4, SameShapeChain

(* All COLD budgets, enforced.                                               *)
LEMMA EnforceSound ==
  ASSUME ~IndexFails, NEW t, Sound(t), NEW u \in EnforceOutcomes(t)
  PROVE  Sound(u) /\ SameShape(t, u) /\ Archived(u) = Archived(t) /\ Shrinks(t, u)
<1>1. PICK K \in SUBSET Compactable(t) : u \in SpillOutcomes(CompactAll(t, K))
  BY DEF EnforceOutcomes
<1> DEFINE v == CompactAll(t, K)
<1>2. /\ Sound(v) /\ SameShape(t, v) /\ Archived(v) = Archived(t)
      /\ \A n \in Nodes : TextOf(v, n) = IF n \in K THEN Summary ELSE TextOf(t, n)
      /\ \A n \in K : n \in Nodes /\ TextOf(t, n) \in Contents
      /\ Compacts \/ K = {}
  BY CompactAllSound
<1>3. u \in SpillOutcomes(v)
  BY <1>1
<1> HIDE DEF v
<1>4. /\ Sound(u) /\ SameShape(v, u) /\ Archived(u) = Archived(v)
      /\ \A n \in Nodes : TextOf(u, n) = TextOf(v, n)
  BY <1>2, <1>3, SpillOutcomesSound
<1>5. Shrinks(t, u)
  BY <1>2, <1>4 DEF Shrinks
<1>6. QED
  BY <1>2, <1>4, <1>5, SameShapeChain

-----------------------------------------------------------------------------
(* The reverse-adjacency index                                               *)

(* The entries made for links of n are their ends, both ways.                *)
LEMMA PairsIs ==
  ASSUME NEW n \in Nodes, NEW E \in SUBSET Links, E \subseteq Touching(Links, n)
  PROVE  Pairs(n, E) = Adjacency(E) /\ Adjacency(E) \in SUBSET (Nodes \X Nodes)
<1>1. ASSUME NEW e \in E
      PROVE  /\ e[1] \in Nodes /\ e[2] \in Nodes
             /\ \/ e[1] = n /\ Other(e, n) = e[2]
                \/ e[2] = n /\ Other(e, n) = e[1]
  BY LinksAssumption DEF Touching, Other
<1>2. Pairs(n, E) = Adjacency(E)
  <2>1. ASSUME NEW p \in Pairs(n, E) PROVE p \in Adjacency(E)
    <3>1. PICK e \in E : p = <<n, Other(e, n)>> \/ p = <<Other(e, n), n>>
      BY <2>1 DEF Pairs
    <3>2. QED
      BY <1>1, <3>1 DEF Adjacency
  <2>2. ASSUME NEW p \in Adjacency(E) PROVE p \in Pairs(n, E)
    <3>1. PICK e \in E : p = <<e[1], e[2]>> \/ p = <<e[2], e[1]>>
      BY <2>2 DEF Adjacency
    <3>2. QED
      BY <1>1, <3>1 DEF Pairs
  <2>3. QED
    BY <2>1, <2>2
<1>3. QED
  BY <1>1, <1>2 DEF Adjacency

(* More links, more entries.                                                 *)
LEMMA AdjacencyUnion ==
  ASSUME NEW A, NEW B
  PROVE  Adjacency(A \cup B) = Adjacency(A) \cup Adjacency(B)
BY DEF Adjacency

(* The entries of links that go can go, when none of the links that stay has *)
(* the same ends.                                                            *)
LEMMA AdjacencyMinus ==
  ASSUME NEW A, NEW B, NEW X, A = B \cup X,
         \A e \in B, d \in X : ~SameEnds(e, d)
  PROVE  Adjacency(B) = Adjacency(A) \ Adjacency(X)
<1>1. Adjacency(A) = Adjacency(B) \cup Adjacency(X)
  BY AdjacencyUnion
<1>2. ASSUME NEW p, p \in Adjacency(B), p \in Adjacency(X) PROVE FALSE
  <2>1. PICK e \in B : p = <<e[1], e[2]>> \/ p = <<e[2], e[1]>>
    BY <1>2 DEF Adjacency
  <2>2. PICK d \in X : p = <<d[1], d[2]>> \/ p = <<d[2], d[1]>>
    BY <1>2 DEF Adjacency
  <2>3. SameEnds(e, d)
    BY <2>1, <2>2 DEF SameEnds
  <2>4. QED
    BY <2>3
<1>3. QED
  BY <1>1, <1>2

-----------------------------------------------------------------------------
(* Demotion                                                                  *)

\* The links of t between nodes that are in the graph.
GraphOf(t) == {e \in t.edges \cup Archived(t) : e[1] \in Present(t) /\ e[2] \in Present(t)}

SameGraph(t, u) ==
  /\ Present(u) = Present(t)
  /\ \A n \in Nodes : TextOf(u, n) = TextOf(t, n)
  /\ GraphOf(u) = GraphOf(t)

(* A link held by a node has that node for an end, and is none of those      *)
(* between resident nodes.                                                   *)
LEMMA HeldIs ==
  ASSUME NEW t, Sound(t), NEW m \in Nodes, NEW d \in Held(t, m)
  PROVE  /\ d \in Links /\ m \notin DOMAIN t.res /\ m \in Present(t)
         /\ d[1] = m \/ d[2] = m
BY DEF Sound, Owned, Apart, Held, Touching, Present

(* Demoting a node archives it with all its links.                           *)
LEMMA DemoteSound ==
  ASSUME NEW t, Sound(t), Linked(t), NEW n \in DOMAIN t.res
  PROVE  LET u == Demote(t, n) IN
         /\ Sound(u) /\ Linked(u) /\ SameGraph(t, u)
         /\ DOMAIN u.res = DOMAIN t.res \ {n}
<1> DEFINE own == Touching(t.edges, n)
           new == [text |-> t.res[n], edges |-> own, spilled |-> FALSE]
           res == Drop(t.res, {n})
           cold == Put(t.cold, n, new)
           radj == IF t.attached THEN t.radj \cup Pairs(n, own) ELSE t.radj
           a == [t EXCEPT !.res = res]
           b == [a EXCEPT !.edges = t.edges \ own]
           c == [b EXCEPT !.cold = cold]
           u == Demote(t, n)
<1>0. /\ t \in Tiers /\ t.texts = Refs(t) /\ t.bodies = BodiesOf(t) /\ Apart(t)
      /\ Detached(t) /\ Owned(t) /\ OneHolder(t) /\ Indexed(t)
  BY DEF Sound, BlobsExact
<1>1. /\ DOMAIN t.res \in SUBSET Nodes /\ DOMAIN t.cold \in SUBSET Nodes
      /\ DOMAIN t.husk \in SUBSET Nodes /\ t.edges \in SUBSET Links
      /\ t.res[n] \in Texts /\ t.attached \in BOOLEAN
  BY <1>0, TierParts
<1>2. /\ t.res \in PartialMaps(Texts) /\ t.cold \in PartialMaps(Entries)
      /\ t.radj \in SUBSET (Nodes \X Nodes)
  BY <1>0, TierIs
<1>3. n \in Nodes /\ n \notin DOMAIN t.cold /\ n \notin DOMAIN t.husk
  BY <1>0, <1>1 DEF Apart
<1>4. /\ own \in SUBSET Links /\ own \subseteq t.edges /\ own \subseteq Touching(Links, n)
      /\ \A e \in t.edges \ own : e[1] # n /\ e[2] # n
  BY <1>1 DEF Touching
<1>5. /\ res \in PartialMaps(Texts) /\ DOMAIN res = DOMAIN t.res \ {n}
      /\ \A m \in DOMAIN t.res \ {n} : res[m] = t.res[m]
  <2>1. t.res \in PartialMaps(Texts)
    BY <1>2
  <2>2. res \in PartialMaps(Texts)
    BY <2>1, DropMap
  <2>3. QED
    BY <2>2 DEF Drop
<1>6. new \in Entries /\ new.text = t.res[n] /\ new.edges = own /\ ~new.spilled
  BY <1>1, <1>4 DEF Entries
<1>7. Pairs(n, own) = Adjacency(own) /\ Adjacency(own) \in SUBSET (Nodes \X Nodes)
  BY <1>3, <1>4, PairsIs
<1>8. u = [c EXCEPT !.radj = radj]
  BY DEF Demote
<1> HIDE DEF own, new
<1>9. /\ cold \in PartialMaps(Entries) /\ DOMAIN cold = DOMAIN t.cold \cup {n}
      /\ cold[n] = new /\ \A m \in DOMAIN t.cold : cold[m] = t.cold[m]
  <2>1. t.cold \in PartialMaps(Entries)
    BY <1>2
  <2>2. new \in Entries /\ n \in Nodes
    BY <1>3, <1>6
  <2>3. cold \in PartialMaps(Entries)
    BY <2>1, <2>2, PutMap
  <2>4. /\ DOMAIN cold = DOMAIN t.cold \cup {n}
        /\ cold[n] = new /\ \A m \in DOMAIN t.cold : m # n => cold[m] = t.cold[m]
    BY DEF Put
  <2> HIDE DEF cold
  <2>5. QED
    BY <1>3, <2>3, <2>4
<1> HIDE DEF res, cold, u
<1>10. u = [res |-> res, edges |-> t.edges \ own, cold |-> cold, husk |-> t.husk,
            radj |-> radj, texts |-> t.texts, bodies |-> t.bodies, attached |-> t.attached]
  <2>1. a = [res |-> res, edges |-> t.edges, cold |-> t.cold, husk |-> t.husk,
             radj |-> t.radj, texts |-> t.texts, bodies |-> t.bodies,
             attached |-> t.attached]
    BY <1>0, TierIs
  <2> HIDE DEF a
  <2>2. b = [res |-> res, edges |-> t.edges \ own, cold |-> t.cold, husk |-> t.husk,
             radj |-> t.radj, texts |-> t.texts, bodies |-> t.bodies,
             attached |-> t.attached]
    BY <2>1
  <2> HIDE DEF b
  <2>3. c = [res |-> res, edges |-> t.edges \ own, cold |-> cold, husk |-> t.husk,
             radj |-> t.radj, texts |-> t.texts, bodies |-> t.bodies,
             attached |-> t.attached]
    BY <2>2
  <2> HIDE DEF c, radj
  <2>4. QED
    BY <1>8, <2>3
<1>11. u \in Tiers
  BY <1>0, <1>1, <1>2, <1>5, <1>7, <1>9, <1>10, TierIs
<1> HIDE DEF radj
<1>12. Apart(u) /\ Present(u) = Present(t)
  BY <1>0, <1>3, <1>5, <1>9, <1>10 DEF Apart, Present
<1>13. /\ Held(u, n) = own /\ Held(t, n) = {}
       /\ \A m \in Nodes : m # n => Held(u, m) = Held(t, m)
  BY <1>3, <1>6, <1>9, <1>10 DEF Held
<1>14. Linked(u)
  BY <1>4, <1>5, <1>10 DEF Linked
<1>15. Archived(u) = Archived(t) \cup own
  <2>1. \A e : e \in Archived(t) <=> \E m \in Nodes : e \in Held(t, m)
    BY <1>0, ArchivedIs
  <2>2. \A e : e \in Archived(u) <=> \E m \in Nodes : e \in Held(u, m)
    BY <1>11, <1>12, ArchivedIs
  <2>3. QED
    BY <1>3, <1>13, <2>1, <2>2
<1>16. Owned(u)
  BY <1>0, <1>4, <1>13 DEF Owned
<1>17. OneHolder(u)
  <2>1. ASSUME NEW m \in Nodes, m # n, NEW e \in own, NEW d \in Held(t, m), SameEnds(e, d)
        PROVE  FALSE
    <3>1. e[1] \in DOMAIN t.res /\ e[2] \in DOMAIN t.res
      BY <1>4 DEF Linked
    <3>2. m \notin DOMAIN t.res /\ (d[1] = m \/ d[2] = m)
      BY HeldIs
    <3>3. QED
      BY <2>1, <3>1, <3>2 DEF SameEnds
  <2>2. \A m \in Nodes : m # n => \A e \in own, d \in Held(t, m) : ~SameEnds(e, d)
    BY <2>1
  <2>3. \A m \in Nodes : m # n => \A e \in Held(t, m), d \in own : ~SameEnds(e, d)
    BY <2>1 DEF SameEnds
  <2>4. QED
    BY <1>0, <1>13, <2>2, <2>3 DEF OneHolder
<1>18. BlobsExact(u)
  <2>1. Refs(u) = Refs(t) /\ BodiesOf(u) = BodiesOf(t)
    BY <1>3, <1>6, <1>9, <1>10 DEF Refs, BodiesOf
  <2>2. QED
    BY <1>0, <1>10, <2>1 DEF BlobsExact
<1>19. Indexed(u)
  <2> SUFFICES ASSUME u.attached PROVE u.radj = Adjacency(Archived(u))
    BY DEF Indexed
  <2>1. u.radj = t.radj \cup Pairs(n, own) /\ t.radj = Adjacency(Archived(t))
    BY <1>0, <1>10 DEF Indexed, radj
  <2>2. Adjacency(Archived(u)) = Adjacency(Archived(t)) \cup Adjacency(own)
    BY <1>15, AdjacencyUnion
  <2>3. QED
    BY <1>7, <2>1, <2>2
<1>20. Detached(u)
  <2>1. Refs(u) = Refs(t)
    BY <1>3, <1>6, <1>9, <1>10 DEF Refs
  <2>2. QED
    BY <1>0, <1>10, <2>1 DEF Detached, radj
<1>21. \A m \in Nodes : TextOf(u, m) = TextOf(t, m)
  BY <1>0, <1>3, <1>5, <1>6, <1>9, <1>10 DEF TextOf, Apart
<1>22. GraphOf(u) = GraphOf(t)
  BY <1>4, <1>10, <1>12, <1>15 DEF GraphOf
<1>23. QED
  BY <1>5, <1>10, <1>11, <1>12, <1>14, <1>16, <1>17, <1>18, <1>19, <1>20, <1>21, <1>22
     DEF Sound, SameGraph, u

(* Keeping the graph is transitive.                                          *)
LEMMA SameGraphChain ==
  ASSUME NEW t, NEW u, NEW v, SameGraph(t, u), SameGraph(u, v)
  PROVE  SameGraph(t, v)
BY DEF SameGraph

\* The nodes of seq before its position k + 1.
Upto(seq, k) == {seq[j] : j \in 1..k}

\* h runs through the demotions of the nodes of seq.
Demoting(h, t, seq) ==
  /\ h[0] = t
  /\ \A i \in 1..Len(seq) :
       seq[i] \in DOMAIN h[i - 1].res => h[i] = Demote(h[i - 1], seq[i])

(* Resident nodes demoted one after the other: the graph stays the same, and *)
(* those nodes and no others have left the resident window.                  *)
LEMMA DemotingSound ==
  ASSUME NEW t, Sound(t), Linked(t), NEW seq, Len(seq) \in Nat,
         \A i \in 1..Len(seq) : seq[i] \in DOMAIN t.res,
         \A i, j \in 1..Len(seq) : i # j => seq[i] # seq[j],
         NEW h, Demoting(h, t, seq)
  PROVE  \A k \in 0..Len(seq) :
           /\ Sound(h[k]) /\ Linked(h[k]) /\ SameGraph(t, h[k])
           /\ DOMAIN h[k].res = DOMAIN t.res \ Upto(seq, k)
<1> DEFINE n == Len(seq)
           Good(k) == /\ Sound(h[k]) /\ Linked(h[k]) /\ SameGraph(t, h[k])
                      /\ DOMAIN h[k].res = DOMAIN t.res \ Upto(seq, k)
           T == {k \in Nat : k <= n => Good(k)}
<1>1. 0 \in T
  <2>1. Upto(seq, 0) = {} /\ h[0] = t
    BY DEF Upto, Demoting
  <2>2. SameGraph(t, t)
    BY DEF SameGraph
  <2>3. Good(0)
    BY <2>1, <2>2
  <2>4. QED
    BY <2>3
<1>2. ASSUME NEW k \in T PROVE k + 1 \in T
  <2> SUFFICES ASSUME k + 1 <= n PROVE Good(k + 1)
    OBVIOUS
  <2>1. k \in Nat /\ Good(k)
    OBVIOUS
  <2>2. k + 1 \in 1..n /\ (k + 1) - 1 = k
    BY <2>1
  <2> DEFINE x == seq[k + 1]
  <2>3. x \in DOMAIN t.res
    BY <2>2
  <2>4. x \notin Upto(seq, k)
    <3>1. ASSUME NEW j \in 1..k PROVE seq[j] # x
      BY <2>1, <2>2
    <3>2. QED
      BY <3>1 DEF Upto
  <2>5. x \in DOMAIN h[k].res
    BY <2>1, <2>3, <2>4
  <2>6. h[k + 1] = Demote(h[k], x)
    BY <2>2, <2>5 DEF Demoting
  <2> HIDE DEF x
  <2>7. /\ Sound(h[k + 1]) /\ Linked(h[k + 1]) /\ SameGraph(h[k], h[k + 1])
        /\ DOMAIN h[k + 1].res = DOMAIN h[k].res \ {x}
    BY <2>1, <2>5, <2>6, DemoteSound
  <2>8. SameGraph(t, h[k + 1])
    BY <2>1, <2>7, SameGraphChain
  <2>9. Upto(seq, k + 1) = Upto(seq, k) \cup {x}
    BY <2>1 DEF Upto, x
  <2>10. QED
    BY <2>1, <2>7, <2>8, <2>9
<1> HIDE DEF T
<1>3. T = Nat
  <2>1. T \subseteq Nat
    BY DEF T
  <2>2. QED
    BY <1>1, <1>2, <2>1, SetInduction
<1>4. QED
  BY <1>3 DEF T

(* The demotions of a sequence of resident nodes are what Demoting says.     *)
LEMMA DemotionsSound ==
  ASSUME NEW t, Sound(t), Linked(t), NEW seq, Len(seq) \in Nat,
         \A i \in 1..Len(seq) : seq[i] \in DOMAIN t.res,
         \A i, j \in 1..Len(seq) : i # j => seq[i] # seq[j]
  PROVE  LET u == Demotions(t, seq)[Len(seq)] IN
         /\ Sound(u) /\ Linked(u) /\ SameGraph(t, u)
         /\ DOMAIN u.res = DOMAIN t.res \ Upto(seq, Len(seq))
<1> DEFINE n == Len(seq)
           S == {u \in Tiers : Sound(u) /\ Linked(u)}
           D(u, x) == IF x \in DOMAIN u.res THEN Demote(u, x) ELSE u
           A == [i \in 1..n |-> [u \in S |-> D(u, seq[i])]]
<1>1. A \in [1..n -> [S -> S]]
  <2>1. ASSUME NEW u \in S, NEW x PROVE D(u, x) \in S
    <3>1. CASE x \in DOMAIN u.res
      BY <3>1, DemoteSound DEF Sound
    <3>2. CASE x \notin DOMAIN u.res
      BY <3>2
    <3>3. QED
      BY <3>1, <3>2
  <2> HIDE DEF D, S
  <2>2. QED
    BY <2>1
<1>2. t \in S
  BY DEF Sound
<1>3. \A i \in 1..n : \A u \in S : A[i][u] = D(u, seq[i])
  BY DEF A
<1> HIDE DEF A, S
<1>4. PICK f : IsRun(f, n, S, t, A)
  BY <1>1, <1>2, RecursionExists
<1>5. \A i \in 1..n : f[i] = D(f[i - 1], seq[i])
  <2>1. ASSUME NEW i \in 1..n PROVE f[i - 1] \in S /\ f[i] = A[i][f[i - 1]]
    <3>1. i - 1 \in 0..n
      OBVIOUS
    <3>2. QED
      BY <1>4, <3>1 DEF IsRun
  <2>2. QED
    BY <1>3, <2>1
<1>6. Demoting(f, t, seq) /\ f[0] = t /\ f \in [0..n -> S]
  BY <1>4, <1>5 DEF Demoting, IsRun
<1>7. \A k \in 0..n : DOMAIN f[k].res = DOMAIN t.res \ Upto(seq, k)
  BY <1>6, DemotingSound
<1>8. \A i \in 1..n : f[i] = Demote(f[i - 1], seq[i])
  <2>1. ASSUME NEW i \in 1..n PROVE seq[i] \in DOMAIN f[i - 1].res
    <3>1. i - 1 \in 0..n
      OBVIOUS
    <3>2. seq[i] \notin Upto(seq, i - 1)
      BY DEF Upto
    <3>3. QED
      BY <1>7, <3>1, <3>2
  <2>2. QED
    BY <1>5, <2>1
<1> DEFINE Runs(r) == r = [i \in 0..n |-> IF i = 0 THEN t ELSE Demote(r[i - 1], seq[i])]
<1>9. Runs(f)
  BY <1>6, <1>8
<1> HIDE DEF Runs
<1> DEFINE g == CHOOSE r : Runs(r)
<1>10. Runs(g)
  BY <1>9
<1>11. g = Demotions(t, seq)
  BY DEF Demotions, n, Runs
<1> HIDE DEF g
<1>12. g[0] = t /\ \A i \in 1..n : g[i] = Demote(g[i - 1], seq[i])
  BY <1>10 DEF Runs
<1>13. Demoting(g, t, seq)
  BY <1>12 DEF Demoting
<1>14. n \in 0..n
  OBVIOUS
<1>15. QED
  BY <1>11, <1>13, <1>14, DemotingSound

(* An ordering of a set of nodes is a sequence without repetitions.          *)
LEMMA OrderingIs ==
  ASSUME NEW V \in SUBSET Nodes, NEW seq \in SetToSeqs(V)
  PROVE  /\ seq \in Seq(V) /\ Len(seq) \in Nat
         /\ \A i \in 1..Len(seq) : seq[i] \in V
         /\ \A i, j \in 1..Len(seq) : i # j => seq[i] # seq[j]
<1> DEFINE n == Cardinality(V)
<1>1. n \in Nat
  BY CapsAssumption, FS_Subset, FS_CardinalityType
<1>2. seq \in [1..n -> V] /\ \A i, j \in 1..n : i # j => seq[i] # seq[j]
  BY DEF SetToSeqs
<1> HIDE DEF n
<1>3. seq \in Seq(V)
  BY <1>1, <1>2, SeqDef
<1>4. Len(seq) \in Nat /\ 1..Len(seq) = 1..n
  BY <1>2, <1>3, LenProperties
<1>5. QED
  BY <1>2, <1>3, <1>4

\* From t to u the graph stays, but that contents may be compacted.
Pages(t, u) ==
  Present(u) = Present(t) /\ GraphOf(u) = GraphOf(t) /\ Shrinks(t, u)

(* The budgets enforced on a tier with the graph of t.                       *)
LEMMA EnforcePages ==
  ASSUME ~IndexFails, NEW t, NEW v, Sound(v), Linked(v), SameGraph(t, v),
         NEW u \in EnforceOutcomes(v)
  PROVE  Sound(u) /\ Linked(u) /\ Pages(t, u) /\ u.res = v.res
<1>1. Sound(u) /\ SameShape(v, u) /\ Archived(u) = Archived(v) /\ Shrinks(v, u)
  BY EnforceSound
<1>2. Linked(u) /\ Present(u) = Present(v) /\ GraphOf(u) = GraphOf(v)
  BY <1>1 DEF SameShape, Linked, Present, GraphOf
<1>3. Shrinks(t, u)
  BY <1>1 DEF Shrinks, SameGraph
<1>4. QED
  BY <1>1, <1>2, <1>3 DEF Pages, SameGraph, SameShape

(* Some of the nodes in S are demoted, and none that is not in S.            *)
LEMMA DemoteOutcomesSound ==
  ASSUME ~IndexFails, NEW t, Sound(t), Linked(t), NEW S \in SUBSET DOMAIN t.res, NEW k,
         NEW u \in DemoteOutcomes(t, S, k)
  PROVE  /\ Sound(u) /\ Linked(u) /\ Pages(t, u)
         /\ DOMAIN t.res \ S \subseteq DOMAIN u.res
<1>0. PICK V \in SUBSET S : \E seq \in SetToSeqs(V) :
        u \in EnforceOutcomes(Demotions(t, seq)[Len(seq)])
  BY DEF DemoteOutcomes, kSubset
<1>1. PICK seq \in SetToSeqs(V) : u \in EnforceOutcomes(Demotions(t, seq)[Len(seq)])
  BY <1>0
<1>2. V \in SUBSET Nodes
  BY TierParts DEF Sound
<1>3. /\ Len(seq) \in Nat /\ \A i \in 1..Len(seq) : seq[i] \in V
      /\ \A i, j \in 1..Len(seq) : i # j => seq[i] # seq[j]
  BY <1>2, OrderingIs
<1> DEFINE v == Demotions(t, seq)[Len(seq)]
<1>4. /\ Sound(v) /\ Linked(v) /\ SameGraph(t, v)
      /\ DOMAIN v.res = DOMAIN t.res \ Upto(seq, Len(seq))
  BY <1>3, DemotionsSound
<1>5. Upto(seq, Len(seq)) \subseteq S
  BY <1>3 DEF Upto
<1>6. u \in EnforceOutcomes(v)
  BY <1>1
<1> HIDE DEF v
<1>7. Sound(u) /\ Linked(u) /\ Pages(t, u) /\ u.res = v.res
  BY <1>4, <1>6, EnforcePages
<1>8. QED
  BY <1>4, <1>5, <1>7

(* enforce_paging.                                                           *)
LEMMA PagingOutcomesSound ==
  ASSUME ~IndexFails, NEW t, Sound(t), Linked(t), NEW limit, NEW u \in PagingOutcomes(t, limit)
  PROVE  Sound(u) /\ Linked(u) /\ Pages(t, u)
<1>1. CASE u = t
  <2>1. Shrinks(t, t)
    <3>1. {} \in SUBSET {n \in Nodes : TextOf(t, n) \in Contents}
      OBVIOUS
    <3>2. QED
      BY <3>1 DEF Shrinks
  <2>2. QED
    BY <1>1, <2>1 DEF Pages
<1>2. CASE u \in DemoteOutcomes(t, DOMAIN t.res, Cardinality(DOMAIN t.res) - limit)
  BY <1>2, DemoteOutcomesSound
<1>3. QED
  BY <1>1, <1>2 DEF PagingOutcomes

-----------------------------------------------------------------------------
(* Page-in                                                                   *)

(* What faulting in the husks of M gives.                                    *)
LEMMA FaultInDeepParts ==
  ASSUME NEW t \in Tiers, NEW M \in SUBSET DOMAIN t.husk
  PROVE  LET u == FaultInDeep(t, M) IN
         /\ u \in Tiers
         /\ u.res = t.res /\ u.edges = t.edges /\ u.radj = t.radj /\ u.texts = t.texts
         /\ u.attached = t.attached
         /\ u.bodies = t.bodies \ {[node |-> n, entry |-> t.husk[n]] : n \in M}
         /\ u.husk = Drop(t.husk, M)
         /\ DOMAIN u.husk = DOMAIN t.husk \ M
         /\ \A n \in DOMAIN t.husk \ M : u.husk[n] = t.husk[n]
         /\ DOMAIN u.cold = DOMAIN t.cold \cup M
         /\ \A n \in DOMAIN t.cold \ M : u.cold[n] = t.cold[n]
         /\ \A n \in M : /\ u.cold[n].text = t.husk[n].text
                         /\ u.cold[n].edges = t.husk[n].edges
                         /\ ~u.cold[n].spilled
<1> DEFINE husk == Drop(t.husk, M)
           cold == [n \in DOMAIN t.cold \cup M |->
                      IF n \in M THEN [text |-> t.husk[n].text, edges |-> t.husk[n].edges,
                                       spilled |-> FALSE]
                      ELSE t.cold[n]]
           bodies == t.bodies \ {[node |-> n, entry |-> t.husk[n]] : n \in M}
           a == [t EXCEPT !.husk = husk]
           b == [a EXCEPT !.cold = cold]
           u == FaultInDeep(t, M)
<1>1. /\ DOMAIN t.cold \in SUBSET Nodes /\ DOMAIN t.husk \in SUBSET Nodes
      /\ \A n \in DOMAIN t.cold : t.cold[n] \in Entries
      /\ \A n \in DOMAIN t.husk : /\ t.husk[n].text \in Texts
                                  /\ t.husk[n].edges \in SUBSET Links
  BY TierParts
<1>2. t.husk \in PartialMaps(Husks) /\ t.bodies \in SUBSET [node : Nodes, entry : Husks]
  BY TierIs
<1>3. husk \in PartialMaps(Husks)
  BY <1>2, DropMap
<1>4. DOMAIN husk = DOMAIN t.husk \ M /\ \A n \in DOMAIN t.husk \ M : husk[n] = t.husk[n]
  BY DEF Drop
<1>5. /\ DOMAIN cold = DOMAIN t.cold \cup M
      /\ \A n \in DOMAIN t.cold \ M : cold[n] = t.cold[n]
      /\ \A n \in M : /\ cold[n].text = t.husk[n].text /\ cold[n].edges = t.husk[n].edges
                      /\ ~cold[n].spilled
  OBVIOUS
<1>6. cold \in [DOMAIN cold -> Entries]
  <2>1. \A n \in DOMAIN t.cold \cup M : cold[n] \in Entries
    BY <1>1 DEF Entries
  <2>2. QED
    BY <2>1
<1>7. bodies \in SUBSET [node : Nodes, entry : Husks]
  BY <1>2
<1>8. u = [b EXCEPT !.bodies = bodies]
  BY DEF FaultInDeep
<1> HIDE DEF cold, husk, bodies, u
<1>9. cold \in PartialMaps(Entries)
  BY <1>1, <1>5, <1>6, MapIs
<1>10. u = [res |-> t.res, edges |-> t.edges, cold |-> cold, husk |-> husk,
            radj |-> t.radj, texts |-> t.texts, bodies |-> bodies, attached |-> t.attached]
  <2>1. a = [res |-> t.res, edges |-> t.edges, cold |-> t.cold, husk |-> husk,
             radj |-> t.radj, texts |-> t.texts, bodies |-> t.bodies,
             attached |-> t.attached]
    BY TierIs
  <2> HIDE DEF a
  <2>2. b = [res |-> t.res, edges |-> t.edges, cold |-> cold, husk |-> husk,
             radj |-> t.radj, texts |-> t.texts, bodies |-> t.bodies,
             attached |-> t.attached]
    BY <2>1
  <2> HIDE DEF b
  <2>3. QED
    BY <1>8, <2>2
<1>11. u \in Tiers
  BY <1>3, <1>7, <1>9, <1>10, TierIs
<1>12. u.husk = Drop(t.husk, M) /\ u.bodies = bodies
  BY <1>10 DEF husk
<1>13. QED
  BY <1>4, <1>5, <1>10, <1>11, <1>12 DEF u, bodies

(* Husks faulted in are entries again.                                       *)
LEMMA FaultInDeepSound ==
  ASSUME NEW t, Sound(t), NEW M \in SUBSET DOMAIN t.husk
  PROVE  LET u == FaultInDeep(t, M) IN
         /\ Sound(u) /\ SameShape(t, u) /\ Archived(u) = Archived(t)
         /\ \A n \in Nodes : TextOf(u, n) = TextOf(t, n)
<1> DEFINE u == FaultInDeep(t, M)
<1>0. /\ t \in Tiers /\ t.texts = Refs(t) /\ t.bodies = BodiesOf(t) /\ Apart(t)
      /\ Detached(t)
  BY DEF Sound, BlobsExact
<1>1. /\ u \in Tiers
      /\ u.res = t.res /\ u.edges = t.edges /\ u.radj = t.radj /\ u.texts = t.texts
      /\ u.attached = t.attached
      /\ u.bodies = t.bodies \ {[node |-> n, entry |-> t.husk[n]] : n \in M}
      /\ u.husk = Drop(t.husk, M)
      /\ DOMAIN u.husk = DOMAIN t.husk \ M
      /\ \A n \in DOMAIN t.husk \ M : u.husk[n] = t.husk[n]
      /\ DOMAIN u.cold = DOMAIN t.cold \cup M
      /\ \A n \in DOMAIN t.cold \ M : u.cold[n] = t.cold[n]
      /\ \A n \in M : /\ u.cold[n].text = t.husk[n].text
                      /\ u.cold[n].edges = t.husk[n].edges
                      /\ ~u.cold[n].spilled
  BY <1>0, FaultInDeepParts
<1> HIDE DEF u
<1>2. DOMAIN t.cold \cap DOMAIN t.husk = {}
  BY <1>0 DEF Apart
<1>3. SameShape(t, u)
  BY <1>1, <1>2 DEF SameShape, Held
<1>4. Refs(u) = Refs(t)
  BY <1>1, <1>2 DEF Refs
<1>5. BodiesOf(u) = u.bodies
  BY <1>0, <1>1 DEF BodiesOf
<1>6. Detached(u)
  BY <1>0, <1>1, <1>4 DEF Detached, Nothing, Drop
<1>7. Sound(u) /\ Archived(u) = Archived(t)
  BY <1>0, <1>1, <1>2, <1>3, <1>4, <1>5, <1>6, SameShapeSound DEF BlobsExact
<1>8. \A n \in Nodes : TextOf(u, n) = TextOf(t, n)
  BY <1>0, <1>1, <1>2 DEF TextOf, Apart
<1>9. QED
  BY <1>3, <1>7, <1>8 DEF u

(* A content faulted in is inline again, and its blob goes unless shared.    *)
LEMMA FaultInTextSound ==
  ASSUME NEW t, Sound(t), NEW n \in DOMAIN t.cold
  PROVE  LET u == FaultInText(t, n) IN
         /\ Sound(u) /\ SameShape(t, u) /\ Archived(u) = Archived(t)
         /\ \A m \in Nodes : TextOf(u, m) = TextOf(t, m)
         /\ n \in DOMAIN u.cold /\ ~u.cold[n].spilled
<1> DEFINE cold == [t.cold EXCEPT ![n].spilled = FALSE]
           v == [t EXCEPT !.cold = cold]
           C == {t.cold[n].text}
           u == FaultInText(t, n)
<1>0. /\ t \in Tiers /\ t.texts = Refs(t) /\ t.bodies = BodiesOf(t) /\ Apart(t)
      /\ Detached(t)
  BY DEF Sound, BlobsExact
<1>1. CASE ~t.cold[n].spilled
  <2>1. u = t
    BY <1>1 DEF FaultInText
  <2> HIDE DEF u
  <2>2. SameShape(t, t)
    BY DEF SameShape
  <2>3. QED
    BY <1>1, <2>1, <2>2 DEF u
<1>2. CASE t.cold[n].spilled
  <2>1. u = Collect(v, C)
    BY <1>2 DEF FaultInText
  <2>2. /\ DOMAIN t.cold \in SUBSET Nodes
        /\ \A m \in DOMAIN t.cold : t.cold[m] \in Entries
    BY <1>0, TierParts
  <2>3. /\ DOMAIN cold = DOMAIN t.cold
        /\ \A m \in DOMAIN t.cold \ {n} : cold[m] = t.cold[m]
        /\ cold[n].text = t.cold[n].text /\ cold[n].edges = t.cold[n].edges
        /\ ~cold[n].spilled /\ cold[n] \in Entries
    BY <2>2 DEF Entries
  <2> HIDE DEF cold, u
  <2>4. cold \in PartialMaps(Entries)
    <3>1. \A m \in DOMAIN cold : cold[m] \in Entries
      BY <2>2, <2>3
    <3>2. cold = [m \in DOMAIN cold |-> cold[m]]
      BY DEF cold
    <3>3. cold \in [DOMAIN cold -> Entries]
      BY <3>1, <3>2
    <3>4. QED
      BY <2>2, <2>3, <3>3, MapIs
  <2>5. v = [res |-> t.res, edges |-> t.edges, cold |-> cold, husk |-> t.husk,
             radj |-> t.radj, texts |-> t.texts, bodies |-> t.bodies,
             attached |-> t.attached]
    BY <1>0, TierIs
  <2> HIDE DEF v
  <2>6. v \in Tiers
    BY <1>0, <2>4, <2>5, TierIs
  <2>7. Refs(v) \subseteq t.texts /\ t.texts \subseteq Refs(v) \cup C
    BY <1>0, <2>3, <2>5 DEF Refs
  <2>8. /\ u \in Tiers /\ u.texts = Refs(v)
        /\ u.res = t.res /\ u.edges = t.edges /\ u.cold = cold /\ u.husk = t.husk
        /\ u.radj = t.radj /\ u.bodies = t.bodies /\ u.attached = t.attached
    BY <2>1, <2>5, <2>6, <2>7, CollectIs
  <2>9. Refs(u) = Refs(v) /\ BodiesOf(u) = BodiesOf(t)
    BY <2>5, <2>8 DEF Refs, BodiesOf
  <2>10. SameShape(t, u)
    BY <2>3, <2>8 DEF SameShape, Held
  <2>11. BlobsExact(u) /\ Detached(u)
    BY <1>0, <2>7, <2>8, <2>9 DEF BlobsExact, Detached
  <2>12. Sound(u) /\ Archived(u) = Archived(t)
    BY <1>0, <2>3, <2>8, <2>10, <2>11, SameShapeSound DEF Apart
  <2>13. \A m \in Nodes : TextOf(u, m) = TextOf(t, m)
    BY <2>3, <2>8 DEF TextOf
  <2>14. QED
    BY <2>3, <2>8, <2>10, <2>12, <2>13 DEF u
<1>3. QED
  BY <1>1, <1>2

(* A restored node is resident with its links to resident nodes; its links to*)
(* other COLD nodes are archived on those, and a link to a node that is gone *)
(* goes too.                                                                 *)
LEMMA RestoreNodeSound ==
  ASSUME NEW t, Sound(t), Linked(t), NEW n \in DOMAIN t.cold, ~t.cold[n].spilled
  PROVE  LET w == RestoreNode(t, n) IN
         /\ Sound(w) /\ Linked(w) /\ SameGraph(t, w)
         /\ DOMAIN w.res = DOMAIN t.res \cup {n}
<1> DEFINE E == t.cold[n].edges
           relink == {e \in E : Other(e, n) \in DOMAIN t.res}
           far == {Other(e, n) : e \in E \ relink}
           deep == {m \in far \ DOMAIN t.cold : HasBody(t, m)}
           s == [t EXCEPT !.cold = Drop(t.cold, {n})]
           u == FaultInDeep(s, deep)
           homeless == {e \in E \ relink : Other(e, n) \notin DOMAIN u.cold}
           given(m) == {e \in E \ relink : Other(e, n) = m}
           res == Put(u.res, n, t.cold[n].text)
           edges == u.edges \cup relink
           cold == [m \in DOMAIN u.cold |->
                      [u.cold[m] EXCEPT !.edges = u.cold[m].edges \cup given(m)]]
           radj == u.radj \ Pairs(n, relink \cup homeless)
           a == [u EXCEPT !.res = res]
           b == [a EXCEPT !.edges = edges]
           c == [b EXCEPT !.cold = cold]
           w == RestoreNode(t, n)
<1>0. /\ t \in Tiers /\ t.texts = Refs(t) /\ t.bodies = BodiesOf(t) /\ Apart(t)
      /\ Detached(t) /\ Owned(t) /\ OneHolder(t) /\ Indexed(t)
  BY DEF Sound, BlobsExact
<1>1. /\ DOMAIN t.res \in SUBSET Nodes /\ DOMAIN t.cold \in SUBSET Nodes
      /\ DOMAIN t.husk \in SUBSET Nodes /\ t.edges \in SUBSET Links
      /\ t.cold[n].text \in Texts /\ E \in SUBSET Links
  BY <1>0, TierParts
<1>2. /\ t.res \in PartialMaps(Texts) /\ t.cold \in PartialMaps(Entries)
      /\ t.radj \in SUBSET (Nodes \X Nodes)
  BY <1>0, TierIs
<1>3. n \in Nodes /\ n \notin DOMAIN t.res /\ n \notin DOMAIN t.husk /\ Held(t, n) = E
  BY <1>0, <1>1 DEF Apart, Held
<1>4. E \subseteq Touching(Links, n)
  BY <1>0, <1>3 DEF Owned
<1>5. ASSUME NEW e \in E
      PROVE  /\ Other(e, n) \in Nodes /\ Other(e, n) # n
             /\ \/ e[1] = n /\ e[2] = Other(e, n)
                \/ e[2] = n /\ e[1] = Other(e, n)
  <2>1. e \in Links /\ e \in Nodes \X Nodes /\ e[1] # e[2] /\ (e[1] = n \/ e[2] = n)
    BY <1>1, <1>4, LinksAssumption DEF Touching
  <2>2. QED
    BY <2>1 DEF Other
<1>6. deep = far \cap DOMAIN t.husk /\ n \notin far
  <2>1. \A m : HasBody(t, m) <=> m \in DOMAIN t.husk
    BY TextIs
  <2>2. QED
    BY <1>0, <1>5, <2>1 DEF Apart
<1>7. w = [c EXCEPT !.radj = radj]
  BY DEF RestoreNode
<1>8. \A e \in E \ relink : Other(e, n) \in far
  OBVIOUS
<1> HIDE DEF E, far, deep, w
<1>9. s = [res |-> t.res, edges |-> t.edges, cold |-> Drop(t.cold, {n}), husk |-> t.husk,
           radj |-> t.radj, texts |-> t.texts, bodies |-> t.bodies, attached |-> t.attached]
  BY <1>0, TierIs
<1> HIDE DEF s
<1>10. s \in Tiers
  <2>1. Drop(t.cold, {n}) \in PartialMaps(Entries)
    BY <1>2, DropMap
  <2>2. QED
    BY <1>0, <1>9, <2>1, TierIs
<1>11. /\ DOMAIN s.cold = DOMAIN t.cold \ {n}
       /\ \A m \in DOMAIN t.cold \ {n} : s.cold[m] = t.cold[m]
  BY <1>9 DEF Drop
<1>12. /\ u \in Tiers
       /\ u.res = t.res /\ u.edges = t.edges /\ u.radj = t.radj /\ u.texts = t.texts
       /\ u.attached = t.attached
       /\ u.bodies = t.bodies \ {[node |-> m, entry |-> t.husk[m]] : m \in deep}
       /\ u.husk = Drop(t.husk, deep)
       /\ DOMAIN u.husk = DOMAIN t.husk \ deep
       /\ \A m \in DOMAIN t.husk \ deep : u.husk[m] = t.husk[m]
       /\ DOMAIN u.cold = DOMAIN s.cold \cup deep
       /\ \A m \in DOMAIN s.cold \ deep : u.cold[m] = s.cold[m]
       /\ \A m \in deep : /\ u.cold[m].text = t.husk[m].text
                          /\ u.cold[m].edges = t.husk[m].edges
                          /\ ~u.cold[m].spilled
  <2>1. deep \in SUBSET DOMAIN s.husk
    BY <1>6, <1>9
  <2>2. /\ u \in Tiers
        /\ u.res = s.res /\ u.edges = s.edges /\ u.radj = s.radj /\ u.texts = s.texts
        /\ u.attached = s.attached
        /\ u.bodies = s.bodies \ {[node |-> m, entry |-> s.husk[m]] : m \in deep}
        /\ u.husk = Drop(s.husk, deep)
        /\ DOMAIN u.husk = DOMAIN s.husk \ deep
        /\ \A m \in DOMAIN s.husk \ deep : u.husk[m] = s.husk[m]
        /\ DOMAIN u.cold = DOMAIN s.cold \cup deep
        /\ \A m \in DOMAIN s.cold \ deep : u.cold[m] = s.cold[m]
        /\ \A m \in deep : /\ u.cold[m].text = s.husk[m].text
                           /\ u.cold[m].edges = s.husk[m].edges
                           /\ ~u.cold[m].spilled
    BY <1>10, <2>1, FaultInDeepParts
  <2> HIDE DEF u
  <2>3. /\ s.res = t.res /\ s.edges = t.edges /\ s.radj = t.radj /\ s.texts = t.texts
        /\ s.attached = t.attached /\ s.bodies = t.bodies /\ s.husk = t.husk
    BY <1>9
  <2>4. QED
    BY <2>2, <2>3
<1> HIDE DEF u
<1>13. /\ DOMAIN u.cold = (DOMAIN t.cold \ {n}) \cup deep
       /\ \A m \in DOMAIN t.cold \ {n} : u.cold[m] = t.cold[m]
  BY <1>0, <1>6, <1>11, <1>12 DEF Apart
<1>14. DOMAIN u.cold \in SUBSET Nodes /\ \A m \in DOMAIN u.cold : u.cold[m] \in Entries
  BY <1>12, TierParts
<1>15. \A m : given(m) \in SUBSET Links
  BY <1>1
<1> HIDE DEF given
<1>16. /\ DOMAIN cold = DOMAIN u.cold
       /\ \A m \in DOMAIN u.cold : /\ cold[m].text = u.cold[m].text
                                   /\ cold[m].edges = u.cold[m].edges \cup given(m)
                                   /\ cold[m].spilled = u.cold[m].spilled
                                   /\ cold[m] \in Entries
  BY <1>14, <1>15 DEF Entries
<1>17. cold \in [DOMAIN cold -> Entries]
  BY <1>16
<1> HIDE DEF cold
<1>18. cold \in PartialMaps(Entries)
  BY <1>14, <1>16, <1>17, MapIs
<1>19. res \in PartialMaps(Texts)
  BY <1>1, <1>2, <1>3, <1>12, PutMap
<1>20. /\ DOMAIN res = DOMAIN t.res \cup {n} /\ res[n] = t.cold[n].text
       /\ \A m \in DOMAIN t.res : res[m] = t.res[m]
  BY <1>3, <1>12 DEF Put
<1> HIDE DEF res
<1>21. w = [res |-> res, edges |-> edges, cold |-> cold, husk |-> u.husk,
            radj |-> radj, texts |-> u.texts, bodies |-> u.bodies, attached |-> u.attached]
  <2> HIDE DEF edges, radj
  <2>0. u \in Tiers
    BY <1>12
  <2>1. a = [res |-> res, edges |-> u.edges, cold |-> u.cold, husk |-> u.husk,
             radj |-> u.radj, texts |-> u.texts, bodies |-> u.bodies,
             attached |-> u.attached]
    BY <2>0, TierIs
  <2> HIDE DEF a
  <2>2. b = [res |-> res, edges |-> edges, cold |-> u.cold, husk |-> u.husk,
             radj |-> u.radj, texts |-> u.texts, bodies |-> u.bodies,
             attached |-> u.attached]
    BY <2>1
  <2> HIDE DEF b
  <2>3. c = [res |-> res, edges |-> edges, cold |-> cold, husk |-> u.husk,
             radj |-> u.radj, texts |-> u.texts, bodies |-> u.bodies,
             attached |-> u.attached]
    BY <2>2
  <2> HIDE DEF c
  <2>4. QED
    BY <1>7, <2>3
<1>22. w \in Tiers
  <2>1. edges \in SUBSET Links /\ radj \in SUBSET (Nodes \X Nodes)
    BY <1>1, <1>2, <1>12
  <2>2. QED
    BY <1>12, <1>18, <1>19, <1>21, <2>1, TierIs
<1> DEFINE gone == relink \cup homeless
<1>23. /\ w.res = res /\ w.edges = t.edges \cup relink /\ w.cold = cold
       /\ w.husk = u.husk /\ w.radj = t.radj \ Pairs(n, gone) /\ w.texts = t.texts
       /\ w.bodies = u.bodies /\ w.attached = t.attached
  BY <1>12, <1>21
<1>24. /\ relink \subseteq E /\ \A e \in relink : Other(e, n) \in DOMAIN t.res
       /\ homeless \subseteq E
       /\ \A e \in homeless : Other(e, n) \notin DOMAIN u.cold /\ Other(e, n) \notin DOMAIN t.res
       /\ \A e \in E : \/ e \in gone
                       \/ Other(e, n) \in DOMAIN u.cold /\ Other(e, n) \notin DOMAIN t.res
  OBVIOUS
<1>25. \A e \in homeless : Other(e, n) \notin Present(t)
  <2>1. ASSUME NEW e \in homeless PROVE Other(e, n) \notin Present(t)
    <3>1. Other(e, n) \in far /\ Other(e, n) # n
      BY <1>5, <1>8
    <3>2. QED
      BY <1>6, <1>13, <3>1 DEF Present
  <2>2. QED
    BY <2>1
<1>26. \A m : \A e \in given(m) : e \in E /\ e \notin relink /\ Other(e, n) = m
  BY DEF given
<1>27. \A e \in E : e \notin relink => e \in given(Other(e, n))
  BY DEF given
<1> HIDE DEF gone, relink, homeless, edges, radj
<1>28. Apart(w) /\ Present(w) = Present(t)
  <2>1. /\ DOMAIN w.res = DOMAIN t.res \cup {n}
        /\ DOMAIN w.cold = (DOMAIN t.cold \ {n}) \cup deep
        /\ DOMAIN w.husk = DOMAIN t.husk \ deep
    BY <1>12, <1>13, <1>16, <1>20, <1>23
  <2>2. Apart(t) /\ deep \subseteq DOMAIN t.husk
    BY <1>0, <1>6
  <2>3. QED
    BY <1>3, <2>1, <2>2 DEF Apart, Present
<1>29. /\ Held(w, n) = {}
       /\ \A m \in DOMAIN u.cold : Held(w, m) = Held(t, m) \cup given(m)
       /\ \A m \in Nodes : m # n /\ m \notin DOMAIN u.cold => Held(w, m) = Held(t, m)
  <2>1. Held(w, n) = {}
    BY <1>3, <1>6, <1>12, <1>13, <1>16, <1>23 DEF Held
  <2>2. ASSUME NEW m \in DOMAIN u.cold PROVE Held(w, m) = Held(t, m) \cup given(m)
    <3>1. Held(w, m) = u.cold[m].edges \cup given(m)
      BY <1>16, <1>23 DEF Held
    <3>2. u.cold[m].edges = Held(t, m)
      BY <1>0, <1>6, <1>12, <1>13 DEF Held, Apart
    <3>3. QED
      BY <3>1, <3>2
  <2>3. \A m \in Nodes : m # n /\ m \notin DOMAIN u.cold => Held(w, m) = Held(t, m)
    BY <1>12, <1>13, <1>16, <1>23 DEF Held
  <2>4. QED
    BY <2>1, <2>2, <2>3
<1>30. ASSUME NEW m \in Nodes, NEW e \in Held(w, m)
       PROVE  m # n /\ (e \in Held(t, m) \/ (e \in given(m) /\ m \in DOMAIN u.cold))
  BY <1>29, <1>30
<1>31. Owned(w)
  <2>1. ASSUME NEW m \in Nodes, NEW e \in Held(w, m) PROVE e \in Touching(Links, m)
    <3>1. CASE e \in Held(t, m)
      BY <1>0, <3>1 DEF Owned
    <3>2. CASE e \in given(m)
      BY <1>1, <1>5, <1>26, <3>2 DEF Touching
    <3>3. QED
      BY <1>30, <3>1, <3>2
  <2>2. QED
    BY <2>1 DEF Owned
<1>32. ASSUME NEW m \in Nodes, m # n, NEW e \in Held(t, m), NEW d \in E PROVE ~SameEnds(e, d)
  BY <1>0, <1>3, <1>32 DEF OneHolder
<1>33. OneHolder(w)
  <2>1. ASSUME NEW m \in Nodes, NEW k \in Nodes, m # k, NEW e \in given(m),
               NEW d \in Held(w, k)
        PROVE  ~SameEnds(e, d)
    <3>1. e \in E /\ Other(e, n) = m /\ k # n
      BY <1>26, <1>30
    <3>2. CASE d \in Held(t, k)
      BY <1>32, <3>1, <3>2 DEF SameEnds
    <3>3. CASE d \in given(k)
      <4>1. d \in E /\ Other(d, n) = k
        BY <1>26, <3>3
      <4>2. QED
        BY <1>5, <2>1, <3>1, <4>1 DEF SameEnds
    <3>4. QED
      BY <1>30, <3>2, <3>3
  <2>2. ASSUME NEW m \in Nodes, NEW k \in Nodes, m # k, NEW e \in Held(w, m),
               NEW d \in Held(w, k)
        PROVE  ~SameEnds(e, d)
    <3>1. CASE e \in given(m)
      BY <2>1, <2>2, <3>1
    <3>2. CASE d \in given(k)
      BY <2>1, <2>2, <3>2 DEF SameEnds
    <3>3. CASE e \in Held(t, m) /\ d \in Held(t, k)
      BY <1>0, <2>2, <3>3 DEF OneHolder
    <3>4. QED
      BY <1>30, <2>2, <3>1, <3>2, <3>3
  <2>3. QED
    BY <2>2 DEF OneHolder
<1>34. Archived(t) = Archived(w) \cup gone
  <2>1. \A e : e \in Archived(t) <=> \E m \in Nodes : e \in Held(t, m)
    BY <1>0, ArchivedIs
  <2>2. \A e : e \in Archived(w) <=> \E m \in Nodes : e \in Held(w, m)
    BY <1>22, <1>28, ArchivedIs
  <2>3. ASSUME NEW e \in Archived(t) PROVE e \in Archived(w) \cup gone
    <3>1. PICK m \in Nodes : e \in Held(t, m)
      BY <2>1, <2>3
    <3>2. CASE m # n
      BY <1>29, <2>2, <3>1, <3>2
    <3>3. CASE m = n /\ e \notin gone
      <4>1. e \in E /\ Other(e, n) \in DOMAIN u.cold /\ e \notin relink
        BY <1>3, <1>24, <3>1, <3>3 DEF gone
      <4>2. e \in Held(w, Other(e, n)) /\ Other(e, n) \in Nodes
        BY <1>5, <1>27, <1>29, <4>1
      <4>3. QED
        BY <2>2, <4>2
    <3>4. QED
      BY <3>2, <3>3
  <2>4. ASSUME NEW e \in Archived(w) PROVE e \in Archived(t)
    <3>1. PICK m \in Nodes : e \in Held(w, m)
      BY <2>2, <2>4
    <3>2. CASE e \in Held(t, m)
      BY <2>1, <3>2
    <3>3. CASE e \in given(m)
      BY <1>3, <1>26, <2>1, <3>3
    <3>4. QED
      BY <1>30, <3>1, <3>2, <3>3
  <2>5. \A e \in gone : e \in Archived(t)
    BY <1>3, <1>24, <2>1 DEF gone
  <2>6. QED
    BY <2>3, <2>4, <2>5
<1>35. \A e \in Archived(w), d \in gone : ~SameEnds(e, d)
  <2>1. ASSUME NEW e \in Archived(w), NEW d \in gone PROVE ~SameEnds(e, d)
    <3>1. PICK m \in Nodes : e \in Held(w, m)
      BY <1>22, <1>28, ArchivedIs
    <3>2. d \in E /\ (Other(d, n) \in DOMAIN t.res \/ Other(d, n) \notin DOMAIN u.cold)
      BY <1>24 DEF gone
    <3>3. CASE e \in Held(t, m)
      BY <1>30, <1>32, <3>1, <3>2, <3>3
    <3>4. CASE e \in given(m) /\ m \in DOMAIN u.cold
      <4>1. e \in E /\ Other(e, n) = m
        BY <1>26, <3>4
      <4>2. m \notin DOMAIN t.res
        BY <1>0, <1>6, <1>13, <3>4 DEF Apart
      <4>3. Other(d, n) # m
        BY <3>2, <3>4, <4>2
      <4>4. QED
        BY <1>5, <3>2, <4>1, <4>3 DEF SameEnds
    <3>5. QED
      BY <1>30, <3>1, <3>3, <3>4
  <2>2. QED
    BY <2>1
<1>36. Indexed(w)
  <2> SUFFICES ASSUME w.attached PROVE w.radj = Adjacency(Archived(w))
    BY DEF Indexed
  <2>1. t.radj = Adjacency(Archived(t))
    BY <1>0, <1>23 DEF Indexed
  <2>2. Adjacency(Archived(w)) = Adjacency(Archived(t)) \ Adjacency(gone)
    BY <1>34, <1>35, AdjacencyMinus
  <2>3. gone \in SUBSET Links /\ gone \subseteq Touching(Links, n)
    BY <1>1, <1>4, <1>24 DEF gone
  <2>4. Pairs(n, gone) = Adjacency(gone)
    BY <1>3, <2>3, PairsIs
  <2>5. QED
    BY <1>23, <2>1, <2>2, <2>4
<1>37. Refs(w) = Refs(t)
  BY <1>0, <1>6, <1>12, <1>13, <1>16, <1>23 DEF Refs, Apart
<1>38. BodiesOf(w) = w.bodies
  <2>1. /\ DOMAIN w.husk = DOMAIN t.husk \ deep
        /\ \A m \in DOMAIN w.husk : w.husk[m] = t.husk[m]
        /\ w.bodies = t.bodies \ {[node |-> m, entry |-> t.husk[m]] : m \in deep}
    BY <1>12, <1>23
  <2>2. t.bodies = BodiesOf(t)
    BY <1>0
  <2>3. QED
    BY <2>1, <2>2 DEF BodiesOf
<1>39. BlobsExact(w) /\ Detached(w)
  BY <1>0, <1>12, <1>23, <1>37, <1>38 DEF BlobsExact, Detached, Nothing, Drop
<1>40. Linked(w)
  BY <1>5, <1>20, <1>23, <1>24 DEF Linked
<1>41. \A m \in Nodes : TextOf(w, m) = TextOf(t, m)
  <2>1. Apart(t) /\ deep \subseteq DOMAIN t.husk
    BY <1>0, <1>6
  <2>2. TextOf(w, n) = TextOf(t, n)
    BY <1>3, <1>20, <1>23 DEF TextOf
  <2>3. ASSUME NEW m \in DOMAIN t.res PROVE TextOf(w, m) = TextOf(t, m)
    BY <1>20, <1>23 DEF TextOf
  <2>4. ASSUME NEW m \in deep PROVE TextOf(w, m) = TextOf(t, m)
    <3>1. /\ m \notin DOMAIN t.res /\ m \in DOMAIN t.husk /\ m # n
          /\ m \in DOMAIN u.cold /\ u.cold[m].text = t.husk[m].text
          /\ m \notin DOMAIN u.husk
      BY <1>3, <1>12, <2>1, <2>4 DEF Apart
    <3>2. m \notin DOMAIN w.res /\ m \notin DOMAIN w.husk /\ m \in DOMAIN w.cold
            /\ w.cold[m].text = t.husk[m].text
      BY <1>16, <1>20, <1>23, <3>1
    <3>3. QED
      BY <3>1, <3>2 DEF TextOf
  <2>5. ASSUME NEW m \in Nodes, m # n, m \notin DOMAIN t.res, m \notin deep
        PROVE  TextOf(w, m) = TextOf(t, m)
    <3>1. /\ m \notin DOMAIN w.res
          /\ m \in DOMAIN w.husk <=> m \in DOMAIN t.husk
          /\ m \in DOMAIN w.husk => w.husk[m] = t.husk[m]
          /\ m \in DOMAIN w.cold <=> m \in DOMAIN t.cold
          /\ m \in DOMAIN w.cold => w.cold[m].text = t.cold[m].text
      BY <1>12, <1>13, <1>16, <1>20, <1>23, <2>5
    <3>2. QED
      BY <2>5, <3>1 DEF TextOf
  <2>6. QED
    BY <2>2, <2>3, <2>4, <2>5
<1>42. GraphOf(w) = GraphOf(t)
  <2>1. ASSUME NEW e \in GraphOf(w) PROVE e \in GraphOf(t)
    BY <1>23, <1>28, <1>34, <2>1 DEF GraphOf, gone
  <2>2. ASSUME NEW e \in GraphOf(t) PROVE e \in GraphOf(w)
    <3>1. e \notin homeless
      <4>1. \A d \in homeless : d[1] \notin Present(t) \/ d[2] \notin Present(t)
        BY <1>5, <1>24, <1>25
      <4>2. QED
        BY <2>2, <4>1 DEF GraphOf
    <3>2. QED
      BY <1>23, <1>28, <1>34, <2>2, <3>1 DEF GraphOf, gone
  <2>3. QED
    BY <2>1, <2>2
<1>43. QED
  BY <1>20, <1>22, <1>23, <1>28, <1>31, <1>33, <1>36, <1>39, <1>40, <1>41, <1>42
     DEF Sound, SameGraph, w

(* A tier of the same shape and the same texts has the same graph.           *)
LEMMA SameShapeGraph ==
  ASSUME NEW t, NEW u, SameShape(t, u), Archived(u) = Archived(t), Linked(t),
         \A n \in Nodes : TextOf(u, n) = TextOf(t, n)
  PROVE  Linked(u) /\ SameGraph(t, u)
BY DEF SameShape, Linked, SameGraph, Present, GraphOf

(* A page-in keeps the graph, and if the node is in the graph it is resident *)
(* in the end: nothing swapped out for it is the node itself.                *)
LEMMA PageInOutcomesSound ==
  ASSUME ~IndexFails, NEW t, Sound(t), Linked(t), NEW n \in Nodes, NEW limit,
         NEW u \in PageInOutcomes(t, n, limit)
  PROVE  /\ Sound(u) /\ Linked(u) /\ Pages(t, u)
         /\ n \in Present(u) => n \in DOMAIN u.res
<1> DEFINE v == IF HasBody(t, n) THEN FaultInDeep(t, {n}) ELSE t
<1>0. t \in Tiers /\ Apart(t)
  BY DEF Sound
<1>1. Sound(v) /\ Linked(v) /\ SameGraph(t, v) /\ n \notin DOMAIN v.husk
  <2>1. CASE n \in DOMAIN t.husk
    <3>1. v = FaultInDeep(t, {n}) /\ {n} \in SUBSET DOMAIN t.husk
      BY <2>1, TextIs
    <3> HIDE DEF v
    <3>2. /\ Sound(v) /\ SameShape(t, v) /\ Archived(v) = Archived(t)
          /\ \A m \in Nodes : TextOf(v, m) = TextOf(t, m)
      BY <3>1, FaultInDeepSound
    <3>3. DOMAIN v.husk = DOMAIN t.husk \ {n}
      BY <1>0, <3>1, FaultInDeepParts
    <3>4. QED
      BY <3>2, <3>3, SameShapeGraph
  <2>2. CASE n \notin DOMAIN t.husk
    <3>1. v = t
      BY <2>2, TextIs
    <3> HIDE DEF v
    <3>2. QED
      BY <2>2, <3>1 DEF SameGraph
  <2>3. QED
    BY <2>1, <2>2
<1>2. u \in IF n \in DOMAIN v.husk \/ n \notin DOMAIN v.cold \/ ~Readable(v, n)
            THEN {v}
            ELSE SwapOutcomes(RestoreNode(FaultInText(v, n), n), n, limit)
  BY DEF PageInOutcomes
<1> HIDE DEF v
<1>3. CASE n \notin DOMAIN v.cold
  <2>1. u = v
    BY <1>2, <1>3
  <2>2. Shrinks(t, v)
    <3>1. {} \in SUBSET {m \in Nodes : TextOf(t, m) \in Contents}
      OBVIOUS
    <3>2. QED
      BY <1>1, <3>1 DEF Shrinks, SameGraph
  <2>3. QED
    BY <1>1, <1>3, <2>1, <2>2 DEF Pages, SameGraph, Present
<1>4. CASE n \in DOMAIN v.cold
  <2> DEFINE x == FaultInText(v, n)
             y == RestoreNode(x, n)
             others == DOMAIN y.res \ {n}
  <2>1. Readable(v, n)
    BY <1>1, <1>4, TextIs
  <2>2. u \in SwapOutcomes(y, n, limit)
    BY <1>1, <1>2, <1>4, <2>1
  <2>3. /\ Sound(x) /\ SameShape(v, x) /\ Archived(x) = Archived(v)
        /\ \A m \in Nodes : TextOf(x, m) = TextOf(v, m)
        /\ n \in DOMAIN x.cold /\ ~x.cold[n].spilled
    BY <1>1, <1>4, FaultInTextSound
  <2> HIDE DEF x
  <2>4. Linked(x) /\ SameGraph(v, x)
    BY <1>1, <2>3, SameShapeGraph
  <2>5. /\ Sound(y) /\ Linked(y) /\ SameGraph(x, y)
        /\ DOMAIN y.res = DOMAIN x.res \cup {n}
    BY <2>3, <2>4, RestoreNodeSound
  <2> HIDE DEF y
  <2>6. SameGraph(t, y)
    BY <1>1, <2>4, <2>5, SameGraphChain
  <2>7. PICK k : u \in DemoteOutcomes(y, others, k)
    BY <2>2 DEF SwapOutcomes
  <2>8. others \in SUBSET DOMAIN y.res
    OBVIOUS
  <2>9. /\ Sound(u) /\ Linked(u) /\ Pages(y, u)
        /\ DOMAIN y.res \ others \subseteq DOMAIN u.res
    BY <2>5, <2>7, <2>8, DemoteOutcomesSound
  <2>10. n \in DOMAIN u.res
    BY <2>5, <2>9
  <2>11. Pages(t, u)
    BY <2>6, <2>9 DEF Pages, SameGraph, Shrinks
  <2>12. QED
    BY <2>9, <2>10, <2>11
<1>5. QED
  BY <1>3, <1>4

-----------------------------------------------------------------------------
(* Forgetting                                                                *)

(* What was archived of a node goes, with its blobs and its index entries,   *)
(* and nothing else does.                                                    *)
LEMMA ForgetColdShadowSound ==
  ASSUME NEW t, Sound(t), NEW n \in Nodes
  PROVE  LET w == ForgetColdShadow(t, n) IN
         /\ Sound(w) /\ w.res = t.res /\ w.edges = t.edges
         /\ n \notin DOMAIN w.cold /\ n \notin DOMAIN w.husk
         /\ \A m \in Nodes \ {n} : /\ TextOf(w, m) = TextOf(t, m)
                                   /\ m \in Present(w) <=> m \in Present(t)
         /\ Archived(t) = Archived(w) \cup Held(t, n)
<1> DEFINE full == n \in DOMAIN t.cold
           isdeep == n \in DOMAIN t.husk
           known == (IF full THEN t.cold[n].edges ELSE {})
                      \cup (IF isdeep THEN t.husk[n].edges ELSE {})
           cold == Drop(t.cold, {n})
           husk == Drop(t.husk, {n})
           bodies == IF isdeep THEN t.bodies \ {[node |-> n, entry |-> t.husk[n]]}
                     ELSE t.bodies
           radj == t.radj \ Pairs(n, known)
           a == [t EXCEPT !.cold = cold]
           b == [a EXCEPT !.husk = husk]
           c == [b EXCEPT !.bodies = bodies]
           v == [c EXCEPT !.radj = radj]
           w == ForgetColdShadow(t, n)
<1>0. /\ t \in Tiers /\ t.texts = Refs(t) /\ t.bodies = BodiesOf(t) /\ Apart(t)
      /\ Detached(t) /\ Owned(t) /\ OneHolder(t) /\ Indexed(t)
  BY DEF Sound, BlobsExact
<1>1. /\ t.cold \in PartialMaps(Entries) /\ t.husk \in PartialMaps(Husks)
      /\ t.radj \in SUBSET (Nodes \X Nodes)
      /\ t.bodies \in SUBSET [node : Nodes, entry : Husks]
  BY <1>0, TierIs
<1>2. known = Held(t, n) /\ known \in SUBSET Links /\ known \subseteq Touching(Links, n)
  <2>1. known = Held(t, n)
    BY <1>0 DEF Held, Apart
  <2>2. QED
    BY <1>0, <2>1 DEF Owned, Touching
<1>3. /\ cold \in PartialMaps(Entries) /\ DOMAIN cold = DOMAIN t.cold \ {n}
      /\ \A m \in DOMAIN t.cold \ {n} : cold[m] = t.cold[m]
  <2>1. cold \in PartialMaps(Entries)
    BY <1>1, DropMap
  <2>2. QED
    BY <2>1 DEF Drop
<1>4. /\ husk \in PartialMaps(Husks) /\ DOMAIN husk = DOMAIN t.husk \ {n}
      /\ \A m \in DOMAIN t.husk \ {n} : husk[m] = t.husk[m]
  <2>1. husk \in PartialMaps(Husks)
    BY <1>1, DropMap
  <2>2. QED
    BY <2>1 DEF Drop
<1>5. bodies \in SUBSET [node : Nodes, entry : Husks] /\ radj \in SUBSET (Nodes \X Nodes)
  BY <1>1
<1>6. w = IF full /\ t.cold[n].spilled THEN Collect(v, {t.cold[n].text}) ELSE v
  BY DEF ForgetColdShadow
<1>7. ~t.attached => husk = Nothing
  BY <1>0, <1>4 DEF Detached, Nothing, Drop
<1> HIDE DEF known, cold, husk, w
<1>8. v = [res |-> t.res, edges |-> t.edges, cold |-> cold, husk |-> husk,
           radj |-> radj, texts |-> t.texts, bodies |-> bodies, attached |-> t.attached]
  <2> HIDE DEF radj, bodies
  <2>1. a = [res |-> t.res, edges |-> t.edges, cold |-> cold, husk |-> t.husk,
             radj |-> t.radj, texts |-> t.texts, bodies |-> t.bodies,
             attached |-> t.attached]
    BY <1>0, TierIs
  <2> HIDE DEF a
  <2>2. b = [res |-> t.res, edges |-> t.edges, cold |-> cold, husk |-> husk,
             radj |-> t.radj, texts |-> t.texts, bodies |-> t.bodies,
             attached |-> t.attached]
    BY <2>1
  <2> HIDE DEF b
  <2>3. c = [res |-> t.res, edges |-> t.edges, cold |-> cold, husk |-> husk,
             radj |-> t.radj, texts |-> t.texts, bodies |-> bodies,
             attached |-> t.attached]
    BY <2>2
  <2> HIDE DEF c
  <2>4. QED
    BY <2>3
<1> HIDE DEF v
<1>9. v \in Tiers
  BY <1>0, <1>3, <1>4, <1>5, <1>8, TierIs
<1>10. /\ w \in Tiers /\ w.texts = Refs(v)
       /\ w.res = t.res /\ w.edges = t.edges /\ w.cold = cold /\ w.husk = husk
       /\ w.radj = radj /\ w.bodies = bodies /\ w.attached = t.attached
  <2>1. CASE full /\ t.cold[n].spilled
    <3>1. Refs(v) \subseteq v.texts /\ v.texts \subseteq Refs(v) \cup {t.cold[n].text}
      BY <1>0, <1>3, <1>8 DEF Refs
    <3>2. w = Collect(v, {t.cold[n].text})
      BY <1>6, <2>1
    <3>3. /\ w \in Tiers /\ w.texts = Refs(v)
          /\ w.res = v.res /\ w.edges = v.edges /\ w.cold = v.cold /\ w.husk = v.husk
          /\ w.radj = v.radj /\ w.bodies = v.bodies /\ w.attached = v.attached
      BY <1>9, <3>1, <3>2, CollectIs
    <3> HIDE DEF radj, bodies
    <3>4. QED
      BY <1>8, <3>3
  <2>2. CASE ~(full /\ t.cold[n].spilled)
    <3>1. Refs(v) = t.texts
      BY <1>0, <1>3, <1>8, <2>2 DEF Refs
    <3>2. w = v
      BY <1>6, <2>2
    <3> HIDE DEF radj, bodies
    <3>3. QED
      BY <1>8, <1>9, <3>1, <3>2
  <2>3. QED
    BY <2>1, <2>2
<1>11. Apart(w) /\ n \notin DOMAIN w.cold /\ n \notin DOMAIN w.husk
  <2>1. Apart(t)
    BY <1>0
  <2>2. QED
    BY <1>3, <1>4, <1>10, <2>1 DEF Apart
<1>12. \A m \in Nodes \ {n} : /\ TextOf(w, m) = TextOf(t, m)
                              /\ m \in Present(w) <=> m \in Present(t)
                              /\ Held(w, m) = Held(t, m)
  <2>1. \A m \in Nodes \ {n} :
          /\ m \in DOMAIN w.cold <=> m \in DOMAIN t.cold
          /\ m \in DOMAIN w.cold => w.cold[m] = t.cold[m]
          /\ m \in DOMAIN w.husk <=> m \in DOMAIN t.husk
          /\ m \in DOMAIN w.husk => w.husk[m] = t.husk[m]
    BY <1>3, <1>4, <1>10
  <2>2. w.res = t.res
    BY <1>10
  <2>3. QED
    BY <2>1, <2>2 DEF TextOf, Present, Held
<1>13. Held(w, n) = {}
  BY <1>11 DEF Held
<1>14. Archived(t) = Archived(w) \cup known
  <2>1. \A e : e \in Archived(t) <=> \E m \in Nodes : e \in Held(t, m)
    BY <1>0, ArchivedIs
  <2>2. \A e : e \in Archived(w) <=> \E m \in Nodes : e \in Held(w, m)
    BY <1>10, <1>11, ArchivedIs
  <2>3. QED
    BY <1>2, <1>12, <1>13, <2>1, <2>2
<1>15. \A e \in Archived(w), d \in known : ~SameEnds(e, d)
  <2>1. ASSUME NEW e \in Archived(w), NEW d \in known PROVE ~SameEnds(e, d)
    <3>1. PICK m \in Nodes : e \in Held(w, m)
      BY <1>10, <1>11, ArchivedIs
    <3>2. m # n /\ e \in Held(t, m)
      BY <1>12, <1>13, <3>1
    <3>3. OneHolder(t) /\ d \in Held(t, n)
      BY <1>0, <1>2
    <3>4. QED
      BY <3>2, <3>3 DEF OneHolder
  <2>2. QED
    BY <2>1
<1>16. Indexed(w)
  <2> SUFFICES ASSUME w.attached PROVE w.radj = Adjacency(Archived(w))
    BY DEF Indexed
  <2>1. t.radj = Adjacency(Archived(t))
    BY <1>0, <1>10 DEF Indexed
  <2>2. Adjacency(Archived(w)) = Adjacency(Archived(t)) \ Adjacency(known)
    BY <1>14, <1>15, AdjacencyMinus
  <2>3. Pairs(n, known) = Adjacency(known)
    BY <1>2, PairsIs
  <2>4. QED
    BY <1>10, <2>1, <2>2, <2>3
<1>17. Owned(w) /\ OneHolder(w)
  BY <1>0, <1>12, <1>13 DEF Owned, OneHolder
<1>18. Refs(w) = Refs(v)
  BY <1>8, <1>10 DEF Refs
<1>19. BodiesOf(w) = w.bodies
  <2>1. t.bodies = BodiesOf(t)
    BY <1>0
  <2>2. QED
    BY <1>4, <1>10, <2>1 DEF BodiesOf
<1>20. Detached(w)
  <2>1. ~t.attached => t.radj = {} /\ Refs(t) = {}
    BY <1>0 DEF Detached
  <2>2. Refs(v) \subseteq Refs(t)
    BY <1>3, <1>8 DEF Refs
  <2>3. QED
    BY <1>7, <1>10, <1>18, <2>1, <2>2 DEF Detached
<1>21. QED
  BY <1>2, <1>10, <1>11, <1>12, <1>14, <1>16, <1>17, <1>18, <1>19, <1>20
     DEF Sound, BlobsExact, w


-----------------------------------------------------------------------------
(* The operations on one node                                                *)

\* u differs from t in nothing but n and the links that touch n.
SameBut(t, u, n) ==
  /\ \A m \in Nodes \ {n} : TextOf(u, m) = TextOf(t, m)
  /\ \A e \in Links : e[1] # n /\ e[2] # n => (e \in GraphOf(u) <=> e \in GraphOf(t))

(* The links of the graph are links.                                         *)
LEMMA GraphIs ==
  ASSUME NEW t, Sound(t)
  PROVE  GraphOf(t) \in SUBSET Links /\ Archived(t) \in SUBSET Links
<1>1. Archived(t) \in SUBSET Links
  BY ArchivedIs, HeldIs DEF Sound
<1>2. t.edges \in SUBSET Links
  BY TierParts DEF Sound
<1>3. QED
  BY <1>1, <1>2 DEF GraphOf

(* Forgetting n changes no other node and no link that does not touch n.     *)
LEMMA ForgetGraph ==
  ASSUME NEW t, Sound(t), NEW n \in Nodes
  PROVE  SameBut(t, ForgetColdShadow(t, n), n)
<1> DEFINE w == ForgetColdShadow(t, n)
<1>1. /\ w.edges = t.edges
      /\ \A m \in Nodes \ {n} : /\ TextOf(w, m) = TextOf(t, m)
                                /\ m \in Present(w) <=> m \in Present(t)
      /\ Archived(t) = Archived(w) \cup Held(t, n)
  BY ForgetColdShadowSound
<1> HIDE DEF w
<1>2. ASSUME NEW e \in Links, e[1] # n, e[2] # n PROVE e \in GraphOf(w) <=> e \in GraphOf(t)
  <2>1. e \notin Held(t, n)
    BY <1>2, HeldIs
  <2>2. e \in Archived(w) <=> e \in Archived(t)
    BY <1>1, <2>1
  <2>3. e[1] \in Nodes \ {n} /\ e[2] \in Nodes \ {n}
    BY <1>2, LinksAssumption
  <2>4. QED
    BY <1>1, <2>2, <2>3 DEF GraphOf
<1>3. QED
  BY <1>1, <1>2 DEF SameBut, w

(* A re-ingested node is resident with its new content.                      *)
LEMMA UpsertSound ==
  ASSUME NEW t, Sound(t), Linked(t), NEW n \in Nodes, NEW c \in Texts
  PROVE  LET w == ForgetColdShadow(t, n)
             u == [w EXCEPT !.res = Put(w.res, n, c)]
         IN  Sound(u) /\ Linked(u) /\ SameBut(t, u, n) /\ TextOf(u, n) = c
<1> DEFINE w == ForgetColdShadow(t, n)
           res == Put(w.res, n, c)
           u == [w EXCEPT !.res = res]
<1>1. /\ Sound(w) /\ w.res = t.res /\ w.edges = t.edges
      /\ n \notin DOMAIN w.cold /\ n \notin DOMAIN w.husk
  BY ForgetColdShadowSound
<1>2. SameBut(t, w, n)
  BY ForgetGraph
<1> HIDE DEF w
<1>3. w \in Tiers /\ Apart(w)
  BY <1>1 DEF Sound
<1>4. /\ res \in PartialMaps(Texts) /\ DOMAIN res = DOMAIN w.res \cup {n}
      /\ \A m \in DOMAIN w.res \ {n} : res[m] = w.res[m]
      /\ res[n] = c
  <2>1. w.res \in PartialMaps(Texts)
    BY <1>3, TierIs
  <2>2. res \in PartialMaps(Texts)
    BY <2>1, PutMap
  <2>3. QED
    BY <2>2 DEF Put
<1> HIDE DEF res
<1>5. u = [res |-> res, edges |-> w.edges, cold |-> w.cold, husk |-> w.husk,
           radj |-> w.radj, texts |-> w.texts, bodies |-> w.bodies, attached |-> w.attached]
  BY <1>3, TierIs
<1> HIDE DEF u
<1>6. u \in Tiers
  BY <1>3, <1>4, <1>5, TierIs
<1>7. Apart(u)
  BY <1>1, <1>3, <1>4, <1>5 DEF Apart
<1>8. /\ \A m : Held(u, m) = Held(w, m)
      /\ Archived(u) = Archived(w) /\ Refs(u) = Refs(w) /\ BodiesOf(u) = BodiesOf(w)
  BY <1>5 DEF Held, Archived, Refs, BodiesOf
<1>9. Sound(u)
  BY <1>1, <1>5, <1>6, <1>7, <1>8
     DEF Sound, Owned, OneHolder, BlobsExact, Indexed, Detached
<1>10. Linked(u)
  BY <1>1, <1>4, <1>5 DEF Linked
<1>11. \A m \in Nodes \ {n} : TextOf(u, m) = TextOf(w, m)
  BY <1>4, <1>5 DEF TextOf
<1>12. TextOf(u, n) = c
  BY <1>4, <1>5 DEF TextOf
<1>13. \A e \in Links : e[1] # n /\ e[2] # n => (e \in GraphOf(u) <=> e \in GraphOf(w))
  BY <1>4, <1>5, <1>8 DEF GraphOf, Present
<1>14. SameBut(t, u, n)
  BY <1>2, <1>11, <1>13 DEF SameBut
<1>15. QED
  BY <1>9, <1>10, <1>12, <1>14 DEF u, w, res

(* A removed node is in the graph no more.                                   *)
LEMMA RemoveSound ==
  ASSUME NEW t, Sound(t), Linked(t), NEW n \in Nodes
  PROVE  LET w == ForgetColdShadow([t EXCEPT !.res = Drop(t.res, {n})], n)
             u == [w EXCEPT !.edges = w.edges \ Touching(w.edges, n)]
         IN  Sound(u) /\ Linked(u) /\ SameBut(t, u, n) /\ TextOf(u, n) = NoText
<1> DEFINE res == Drop(t.res, {n})
           v == [t EXCEPT !.res = res]
           w == ForgetColdShadow(v, n)
           edges == w.edges \ Touching(w.edges, n)
           u == [w EXCEPT !.edges = edges]
<1>1. t \in Tiers /\ Apart(t)
  BY DEF Sound
<1>2. /\ res \in PartialMaps(Texts) /\ DOMAIN res = DOMAIN t.res \ {n}
      /\ \A m \in DOMAIN t.res \ {n} : res[m] = t.res[m]
  <2>1. t.res \in PartialMaps(Texts)
    BY <1>1, TierIs
  <2>2. res \in PartialMaps(Texts)
    BY <2>1, DropMap
  <2>3. QED
    BY <2>2 DEF Drop
<1> HIDE DEF res
<1>3. v = [res |-> res, edges |-> t.edges, cold |-> t.cold, husk |-> t.husk,
           radj |-> t.radj, texts |-> t.texts, bodies |-> t.bodies, attached |-> t.attached]
  BY <1>1, TierIs
<1> HIDE DEF v
<1>4. v \in Tiers
  BY <1>1, <1>2, <1>3, TierIs
<1>5. Apart(v)
  BY <1>1, <1>2, <1>3 DEF Apart
<1>6. /\ \A m : Held(v, m) = Held(t, m)
      /\ Archived(v) = Archived(t) /\ Refs(v) = Refs(t) /\ BodiesOf(v) = BodiesOf(t)
  BY <1>3 DEF Held, Archived, Refs, BodiesOf
<1>7. Sound(v)
  BY <1>3, <1>4, <1>5, <1>6
     DEF Sound, Owned, OneHolder, BlobsExact, Indexed, Detached
<1>8. /\ Sound(w) /\ w.res = v.res /\ w.edges = v.edges
      /\ n \notin DOMAIN w.cold /\ n \notin DOMAIN w.husk
  BY <1>7, ForgetColdShadowSound
<1>9. SameBut(v, w, n)
  BY <1>7, ForgetGraph
<1> HIDE DEF w
<1>10. w \in Tiers /\ Apart(w)
  BY <1>8 DEF Sound
<1>11. /\ edges \in SUBSET Links
       /\ \A e : e \in edges <=> e \in w.edges /\ e[1] # n /\ e[2] # n
  <2>1. w.edges \in SUBSET Links
    BY <1>10, TierIs
  <2>2. QED
    BY <2>1 DEF Touching
<1> HIDE DEF edges
<1>12. u = [res |-> w.res, edges |-> edges, cold |-> w.cold, husk |-> w.husk,
            radj |-> w.radj, texts |-> w.texts, bodies |-> w.bodies, attached |-> w.attached]
  BY <1>10, TierIs
<1> HIDE DEF u
<1>13. u \in Tiers
  BY <1>10, <1>11, <1>12, TierIs
<1>14. /\ \A m : Held(u, m) = Held(w, m) /\ TextOf(u, m) = TextOf(w, m)
       /\ Archived(u) = Archived(w) /\ Refs(u) = Refs(w) /\ BodiesOf(u) = BodiesOf(w)
       /\ Present(u) = Present(w)
  BY <1>12 DEF Held, TextOf, Archived, Refs, BodiesOf, Present
<1>15. Apart(u)
  BY <1>10, <1>12 DEF Apart
<1>16. Sound(u)
  BY <1>8, <1>12, <1>13, <1>14, <1>15
     DEF Sound, Owned, OneHolder, BlobsExact, Indexed, Detached
<1>17. Linked(u)
  <2>1. \A e \in t.edges : e[1] \in DOMAIN t.res /\ e[2] \in DOMAIN t.res
    BY DEF Linked
  <2>2. u.res = res /\ w.edges = t.edges /\ u.edges = edges
    BY <1>3, <1>8, <1>12
  <2>3. QED
    BY <1>2, <1>11, <2>1, <2>2 DEF Linked
<1>18. TextOf(u, n) = NoText
  BY <1>2, <1>3, <1>8, <1>12 DEF TextOf
<1>19. \A m \in Nodes \ {n} : TextOf(u, m) = TextOf(t, m)
  <2>1. \A m \in Nodes \ {n} : TextOf(v, m) = TextOf(t, m)
    BY <1>2, <1>3 DEF TextOf
  <2>2. QED
    BY <1>9, <1>14, <2>1 DEF SameBut
<1>20. ASSUME NEW e \in Links, e[1] # n, e[2] # n PROVE e \in GraphOf(u) <=> e \in GraphOf(t)
  <2>1. e \in GraphOf(v) <=> e \in GraphOf(t)
    <3>1. \A m \in Nodes \ {n} : m \in Present(v) <=> m \in Present(t)
      BY <1>2, <1>3 DEF Present
    <3>2. e[1] \in Nodes \ {n} /\ e[2] \in Nodes \ {n}
      BY <1>20, LinksAssumption
    <3>3. v.edges = t.edges /\ Archived(v) = Archived(t)
      BY <1>3, <1>6
    <3>4. QED
      BY <3>1, <3>2, <3>3 DEF GraphOf
  <2>2. e \in GraphOf(w) <=> e \in GraphOf(v)
    BY <1>9, <1>20 DEF SameBut
  <2>3. e \in GraphOf(u) <=> e \in GraphOf(w)
    BY <1>11, <1>12, <1>14, <1>20 DEF GraphOf
  <2>4. QED
    BY <2>1, <2>2, <2>3
<1>21. SameBut(t, u, n)
  BY <1>19, <1>20 DEF SameBut
<1>22. QED
  BY <1>16, <1>17, <1>18, <1>21 DEF u, w, v, res, edges

(* A link added between resident nodes is one of the graph's.                *)
LEMMA AddEdgeSound ==
  ASSUME NEW t, Sound(t), Linked(t), NEW e \in Links,
         e[1] \in DOMAIN t.res, e[2] \in DOMAIN t.res
  PROVE  LET u == [t EXCEPT !.edges = t.edges \cup {e}]
         IN  /\ Sound(u) /\ Linked(u) /\ GraphOf(u) = GraphOf(t) \cup {e}
             /\ \A n \in Nodes : TextOf(u, n) = TextOf(t, n)
<1> DEFINE edges == t.edges \cup {e}
           u == [t EXCEPT !.edges = edges]
<1>1. t \in Tiers /\ Apart(t)
  BY DEF Sound
<1>2. edges \in SUBSET Links
  BY <1>1, TierIs
<1> HIDE DEF edges
<1>3. u = [res |-> t.res, edges |-> edges, cold |-> t.cold, husk |-> t.husk,
           radj |-> t.radj, texts |-> t.texts, bodies |-> t.bodies, attached |-> t.attached]
  BY <1>1, TierIs
<1> HIDE DEF u
<1>4. u \in Tiers
  BY <1>1, <1>2, <1>3, TierIs
<1>5. /\ \A m : Held(u, m) = Held(t, m) /\ TextOf(u, m) = TextOf(t, m)
      /\ Archived(u) = Archived(t) /\ Refs(u) = Refs(t) /\ BodiesOf(u) = BodiesOf(t)
      /\ Present(u) = Present(t)
  BY <1>3 DEF Held, TextOf, Archived, Refs, BodiesOf, Present
<1>6. Apart(u)
  BY <1>1, <1>3 DEF Apart
<1>7. Sound(u)
  BY <1>3, <1>4, <1>5, <1>6
     DEF Sound, Owned, OneHolder, BlobsExact, Indexed, Detached
<1>8. Linked(u)
  BY <1>3 DEF Linked, edges
<1>9. GraphOf(u) = GraphOf(t) \cup {e}
  <2>1. u.edges = t.edges \cup {e}
    BY <1>3 DEF edges
  <2>2. e[1] \in Present(t) /\ e[2] \in Present(t)
    BY DEF Present
  <2>3. QED
    BY <1>5, <2>1, <2>2 DEF GraphOf
<1>10. QED
  BY <1>5, <1>7, <1>8, <1>9 DEF u, edges


-----------------------------------------------------------------------------
(* The store attached                                                        *)

(* The archived links of every node, indexed one node after the other.       *)
LEMMA IndexAllIs ==
  ASSUME NEW t, Sound(t)
  PROVE  UNION {Pairs(n, Held(t, n)) : n \in Nodes} = Adjacency(Archived(t))
<1>1. \A e : e \in Archived(t) <=> \E n \in Nodes : e \in Held(t, n)
  BY ArchivedIs DEF Sound
<1>2. ASSUME NEW n \in Nodes PROVE Pairs(n, Held(t, n)) = Adjacency(Held(t, n))
  <2>1. Held(t, n) \in SUBSET Links
    BY HeldIs
  <2>2. Held(t, n) \subseteq Touching(Links, n)
    BY DEF Sound, Owned
  <2>3. QED
    BY <2>1, <2>2, PairsIs
<1>3. ASSUME NEW p \in Adjacency(Archived(t))
      PROVE  \E n \in Nodes : p \in Pairs(n, Held(t, n))
  <2>1. PICK e \in Archived(t) : p = <<e[1], e[2]>> \/ p = <<e[2], e[1]>>
    BY <1>3 DEF Adjacency
  <2>2. PICK n \in Nodes : e \in Held(t, n)
    BY <1>1
  <2>3. p \in Adjacency(Held(t, n))
    BY <2>1, <2>2 DEF Adjacency
  <2>4. QED
    BY <1>2, <2>3
<1>4. ASSUME NEW n \in Nodes, NEW p \in Pairs(n, Held(t, n))
      PROVE  p \in Adjacency(Archived(t))
  <2>1. p \in Adjacency(Held(t, n))
    BY <1>2
  <2>2. QED
    BY <1>1, <2>1 DEF Adjacency
<1>5. QED
  BY <1>3, <1>4

(* A store attached to the graph of b, when what was flushed of its husks is *)
(* what they are and every entry flushed of its index is of an archived link.*)
LEMMA AttachSound ==
  ASSUME ~IndexFails, NEW b, Sound(b), Linked(b), NEW husk, NEW old, NEW was,
         NEW t, t = [res |-> b.res, edges |-> b.edges, cold |-> b.cold, husk |-> husk,
                     radj |-> old, texts |-> b.texts, bodies |-> b.bodies,
                     attached |-> was],
         saved.husk = b.husk, saved.radj \subseteq Adjacency(Archived(b)),
         NEW u \in AttachOutcomes(t)
  PROVE  Sound(u) /\ Linked(u) /\ SameGraph(b, u)
<1> DEFINE yes == TRUE
           r == [t EXCEPT !.attached = TRUE, !.husk = saved.husk]
           r1 == [t EXCEPT !.attached = yes]
           r2 == [r1 EXCEPT !.husk = saved.husk]
           known(n) == IF n \in DOMAIN r.cold THEN r.cold[n].edges ELSE {}
           deep(n) == IF n \in DOMAIN r.husk THEN r.husk[n].edges ELSE {}
           radj == saved.radj \cup UNION {Pairs(n, known(n) \cup deep(n)) : n \in Nodes}
           v == [r EXCEPT !.radj = radj]
<1>0. b \in Tiers /\ Apart(b)
  BY DEF Sound
<1>1. u \in SpillOutcomes(v)
  BY DEF AttachOutcomes
<1>2. r = r2
  OBVIOUS
<1> HIDE DEF yes
<1>3. r = [res |-> b.res, edges |-> b.edges, cold |-> b.cold, husk |-> b.husk,
           radj |-> old, texts |-> b.texts, bodies |-> b.bodies, attached |-> yes]
  <2> HIDE DEF r, r2, known, deep, radj, v
  <2>1. r1 = [res |-> b.res, edges |-> b.edges, cold |-> b.cold, husk |-> husk,
              radj |-> old, texts |-> b.texts, bodies |-> b.bodies, attached |-> yes]
    OBVIOUS
  <2> HIDE DEF r1
  <2>2. r2 = [res |-> b.res, edges |-> b.edges, cold |-> b.cold, husk |-> b.husk,
              radj |-> old, texts |-> b.texts, bodies |-> b.bodies, attached |-> yes]
    BY <2>1 DEF r2
  <2>3. QED
    BY <1>2, <2>2
<1> HIDE DEF r
<1>4. \A n : known(n) \cup deep(n) = Held(b, n)
  BY <1>0, <1>3 DEF Held, Apart
<1>5. radj = Adjacency(Archived(b))
  <2>1. UNION {Pairs(n, known(n) \cup deep(n)) : n \in Nodes}
          = UNION {Pairs(n, Held(b, n)) : n \in Nodes}
    <3> HIDE DEF known, deep
    <3>1. QED
      BY <1>4
  <2>2. UNION {Pairs(n, Held(b, n)) : n \in Nodes} = Adjacency(Archived(b))
    BY IndexAllIs
  <2> HIDE DEF known, deep
  <2>3. QED
    BY <2>1, <2>2
<1> HIDE DEF known, deep, radj
<1>6. v = [res |-> b.res, edges |-> b.edges, cold |-> b.cold, husk |-> b.husk,
           radj |-> radj, texts |-> b.texts, bodies |-> b.bodies, attached |-> yes]
  BY <1>3
<1> HIDE DEF v
<1>7. radj \in SUBSET (Nodes \X Nodes)
  <2>1. Archived(b) \in SUBSET Links
    BY GraphIs
  <2>2. QED
    BY <1>5, <2>1, LinksAssumption DEF Adjacency
<1>8. v \in Tiers
  <2>1. yes \in BOOLEAN
    BY DEF yes
  <2>2. QED
    BY <1>0, <1>6, <1>7, <2>1, TierIs
<1>9. /\ \A m : Held(v, m) = Held(b, m) /\ TextOf(v, m) = TextOf(b, m)
      /\ Archived(v) = Archived(b) /\ Refs(v) = Refs(b) /\ BodiesOf(v) = BodiesOf(b)
      /\ Present(v) = Present(b)
  BY <1>6 DEF Held, TextOf, Archived, Refs, BodiesOf, Present
<1>10. Apart(v)
  BY <1>0, <1>6 DEF Apart
<1>11. Indexed(v)
  BY <1>5, <1>6, <1>9 DEF Indexed
<1>12. Sound(v)
  BY <1>6, <1>8, <1>9, <1>10, <1>11
     DEF Sound, Owned, OneHolder, BlobsExact, Detached, yes
<1>13. Linked(v) /\ SameGraph(b, v)
  BY <1>6, <1>9 DEF Linked, SameGraph, GraphOf
<1>14. /\ Sound(u) /\ SameShape(v, u) /\ Archived(u) = Archived(v)
       /\ \A n \in Nodes : TextOf(u, n) = TextOf(v, n)
  BY <1>1, <1>12, SpillOutcomesSound
<1>15. Linked(u) /\ SameGraph(v, u)
  BY <1>13, <1>14, SameShapeGraph
<1>16. QED
  BY <1>13, <1>14, <1>15, SameGraphChain

(* A graph without a store has nothing a restart would lose.                 *)
LEMMA DetachedIs ==
  ASSUME NEW t, Sound(t),
         NEW u, u = [res |-> t.res, edges |-> t.edges, cold |-> t.cold, husk |-> Nothing,
                     radj |-> {}, texts |-> t.texts, bodies |-> t.bodies,
                     attached |-> FALSE]
  PROVE  ~t.attached => u = t
<1>1. t \in Tiers /\ Detached(t)
  BY DEF Sound
<1>2. t = [res |-> t.res, edges |-> t.edges, cold |-> t.cold, husk |-> t.husk,
           radj |-> t.radj, texts |-> t.texts, bodies |-> t.bodies, attached |-> t.attached]
      /\ t.attached \in BOOLEAN
  BY <1>1, TierIs
<1>3. QED
  BY <1>1, <1>2 DEF Detached


-----------------------------------------------------------------------------
(* The invariant                                                             *)

Calls == [anchor : SUBSET Nodes, rest : Seq(Nodes)]
Snaps == [res : PartialMaps(Texts), edges : SUBSET Links, cold : PartialMaps(Entries),
          cap : Caps]
Saves == [snap : Snaps, husk : PartialMaps(Husks), radj : SUBSET (Nodes \X Nodes)]

TypeOK ==
  /\ tier \in Tiers
  /\ cap \in Caps
  /\ todo \in Calls
  /\ saved \in Saves
  /\ updated \in SUBSET Nodes

\* A call under way pages in its anchor last.
AnchorLast(call) ==
  call # NoCall => /\ Len(call.rest) > 0
                   /\ \A n \in call.anchor : call.rest[Len(call.rest)] = n
                   /\ call.anchor # {}

\* Nothing is flushed of a store that is not there.
NothingFlushed(s) == ~tier.attached => s.husk = Nothing /\ s.radj = {}

IInv ==
  TypeOK /\ Sound(tier) /\ Linked(tier) /\ AnchorLast(todo) /\ NothingFlushed(saved)

(* The map of no node is a map of anything.                                  *)
LEMMA NothingIs ==
  ASSUME NEW S
  PROVE  Nothing \in PartialMaps(S) /\ DOMAIN Nothing = {}
<1>1. DOMAIN Nothing = {} /\ Nothing \in [DOMAIN Nothing -> S]
  BY DEF Nothing
<1>2. QED
  BY <1>1, MapIs

(* No call is a call.                                                        *)
LEMMA NoCallIs == NoCall \in Calls /\ NoCall.anchor = {}
<1>1. << >> \in Seq(Nodes)
  BY EmptySeq
<1>2. QED
  BY <1>1 DEF NoCall, Calls

(* A graph without a node is sound.                                          *)
LEMMA NoGraphSound == Sound(NoGraph) /\ Linked(NoGraph) /\ NoGraph.attached = FALSE
                        /\ NoGraph.edges = {} /\ Present(NoGraph) = {}
<1>1. /\ NoGraph.res = Nothing /\ NoGraph.edges = {} /\ NoGraph.cold = Nothing
      /\ NoGraph.husk = Nothing /\ NoGraph.radj = {} /\ NoGraph.texts = {}
      /\ NoGraph.bodies = {} /\ NoGraph.attached = FALSE
  BY DEF NoGraph
<1>2. NoGraph \in Tiers
  <2>1. /\ Nothing \in PartialMaps(Texts) /\ Nothing \in PartialMaps(Entries)
        /\ Nothing \in PartialMaps(Husks)
    BY NothingIs
  <2>2. QED
    BY <2>1 DEF NoGraph, Tiers
<1>3. DOMAIN Nothing = {}
  BY NothingIs
<1>4. Apart(NoGraph) /\ BlobsExact(NoGraph) /\ Present(NoGraph) = {} /\ Refs(NoGraph) = {}
  BY <1>1, <1>3 DEF Apart, BlobsExact, Refs, BodiesOf, Present
<1>5. \A n : Held(NoGraph, n) = {}
  BY <1>1, <1>3 DEF Held
<1>6. QED
  BY <1>1, <1>2, <1>4, <1>5
     DEF Sound, Owned, OneHolder, Indexed, Detached, Linked

(* What is on disk after a call.                                             *)
LEMMA KeptIs ==
  ASSUME Stops # "any", cap \in Caps
  PROVE  Kept \in Saves /\ Kept.husk = Nothing /\ Kept.radj = {}
<1>1. /\ Nothing \in PartialMaps(Texts) /\ Nothing \in PartialMaps(Entries)
      /\ Nothing \in PartialMaps(Husks)
  BY NothingIs
<1>2. Kept = [snap |-> [res |-> Nothing, edges |-> {}, cold |-> Nothing, cap |-> cap],
              husk |-> Nothing, radj |-> {}]
  BY DEF Kept, Unsaved, Snap, NoGraph
<1>3. QED
  BY <1>1, <1>2 DEF Saves, Snaps

(* Initially.                                                                *)
LEMMA InitKeeps == Init => IInv
<1> SUFFICES ASSUME Init PROVE IInv
  OBVIOUS
<1>1. tier = NoGraph /\ cap \in Caps /\ todo = NoCall /\ updated = {} /\ saved = Unsaved
  BY DEF Init
<1>2. Sound(tier) /\ Linked(tier)
  BY <1>1, NoGraphSound
<1>3. todo \in Calls
  BY <1>1, NoCallIs
<1>4. AnchorLast(todo)
  BY <1>1 DEF AnchorLast
<1>5. saved \in Saves /\ saved.husk = Nothing /\ saved.radj = {}
  <2>1. /\ Nothing \in PartialMaps(Texts) /\ Nothing \in PartialMaps(Entries)
        /\ Nothing \in PartialMaps(Husks)
    BY NothingIs
  <2>2. saved = [snap |-> [res |-> Nothing, edges |-> {}, cold |-> Nothing, cap |-> cap],
                 husk |-> Nothing, radj |-> {}]
    BY <1>1 DEF Unsaved, Snap, NoGraph
  <2>3. QED
    BY <1>1, <2>1, <2>2 DEF Saves, Snaps
<1>6. QED
  BY <1>1, <1>2, <1>3, <1>4, <1>5 DEF IInv, TypeOK, Sound, NothingFlushed


\* From t to u, n has content c or is gone, some contents are compacted, and no
\* link changes that does not touch n.
Updates(t, u, n, c) ==
  /\ \E K \in SUBSET {m \in Nodes : (IF m = n THEN c ELSE TextOf(t, m)) \in Contents} :
       /\ Compacts \/ K = {}
       /\ \A m \in Nodes : TextOf(u, m) = IF m \in K THEN Summary
                                          ELSE IF m = n THEN c ELSE TextOf(t, m)
  /\ \A e \in Links : e[1] # n /\ e[2] # n => (e \in GraphOf(u) <=> e \in GraphOf(t))

\* What a step does to the graph.
GraphStep ==
  \/ tier' = tier /\ updated' = updated
  \/ Pages(tier, tier') /\ updated' = {}
  \/ \E e \in Links : /\ GraphOf(tier') = GraphOf(tier) \cup {e} /\ updated' = {}
                      /\ \A n \in Nodes : TextOf(tier', n) = TextOf(tier, n)
  \/ \E n \in Nodes, c \in Contents \cup {NoText} :
       Updates(tier, tier', n, c) /\ updated' = {n}

(* The same graph is one some contents of which, none of them, are compacted.*)
LEMMA SameGraphPages ==
  ASSUME NEW t, NEW u, SameGraph(t, u)
  PROVE  Pages(t, u)
<1>1. {} \in SUBSET {m \in Nodes : TextOf(t, m) \in Contents}
  OBVIOUS
<1>2. QED
  BY <1>1 DEF Pages, SameGraph, Shrinks

(* A step that leaves a sound tier and forgets what was flushed.             *)
LEMMA StepKeeps ==
  ASSUME Stops # "any", IInv, Sound(tier'), Linked(tier'), saved' = Kept, cap' \in Caps,
         todo' \in Calls, AnchorLast(todo'), updated' \in SUBSET Nodes
  PROVE  IInv'
<1>1. Kept \in Saves /\ Kept.husk = Nothing /\ Kept.radj = {}
  BY KeptIs DEF IInv, TypeOK
<1>2. QED
  BY <1>1 DEF IInv, TypeOK, Sound, NothingFlushed

(* upsert_node.                                                              *)
LEMMA UpsertKeeps ==
  ASSUME ~IndexFails, Stops # "any", IInv, NEW n \in Nodes, NEW c \in Contents,
         UpsertNode(n, c)
  PROVE  IInv' /\ GraphStep
<1> DEFINE w == ForgetColdShadow(tier, n)
           x == [w EXCEPT !.res = Put(w.res, n, c)]
<1>1. Sound(tier) /\ Linked(tier) /\ cap \in Caps /\ todo \in Calls /\ AnchorLast(todo)
  BY DEF IInv, TypeOK
<1>2. /\ tier' \in PagingOutcomes(x, cap) /\ saved' = Kept /\ cap' = cap /\ todo' = todo
      /\ updated' = {n}
  BY DEF UpsertNode
<1>3. c \in Texts
  BY DEF Texts
<1>4. Sound(x) /\ Linked(x) /\ SameBut(tier, x, n) /\ TextOf(x, n) = c
  BY <1>1, <1>3, UpsertSound
<1> HIDE DEF x
<1>5. Sound(tier') /\ Linked(tier') /\ Pages(x, tier')
  BY <1>2, <1>4, PagingOutcomesSound
<1>6. IInv'
  BY <1>1, <1>2, <1>5, StepKeeps
<1>7. Updates(tier, tier', n, c)
  <2>1. \A m \in Nodes : TextOf(x, m) = IF m = n THEN c ELSE TextOf(tier, m)
    BY <1>4 DEF SameBut
  <2>2. PICK K \in SUBSET {m \in Nodes : TextOf(x, m) \in Contents} :
          /\ Compacts \/ K = {}
          /\ \A m \in Nodes : TextOf(tier', m) = IF m \in K THEN Summary ELSE TextOf(x, m)
    BY <1>5 DEF Pages, Shrinks
  <2>3. K \in SUBSET {m \in Nodes : (IF m = n THEN c ELSE TextOf(tier, m)) \in Contents}
    BY <2>1
  <2>4. \A m \in Nodes : TextOf(tier', m) = IF m \in K THEN Summary
                                            ELSE IF m = n THEN c ELSE TextOf(tier, m)
    BY <2>1, <2>2
  <2>5. \A e \in Links : e[1] # n /\ e[2] # n =>
          (e \in GraphOf(tier') <=> e \in GraphOf(tier))
    BY <1>4, <1>5 DEF SameBut, Pages
  <2>6. QED
    BY <2>2, <2>3, <2>4, <2>5 DEF Updates
<1>8. QED
  BY <1>2, <1>6, <1>7 DEF GraphStep

(* remove_node.                                                              *)
LEMMA RemoveKeeps ==
  ASSUME ~IndexFails, Stops # "any", IInv, NEW n \in Nodes, RemoveNode(n)
  PROVE  IInv' /\ GraphStep
<1> DEFINE w == ForgetColdShadow([tier EXCEPT !.res = Drop(tier.res, {n})], n)
           u == [w EXCEPT !.edges = w.edges \ Touching(w.edges, n)]
<1>1. Sound(tier) /\ Linked(tier) /\ cap \in Caps /\ todo \in Calls /\ AnchorLast(todo)
  BY DEF IInv, TypeOK
<1>2. /\ tier' = u /\ saved' = Kept /\ cap' = cap /\ todo' = todo /\ updated' = {n}
  BY DEF RemoveNode
<1>3. Sound(u) /\ Linked(u) /\ SameBut(tier, u, n) /\ TextOf(u, n) = NoText
  BY <1>1, RemoveSound
<1> HIDE DEF u
<1>4. Sound(tier') /\ Linked(tier') /\ SameBut(tier, tier', n) /\ TextOf(tier', n) = NoText
  BY <1>2, <1>3
<1>5. IInv'
  BY <1>1, <1>2, <1>4, StepKeeps
<1>6. Updates(tier, tier', n, NoText)
  <2>1. {} \in SUBSET {m \in Nodes : (IF m = n THEN NoText ELSE TextOf(tier, m)) \in Contents}
    OBVIOUS
  <2>2. QED
    BY <1>4, <2>1 DEF SameBut, Updates
<1>7. QED
  BY <1>2, <1>5, <1>6 DEF GraphStep

(* add_edge.                                                                 *)
LEMMA AddEdgeKeeps ==
  ASSUME Stops # "any", IInv, NEW e \in Links, AddEdge(e)
  PROVE  IInv' /\ GraphStep
<1> DEFINE u == [tier EXCEPT !.edges = tier.edges \cup {e}]
<1>1. Sound(tier) /\ Linked(tier) /\ cap \in Caps /\ todo \in Calls /\ AnchorLast(todo)
  BY DEF IInv, TypeOK
<1>2. /\ tier' = u /\ saved' = Kept /\ cap' = cap /\ todo' = todo /\ updated' = {}
      /\ e[1] \in DOMAIN tier.res /\ e[2] \in DOMAIN tier.res
  BY DEF AddEdge
<1>3. /\ Sound(u) /\ Linked(u) /\ GraphOf(u) = GraphOf(tier) \cup {e}
      /\ \A n \in Nodes : TextOf(u, n) = TextOf(tier, n)
  BY <1>1, <1>2, AddEdgeSound
<1> HIDE DEF u
<1>4. IInv'
  BY <1>1, <1>2, <1>3, StepKeeps
<1>5. QED
  BY <1>2, <1>3, <1>4 DEF GraphStep

(* set_max_in_memory_nodes.                                                  *)
LEMMA SetMaxResidentKeeps ==
  ASSUME ~IndexFails, Stops # "any", IInv, NEW k \in Caps, SetMaxResident(k)
  PROVE  IInv' /\ GraphStep
<1>1. Sound(tier) /\ Linked(tier) /\ cap \in Caps /\ todo \in Calls /\ AnchorLast(todo)
  BY DEF IInv, TypeOK
<1>2. /\ tier' \in PagingOutcomes(tier, k) /\ saved' = Kept /\ cap' = k /\ todo' = todo
      /\ updated' = {}
  BY DEF SetMaxResident
<1>3. Sound(tier') /\ Linked(tier') /\ Pages(tier, tier')
  BY <1>1, <1>2, PagingOutcomesSound
<1>4. IInv'
  BY <1>1, <1>2, <1>3, StepKeeps
<1>5. QED
  BY <1>2, <1>3, <1>4 DEF GraphStep

(* A budget of the COLD tier is set.                                         *)
LEMMA SetBudgetKeeps ==
  ASSUME ~IndexFails, Stops # "any", IInv, SetBudget
  PROVE  IInv' /\ GraphStep
<1>1. Sound(tier) /\ Linked(tier) /\ cap \in Caps /\ todo \in Calls /\ AnchorLast(todo)
  BY DEF IInv, TypeOK
<1>2. /\ tier' \in EnforceOutcomes(tier) /\ saved' = Kept /\ cap' = cap /\ todo' = todo
      /\ updated' = {}
  BY DEF SetBudget
<1>3. SameGraph(tier, tier)
  BY DEF SameGraph
<1>4. Sound(tier') /\ Linked(tier') /\ Pages(tier, tier')
  BY <1>1, <1>2, <1>3, EnforcePages
<1>5. IInv'
  BY <1>1, <1>2, <1>4, StepKeeps
<1>6. QED
  BY <1>2, <1>4, <1>5 DEF GraphStep

(* A failure signal on a node that is not resident.                          *)
LEMMA PageInKeeps ==
  ASSUME ~IndexFails, Stops # "any", IInv, NEW n \in Nodes, PageIn(n)
  PROVE  IInv' /\ GraphStep
<1>1. Sound(tier) /\ Linked(tier) /\ cap \in Caps /\ todo \in Calls /\ AnchorLast(todo)
  BY DEF IInv, TypeOK
<1>2. /\ tier' \in PageInOutcomes(tier, n, cap) /\ saved' = Kept /\ cap' = cap
      /\ todo' = todo /\ updated' = {}
  BY DEF PageIn
<1>3. Sound(tier') /\ Linked(tier') /\ Pages(tier, tier')
  BY <1>1, <1>2, PageInOutcomesSound
<1>4. IInv'
  BY <1>1, <1>2, <1>3, StepKeeps
<1>5. QED
  BY <1>2, <1>3, <1>4 DEF GraphStep


(* ensure_resident begins.                                                   *)
LEMMA EnsureResidentKeeps ==
  ASSUME Stops # "any", IInv, NEW n \in Nodes, EnsureResident(n)
  PROVE  IInv' /\ GraphStep
<1>1. Sound(tier) /\ Linked(tier) /\ cap \in Caps
  BY DEF IInv, TypeOK
<1>2. /\ tier' = tier /\ saved' = Kept /\ cap' = cap /\ updated' = {}
      /\ \E seq \in SetToSeqs(ColdNeighbours(tier, n)) :
           todo' = [anchor |-> {n}, rest |-> <<n>> \o seq \o <<n>>]
  BY DEF EnsureResident
<1>3. PICK seq \in SetToSeqs(ColdNeighbours(tier, n)) :
        todo' = [anchor |-> {n}, rest |-> <<n>> \o seq \o <<n>>]
  BY <1>2
<1> DEFINE V == ColdNeighbours(tier, n)
<1>4. V \in SUBSET Nodes
  BY DEF ColdNeighbours
<1>5. seq \in Seq(Nodes) /\ Len(seq) \in Nat
  <2> HIDE DEF V
  <2>1. seq \in SetToSeqs(V)
    BY DEF V
  <2>2. /\ seq \in Seq(V) /\ Len(seq) \in Nat
    BY <1>4, <2>1, OrderingIs
  <2>3. QED
    BY <1>4, <2>2, SeqDef
<1> HIDE DEF V
<1> DEFINE front == <<n>> \o seq
           rest == front \o <<n>>
<1>6. front \in Seq(Nodes) /\ Len(front) \in Nat
  BY <1>5
<1> HIDE DEF front
<1>7. rest \in Seq(Nodes) /\ Len(rest) = Len(front) + 1 /\ rest[Len(rest)] = n
  BY <1>6
<1>8. todo' = [anchor |-> {n}, rest |-> rest]
  BY <1>3 DEF front
<1> HIDE DEF rest
<1>9. todo' \in Calls
  BY <1>7, <1>8 DEF Calls
<1>10. AnchorLast(todo')
  BY <1>6, <1>7, <1>8 DEF AnchorLast
<1>11. IInv'
  BY <1>1, <1>2, <1>9, <1>10, StepKeeps
<1>12. QED
  BY <1>2, <1>11, SameGraphPages DEF GraphStep, SameGraph


(* What the next page-in of a call does to it: it is the anchor's if it is   *)
(* the last, and if not the anchor is still the last to come.                *)
LEMMA NextOfCall ==
  ASSUME NEW call \in Calls, call # NoCall, AnchorLast(call)
  PROVE  LET next == IF Len(call.rest) = 1 THEN NoCall ELSE [call EXCEPT !.rest = Tail(@)]
         IN  /\ Head(call.rest) \in Nodes
             /\ next \in Calls /\ AnchorLast(next)
             /\ next = NoCall => \A n \in call.anchor : Head(call.rest) = n
<1> DEFINE rest == call.rest
           tail == Tail(rest)
           next == IF Len(call.rest) = 1 THEN NoCall ELSE [call EXCEPT !.rest = Tail(@)]
<1>1. /\ call = [anchor |-> call.anchor, rest |-> rest]
      /\ call.anchor \in SUBSET Nodes /\ rest \in Seq(Nodes)
  BY DEF Calls
<1>2. /\ Len(rest) \in Nat /\ Len(rest) > 0 /\ call.anchor # {}
      /\ \A n \in call.anchor : rest[Len(rest)] = n
  BY <1>1 DEF AnchorLast
<1>3. Head(rest) \in Nodes /\ Head(rest) = rest[1]
  BY <1>1, <1>2
<1>4. CASE Len(rest) = 1
  <2>1. next = NoCall
    BY <1>4
  <2>2. \A n \in call.anchor : Head(rest) = n
    BY <1>2, <1>3, <1>4
  <2>3. AnchorLast(NoCall) /\ NoCall \in Calls
    BY NoCallIs DEF AnchorLast
  <2>4. QED
    BY <1>3, <2>1, <2>2, <2>3
<1>5. CASE Len(rest) # 1
  <2>1. tail \in Seq(Nodes) /\ Len(tail) = Len(rest) - 1 /\ tail[Len(tail)] = rest[Len(rest)]
    <3> HIDE DEF rest
    <3>1. rest # << >>
      BY <1>2
    <3>2. /\ tail \in Seq(Nodes) /\ Len(tail) = Len(rest) - 1
          /\ \A i \in 1..Len(tail) : tail[i] = rest[i + 1]
      BY <1>1, <3>1, HeadTailProperties
    <3> HIDE DEF tail
    <3>3. Len(tail) \in 1..Len(tail) /\ Len(tail) + 1 = Len(rest)
      BY <1>2, <1>5, <3>2
    <3>4. QED
      BY <3>2, <3>3
  <2>2. next = [anchor |-> call.anchor, rest |-> tail]
    BY <1>1, <1>5
  <2> HIDE DEF next, tail
  <2>3. next \in Calls
    BY <1>1, <2>1, <2>2 DEF Calls
  <2>4. AnchorLast(next)
    <3> HIDE DEF rest
    <3>1. next.rest = tail /\ next.anchor = call.anchor
      BY <2>2
    <3>2. Len(tail) > 0
      BY <1>2, <1>5, <2>1
    <3>3. QED
      BY <1>2, <2>1, <3>1, <3>2 DEF AnchorLast
  <2>5. next # NoCall
    BY <1>2, <2>2, NoCallIs
  <2>6. QED
    BY <1>3, <2>3, <2>4, <2>5 DEF next
<1>6. QED
  BY <1>4, <1>5

(* A page-in of ensure_resident. If it is the last, the anchor is resident.  *)
LEMMA PageInNextKeeps ==
  ASSUME ~IndexFails, Stops # "any", IInv, PageInNext
  PROVE  /\ IInv' /\ GraphStep
         /\ Idle' => \A n \in todo.anchor : n \in Present(tier') => n \in DOMAIN tier'.res
<1> DEFINE m == Head(todo.rest)
           next == IF Len(todo.rest) = 1 THEN NoCall ELSE [todo EXCEPT !.rest = Tail(@)]
<1>1. Sound(tier) /\ Linked(tier) /\ cap \in Caps /\ todo \in Calls /\ AnchorLast(todo)
  BY DEF IInv, TypeOK
<1>2. /\ todo # NoCall /\ tier' \in PageInOutcomes(tier, m, cap) /\ saved' = Kept
      /\ cap' = cap /\ todo' = next /\ updated' = {}
  BY DEF PageInNext, Idle
<1>3. /\ m \in Nodes /\ next \in Calls /\ AnchorLast(next)
      /\ next = NoCall => \A n \in todo.anchor : m = n
  BY <1>1, <1>2, NextOfCall
<1> HIDE DEF m, next
<1>4. /\ Sound(tier') /\ Linked(tier') /\ Pages(tier, tier')
      /\ m \in Present(tier') => m \in DOMAIN tier'.res
  BY <1>1, <1>2, <1>3, PageInOutcomesSound
<1>5. IInv'
  BY <1>1, <1>2, <1>3, <1>4, StepKeeps
<1>6. ASSUME Idle' PROVE \A n \in todo.anchor : n \in Present(tier') => n \in DOMAIN tier'.res
  <2>1. next = NoCall
    BY <1>2, <1>6 DEF Idle
  <2>2. QED
    BY <1>3, <1>4, <2>1
<1>7. QED
  BY <1>2, <1>4, <1>5, <1>6 DEF GraphStep


(* attach_cold_spill, on a graph that has no store yet.                      *)
LEMMA AttachKeeps ==
  ASSUME ~IndexFails, Stops # "any", IInv, AttachColdSpill
  PROVE  IInv' /\ GraphStep
<1>1. /\ Sound(tier) /\ Linked(tier) /\ cap \in Caps /\ todo \in Calls /\ AnchorLast(todo)
      /\ NothingFlushed(saved) /\ tier \in Tiers /\ Detached(tier)
  BY DEF IInv, TypeOK, Sound
<1>2. /\ tier' \in AttachOutcomes(tier) /\ saved' = Kept /\ cap' = cap
      /\ todo' = todo /\ updated' = {} /\ ~tier.attached
  BY DEF AttachColdSpill
<1>3. saved.husk = tier.husk /\ saved.radj \subseteq Adjacency(Archived(tier))
  BY <1>1, <1>2 DEF Detached, NothingFlushed
<1>4. tier = [res |-> tier.res, edges |-> tier.edges, cold |-> tier.cold, husk |-> tier.husk,
              radj |-> tier.radj, texts |-> tier.texts, bodies |-> tier.bodies,
              attached |-> tier.attached]
  BY <1>1, TierIs
<1>5. Sound(tier') /\ Linked(tier') /\ SameGraph(tier, tier')
  BY <1>1, <1>2, <1>3, <1>4, AttachSound
<1>6. IInv'
  BY <1>1, <1>2, <1>5, StepKeeps
<1>7. QED
  BY <1>2, <1>5, <1>6, SameGraphPages DEF GraphStep

(* A step that only writes to disk, and no more of an index than there is.   *)
LEMMA SaveKeeps ==
  ASSUME IInv, UNCHANGED <<tier, cap, todo>>, updated' = {}, saved' \in Saves,
         saved'.husk \in {saved.husk, tier.husk}, saved'.radj \in {saved.radj, tier.radj}
  PROVE  IInv' /\ GraphStep
<1>1. Sound(tier) /\ Detached(tier) /\ NothingFlushed(saved)
  BY DEF IInv, Sound
<1>2. ~tier.attached => saved'.husk = Nothing /\ saved'.radj = {}
  BY <1>1 DEF Detached, NothingFlushed
<1>3. Sound(tier') /\ Linked(tier') /\ TypeOK' /\ AnchorLast(todo')
  BY DEF IInv, TypeOK
<1>4. NothingFlushed(saved)'
  BY <1>2 DEF NothingFlushed
<1>5. IInv'
  BY <1>3, <1>4 DEF IInv
<1>6. GraphStep
  BY SameGraphPages DEF GraphStep, SameGraph
<1>7. QED
  BY <1>5, <1>6

(* The parts of what is saved.                                               *)
LEMMA SaveIs ==
  ASSUME NEW s
  PROVE  s \in Saves <=>
         /\ s = [snap |-> s.snap, husk |-> s.husk, radj |-> s.radj]
         /\ s.snap \in Snaps /\ s.husk \in PartialMaps(Husks)
         /\ s.radj \in SUBSET (Nodes \X Nodes)
BY DEF Saves

(* A snapshot of the state is one.                                           *)
LEMMA SnapIs ==
  ASSUME NEW t \in Tiers, NEW c \in Caps
  PROVE  /\ Snap(t, c) \in Snaps
         /\ Snap(t, c).res = t.res /\ Snap(t, c).edges = t.edges
         /\ Snap(t, c).cold = t.cold /\ Snap(t, c).cap = c
<1>1. /\ t.res \in PartialMaps(Texts) /\ t.edges \in SUBSET Links
      /\ t.cold \in PartialMaps(Entries)
  BY TierIs
<1>2. QED
  BY <1>1 DEF Snap, Snaps

(* checkpoint and checkpoint_to.                                             *)
LEMMA CheckpointKeeps ==
  ASSUME IInv, NEW flush \in BOOLEAN, Checkpoint(flush)
  PROVE  IInv' /\ GraphStep
<1> DEFINE snap == Snap(tier, cap)
           husk == IF flush THEN tier.husk ELSE saved.husk
           radj == IF flush THEN tier.radj ELSE saved.radj
           a == [saved EXCEPT !.snap = snap]
           b == [a EXCEPT !.husk = husk]
           c == [b EXCEPT !.radj = radj]
<1>1. /\ UNCHANGED <<tier, cap, todo>> /\ updated' = {}
      /\ saved' = [saved EXCEPT !.snap = snap, !.husk = husk, !.radj = radj]
  BY DEF Checkpoint
<1>2. saved' = c
  BY <1>1
<1>3. tier \in Tiers /\ cap \in Caps /\ saved \in Saves
  BY DEF IInv, TypeOK
<1>4. /\ snap \in Snaps
      /\ tier.husk \in PartialMaps(Husks) /\ tier.radj \in SUBSET (Nodes \X Nodes)
      /\ saved.husk \in PartialMaps(Husks) /\ saved.radj \in SUBSET (Nodes \X Nodes)
      /\ saved = [snap |-> saved.snap, husk |-> saved.husk, radj |-> saved.radj]
  BY <1>3, SnapIs, TierIs, SaveIs
<1>5. /\ husk \in {saved.husk, tier.husk} /\ radj \in {saved.radj, tier.radj}
  OBVIOUS
<1> HIDE DEF snap, husk, radj
<1>6. a = [snap |-> snap, husk |-> saved.husk, radj |-> saved.radj]
  BY <1>4
<1> HIDE DEF a
<1>7. b = [snap |-> snap, husk |-> husk, radj |-> saved.radj]
  BY <1>6
<1> HIDE DEF b
<1>8. saved' = [snap |-> snap, husk |-> husk, radj |-> radj]
  BY <1>2, <1>7
<1>9. husk \in PartialMaps(Husks) /\ radj \in SUBSET (Nodes \X Nodes)
  BY <1>4, <1>5
<1>10. saved' \in Saves /\ saved'.husk = husk /\ saved'.radj = radj
  BY <1>4, <1>8, <1>9 DEF Saves
<1>11. QED
  BY <1>1, <1>5, <1>10, SaveKeeps

(* A full memtable flushed.                                                  *)
LEMMA IndexFlushKeeps ==
  ASSUME IInv, IndexFlush
  PROVE  IInv' /\ GraphStep
<1>1. tier \in Tiers /\ saved \in Saves
  BY DEF IInv, TypeOK
<1>2. /\ tier.husk \in PartialMaps(Husks) /\ tier.radj \in SUBSET (Nodes \X Nodes)
      /\ saved.husk \in PartialMaps(Husks) /\ saved.radj \in SUBSET (Nodes \X Nodes)
      /\ saved.snap \in Snaps
      /\ saved = [snap |-> saved.snap, husk |-> saved.husk, radj |-> saved.radj]
  BY <1>1, TierIs, SaveIs
<1>3. /\ UNCHANGED <<tier, cap, todo>> /\ updated' = {}
      /\ \/ saved' = [saved EXCEPT !.husk = tier.husk]
         \/ saved' = [saved EXCEPT !.radj = tier.radj]
  BY DEF IndexFlush
<1>4. \/ saved' = [snap |-> saved.snap, husk |-> tier.husk, radj |-> saved.radj]
      \/ saved' = [snap |-> saved.snap, husk |-> saved.husk, radj |-> tier.radj]
  BY <1>2, <1>3
<1>5. /\ saved' \in Saves
      /\ saved'.husk \in {saved.husk, tier.husk} /\ saved'.radj \in {saved.radj, tier.radj}
  BY <1>2, <1>4 DEF Saves
<1>6. QED
  BY <1>3, <1>5, SaveKeeps

(* The process ends and the next one starts from its last checkpoint.        *)
LEMMA RestartKeeps ==
  ASSUME ~IndexFails, Stops # "any", IInv, Restart
  PROVE  IInv' /\ GraphStep
<1> DEFINE no == FALSE
           t == [tier EXCEPT !.res = saved.snap.res, !.edges = saved.snap.edges,
                             !.cold = saved.snap.cold, !.husk = Nothing, !.radj = {},
                             !.attached = FALSE]
           a == [tier EXCEPT !.res = saved.snap.res]
           b == [a EXCEPT !.edges = saved.snap.edges]
           c == [b EXCEPT !.cold = saved.snap.cold]
           d == [c EXCEPT !.husk = Nothing]
           e == [d EXCEPT !.radj = {}]
           f == [e EXCEPT !.attached = no]
<1>1. /\ Sound(tier) /\ Linked(tier) /\ cap \in Caps /\ tier \in Tiers /\ Indexed(tier)
  BY DEF IInv, TypeOK, Sound
<1>2. Stops = "clean"
  BY SwitchesAssumption DEF Restart
<1>3. /\ saved.snap = Snap(tier, cap) /\ saved.husk = tier.husk /\ saved.radj = tier.radj
      /\ cap' = saved.snap.cap /\ todo' = NoCall /\ saved' = Kept /\ updated' = {}
      /\ IF tier.attached THEN tier' \in AttachOutcomes(t) ELSE tier' = t
  BY <1>2 DEF Restart
<1>4. /\ saved.snap.res = tier.res /\ saved.snap.edges = tier.edges
      /\ saved.snap.cold = tier.cold /\ saved.snap.cap = cap
  BY <1>1, <1>3, SnapIs
<1>5. t = f
  OBVIOUS
<1> HIDE DEF t, no
<1>6. t = [res |-> tier.res, edges |-> tier.edges, cold |-> tier.cold, husk |-> Nothing,
           radj |-> {}, texts |-> tier.texts, bodies |-> tier.bodies, attached |-> no]
  <2>1. a = [res |-> tier.res, edges |-> tier.edges, cold |-> tier.cold, husk |-> tier.husk,
             radj |-> tier.radj, texts |-> tier.texts, bodies |-> tier.bodies,
             attached |-> tier.attached]
    BY <1>1, <1>4, TierIs
  <2> HIDE DEF a
  <2>2. b = [res |-> tier.res, edges |-> tier.edges, cold |-> tier.cold, husk |-> tier.husk,
             radj |-> tier.radj, texts |-> tier.texts, bodies |-> tier.bodies,
             attached |-> tier.attached]
    BY <1>4, <2>1
  <2> HIDE DEF b
  <2>3. c = [res |-> tier.res, edges |-> tier.edges, cold |-> tier.cold, husk |-> tier.husk,
             radj |-> tier.radj, texts |-> tier.texts, bodies |-> tier.bodies,
             attached |-> tier.attached]
    BY <1>4, <2>2
  <2> HIDE DEF c
  <2>4. d = [res |-> tier.res, edges |-> tier.edges, cold |-> tier.cold, husk |-> Nothing,
             radj |-> tier.radj, texts |-> tier.texts, bodies |-> tier.bodies,
             attached |-> tier.attached]
    BY <2>3
  <2> HIDE DEF d
  <2>5. e = [res |-> tier.res, edges |-> tier.edges, cold |-> tier.cold, husk |-> Nothing,
             radj |-> {}, texts |-> tier.texts, bodies |-> tier.bodies,
             attached |-> tier.attached]
    BY <2>4
  <2> HIDE DEF e
  <2>6. f = [res |-> tier.res, edges |-> tier.edges, cold |-> tier.cold, husk |-> Nothing,
             radj |-> {}, texts |-> tier.texts, bodies |-> tier.bodies, attached |-> no]
    BY <2>5
  <2>7. QED
    BY <1>5, <2>6
<1> HIDE DEF a, b, c, d, e, f
<1>7. Sound(tier') /\ Linked(tier') /\ SameGraph(tier, tier')
  <2>1. CASE tier.attached
    <3>1. saved.radj \subseteq Adjacency(Archived(tier))
      BY <1>1, <1>3, <2>1 DEF Indexed
    <3>2. tier' \in AttachOutcomes(t)
      BY <1>3, <2>1
    <3>3. QED
      BY <1>1, <1>3, <1>6, <3>1, <3>2, AttachSound
  <2>2. CASE ~tier.attached
    <3>1. t = tier
      BY <1>1, <1>6, <2>2, DetachedIs DEF no
    <3>2. tier' = tier
      BY <1>3, <2>2, <3>1
    <3>3. QED
      BY <1>1, <3>2 DEF SameGraph
  <2>3. QED
    BY <2>1, <2>2
<1>8. todo' \in Calls /\ AnchorLast(todo') /\ cap' \in Caps
  BY <1>1, <1>3, <1>4, NoCallIs DEF AnchorLast
<1>9. IInv'
  BY <1>3, <1>7, <1>8, StepKeeps
<1>10. QED
  BY <1>3, <1>7, <1>9, SameGraphPages DEF GraphStep


(* Every step keeps the invariant, and does to the graph what it may.        *)
LEMMA NextKeeps ==
  ASSUME ~IndexFails, Stops # "any", IInv, [Next]_vars
  PROVE  IInv' /\ GraphStep
<1>1. CASE \E n \in Nodes, c \in Contents : UpsertNode(n, c)
  BY <1>1, UpsertKeeps
<1>2. CASE \E e \in Links : AddEdge(e)
  BY <1>2, AddEdgeKeeps
<1>3. CASE \E n \in Nodes : RemoveNode(n)
  BY <1>3, RemoveKeeps
<1>4. CASE \E n \in Nodes : PageIn(n)
  BY <1>4, PageInKeeps
<1>5. CASE \E n \in Nodes : EnsureResident(n)
  BY <1>5, EnsureResidentKeeps
<1>6. CASE PageInNext
  BY <1>6, PageInNextKeeps
<1>7. CASE \E k \in Caps : SetMaxResident(k)
  BY <1>7, SetMaxResidentKeeps
<1>8. CASE SetBudget
  BY <1>8, SetBudgetKeeps
<1>9. CASE AttachColdSpill
  BY <1>9, AttachKeeps
<1>10. CASE \E flush \in BOOLEAN : Checkpoint(flush)
  BY <1>10, CheckpointKeeps
<1>11. CASE IndexFlush
  BY <1>11, IndexFlushKeeps
<1>12. CASE Restart
  BY <1>12, RestartKeeps
<1>13. CASE UNCHANGED vars
  <2>1. IInv'
    BY <1>13 DEF vars, IInv, TypeOK, NothingFlushed
  <2>2. GraphStep
    BY <1>13 DEF vars, GraphStep
  <2>3. QED
    BY <2>1, <2>2
<1>14. QED
  BY <1>1, <1>2, <1>3, <1>4, <1>5, <1>6, <1>7, <1>8, <1>9, <1>10, <1>11, <1>12, <1>13
     DEF Next

(* The invariant always holds.                                               *)
LEMMA InductiveInvariant ==
  ASSUME ~IndexFails, Stops # "any"
  PROVE  Spec => []IInv
<1>1. Init => IInv
  BY InitKeeps
<1>2. IInv /\ [Next]_vars => IInv'
  BY NextKeeps
<1>3. QED
  BY <1>1, <1>2, PTL DEF Spec

(* What can be had back of a sound tier is its graph.                        *)
LEMMA WholeIs ==
  ASSUME NEW t, Sound(t)
  PROVE  /\ Whole(t).text = [n \in Nodes |-> TextOf(t, n)]
         /\ Whole(t).links = GraphOf(t)
<1>1. \A n : Text(t, n) = TextOf(t, n) /\ (Text(t, n) # NoText <=> n \in Present(t))
  BY TextIs
<1>2. Whole(t).text = [n \in Nodes |-> TextOf(t, n)]
  BY <1>1 DEF Whole
<1>3. Whole(t).links = {e \in t.edges \cup Archived(t) :
                          \A n \in {e[1], e[2]} : Text(t, n) # NoText}
  BY DEF Whole
<1>4. Whole(t).links = GraphOf(t)
  BY <1>1, <1>3 DEF GraphOf
<1>5. QED
  BY <1>2, <1>4

(* Contents compacted in the graph are compacted in VirtualGraph.            *)
LEMMA ShrunkIs ==
  ASSUME NEW f, NEW K \in SUBSET {n \in Nodes : f[n] \in Contents},
         NEW g, g = [n \in Nodes |-> IF n \in K THEN Summary ELSE f[n]],
         ~Compacts => g = f
  PROVE  g \in VG!Shrunk(f)
BY DEF VG!Shrunk

(* What a step does to the graph is a step of VirtualGraph.                  *)
LEMMA GraphStepImplements ==
  ASSUME Sound(tier), Sound(tier'), GraphStep
  PROVE  [VG!Next]_(VG!vars)
<1> DEFINE f == [n \in Nodes |-> TextOf(tier, n)]
           g == [n \in Nodes |-> TextOf(tier', n)]
<1>1. Whole(tier).text = f /\ Whole(tier).links = GraphOf(tier)
  BY WholeIs
<1>2. Whole(tier').text = g /\ Whole(tier').links = GraphOf(tier')
  BY WholeIs
<1>3. GraphOf(tier) \in SUBSET Links /\ GraphOf(tier') \in SUBSET Links
  BY GraphIs
<1>4. CASE tier' = tier /\ updated' = updated
  BY <1>4 DEF VG!vars
<1>5. CASE Pages(tier, tier') /\ updated' = {}
  <2>1. PICK K \in SUBSET {n \in Nodes : TextOf(tier, n) \in Contents} :
          /\ Compacts \/ K = {}
          /\ \A n \in Nodes : TextOf(tier', n) = IF n \in K THEN Summary ELSE TextOf(tier, n)
    BY <1>5 DEF Pages, Shrinks
  <2>2. g \in VG!Shrunk(f)
    <3>1. K \in SUBSET {n \in Nodes : f[n] \in Contents}
      OBVIOUS
    <3>2. g = [n \in Nodes |-> IF n \in K THEN Summary ELSE f[n]]
      BY <2>1
    <3>3. ~Compacts => g = f
      BY <2>1
    <3> HIDE DEF f, g
    <3>4. QED
      BY <3>1, <3>2, <3>3, ShrunkIs
  <2> HIDE DEF f, g
  <2>3. VG!Keep
    BY <1>1, <1>2, <1>5, <2>2 DEF VG!Keep, Pages
  <2>4. QED
    BY <2>3 DEF VG!Next
<1>6. CASE \E e \in Links : /\ GraphOf(tier') = GraphOf(tier) \cup {e} /\ updated' = {}
                            /\ \A n \in Nodes : TextOf(tier', n) = TextOf(tier, n)
  <2>1. PICK e \in Links : /\ GraphOf(tier') = GraphOf(tier) \cup {e} /\ updated' = {}
                           /\ \A n \in Nodes : TextOf(tier', n) = TextOf(tier, n)
    BY <1>6
  <2>2. g = f
    BY <2>1
  <2> HIDE DEF f, g
  <2>3. VG!AddLink(e)
    BY <1>1, <1>2, <2>1, <2>2 DEF VG!AddLink
  <2>4. QED
    BY <2>3 DEF VG!Next
<1>7. CASE \E n \in Nodes, c \in Contents \cup {NoText} :
             Updates(tier, tier', n, c) /\ updated' = {n}
  <2>1. PICK n \in Nodes, c \in Contents \cup {NoText} :
          Updates(tier, tier', n, c) /\ updated' = {n}
    BY <1>7
  <2> DEFINE h == [f EXCEPT ![n] = c]
  <2>2. PICK K \in SUBSET {m \in Nodes :
                             (IF m = n THEN c ELSE TextOf(tier, m)) \in Contents} :
          /\ Compacts \/ K = {}
          /\ \A m \in Nodes : TextOf(tier', m) = IF m \in K THEN Summary
                                                 ELSE IF m = n THEN c ELSE TextOf(tier, m)
    BY <2>1 DEF Updates
  <2>3. g \in VG!Shrunk(h)
    <3>1. \A m \in Nodes : h[m] = IF m = n THEN c ELSE TextOf(tier, m)
      OBVIOUS
    <3>2. K \in SUBSET {m \in Nodes : h[m] \in Contents}
      BY <3>1
    <3>3. g = [m \in Nodes |-> IF m \in K THEN Summary ELSE h[m]]
      BY <2>2, <3>1
    <3>4. ~Compacts => g = h
      BY <2>2, <3>1
    <3> HIDE DEF h, g
    <3>5. QED
      BY <3>2, <3>3, <3>4, ShrunkIs
  <2>4. \E own \in SUBSET VG!Incident(n) :
          GraphOf(tier') = (GraphOf(tier) \ VG!Incident(n)) \cup own
    <3> DEFINE own == GraphOf(tier') \cap VG!Incident(n)
    <3>1. \A e : e \in VG!Incident(n) <=> e \in Links /\ (e[1] = n \/ e[2] = n)
      BY DEF VG!Incident
    <3>2. \A e \in Links : e[1] # n /\ e[2] # n =>
            (e \in GraphOf(tier') <=> e \in GraphOf(tier))
      BY <2>1 DEF Updates
    <3>3. GraphOf(tier') = (GraphOf(tier) \ VG!Incident(n)) \cup own
      BY <1>3, <3>1, <3>2
    <3>4. own \in SUBSET VG!Incident(n)
      OBVIOUS
    <3>5. QED
      BY <3>3, <3>4
  <2> HIDE DEF f, g
  <2>5. VG!Update(n, c)
    BY <1>1, <1>2, <2>1, <2>3, <2>4 DEF VG!Update
  <2>6. QED
    BY <2>5 DEF VG!Next
<1>8. QED
  BY <1>4, <1>5, <1>6, <1>7 DEF GraphStep


-----------------------------------------------------------------------------
(* The theorems                                                              *)

(* The variables of the tier have their types in every reachable state.      *)
THEOREM TypeCorrect ==
  ASSUME ~IndexFails, Stops # "any"
  PROVE  Spec => []TypeOK
<1>1. IInv => TypeOK
  BY DEF IInv
<1>2. QED
  BY <1>1, InductiveInvariant, PTL

(* Through every demotion, spill, page-in, removal and restart, a node is in *)
(* one place, and so is each of its links.                                   *)
THEOREM PlacesAreOne ==
  ASSUME ~IndexFails, Stops # "any"
  PROVE  Spec => []OnePlace
<1>1. ASSUME IInv PROVE OnePlace
  <2>1. Sound(tier) /\ Linked(tier) /\ tier \in Tiers /\ Apart(tier) /\ OneHolder(tier)
          /\ Owned(tier)
    BY <1>1 DEF IInv, Sound
  <2>2. \A e : e \in Archived(tier) <=> \E n \in Nodes : e \in Held(tier, n)
    BY <2>1, ArchivedIs
  <2>3. DOMAIN tier.cold \in SUBSET Nodes /\ tier.edges \in SUBSET Links
    BY <2>1, TierParts
  <2>4. ASSUME NEW n \in DOMAIN tier.cold
        PROVE  tier.cold[n].edges = Touching(tier.cold[n].edges, n)
    <3>1. Held(tier, n) = tier.cold[n].edges /\ n \in Nodes
      BY <2>3 DEF Held
    <3>2. \A e \in tier.cold[n].edges : n \in {e[1], e[2]}
      BY <2>1, <3>1 DEF Owned, Touching
    <3>3. QED
      BY <3>2 DEF Touching
  <2>5. ASSUME NEW e \in tier.edges
        PROVE  {e[1], e[2]} \subseteq DOMAIN tier.res /\ e \notin Archived(tier)
    <3>1. e[1] \in DOMAIN tier.res /\ e[2] \in DOMAIN tier.res
      BY <2>1 DEF Linked
    <3>2. \A n \in Nodes : e \notin Held(tier, n)
      BY <2>1, <3>1, HeldIs
    <3>3. QED
      BY <2>2, <3>1, <3>2
  <2>6. ASSUME NEW e \in Archived(tier)
        PROVE  ~(Holds(tier, e[1], e) /\ Holds(tier, e[2], e))
    <3>1. e \in Links
      BY <2>1, <2>2, HeldIs
    <3>2. e[1] \in Nodes /\ e[2] \in Nodes /\ e[1] # e[2]
      BY <3>1, LinksAssumption
    <3>3. \A n : Holds(tier, n, e) => e \in Held(tier, n)
      BY <2>1 DEF Holds, Held, Apart
    <3>4. SameEnds(e, e)
      BY DEF SameEnds
    <3>5. QED
      BY <2>1, <3>2, <3>3, <3>4 DEF OneHolder
  <2>7. QED
    BY <2>1, <2>4, <2>5, <2>6 DEF OnePlace, Apart
<1>2. IInv => OnePlace
  BY <1>1
<1>3. QED
  BY <1>2, InductiveInvariant, PTL

(* The swap files never leak a blob, nor lose one that an entry still needs. *)
THEOREM BlobsAreExact ==
  ASSUME ~IndexFails, Stops # "any"
  PROVE  Spec => []NoOrphanedBlobs
<1>1. IInv => NoOrphanedBlobs
  BY DEF IInv, Sound, BlobsExact, Refs, BodiesOf, NoOrphanedBlobs
<1>2. QED
  BY <1>1, InductiveInvariant, PTL

(* The reverse-adjacency index, kept by hand through every move of a node,   *)
(* answers what a scan of the COLD tier would.                               *)
THEOREM IndexIsExact ==
  ASSUME ~IndexFails, Stops # "any"
  PROVE  Spec => []NeighboursExact
<1>1. ASSUME IInv PROVE NeighboursExact
  <2>1. Sound(tier) /\ Indexed(tier)
    BY <1>1 DEF IInv, Sound
  <2>2. Archived(tier) \in SUBSET Links
    BY <2>1, GraphIs
  <2>3. ASSUME NEW n \in Nodes, NEW m \in Nodes
        PROVE  <<n, m>> \in Adjacency(Archived(tier))
                 <=> \E e \in Archived(tier) : n \in {e[1], e[2]} /\ Other(e, n) = m
    <3>1. \A e \in Archived(tier) : <<n, m>> = <<e[1], e[2]>> <=> e[1] = n /\ e[2] = m
      OBVIOUS
    <3>2. \A e \in Archived(tier) : <<n, m>> = <<e[2], e[1]>> <=> e[2] = n /\ e[1] = m
      OBVIOUS
    <3>3. <<n, m>> \in Adjacency(Archived(tier))
            <=> \E e \in Archived(tier) : (e[1] = n /\ e[2] = m) \/ (e[2] = n /\ e[1] = m)
      BY <3>1, <3>2 DEF Adjacency
    <3>4. \A e \in Archived(tier) : e[1] # e[2]
      BY <2>2, LinksAssumption
    <3>5. QED
      BY <3>3, <3>4 DEF Other
  <2>4. ASSUME tier.attached
        PROVE  \A n, m \in Nodes :
                 <<n, m>> \in tier.radj
                   <=> \E e \in Archived(tier) : n \in {e[1], e[2]} /\ Other(e, n) = m
    BY <2>1, <2>3, <2>4 DEF Indexed
  <2>5. QED
    BY <2>4 DEF NeighboursExact, ColdNeighbours
<1>2. IInv => NeighboursExact
  BY <1>1
<1>3. QED
  BY <1>2, InductiveInvariant, PTL

(* When ensure_resident returns, its anchor is resident if it is in the graph*)
(* at all, whatever its neighbours pushed out.                               *)
THEOREM AnchorIsDelivered ==
  ASSUME ~IndexFails, Stops # "any"
  PROVE  Spec => AnchorDelivered
<1> DEFINE Delivered ==
      \A n \in todo.anchor : PageInNext /\ Idle' /\ Text(tier', n) # NoText =>
        n \in DOMAIN tier'.res
<1>1. ASSUME IInv, [Next]_vars PROVE Delivered
  <2> SUFFICES ASSUME NEW n \in todo.anchor, PageInNext, Idle', Text(tier', n) # NoText
               PROVE  n \in DOMAIN tier'.res
    OBVIOUS
  <2>1. /\ IInv'
        /\ n \in Present(tier') => n \in DOMAIN tier'.res
    BY <1>1, PageInNextKeeps
  <2>2. Sound(tier')
    BY <2>1 DEF IInv
  <2>3. n \in Present(tier')
    BY <2>2, TextIs
  <2>4. QED
    BY <2>1, <2>3
<1>2. IInv /\ [Next]_vars => [Delivered]_vars
  BY <1>1
<1>3. QED
  BY <1>2, InductiveInvariant, PTL DEF Spec, AnchorDelivered

(* Paging does not show: every step of the tiers is a re-ingest, a removal,  *)
(* a new link or a compaction of VirtualGraph, or changes nothing that could *)
(* be had back.                                                              *)
THEOREM TiersImplementVirtualGraph ==
  ASSUME ~IndexFails, Stops # "any"
  PROVE  Spec => ImplementsVirtualGraph
<1>1. ASSUME Init PROVE VG!Init
  <2>1. tier = NoGraph /\ updated = {}
    BY <1>1 DEF Init
  <2>2. Sound(tier) /\ Present(tier) = {}
    BY <2>1, NoGraphSound
  <2>3. \A n : TextOf(tier, n) = NoText
    BY <2>2, TextIs
  <2>4. Whole(tier).text = [n \in Nodes |-> NoText]
    BY <2>2, <2>3, WholeIs
  <2>5. Whole(tier).links = {}
    BY <2>2, WholeIs DEF GraphOf
  <2>6. QED
    BY <2>1, <2>4, <2>5 DEF VG!Init
<1>2. ASSUME IInv, [Next]_vars PROVE [VG!Next]_(VG!vars)
  <2>1. IInv' /\ GraphStep
    BY <1>2, NextKeeps
  <2>2. Sound(tier) /\ Sound(tier')
    BY <1>2, <2>1 DEF IInv
  <2>3. QED
    BY <2>1, <2>2, GraphStepImplements
<1>3. Init => VG!Init
  BY <1>1
<1>4. IInv /\ [Next]_vars => [VG!Next]_(VG!vars)
  BY <1>2
<1>5. QED
  BY <1>3, <1>4, InductiveInvariant, PTL DEF Spec, ImplementsVirtualGraph, VG!Spec

=============================================================================

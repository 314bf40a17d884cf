------------------------- MODULE AgentTimelineProofs -------------------------
(***************************************************************************)
(* Proofs about AgentTimeline, for any number of sessions and writers, any *)
(* files and contents, any compaction thresholds and any bounds. Only the  *)
(* last theorem, that a replay restores the live memory, is about one that *)
(* is Alone in its workspace: beside others the code does not promise it.  *)
(***************************************************************************)
EXTENDS AgentTimeline, SequenceTheorems, WellFoundedInduction, TLAPS

-----------------------------------------------------------------------------
(* Induction over the naturals, and functions defined by recursion *)

(* A set of naturals that holds 0 and the successor of each of its members   *)
(* holds every natural: induction, stated with a set so that the first-order *)
(* provers can instantiate it.                                               *)
LEMMA SetInduction ==
  ASSUME NEW T, T \subseteq Nat, 0 \in T, \A n \in T : n + 1 \in T
  PROVE  T = Nat
<1> SUFFICES ASSUME T # Nat PROVE FALSE
  OBVIOUS
<1> DEFINE R == OpToRel(<, Nat)
<1>1. IsWellFoundedOn(R, Nat)
  BY NatLessThanWellFounded
<1>2. \A y, x \in Nat : y < x => <<y, x>> \in R
  BY DEF OpToRel
<1> HIDE DEF R
<1>3. PICK x \in Nat \ T : \A y \in Nat \ T : ~(<<y, x>> \in R)
  BY <1>1, WFMin
<1>4. x # 0 /\ x - 1 \in Nat /\ x - 1 < x
  OBVIOUS
<1>5. x - 1 \in T
  BY <1>2, <1>3, <1>4
<1> QED
  BY <1>3, <1>4, <1>5

\* f runs through 0..n from b, each value being A of its index and the one before.
IsRun(f, n, S, b, A) ==
  /\ f \in [0..n -> S]
  /\ f[0] = b
  /\ \A i \in 1..n : f[i] = A[i][f[i - 1]]

(* A function on 0..n given by its value b at 0 and, from then on, by a step *)
(* function applied to the index and the previous value exists, and has its  *)
(* values in the set S those live in: the form of every replay of a log.     *)
LEMMA RecursionExists ==
  ASSUME NEW n \in Nat, NEW S, NEW b \in S, NEW A \in [1..n -> [S -> S]]
  PROVE  \E f : IsRun(f, n, S, b, A)
<1> DEFINE Partial(k) == \E f \in [0..k -> S] :
                           /\ f[0] = b
                           /\ \A i \in 1..k : f[i] = A[i][f[i - 1]]
           T == {k \in Nat : k <= n => Partial(k)}
<1>1. 0 \in T
  <2> DEFINE f == [i \in 0..0 |-> b]
  <2>1. f \in [0..0 -> S] /\ f[0] = b /\ \A i \in 1..0 : f[i] = A[i][f[i - 1]]
    OBVIOUS
  <2>2. QED
    BY <2>1
<1>2. ASSUME NEW k \in T PROVE k + 1 \in T
  <2>0. k \in Nat /\ (k <= n => Partial(k))
    OBVIOUS
  <2> HIDE DEF Partial
  <2> SUFFICES ASSUME k + 1 <= n PROVE Partial(k + 1)
    BY <2>0
  <2>1. k \in Nat /\ Partial(k)
    BY <2>0
  <2>2. PICK f \in [0..k -> S] : /\ f[0] = b
                                 /\ \A i \in 1..k : f[i] = A[i][f[i - 1]]
    BY <2>1 DEF Partial
  <2> DEFINE g == [i \in 0..(k + 1) |-> IF i = k + 1 THEN A[k + 1][f[k]] ELSE f[i]]
  <2>3. f[k] \in S /\ k + 1 \in 1..n
    BY <2>1
  <2>4. A[k + 1][f[k]] \in S
    BY <2>3
  <2>5. g \in [0..(k + 1) -> S]
    BY <2>1, <2>4
  <2>6. g[0] = b
    BY <2>1, <2>2
  <2>7. ASSUME NEW i \in 1..(k + 1) PROVE g[i] = A[i][g[i - 1]]
    <3>1. i - 1 \in 0..k /\ g[i - 1] = f[i - 1]
      BY <2>1
    <3>2. CASE i = k + 1
      BY <3>1, <3>2, <2>1
    <3>3. CASE i # k + 1
      BY <3>1, <3>3, <2>1, <2>2
    <3>4. QED
      BY <3>2, <3>3
  <2>8. QED
    BY <2>5, <2>6, <2>7 DEF Partial
<1> HIDE DEF T
<1>3. T = Nat
  <2>1. T \subseteq Nat
    BY DEF T
  <2>2. QED
    BY <1>1, <1>2, <2>1, SetInduction
<1>4. Partial(n)
  BY <1>3 DEF T
<1>5. QED
  BY <1>4 DEF IsRun

(* What holds of the first value and is kept from each to the next holds of  *)
(* all.                                                                      *)
LEMMA RunStaysIn ==
  ASSUME NEW n \in Nat, NEW S, NEW g, g[0] \in S,
         \A i \in 1..n : g[i - 1] \in S => g[i] \in S
  PROVE  \A i \in 0..n : g[i] \in S
<1> DEFINE T == {k \in Nat : k <= n => g[k] \in S}
<1>1. 0 \in T
  OBVIOUS
<1>2. ASSUME NEW k \in T PROVE k + 1 \in T
  <2>1. ASSUME k + 1 <= n PROVE g[k + 1] \in S
    <3>1. k + 1 \in 1..n /\ g[k] \in S /\ (k + 1) - 1 = k
      BY <2>1
    <3>2. QED
      BY <3>1
  <2>2. QED
    BY <2>1
<1> HIDE DEF T
<1>3. T = Nat
  <2>1. T \subseteq Nat
    BY DEF T
  <2>2. QED
    BY <1>1, <1>2, <2>1, SetInduction
<1>4. QED
  BY <1>3 DEF T


-----------------------------------------------------------------------------
(* The operations of a memory keep it a memory, and leave it resolved. *)

LEMMA EmptyMemType ==
  EmptyMem \in Mem /\ EmptyMem.dirty = FALSE /\ EmptyMem = Reloaded(EmptyMem)
<1>1. EmptyMem \in Mem
  BY WeightsAssumption DEF EmptyMem, Mem
<1>2. EmptyMem.dirty = FALSE /\ EmptyMem.pending = {}
  BY DEF EmptyMem
<1>3. EmptyMem = Reloaded(EmptyMem)
  BY <1>1, <1>2 DEF Mem, Reloaded
<1>4. QED
  BY <1>1, <1>2, <1>3

LEMMA ParseFileType ==
  ASSUME NEW m \in Mem, NEW f \in Files, NEW c \in Contents
  PROVE  ParseFile(m, f, c) \in Mem
<1> DEFINE src     == [m.src EXCEPT ![f] = c]
           pending == IF Wants[f] = {} THEN m.pending \ {f} ELSE m.pending \cup {f}
<1>1. src \in [Files -> Contents \cup {Absent}] /\ pending \subseteq Files
  BY DEF Mem
<1>2. ParseFile(m, f, c) =
        [m EXCEPT !.src = src, !.stubs = m.stubs \ {f}, !.pending = pending]
  BY DEF ParseFile
<1> HIDE DEF src, pending
<1> QED
  BY <1>1, <1>2 DEF Mem

LEMMA IngestDeferredType ==
  ASSUME NEW m \in Mem, NEW f \in Files, NEW c \in Contents
  PROVE  IngestDeferred(m, f, c) \in Mem
<1> DEFINE evicted == IF m.src[f] = Absent THEN m ELSE EvictFile(m, f)
           parsed  == IF m.src[f] = c THEN m ELSE ParseFile(evicted, f, c)
<1>1. evicted \in Mem
  BY DEF EvictFile, Mem
<1>2. parsed \in Mem
  BY <1>1, ParseFileType
<1>3. [parsed EXCEPT !.dirty = TRUE] \in Mem
  BY <1>2 DEF Mem
<1>4. QED
  BY <1>3 DEF IngestDeferred

LEMMA ResolveType ==
  ASSUME NEW m \in Mem
  PROVE  Resolve(m) \in Mem /\ ~Resolve(m).dirty
<1>1. UNION {Resolved(m, f) : f \in m.pending} \subseteq Files \X Files
  BY DEF Resolved, Mem
<1>2. {e \in m.calls : e[1] \notin m.pending} \subseteq Files \X Files
  BY DEF Mem
<1>3. QED
  BY <1>1, <1>2 DEF Resolve, Mem

LEMMA SignalFailureType ==
  ASSUME NEW m \in Mem, NEW f \in Files
  PROVE  SignalFailure(m, f) \in Mem /\ SignalFailure(m, f).dirty = m.dirty
<1>1. Downstream(m, f) \subseteq Files
  BY DEF Downstream
<1>2. QED
  BY <1>1 DEF SignalFailure, Mem

LEMMA SignalAllType ==
  ASSUME NEW m \in Mem, NEW fs \in SUBSET Files
  PROVE  SignalAll(m, fs) \in Mem /\ SignalAll(m, fs).dirty = m.dirty
<1>1. UNION {{f} \cup Downstream(m, f) : f \in fs \cap Present(m)} \subseteq Files
  BY DEF Downstream
<1>2. QED
  BY <1>1 DEF SignalAll, Mem

LEMMA AssertEvidenceType ==
  ASSUME NEW m \in Mem, NEW e \in Files, NEW c \in Files, NEW s \in BOOLEAN
  PROVE  AssertEvidence(m, e, c, s) \in Mem /\ AssertEvidence(m, e, c, s).dirty = m.dirty
<1>1. ASSUME NEW n \in Mem, NEW f \in Files
      PROVE  EnsureNode(n, f) \in Mem /\ EnsureNode(n, f).dirty = n.dirty
  BY DEF EnsureNode, Mem
<1> DEFINE both == EnsureNode(EnsureNode(m, e), c)
<1>2. both \in Mem /\ both.dirty = m.dirty
  BY <1>1
<1> HIDE DEF both
<1>3. [both EXCEPT !.beliefs = @ \cup {<<e, c, s>>}] \in Mem
  BY <1>2 DEF Mem
<1>4. [both EXCEPT !.beliefs = @ \cup {<<e, c, s>>}].dirty = both.dirty
  BY <1>2 DEF Mem
<1>5. QED
  BY <1>2, <1>3, <1>4 DEF AssertEvidence, both

LEMMA SetScoringWeightsType ==
  ASSUME NEW m \in Mem, NEW w \in Weights
  PROVE  SetScoringWeights(m, w) \in Mem /\ SetScoringWeights(m, w).dirty = m.dirty
  BY DEF SetScoringWeights, Mem

LEMMA ReloadedType ==
  ASSUME NEW m \in Mem
  PROVE  /\ Reloaded(m) \in Mem
         /\ Reloaded(m).dirty = m.dirty
         /\ Reloaded(Reloaded(m)) = Reloaded(m)
  BY DEF Reloaded, Mem

LEMMA ApplyOpType ==
  ASSUME NEW m \in Mem, NEW op \in Op
  PROVE  ApplyOp(m, op) \in Mem
<1>1. CASE op \in [kind : {"ingest"}, file : Files, content : Contents]
  BY <1>1, IngestDeferredType DEF ApplyOp
<1>2. CASE op \in [kind : {"failure"}, file : Files]
  BY <1>2, ResolveType, SignalFailureType DEF ApplyOp
<1>3. CASE op \in [kind : {"recall"}]
  BY <1>3, ResolveType DEF ApplyOp
<1>4. CASE op \in [kind : {"pagefault"}, files : SUBSET Files]
  BY <1>4, ResolveType, SignalAllType DEF ApplyOp
<1>5. CASE op \in [kind : {"retune"}, weights : Weights]
  BY <1>5, SetScoringWeightsType DEF ApplyOp
<1>6. CASE op \in [kind : {"assert"}, evidence : Files, claim : Files, supports : BOOLEAN]
  BY <1>6, AssertEvidenceType DEF ApplyOp
<1>7. QED
  BY <1>1, <1>2, <1>3, <1>4, <1>5, <1>6 DEF Op

-----------------------------------------------------------------------------
(* Replay *)

(* A replay is defined for every log: it starts at the baseline, and each    *)
(* memory it passes through comes from the one before by one operation.      *)
LEMMA ReplaysDefined ==
  ASSUME NEW base \in Mem, NEW ops \in Seq(Op)
  PROVE  /\ Replays(base, ops) \in [0..Len(ops) -> Mem]
         /\ Replays(base, ops)[0] = base
         /\ \A i \in 1..Len(ops) :
              Replays(base, ops)[i] = ApplyOp(Replays(base, ops)[i - 1], ops[i])
<1> DEFINE n == Len(ops)
<1>1. n \in Nat /\ \A i \in 1..n : ops[i] \in Op
  BY LenProperties, ElementOfSeq
<1> HIDE DEF n
<1> DEFINE A == [i \in 1..n |-> [m \in Mem |-> ApplyOp(m, ops[i])]]
<1>2. A \in [1..n -> [Mem -> Mem]]
  BY <1>1, ApplyOpType
<1>3. \A i \in 1..n : \A m \in Mem : A[i][m] = ApplyOp(m, ops[i])
  OBVIOUS
<1> HIDE DEF A
<1>4. PICK f : IsRun(f, n, Mem, base, A)
  BY <1>1, <1>2, RecursionExists
<1> DEFINE Runs(r) == r = [i \in 0..n |-> IF i = 0 THEN base
                                          ELSE ApplyOp(r[i - 1], ops[i])]
<1>5. Runs(f)
  <2>1. ASSUME NEW i \in 0..n, i # 0 PROVE f[i] = ApplyOp(f[i - 1], ops[i])
    <3>1. i \in 1..n /\ i - 1 \in 0..n
      BY <1>1, <2>1
    <3>2. QED
      BY <1>3, <1>4, <3>1 DEF IsRun
  <2>2. QED
    BY <1>4, <2>1 DEF IsRun
<1> HIDE DEF Runs
<1> DEFINE g == CHOOSE r : Runs(r)
<1>6. Runs(g)
  BY <1>5
<1>7. g = Replays(base, ops)
  BY DEF Replays, n, Runs
<1> HIDE DEF g
<1>8. g = [i \in 0..n |-> IF i = 0 THEN base ELSE ApplyOp(g[i - 1], ops[i])]
  BY <1>6 DEF Runs
<1>9. g[0] = base /\ \A i \in 1..n : g[i] = ApplyOp(g[i - 1], ops[i])
  BY <1>1, <1>8
<1> DEFINE T == {k \in Nat : k <= n => g[k] \in Mem}
<1>10. 0 \in T
  BY <1>9
<1>11. ASSUME NEW k \in T PROVE k + 1 \in T
  <2>1. ASSUME k + 1 <= n PROVE g[k + 1] \in Mem
    <3>1. k + 1 \in 1..n /\ g[k] \in Mem /\ (k + 1) - 1 = k
      BY <2>1, <1>1
    <3>2. g[k + 1] = ApplyOp(g[k], ops[k + 1])
      BY <3>1, <1>9
    <3>3. QED
      BY <3>1, <3>2, <1>1, ApplyOpType
  <2>2. QED
    BY <2>1
<1> HIDE DEF T
<1>12. T = Nat
  <2>1. T \subseteq Nat
    BY DEF T
  <2>2. QED
    BY <1>10, <1>11, <2>1, SetInduction
<1>13. \A i \in 0..n : g[i] \in Mem
  BY <1>1, <1>12 DEF T
<1>14. g \in [0..n -> Mem]
  BY <1>8, <1>13
<1>15. QED
  BY <1>7, <1>9, <1>14 DEF n

LEMMA ReplayToType ==
  ASSUME NEW t \in Timeline, NEW step \in Nat
  PROVE  ReplayTo(t, step) \in Mem /\ ~ReplayTo(t, step).dirty
<1> DEFINE upto == IF step > Total(t) THEN Total(t) ELSE step
           tail == IF upto < t.folded THEN 0 ELSE upto - t.folded
<1>1. t.base \in Mem /\ t.ops \in Seq(Op) /\ t.folded \in Nat /\ Len(t.ops) \in Nat
  BY LenProperties DEF Timeline
<1>2. tail \in 0..Len(t.ops)
  BY <1>1 DEF Total
<1>3. Replays(t.base, t.ops)[tail] \in Mem
  BY <1>1, <1>2, ReplaysDefined
<1>4. QED
  BY <1>3, ResolveType DEF ReplayTo

-----------------------------------------------------------------------------
(* A timeline that is well formed, verifies and commits to its whole history *)
(* stays so under everything a session does with it.                         *)

GoodTimeline(t) ==
  /\ t \in Timeline
  /\ t.chained
  /\ Verifies(t)
  /\ CommitsToAll(t)

(* The empty timeline of a fresh workspace, or of a reset, is good.          *)
LEMMA NewTimelineGood ==
  ASSUME NEW m \in Mem
  PROVE  GoodTimeline(NewTimeline(m))
<1> DEFINE t == NewTimeline(m)
<1>1. /\ t.base = m /\ t.ops = << >> /\ t.folded = 0 /\ t.chain = << >>
      /\ t.anchor = << >> /\ t.bhash = Commitment(m) /\ t.chained
  BY DEF NewTimeline, Genesis
<1>2. t \in Timeline
  BY DEF NewTimeline, Genesis, Timeline, Hash, Commitment
<1> HIDE DEF t
<1>3. Len(t.ops) = 0 /\ Len(t.chain) = 0 /\ TimelineHead(t) = << >> /\ Total(t) = 0
  BY <1>1 DEF TimelineHead, Total
<1>4. Verifies(t)
  BY <1>1, <1>3 DEF Verifies
<1>5. CommitsToAll(t)
  BY <1>3 DEF CommitsToAll
<1>6. QED
  BY <1>1, <1>2, <1>4, <1>5 DEF GoodTimeline, t

(* Recording an operation extends the head by exactly that operation.        *)
LEMMA RecordGood ==
  ASSUME NEW t, GoodTimeline(t), NEW op \in Op
  PROVE  /\ GoodTimeline(Record(t, op))
         /\ Extends(TimelineHead(Record(t, op)), TimelineHead(t))
<1> DEFINE u == Record(t, op)
           link == LinkHash(TimelineHead(t), Total(t), op)
           n == Len(t.ops)
<1>1. /\ t \in Timeline /\ t.ops \in Seq(Op) /\ t.chain \in Seq(Hash)
      /\ t.folded \in Nat /\ n \in Nat /\ t.anchor \in Hash
      /\ Len(t.chain) = n /\ Total(t) = t.folded + n
  BY DEF GoodTimeline, Timeline, Verifies, Total
<1>2. TimelineHead(t) \in Hash
  BY <1>1 DEF TimelineHead
<1>3. link \in Hash /\ link = Append(TimelineHead(t), [seq |-> Total(t), op |-> op])
  BY <1>1, <1>2 DEF Hash, LinkHash
<1> HIDE DEF link
<1>4. u = [t EXCEPT !.chain = Append(@, link), !.ops = Append(@, op)]
  BY DEF Record, link
<1>5. /\ u.base = t.base /\ u.folded = t.folded /\ u.anchor = t.anchor
      /\ u.bhash = t.bhash /\ u.chained = t.chained
      /\ u.ops = Append(t.ops, op) /\ u.chain = Append(t.chain, link)
  BY <1>4, <1>1 DEF Timeline
<1>6. u \in Timeline
  <2>1. Append(t.ops, op) \in Seq(Op) /\ Append(t.chain, link) \in Seq(Hash)
    BY <1>1, <1>3, AppendProperties
  <2>2. QED
    BY <1>1, <1>4, <2>1 DEF Timeline
<1> HIDE DEF u
<1>7. /\ Len(u.ops) = n + 1 /\ Len(u.chain) = n + 1
      /\ u.ops[n + 1] = op /\ u.chain[n + 1] = link
      /\ \A i \in 1..n : u.ops[i] = t.ops[i] /\ u.chain[i] = t.chain[i]
      /\ u.chain # << >>
  <2>1. /\ Len(u.ops) = n + 1 /\ u.ops[n + 1] = op
        /\ \A i \in 1..n : u.ops[i] = t.ops[i]
    BY <1>1, <1>5, AppendProperties
  <2>2. /\ Len(u.chain) = n + 1 /\ u.chain[n + 1] = link
        /\ \A i \in 1..n : u.chain[i] = t.chain[i]
    BY <1>1, <1>3, <1>5, AppendProperties
  <2>3. u.chain # << >>
    BY <1>1, <2>2
  <2>4. QED
    BY <2>1, <2>2, <2>3
<1>8. TimelineHead(u) = link /\ Total(u) = Total(t) + 1
  <2>1. TimelineHead(u) = link
    BY <1>7 DEF TimelineHead
  <2>2. Total(u) = Total(t) + 1
    BY <1>1, <1>5, <1>7 DEF Total
  <2>3. QED
    BY <2>1, <2>2
<1>9. Verifies(u)
  <2>1. u.bhash = Commitment(u.base)
    BY <1>5 DEF GoodTimeline, Verifies
  <2>2. ASSUME NEW i \in 1..(n + 1)
        PROVE  u.chain[i] = LinkHash(Prev(u, i), u.folded + i - 1, u.ops[i])
    <3>1. CASE i \in 1..n
      <4>1. Prev(u, i) = Prev(t, i)
        BY <1>1, <1>5, <1>7, <3>1 DEF Prev
      <4>2. t.chain[i] = LinkHash(Prev(t, i), t.folded + i - 1, t.ops[i])
        BY <3>1 DEF GoodTimeline, Verifies
      <4>3. QED
        BY <1>5, <1>7, <3>1, <4>1, <4>2
    <3>2. CASE i = n + 1
      <4>1. Prev(u, i) = TimelineHead(t)
        <5>1. CASE n = 0
          BY <1>1, <1>5, <3>2, <5>1, EmptySeq DEF Prev, TimelineHead
        <5>2. CASE n # 0
          BY <1>1, <1>7, <3>2, <5>2 DEF Prev, TimelineHead
        <5>3. QED
          BY <5>1, <5>2
      <4>2. u.folded + i - 1 = Total(t)
        BY <1>1, <1>5, <3>2
      <4>3. QED
        BY <1>7, <3>2, <4>1, <4>2 DEF link
    <3>3. QED
      BY <1>1, <3>1, <3>2
  <2>3. QED
    BY <1>7, <2>1, <2>2 DEF Verifies
<1>10. CommitsToAll(u)
  <2>1. /\ Len(TimelineHead(t)) = Total(t)
        /\ \A i \in 1..Total(t) : TimelineHead(t)[i].seq = i - 1
        /\ \A i \in 1..n : TimelineHead(t)[t.folded + i].op = t.ops[i]
    BY DEF GoodTimeline, CommitsToAll
  <2>2. /\ Len(link) = Total(t) + 1
        /\ \A i \in 1..Total(t) : link[i] = TimelineHead(t)[i]
        /\ link[Total(t) + 1] = [seq |-> Total(t), op |-> op]
    BY <1>1, <1>2, <1>3, <2>1, AppendProperties DEF Hash
  <2>3. \A i \in 1..Len(link) : link[i].seq = i - 1
    BY <1>1, <2>1, <2>2
  <2>4. \A i \in 1..Len(u.ops) : link[u.folded + i].op = u.ops[i]
    <3>1. ASSUME NEW i \in 1..n PROVE link[t.folded + i].op = t.ops[i]
      <4>1. t.folded + i \in 1..Total(t)
        BY <1>1
      <4>2. link[t.folded + i] = TimelineHead(t)[t.folded + i]
        BY <2>2, <4>1
      <4>3. QED
        BY <2>1, <4>2
    <3>2. link[t.folded + (n + 1)].op = op
      BY <1>1, <2>2
    <3>3. QED
      BY <1>1, <1>5, <1>7, <3>1, <3>2
  <2>5. QED
    BY <1>8, <2>2, <2>3, <2>4 DEF CommitsToAll
<1>11. Extends(link, TimelineHead(t))
  <2>1. Len(TimelineHead(t)) = Total(t)
    BY DEF GoodTimeline, CommitsToAll
  <2>2. /\ Len(link) = Total(t) + 1
        /\ \A i \in 1..Total(t) : link[i] = TimelineHead(t)[i]
    BY <1>1, <1>2, <1>3, <2>1, AppendProperties DEF Hash
  <2>3. QED
    BY <1>1, <2>1, <2>2 DEF Extends
<1>12. QED
  BY <1>5, <1>6, <1>8, <1>9, <1>10, <1>11 DEF GoodTimeline, u

(* Chaining a log written before chains existed yields a good timeline.      *)
LEMMA BackfilledGood ==
  ASSUME NEW t \in Timeline, t.folded = 0
  PROVE  GoodTimeline(Backfilled(t))
<1> DEFINE u == Backfilled(t)
           n == Len(t.ops)
           Link == [seq : Nat, op : Op]
           e(j) == [seq |-> t.folded + j - 1, op |-> t.ops[j]]
           log(i) == [j \in 1..i |-> e(j)]
<1>1. t.ops \in Seq(Op) /\ n \in Nat /\ t.base \in Mem
  BY LenProperties DEF Timeline
<1>2. \A j \in 1..n : e(j) \in Link /\ e(j).seq = j - 1 /\ e(j).op = t.ops[j]
  BY <1>1
<1> HIDE DEF e
<1>3. ASSUME NEW i \in 0..n
      PROVE  /\ log(i) \in Seq(Link) /\ log(i) \in Hash /\ Len(log(i)) = i
             /\ \A j \in 1..i : log(i)[j] = e(j)
  <2>1. i \in Nat /\ \A j \in 1..i : e(j) \in Link
    BY <1>1, <1>2
  <2>2. log(i) \in [1..i -> Link]
    BY <2>1
  <2>3. log(i) \in Seq(Link)
    BY <2>1, <2>2, SeqDef
  <2>4. DOMAIN log(i) = 1..i /\ DOMAIN log(i) = 1..Len(log(i)) /\ Len(log(i)) \in Nat
    BY <2>3, LenProperties
  <2>5. Len(log(i)) = i
    BY <2>1, <2>4
  <2>6. QED
    BY <2>3, <2>5 DEF Hash
<1> HIDE DEF log, Link
<1>4. log(0) = << >>
  <2>1. 0 \in 0..n
    BY <1>1
  <2>2. log(0) \in Seq(Link) /\ Len(log(0)) = 0
    BY <1>3, <2>1
  <2>3. QED
    BY <2>2, EmptySeq
<1>5. ASSUME NEW i \in 1..n PROVE log(i) = Append(log(i - 1), e(i))
  <2>1. i \in 0..n /\ i - 1 \in 0..n /\ e(i) \in Link
    BY <1>1, <1>2
  <2>2. /\ log(i) \in Seq(Link) /\ Len(log(i)) = i
        /\ \A j \in 1..i : log(i)[j] = e(j)
    BY <2>1, <1>3
  <2>3. /\ log(i - 1) \in Seq(Link) /\ Len(log(i - 1)) = i - 1
        /\ \A j \in 1..(i - 1) : log(i - 1)[j] = e(j)
    BY <2>1, <1>3
  <2> DEFINE a == Append(log(i - 1), e(i))
  <2>4. /\ a \in Seq(Link) /\ Len(a) = i
        /\ \A j \in 1..(i - 1) : a[j] = e(j)
        /\ a[i] = e(i)
    BY <2>1, <2>3, AppendProperties
  <2> HIDE DEF a
  <2>5. \A j \in 1..i : a[j] = e(j)
    BY <2>1, <2>4
  <2>6. log(i) = a
    BY <2>2, <2>4, <2>5, SeqEqual
  <2>7. QED
    BY <2>6 DEF a
<1>6. u = [t EXCEPT !.anchor = << >>, !.bhash = Commitment(t.base),
                    !.chain = ChainOver(<< >>, t.folded, t.ops), !.chained = TRUE]
  BY DEF Backfilled, Genesis
<1>7. /\ u.base = t.base /\ u.ops = t.ops /\ u.folded = 0 /\ u.anchor = << >>
      /\ u.bhash = Commitment(t.base) /\ u.chained
      /\ u.chain = ChainOver(<< >>, t.folded, t.ops)
  BY <1>6 DEF Timeline
<1>8. u.chain = [i \in 1..n |-> << >> \o log(i)]
  BY <1>7 DEF ChainOver, log, e
<1>9. \A i \in 1..n : u.chain[i] = log(i)
  <2>1. ASSUME NEW i \in 1..n PROVE << >> \o log(i) = log(i)
    <3>1. log(i) \in Seq(Link)
      BY <1>1, <1>3
    <3>2. QED
      BY <3>1, ConcatEmptySeq
  <2>2. QED
    BY <1>8, <2>1
<1>10. u.chain \in [1..n -> Hash]
  <2>1. \A i \in 1..n : log(i) \in Hash
    BY <1>1, <1>3
  <2>2. QED
    BY <1>8, <1>9, <2>1
<1>11. u.chain \in Seq(Hash) /\ Len(u.chain) = n
  <2>1. u.chain \in Seq(Hash)
    BY <1>1, <1>10, SeqDef
  <2>2. Len(u.chain) \in Nat /\ 1..Len(u.chain) = 1..n
    BY <1>10, <2>1, LenProperties
  <2>3. QED
    BY <1>1, <2>1, <2>2
<1>12. u \in Timeline
  <2>1. << >> \in Hash
    BY EmptySeq DEF Hash
  <2>2. Commitment(t.base) \in {"sha256"} \X Mem
    BY DEF Timeline, Commitment
  <2>3. QED
    BY <1>1, <1>6, <1>7, <1>11, <2>1, <2>2 DEF Timeline
<1> HIDE DEF u
<1>13. Verifies(u)
  <2>1. ASSUME NEW i \in 1..n
        PROVE  u.chain[i] = LinkHash(Prev(u, i), u.folded + i - 1, u.ops[i])
    <3>1. Prev(u, i) = log(i - 1)
      BY <1>1, <1>4, <1>7, <1>9 DEF Prev
    <3>2. e(i) = [seq |-> u.folded + i - 1, op |-> u.ops[i]]
      BY <1>7 DEF e
    <3>3. QED
      BY <1>5, <1>9, <3>1, <3>2 DEF LinkHash
  <2>2. QED
    BY <1>7, <1>11, <2>1 DEF Verifies
<1>14. CommitsToAll(u)
  <2>1. TimelineHead(u) = log(n)
    <3>1. CASE n = 0
      BY <1>4, <1>7, <1>11, <3>1, EmptySeq DEF TimelineHead
    <3>2. CASE n # 0
      BY <1>1, <1>9, <1>11, <3>2, EmptySeq DEF TimelineHead
    <3>3. QED
      BY <3>1, <3>2
  <2>2. Total(u) = n
    BY <1>1, <1>7 DEF Total
  <2>3. Len(log(n)) = n /\ \A j \in 1..n : log(n)[j] = e(j)
    BY <1>1, <1>3
  <2>4. QED
    BY <1>1, <1>2, <1>7, <2>1, <2>2, <2>3 DEF CommitsToAll
<1>15. QED
  BY <1>7, <1>12, <1>13, <1>14 DEF GoodTimeline, u

(* A compaction moves the floor and leaves the head where it is.             *)
LEMMA CompactGood ==
  ASSUME NEW t, GoodTimeline(t), NEW keep \in Nat
  PROVE  /\ GoodTimeline(Compact(t, keep))
         /\ TimelineHead(Compact(t, keep)) = TimelineHead(t)
<1> DEFINE u == Compact(t, keep)
           n == Len(t.ops)
           fold == n - keep
           floor == Reloaded(ReplayTo(t, t.folded + fold))
<1>1. /\ t \in Timeline /\ t.ops \in Seq(Op) /\ t.chain \in Seq(Hash)
      /\ t.folded \in Nat /\ n \in Nat /\ t.anchor \in Hash /\ t.chained
      /\ Len(t.chain) = n /\ t.base \in Mem
  BY DEF GoodTimeline, Timeline, Verifies
<1>2. CASE n <= keep
  BY <1>2 DEF Compact
<1>3. CASE n > keep
  <2>1. fold \in 1..n /\ n - fold = keep
    BY <1>1, <1>3
  <2>2. floor \in Mem
    BY <1>1, <2>1, ReplayToType, ReloadedType
  <2>3. u = [t EXCEPT !.anchor = t.chain[fold],
                      !.chain  = SubSeq(@, fold + 1, Len(@)),
                      !.bhash  = Commitment(floor),
                      !.base   = floor,
                      !.ops    = SubSeq(@, fold + 1, Len(@)),
                      !.folded = @ + fold]
    BY <1>1, <1>3 DEF Compact, FoldFirst
  <2> HIDE DEF u, fold, floor
  <2>4. /\ u.anchor = t.chain[fold]
        /\ u.chain = SubSeq(t.chain, fold + 1, n)
        /\ u.bhash = Commitment(floor)
        /\ u.base = floor
        /\ u.ops = SubSeq(t.ops, fold + 1, n)
        /\ u.folded = t.folded + fold
        /\ u.chained
    BY <1>1, <2>3 DEF Timeline
  <2>5. /\ u.ops \in Seq(Op) /\ Len(u.ops) = keep
        /\ \A i \in 1..keep : u.ops[i] = t.ops[fold + i]
    <3>1. \A i \in (fold + 1)..n : t.ops[i] \in Op
      BY <1>1, <2>1
    <3>2. /\ SubSeq(t.ops, fold + 1, n) \in Seq(Op)
          /\ Len(SubSeq(t.ops, fold + 1, n)) = IF fold + 1 <= n THEN n - (fold + 1) + 1 ELSE 0
          /\ \A i \in 1..(n - (fold + 1) + 1) : SubSeq(t.ops, fold + 1, n)[i] = t.ops[fold + 1 + i - 1]
      BY <1>1, <2>1, <3>1, SubSeqProperties
    <3>3. QED
      BY <1>1, <2>1, <2>4, <3>2
  <2>6. /\ u.chain \in Seq(Hash) /\ Len(u.chain) = keep
        /\ \A i \in 1..keep : u.chain[i] = t.chain[fold + i]
    <3>1. \A i \in (fold + 1)..n : t.chain[i] \in Hash
      BY <1>1, <2>1
    <3>2. /\ SubSeq(t.chain, fold + 1, n) \in Seq(Hash)
          /\ Len(SubSeq(t.chain, fold + 1, n)) = IF fold + 1 <= n THEN n - (fold + 1) + 1 ELSE 0
          /\ \A i \in 1..(n - (fold + 1) + 1) : SubSeq(t.chain, fold + 1, n)[i] = t.chain[fold + 1 + i - 1]
      BY <1>1, <2>1, <3>1, SubSeqProperties
    <3>3. /\ n - (fold + 1) + 1 = keep /\ (fold + 1 <= n \/ keep = 0)
          /\ \A i \in 1..keep : fold + 1 + i - 1 = fold + i
      BY <1>1, <2>1
    <3>4. u.chain = SubSeq(t.chain, fold + 1, n)
      BY <2>4
    <3>5. QED
      BY <3>2, <3>3, <3>4
  <2>7. u \in Timeline
    <3>1. u.anchor \in Hash /\ u.folded \in Nat
      BY <1>1, <2>1, <2>4, SMTT(20)
    <3>2. QED
      BY <1>1, <2>2, <2>3, <2>4, <2>5, <2>6, <3>1 DEF Timeline, Commitment
  <2>8. Verifies(u)
    <3>1. ASSUME NEW i \in 1..keep
          PROVE  u.chain[i] = LinkHash(Prev(u, i), u.folded + i - 1, u.ops[i])
      <4>1. fold + i \in 1..n
        BY <1>1, <2>1
      <4>2. Prev(u, i) = Prev(t, fold + i)
        BY <1>1, <2>1, <2>4, <2>6 DEF Prev
      <4>3. t.chain[fold + i] =
              LinkHash(Prev(t, fold + i), t.folded + (fold + i) - 1, t.ops[fold + i])
        BY <4>1 DEF GoodTimeline, Verifies
      <4>4. t.folded + (fold + i) - 1 = u.folded + i - 1
        BY <1>1, <2>1, <2>4
      <4>5. QED
        BY <2>5, <2>6, <4>2, <4>3, <4>4
    <3>2. QED
      BY <2>4, <2>5, <2>6, <3>1 DEF Verifies
  <2>9. TimelineHead(u) = TimelineHead(t)
    <3>1. CASE keep = 0
      <4>1. u.chain = << >> /\ fold = n /\ t.chain # << >>
        BY <1>1, <2>1, <2>6, <3>1, EmptySeq
      <4>2. QED
        BY <1>1, <2>4, <4>1 DEF TimelineHead
    <3>2. CASE keep # 0
      <4>1. u.chain # << >> /\ t.chain # << >> /\ fold + keep = n
        BY <1>1, <2>1, <2>6, <3>2
      <4>2. QED
        BY <1>1, <2>6, <3>2, <4>1 DEF TimelineHead
    <3>3. QED
      BY <3>1, <3>2
  <2>10. CommitsToAll(u)
    <3>1. /\ Len(TimelineHead(t)) = Total(t)
          /\ \A i \in 1..Len(TimelineHead(t)) : TimelineHead(t)[i].seq = i - 1
          /\ \A i \in 1..n : TimelineHead(t)[t.folded + i].op = t.ops[i]
      BY DEF GoodTimeline, CommitsToAll
    <3>2. Total(u) = Total(t)
      BY <1>1, <2>1, <2>4, <2>5 DEF Total
    <3>3. ASSUME NEW i \in 1..keep PROVE TimelineHead(u)[u.folded + i].op = u.ops[i]
      <4>1. fold + i \in 1..n /\ t.folded + (fold + i) = u.folded + i
        BY <1>1, <2>1, <2>4
      <4>2. QED
        BY <2>5, <2>9, <3>1, <4>1
    <3>4. QED
      BY <2>5, <2>9, <3>1, <3>2, <3>3 DEF CommitsToAll
  <2>11. QED
    BY <2>4, <2>7, <2>8, <2>9, <2>10 DEF GoodTimeline, u
<1>4. QED
  BY <1>1, <1>2, <1>3

LEMMA CompactIfNeededGood ==
  ASSUME NEW t, GoodTimeline(t)
  PROVE  /\ GoodTimeline(CompactIfNeeded(t))
         /\ TimelineHead(CompactIfNeeded(t)) = TimelineHead(t)
  BY CompactGood, OplogAssumption DEF CompactIfNeeded

LEMMA GuardedGood ==
  ASSUME NEW t, GoodTimeline(t), NEW m \in Mem
  PROVE  GoodTimeline(Guarded(t, m))
  BY NewTimelineGood DEF Guarded

(* Extending is transitive: a batch extends the head as each of its records  *)
(* does.                                                                     *)
LEMMA ExtendsTransitive ==
  ASSUME NEW g, NEW h, NEW k, Len(g) \in Nat, Len(h) \in Nat, Len(k) \in Nat,
         Extends(h, g), Extends(k, h)
  PROVE  Extends(k, g)
  BY DEF Extends

(* A bulk ingest goes through memories, one for each of its files.           *)
LEMMA IngestAllSteps ==
  ASSUME NEW m \in Mem, NEW batch \in Seq(Files \X Contents)
  PROVE  \E g : /\ g[0] = m /\ IngestAll(m, batch) = g[Len(batch)]
                /\ \A i \in 0..Len(batch) : g[i] \in Mem
                /\ \A i \in 1..Len(batch) :
                     g[i] = IngestDeferred(g[i - 1], batch[i][1], batch[i][2])
<1> DEFINE n == Len(batch)
           Op2(i, x) == IngestDeferred(x, batch[i][1], batch[i][2])
<1>1. n \in Nat /\ \A i \in 1..n : batch[i][1] \in Files /\ batch[i][2] \in Contents
  BY LenProperties, ElementOfSeq
<1>2. \A i \in 1..n : \A x \in Mem : Op2(i, x) \in Mem
  BY <1>1, IngestDeferredType
<1> HIDE DEF n, Op2
<1> DEFINE A == [i \in 1..n |-> [x \in Mem |-> Op2(i, x)]]
<1>3. A \in [1..n -> [Mem -> Mem]] /\ \A i \in 1..n : \A x \in Mem : A[i][x] = Op2(i, x)
  BY <1>2
<1> HIDE DEF A
<1>4. PICK f : IsRun(f, n, Mem, m, A)
  BY <1>1, <1>3, RecursionExists
<1> DEFINE Runs(r) == r = [i \in 0..n |-> IF i = 0 THEN m ELSE Op2(i, r[i - 1])]
<1>5. Runs(f)
  <2>1. ASSUME NEW i \in 0..n, i # 0 PROVE f[i] = Op2(i, f[i - 1])
    <3>1. i \in 1..n /\ i - 1 \in 0..n
      BY <1>1, <2>1
    <3>2. QED
      BY <1>3, <1>4, <3>1 DEF IsRun
  <2>2. QED
    BY <1>4, <2>1 DEF IsRun
<1> HIDE DEF Runs
<1> DEFINE g == CHOOSE r : Runs(r)
<1>6. Runs(g)
  BY <1>5
<1>7. IngestAll(m, batch) = g[n]
  BY DEF IngestAll, n, Runs, Op2
<1> HIDE DEF g
<1>8. g[0] = m /\ \A i \in 1..n : g[i] = Op2(i, g[i - 1])
  BY <1>1, <1>6 DEF Runs
<1>9. \A i \in 0..n : g[i] \in Mem
  BY <1>1, <1>2, <1>8, RunStaysIn
<1>10. QED
  BY <1>7, <1>8, <1>9 DEF n, Op2

LEMMA IngestAllType ==
  ASSUME NEW m \in Mem, NEW batch \in Seq(Files \X Contents)
  PROVE  IngestAll(m, batch) \in Mem
<1>1. Len(batch) \in 0..Len(batch)
  BY LenProperties
<1> QED
  BY <1>1, IngestAllSteps

(* A bulk ingest goes through good timelines whose heads extend the first.   *)
LEMMA RecordAllSteps ==
  ASSUME NEW t, GoodTimeline(t), NEW batch \in Seq(Files \X Contents)
  PROVE  \E g : /\ g[0] = t /\ RecordAll(t, batch) = g[Len(batch)]
                /\ \A i \in 0..Len(batch) :
                     GoodTimeline(g[i]) /\ Extends(TimelineHead(g[i]), TimelineHead(t))
                /\ \A i \in 1..Len(batch) :
                     g[i] = Record(g[i - 1], IngestOp(batch[i][1], batch[i][2]))
<1> DEFINE n == Len(batch)
           S == {u \in Timeline : GoodTimeline(u) /\ Extends(TimelineHead(u), TimelineHead(t))}
           Op2(i, x) == Record(x, IngestOp(batch[i][1], batch[i][2]))
<1>1. n \in Nat /\ \A i \in 1..n : IngestOp(batch[i][1], batch[i][2]) \in Op
  <2>1. n \in Nat /\ \A i \in 1..n : batch[i][1] \in Files /\ batch[i][2] \in Contents
    BY LenProperties, ElementOfSeq
  <2>2. QED
    BY <2>1 DEF IngestOp, Op
<1>2. ASSUME NEW u, GoodTimeline(u)
      PROVE  u \in Timeline /\ Len(TimelineHead(u)) \in Nat
  BY <1>2 DEF GoodTimeline, CommitsToAll, Total, Timeline
<1>3. \A i \in 1..n : \A x \in S : Op2(i, x) \in S
  <2> SUFFICES ASSUME NEW i \in 1..n, NEW x \in S PROVE Op2(i, x) \in S
    OBVIOUS
  <2>1. GoodTimeline(x) /\ Extends(TimelineHead(x), TimelineHead(t))
    OBVIOUS
  <2>2. GoodTimeline(Op2(i, x)) /\ Extends(TimelineHead(Op2(i, x)), TimelineHead(x))
    BY <1>1, <2>1, RecordGood
  <2> DEFINE h == TimelineHead(x)
             k == TimelineHead(Op2(i, x))
             g == TimelineHead(t)
  <2>3. Len(g) \in Nat /\ Len(h) \in Nat /\ Len(k) \in Nat
    BY <1>2, <2>1, <2>2
  <2> HIDE DEF g, h, k, Op2
  <2>4. Extends(k, g)
    BY <2>1, <2>2, <2>3, ExtendsTransitive DEF g, h, k
  <2>5. QED
    BY <1>2, <2>2, <2>4 DEF g, k
<1>4. t \in S
  <2>1. t \in Timeline /\ Len(TimelineHead(t)) \in Nat
    BY <1>2
  <2>2. QED
    BY <2>1 DEF Extends
<1> HIDE DEF n, S, Op2
<1> DEFINE A == [i \in 1..n |-> [x \in S |-> Op2(i, x)]]
<1>5. A \in [1..n -> [S -> S]] /\ \A i \in 1..n : \A x \in S : A[i][x] = Op2(i, x)
  BY <1>3
<1> HIDE DEF A
<1>6. PICK f : IsRun(f, n, S, t, A)
  BY <1>1, <1>4, <1>5, RecursionExists
<1> DEFINE Runs(r) == r = [i \in 0..n |-> IF i = 0 THEN t ELSE Op2(i, r[i - 1])]
<1>7. Runs(f)
  <2>1. ASSUME NEW i \in 0..n, i # 0 PROVE f[i] = Op2(i, f[i - 1])
    <3>1. i \in 1..n /\ i - 1 \in 0..n
      BY <1>1, <2>1
    <3>2. QED
      BY <1>5, <1>6, <3>1 DEF IsRun
  <2>2. QED
    BY <1>6, <2>1 DEF IsRun
<1> HIDE DEF Runs
<1> DEFINE g == CHOOSE r : Runs(r)
<1>8. Runs(g)
  BY <1>7
<1>9. RecordAll(t, batch) = g[n]
  BY DEF RecordAll, n, Runs, Op2
<1> HIDE DEF g
<1>10. g[0] = t /\ \A i \in 1..n : g[i] = Op2(i, g[i - 1])
  BY <1>1, <1>8 DEF Runs
<1>11. \A i \in 0..n : g[i] \in S
  BY <1>1, <1>3, <1>4, <1>10, RunStaysIn
<1>12. \A i \in 0..n : GoodTimeline(g[i]) /\ Extends(TimelineHead(g[i]), TimelineHead(t))
  BY <1>11 DEF S
<1>13. QED
  BY <1>9, <1>10, <1>12 DEF n, Op2

LEMMA RecordAllGood ==
  ASSUME NEW t, GoodTimeline(t), NEW batch \in Seq(Files \X Contents)
  PROVE  /\ GoodTimeline(RecordAll(t, batch))
         /\ Extends(TimelineHead(RecordAll(t, batch)), TimelineHead(t))
<1>1. Len(batch) \in 0..Len(batch)
  BY LenProperties
<1> QED
  BY <1>1, RecordAllSteps

-----------------------------------------------------------------------------
(* The inductive invariant: types, and good timelines everywhere. A sidecar  *)
(* from before chains existed was never compacted, so that its backfilled    *)
(* chain starts at the first operation.                                      *)

GoodSidecar ==
  /\ sidecar \in [absent : BOOLEAN, timeline : Timeline]
  /\ IF sidecar.timeline.chained THEN GoodTimeline(sidecar.timeline)
                                 ELSE sidecar.timeline.folded = 0

IInv ==
  /\ pc \in [Procs -> {Down, "opening", "up", "snapped"}]
  /\ \A p \in Procs : pc[p] = "snapped" => p \in Sessions
  /\ mem \in [Procs -> {m \in Mem : ~m.dirty}]
  /\ seen \in [Procs -> 0..MaxWrites]
  /\ tl \in [Sessions -> Timeline]
  /\ \A p \in Sessions : GoodTimeline(tl[p])
  /\ snapshot \in [mem : {m \in Mem : ~m.dirty /\ m = Reloaded(m)}, stamp : 0..MaxWrites]
  /\ GoodSidecar

LEMMA IInvImplies == IInv => TypeOK /\ ChainVerifies /\ HeadCommits /\ NeverRefused
<1> SUFFICES ASSUME IInv PROVE TypeOK /\ ChainVerifies /\ HeadCommits /\ NeverRefused
  OBVIOUS
<1>1. \A p \in Sessions : tl[p].chained /\ Verifies(tl[p]) /\ CommitsToAll(tl[p])
  BY DEF IInv, GoodTimeline
<1>2. TypeOK
  BY <1>1 DEF IInv, TypeOK, GoodSidecar
<1>3. ChainVerifies /\ HeadCommits
  BY <1>1 DEF IInv, GoodSidecar, GoodTimeline, ChainVerifies, HeadCommits
<1>4. NeverRefused
  BY DEF IInv, NeverRefused, Down
<1>5. QED
  BY <1>2, <1>3, <1>4

LEMMA NoTimelineGood == GoodTimeline(NoTimeline) /\ NoTimeline \in Timeline
  BY EmptyMemType, NewTimelineGood DEF NoTimeline, GoodTimeline

LEMMA LegacyTimelineType ==
  ASSUME NEW ops \in Seq(Op)
  PROVE  /\ LegacyTimeline(ops) \in Timeline
         /\ ~LegacyTimeline(ops).chained
         /\ LegacyTimeline(ops).folded = 0
<1>1. Genesis \in Hash /\ << >> \in Seq(Hash)
  BY EmptySeq DEF Genesis, Hash
<1>2. QED
  BY <1>1, EmptyMemType DEF LegacyTimeline, Timeline

LEMMA InitEstablishes == Init => IInv
<1> SUFFICES ASSUME Init PROVE IInv
  OBVIOUS
<1>1. /\ pc \in [Procs -> {Down, "opening", "up", "snapped"}]
      /\ \A p \in Procs : pc[p] # "snapped"
      /\ mem \in [Procs -> {m \in Mem : ~m.dirty}]
      /\ seen \in [Procs -> 0..MaxWrites]
  BY EmptyMemType, BoundsAssumption DEF Init, NoSnapshot, Down
<1>2. tl \in [Sessions -> Timeline] /\ \A p \in Sessions : GoodTimeline(tl[p])
  BY NoTimelineGood DEF Init
<1>3. CASE /\ snapshot = [mem |-> EmptyMem, stamp |-> NoSnapshot]
           /\ sidecar = NoSidecar
  <2>1. snapshot \in [mem : {m \in Mem : ~m.dirty /\ m = Reloaded(m)}, stamp : 0..MaxWrites]
    BY <1>3, EmptyMemType, BoundsAssumption DEF NoSnapshot
  <2>2. GoodSidecar
    BY <1>3, NoTimelineGood DEF GoodSidecar, GoodTimeline, NoSidecar
  <2>3. QED
    BY <1>1, <1>2, <2>1, <2>2 DEF IInv
<1>4. ASSUME NEW ops \in LegacyLogs,
             snapshot = [mem |-> Reloaded(Replay(LegacyTimeline(ops))), stamp |-> 1],
             sidecar = Stored(LegacyTimeline(ops))
      PROVE  IInv
  <2> DEFINE t == LegacyTimeline(ops)
  <2>1. MaxWrites > 0 /\ ops \in Seq(Op)
    BY LegacyAssumption
  <2>2. t \in Timeline /\ ~t.chained /\ t.folded = 0
    BY <2>1, LegacyTimelineType
  <2> HIDE DEF t
  <2>3. Total(t) \in Nat
    BY <2>2, LenProperties DEF Total, Timeline
  <2>4. Replay(t) \in Mem /\ ~Replay(t).dirty
    BY <2>2, <2>3, ReplayToType DEF Replay
  <2>5. snapshot \in [mem : {m \in Mem : ~m.dirty /\ m = Reloaded(m)}, stamp : 0..MaxWrites]
    BY <1>4, <2>1, <2>4, ReloadedType, BoundsAssumption DEF t
  <2>6. GoodSidecar
    BY <1>4, <2>2 DEF GoodSidecar, Stored, t
  <2>7. QED
    BY <1>1, <1>2, <2>5, <2>6 DEF IInv
<1>5. QED
  BY <1>3, <1>4 DEF Init

LEMMA OpenTimelinePreserves ==
  ASSUME IInv, NEW p \in Procs, OpenTimeline(p)
  PROVE  IInv'
<1> DEFINE t == sidecar.timeline
<1>1. /\ pc[p] = "opening"
      /\ UNCHANGED <<mem, seen, snapshot, sidecar>>
      /\ sidecar.absent \in BOOLEAN /\ t \in Timeline
      /\ mem[p] \in Mem
  BY DEF OpenTimeline, IInv, GoodSidecar
<1>2. ASSUME NEW u, GoodTimeline(u), tl' = [tl EXCEPT ![p] = u],
             pc' = [pc EXCEPT ![p] = "up"]
      PROVE  IInv'
  <2>1. /\ tl' \in [Sessions -> Timeline]
        /\ \A q \in Sessions : GoodTimeline(tl'[q])
    BY <1>2 DEF IInv, GoodTimeline
  <2>2. /\ pc' \in [Procs -> {Down, "opening", "up", "snapped"}]
        /\ \A q \in Procs : pc'[q] = "snapped" => q \in Sessions
    BY <1>2 DEF IInv
  <2>3. QED
    BY <1>1, <2>1, <2>2 DEF IInv, GoodSidecar
<1>3. CASE sidecar.absent
  BY <1>1, <1>2, <1>3, NewTimelineGood DEF OpenTimeline
<1>4. CASE ~sidecar.absent
  <2>1. GoodTimeline(IF t.chained THEN t ELSE Backfilled(t))
    BY <1>1, BackfilledGood DEF IInv, GoodSidecar
  <2>2. GoodTimeline(Guarded(IF t.chained THEN t ELSE Backfilled(t), mem[p]))
    BY <1>1, <2>1, GuardedGood
  <2>3. t.chained => Verifies(t)
    BY DEF IInv, GoodSidecar, GoodTimeline
  <2>4. /\ tl' = [tl EXCEPT ![p] = Guarded(IF t.chained THEN t ELSE Backfilled(t), mem[p])]
        /\ pc' = [pc EXCEPT ![p] = "up"]
    BY <1>4, <2>3 DEF OpenTimeline
  <2>5. QED
    BY <1>2, <2>2, <2>4
<1>5. QED
  BY <1>1, <1>3, <1>4

LEMMA PerformPreserves ==
  ASSUME IInv, NEW p \in Procs, NEW op \in Op, NEW m \in Mem, ~m.dirty, Perform(p, op, m)
  PROVE  IInv'
<1>1. mem' \in [Procs -> {n \in Mem : ~n.dirty}]
  BY DEF Perform, IInv
<1>2. tl' \in [Sessions -> Timeline] /\ \A q \in Sessions : GoodTimeline(tl'[q])
  <2>1. CASE p \in Sessions
    <3>1. GoodTimeline(Record(tl[p], op))
      BY <2>1, RecordGood DEF IInv
    <3>2. tl' = [tl EXCEPT ![p] = Record(tl[p], op)]
      BY <2>1 DEF Perform
    <3>3. QED
      BY <3>1, <3>2 DEF IInv, GoodTimeline
  <2>2. CASE p \notin Sessions
    BY <2>2 DEF Perform, IInv
  <2>3. QED
    BY <2>1, <2>2
<1>3. QED
  BY <1>1, <1>2 DEF Perform, IInv, GoodSidecar

LEMMA CheckpointSnapshotPreserves ==
  ASSUME IInv, NEW p \in Procs, CheckpointSnapshot(p)
  PROVE  IInv'
<1>1. tl' \in [Sessions -> Timeline] /\ \A q \in Sessions : GoodTimeline(tl'[q])
  <2>1. CASE p \in Sessions
    <3>1. GoodTimeline(CompactIfNeeded(tl[p]))
      BY <2>1, CompactIfNeededGood DEF IInv
    <3>2. tl' = [tl EXCEPT ![p] = CompactIfNeeded(tl[p])]
      BY <2>1 DEF CheckpointSnapshot
    <3>3. QED
      BY <3>1, <3>2 DEF IInv, GoodTimeline
  <2>2. CASE p \notin Sessions
    BY <2>2 DEF CheckpointSnapshot, IInv
  <2>3. QED
    BY <2>1, <2>2
<1>2. mem' = mem /\ sidecar' = sidecar
  BY DEF CheckpointSnapshot
<1>3. CASE seen[p] = snapshot.stamp
  <2>1. /\ snapshot.stamp < MaxWrites
        /\ snapshot' = [mem |-> Reloaded(mem[p]), stamp |-> snapshot.stamp + 1]
        /\ seen' = [seen EXCEPT ![p] = snapshot'.stamp]
        /\ pc' = [pc EXCEPT ![p] = IF p \in Sessions THEN "snapped" ELSE "up"]
    BY <1>3 DEF CheckpointSnapshot
  <2>2. snapshot.stamp + 1 \in 0..MaxWrites
    BY <2>1, BoundsAssumption DEF IInv
  <2>3. mem[p] \in Mem /\ ~mem[p].dirty
    BY DEF IInv
  <2>4. snapshot' \in [mem : {m \in Mem : ~m.dirty /\ m = Reloaded(m)}, stamp : 0..MaxWrites]
    BY <2>1, <2>2, <2>3, ReloadedType
  <2>5. seen' \in [Procs -> 0..MaxWrites]
    BY <2>1, <2>2 DEF IInv
  <2>6. /\ pc' \in [Procs -> {Down, "opening", "up", "snapped"}]
        /\ \A q \in Procs : pc'[q] = "snapped" => q \in Sessions
    BY <2>1 DEF IInv
  <2>7. QED
    BY <1>1, <1>2, <2>4, <2>5, <2>6 DEF IInv, GoodSidecar
<1>4. CASE seen[p] # snapshot.stamp
  BY <1>1, <1>2, <1>4 DEF CheckpointSnapshot, IInv, GoodSidecar
<1>5. QED
  BY <1>3, <1>4

LEMMA StepPreserves == IInv /\ [Next]_vars => IInv'
<1> SUFFICES ASSUME IInv, [Next]_vars PROVE IInv'
  OBVIOUS
<1>1. ASSUME NEW p \in Procs, OpenMemory(p) PROVE IInv'
  <2>1. /\ mem' = [mem EXCEPT ![p] = snapshot.mem]
        /\ seen' = [seen EXCEPT ![p] = snapshot.stamp]
        /\ pc' = [pc EXCEPT ![p] = IF p \in Sessions THEN "opening" ELSE "up"]
        /\ UNCHANGED <<tl, snapshot, sidecar>>
    BY <1>1 DEF OpenMemory
  <2>2. QED
    BY <2>1 DEF IInv, GoodSidecar
<1>2. ASSUME NEW p \in Procs, OpenTimeline(p) PROVE IInv'
  BY <1>2, OpenTimelinePreserves
<1>3. ASSUME NEW p \in Procs, NEW f \in Files, NEW c \in Contents, Ingest(p, f, c)
      PROVE  IInv'
  <2>1. IngestSource(mem[p], f, c) \in Mem /\ ~IngestSource(mem[p], f, c).dirty
    BY IngestDeferredType, ResolveType DEF IInv, IngestSource
  <2>2. IngestOp(f, c) \in Op
    BY DEF IngestOp, Op
  <2>3. QED
    BY <1>3, <2>1, <2>2, PerformPreserves DEF Ingest
<1>4. ASSUME NEW p \in Procs, NEW f \in Files, Failure(p, f) PROVE IInv'
  <2>1. SignalFailure(mem[p], f) \in Mem /\ ~SignalFailure(mem[p], f).dirty
    BY SignalFailureType DEF IInv
  <2>2. FailureOp(f) \in Op
    BY DEF FailureOp, Op
  <2>3. QED
    BY <1>4, <2>1, <2>2, PerformPreserves DEF Failure
<1>5. ASSUME NEW p \in Procs, Recall(p) PROVE IInv'
  <2>1. mem[p] \in Mem /\ ~mem[p].dirty
    BY DEF IInv
  <2>2. RecallOp \in Op
    BY DEF RecallOp, Op
  <2>3. QED
    BY <1>5, <2>1, <2>2, PerformPreserves DEF Recall
<1>6. ASSUME NEW p \in Procs, CheckpointSnapshot(p) PROVE IInv'
  BY <1>6, CheckpointSnapshotPreserves
<1>7. ASSUME NEW p \in Procs, CheckpointSidecar(p) PROVE IInv'
  <2>1. /\ sidecar' = Stored(tl[p])
        /\ pc' = [pc EXCEPT ![p] = "up"]
        /\ UNCHANGED <<mem, seen, tl, snapshot>>
        /\ pc[p] = "snapped"
    BY <1>7 DEF CheckpointSidecar
  <2>2. GoodTimeline(tl[p])
    BY <2>1 DEF IInv
  <2>3. GoodSidecar'
    BY <2>1, <2>2 DEF GoodSidecar, GoodTimeline, Stored
  <2>4. QED
    BY <2>1, <2>3 DEF IInv
<1>8. ASSUME NEW p \in Procs, SidecarFails(p) PROVE IInv'
  BY <1>8 DEF SidecarFails, IInv, GoodSidecar
<1>9. ASSUME NEW p \in Procs, Stop(p) PROVE IInv'
  <2>1. /\ pc' = [pc EXCEPT ![p] = Down]
        /\ mem' = [mem EXCEPT ![p] = EmptyMem]
        /\ seen' = [seen EXCEPT ![p] = NoSnapshot]
        /\ tl' = IF p \in Sessions THEN [tl EXCEPT ![p] = NoTimeline] ELSE tl
        /\ UNCHANGED <<snapshot, sidecar>>
    BY <1>9 DEF Stop
  <2>2. tl' \in [Sessions -> Timeline] /\ \A q \in Sessions : GoodTimeline(tl'[q])
    BY <2>1, NoTimelineGood DEF IInv
  <2>3. mem' \in [Procs -> {m \in Mem : ~m.dirty}]
    BY <2>1, EmptyMemType DEF IInv
  <2>4. seen' \in [Procs -> 0..MaxWrites]
    BY <2>1, BoundsAssumption DEF IInv, NoSnapshot
  <2>5. /\ pc' \in [Procs -> {Down, "opening", "up", "snapped"}]
        /\ \A q \in Procs : pc'[q] = "snapped" => q \in Sessions
    BY <2>1 DEF IInv, Down
  <2>6. QED
    BY <2>1, <2>2, <2>3, <2>4, <2>5 DEF IInv, GoodSidecar
<1>10. ASSUME NEW p \in Procs, NEW f \in Files, NEW c \in Contents, Sync(p, f, c)
       PROVE  IInv'
  BY <1>3, <1>10 DEF Sync
<1>11. ASSUME NEW p \in Procs, NEW fs \in FaultLists, PageFault(p, fs) PROVE IInv'
  <2>1. fs \in SUBSET Files /\ mem[p] \in Mem /\ ~mem[p].dirty
    BY FaultListsAssumption DEF IInv
  <2>2. SignalAll(mem[p], fs) \in Mem /\ ~SignalAll(mem[p], fs).dirty
    BY <2>1, SignalAllType
  <2>3. PageFaultOp(fs) \in Op
    BY <2>1 DEF PageFaultOp, Op
  <2>4. QED
    BY <1>11, <2>2, <2>3, PerformPreserves DEF PageFault
<1>12. ASSUME NEW p \in Procs, NEW k \in Claims, AssertClaim(p, k[1], k[2], k[3])
       PROVE  IInv'
  <2>1. /\ k[1] \in Files /\ k[2] \in Files /\ k[3] \in BOOLEAN
        /\ mem[p] \in Mem /\ ~mem[p].dirty
    BY ClaimsAssumption DEF IInv
  <2>2. /\ AssertEvidence(mem[p], k[1], k[2], k[3]) \in Mem
        /\ ~AssertEvidence(mem[p], k[1], k[2], k[3]).dirty
    BY <2>1, AssertEvidenceType
  <2>3. AssertOp(k[1], k[2], k[3]) \in Op
    BY <2>1 DEF AssertOp, Op
  <2>4. QED
    BY <1>12, <2>2, <2>3, PerformPreserves DEF AssertClaim
<1>13. ASSUME NEW p \in Procs, NEW w \in Weights, AdoptTuned(p, w) PROVE IInv'
  <2>1. SetScoringWeights(mem[p], w) \in Mem /\ ~SetScoringWeights(mem[p], w).dirty
    BY SetScoringWeightsType DEF IInv
  <2>2. RetuneOp(w) \in Op
    BY DEF RetuneOp, Op
  <2>3. QED
    BY <1>13, <2>1, <2>2, PerformPreserves DEF AdoptTuned
<1>14. ASSUME NEW p \in Procs, NEW batch \in Batches, IngestBatch(p, batch) PROVE IInv'
  <2>1. batch \in Seq(Files \X Contents) /\ p \in Sessions /\ mem[p] \in Mem
    BY <1>14, BatchesAssumption DEF IInv, IngestBatch
  <2>2. /\ tl' = [tl EXCEPT ![p] = RecordAll(tl[p], batch)]
        /\ mem' = [mem EXCEPT ![p] = Resolve(IngestAll(mem[p], batch))]
        /\ UNCHANGED <<pc, seen, snapshot, sidecar>>
    BY <1>14 DEF IngestBatch
  <2>3. GoodTimeline(RecordAll(tl[p], batch))
    BY <2>1, RecordAllGood DEF IInv
  <2>4. Resolve(IngestAll(mem[p], batch)) \in Mem /\ ~Resolve(IngestAll(mem[p], batch)).dirty
    BY <2>1, IngestAllType, ResolveType
  <2>5. tl' \in [Sessions -> Timeline] /\ \A q \in Sessions : GoodTimeline(tl'[q])
    BY <2>2, <2>3 DEF IInv, GoodTimeline
  <2>6. mem' \in [Procs -> {m \in Mem : ~m.dirty}]
    BY <2>2, <2>4 DEF IInv
  <2>7. QED
    BY <2>2, <2>5, <2>6 DEF IInv, GoodSidecar
<1>15. CASE UNCHANGED vars
  BY <1>15 DEF vars, IInv, GoodSidecar
<1>16. QED
  BY <1>1, <1>2, <1>3, <1>4, <1>5, <1>6, <1>7, <1>8, <1>9, <1>10, <1>11, <1>12,
     <1>13, <1>14, <1>15 DEF Next

LEMMA InductiveInvariant == Spec => []IInv
  BY InitEstablishes, StepPreserves, PTL DEF Spec

-----------------------------------------------------------------------------
(* What a memory's call sites and links have to do with each other, through *)
(* every operation. *)

Calling(m) == {f \in Present(m) : Wants[f] # {}}

\* Call sites and links are those of files that are there and call something; and
\* where nothing is left to resolve and no stub has come up since, the links of
\* the files whose call sites are known are what resolution makes of them.
Coherent(m) ==
  /\ m.pending \subseteq Calling(m)
  /\ \A e \in m.calls : e[1] \in Calling(m)
  /\ ~m.dirty /\ m.stubs = {} =>
       {e \in m.calls : e[1] \in m.pending} = UNION {Resolved(m, f) : f \in m.pending}

LEMMA EmptyMemCoherent == Coherent(EmptyMem)
  BY DEF EmptyMem, Coherent, Resolved

LEMMA EvictFields ==
  ASSUME NEW m \in Mem, NEW f \in Files
  PROVE  LET n == EvictFile(m, f)
         IN /\ n.src = m.src /\ n.pending = m.pending /\ n.stubs = m.stubs
            /\ n.weights = m.weights
            /\ n.hot = m.hot \ {f}
            /\ n.calls = {e \in m.calls : e[1] # f /\ e[2] # f}
            /\ n.beliefs = {b \in m.beliefs : b[1] # f /\ b[2] # f}
  BY DEF EvictFile, Mem

LEMMA ParseFields ==
  ASSUME NEW m \in Mem, NEW f \in Files, NEW c \in Contents
  PROVE  LET n == ParseFile(m, f, c)
         IN /\ n.src[f] = c
            /\ \A g \in Files \ {f} : n.src[g] = m.src[g]
            /\ n.stubs = m.stubs \ {f}
            /\ n.pending = {g \in m.pending \cup {f} : g = f => Wants[f] # {}}
            /\ n.hot = m.hot /\ n.calls = m.calls /\ n.beliefs = m.beliefs
            /\ n.weights = m.weights
  BY DEF ParseFile, Mem

(* What an ingest changes: nothing where the content is the same; otherwise  *)
(* the file has the new content, and what hung on an old one is gone.        *)
LEMMA IngestFields ==
  ASSUME NEW m \in Mem, NEW f \in Files, NEW c \in Contents
  PROVE  LET n == IngestDeferred(m, f, c)
         IN /\ n.dirty /\ n.weights = m.weights
            /\ m.src[f] = c =>
                 /\ n.src = m.src /\ n.stubs = m.stubs /\ n.pending = m.pending
                 /\ n.hot = m.hot /\ n.calls = m.calls /\ n.beliefs = m.beliefs
            /\ m.src[f] # c =>
                 /\ n.src[f] = c
                 /\ \A g \in Files \ {f} : n.src[g] = m.src[g]
                 /\ n.stubs = m.stubs \ {f}
                 /\ n.pending = {g \in m.pending \cup {f} : g = f => Wants[f] # {}}
            /\ m.src[f] # c /\ m.src[f] = Absent =>
                 n.hot = m.hot /\ n.calls = m.calls /\ n.beliefs = m.beliefs
            /\ m.src[f] # c /\ m.src[f] # Absent =>
                 /\ n.hot = m.hot \ {f}
                 /\ n.calls = {e \in m.calls : e[1] # f /\ e[2] # f}
                 /\ n.beliefs = {b \in m.beliefs : b[1] # f /\ b[2] # f}
<1> DEFINE evicted == IF m.src[f] = Absent THEN m ELSE EvictFile(m, f)
           parsed  == IF m.src[f] = c THEN m ELSE ParseFile(evicted, f, c)
<1>1. evicted \in Mem
  BY DEF EvictFile, Mem
<1>2. parsed \in Mem
  BY <1>1, ParseFileType
<1>3. IngestDeferred(m, f, c) = [parsed EXCEPT !.dirty = TRUE]
  BY DEF IngestDeferred
<1>a. /\ evicted.src = m.src /\ evicted.pending = m.pending
      /\ evicted.stubs = m.stubs /\ evicted.weights = m.weights
  BY EvictFields
<1>b. /\ m.src[f] = c => parsed = m
      /\ m.src[f] # c => parsed = ParseFile(evicted, f, c)
      /\ m.src[f] = Absent => evicted = m
      /\ m.src[f] # Absent => evicted = EvictFile(m, f)
  OBVIOUS
<1> HIDE DEF parsed, evicted
<1> DEFINE n == IngestDeferred(m, f, c)
<1>4. /\ n.dirty = TRUE /\ n.src = parsed.src /\ n.stubs = parsed.stubs
      /\ n.pending = parsed.pending /\ n.hot = parsed.hot /\ n.calls = parsed.calls
      /\ n.beliefs = parsed.beliefs /\ n.weights = parsed.weights
  BY <1>2, <1>3 DEF Mem
<1> HIDE DEF n
<1>5. m.src[f] # c =>
        /\ parsed.src[f] = c
        /\ \A g \in Files \ {f} : parsed.src[g] = evicted.src[g]
        /\ parsed.stubs = evicted.stubs \ {f}
        /\ parsed.pending = {g \in evicted.pending \cup {f} : g = f => Wants[f] # {}}
        /\ parsed.hot = evicted.hot /\ parsed.calls = evicted.calls
        /\ parsed.beliefs = evicted.beliefs /\ parsed.weights = evicted.weights
  BY <1>1, <1>b, ParseFields
<1>6. m.src[f] # Absent =>
        /\ evicted.hot = m.hot \ {f}
        /\ evicted.calls = {e \in m.calls : e[1] # f /\ e[2] # f}
        /\ evicted.beliefs = {b \in m.beliefs : b[1] # f /\ b[2] # f}
  BY <1>b, EvictFields
<1>7. n.dirty
  BY <1>4
<1>8. n.weights = m.weights
  BY <1>4, <1>5, <1>a, <1>b
<1> QED
  BY <1>4, <1>5, <1>6, <1>7, <1>8, <1>a, <1>b DEF n

LEMMA ResolveFields ==
  ASSUME NEW m \in Mem
  PROVE  LET n == Resolve(m)
         IN /\ n.src = m.src /\ n.pending = m.pending /\ n.hot = m.hot
            /\ n.stubs = m.stubs /\ n.beliefs = m.beliefs /\ n.weights = m.weights
            /\ m.dirty => n.calls = {e \in m.calls : e[1] \notin m.pending}
                                      \cup UNION {Resolved(m, f) : f \in m.pending}
            /\ ~m.dirty => n = m
  BY DEF Resolve, Mem

LEMMA ReloadedFields ==
  ASSUME NEW m \in Mem
  PROVE  LET n == Reloaded(m)
         IN /\ n.src = m.src /\ n.pending = {} /\ n.hot = m.hot /\ n.calls = m.calls
            /\ n.stubs = m.stubs /\ n.beliefs = m.beliefs /\ n.weights = m.weights
            /\ n.dirty = m.dirty
  BY DEF Reloaded, Mem

LEMMA SignalFailureFields ==
  ASSUME NEW m \in Mem, NEW f \in Files
  PROVE  LET n == SignalFailure(m, f)
         IN /\ n.src = m.src /\ n.pending = m.pending /\ n.calls = m.calls
            /\ n.stubs = m.stubs /\ n.beliefs = m.beliefs /\ n.weights = m.weights
            /\ n.dirty = m.dirty
            /\ f \in Present(m) => n.hot = m.hot \cup {f} \cup Downstream(m, f)
            /\ f \notin Present(m) => n = m
  BY DEF SignalFailure, Mem

LEMMA SignalAllFields ==
  ASSUME NEW m \in Mem, NEW fs
  PROVE  LET n == SignalAll(m, fs)
         IN /\ n.src = m.src /\ n.pending = m.pending /\ n.calls = m.calls
            /\ n.stubs = m.stubs /\ n.beliefs = m.beliefs /\ n.weights = m.weights
            /\ n.dirty = m.dirty
            /\ n.hot = m.hot \cup UNION {{f} \cup Downstream(m, f) : f \in fs \cap Present(m)}
  BY DEF SignalAll, Mem

LEMMA SetWeightsFields ==
  ASSUME NEW m \in Mem, NEW w \in Weights
  PROVE  LET n == SetScoringWeights(m, w)
         IN /\ n.src = m.src /\ n.pending = m.pending /\ n.calls = m.calls
            /\ n.stubs = m.stubs /\ n.beliefs = m.beliefs /\ n.weights = w
            /\ n.dirty = m.dirty /\ n.hot = m.hot
  BY DEF SetScoringWeights, Mem

LEMMA AssertFields ==
  ASSUME NEW m \in Mem, NEW e \in Files, NEW c \in Files, NEW s \in BOOLEAN
  PROVE  LET n == AssertEvidence(m, e, c, s)
         IN /\ n.src = m.src /\ n.pending = m.pending /\ n.calls = m.calls
            /\ n.stubs = m.stubs \cup {f \in {e, c} : f \notin Known(m)}
            /\ n.beliefs = m.beliefs \cup {<<e, c, s>>} /\ n.weights = m.weights
            /\ n.dirty = m.dirty /\ n.hot = m.hot
<1> DEFINE one == EnsureNode(m, e)
           both == EnsureNode(one, c)
<1>1. ASSUME NEW k \in Mem, NEW f \in Files
      PROVE  /\ EnsureNode(k, f) \in Mem
             /\ EnsureNode(k, f).stubs = k.stubs \cup (IF f \in Known(k) THEN {} ELSE {f})
             /\ EnsureNode(k, f).src = k.src /\ EnsureNode(k, f).pending = k.pending
             /\ EnsureNode(k, f).calls = k.calls /\ EnsureNode(k, f).beliefs = k.beliefs
             /\ EnsureNode(k, f).weights = k.weights /\ EnsureNode(k, f).dirty = k.dirty
             /\ EnsureNode(k, f).hot = k.hot
  BY DEF EnsureNode, Mem
<1>2. /\ one \in Mem /\ one.src = m.src /\ one.pending = m.pending /\ one.calls = m.calls
      /\ one.beliefs = m.beliefs /\ one.weights = m.weights /\ one.dirty = m.dirty
      /\ one.hot = m.hot
      /\ one.stubs = m.stubs \cup (IF e \in Known(m) THEN {} ELSE {e})
  BY <1>1
<1> HIDE DEF one
<1>3. /\ both \in Mem /\ both.src = m.src /\ both.pending = m.pending /\ both.calls = m.calls
      /\ both.beliefs = m.beliefs /\ both.weights = m.weights /\ both.dirty = m.dirty
      /\ both.hot = m.hot
      /\ both.stubs = one.stubs \cup (IF c \in Known(one) THEN {} ELSE {c})
  BY <1>1, <1>2
<1>4. Known(one) = Known(m) \cup (IF e \in Known(m) THEN {} ELSE {e})
  BY <1>2 DEF Known, Present
<1>5. both.stubs = m.stubs \cup {f \in {e, c} : f \notin Known(m)}
  BY <1>2, <1>3, <1>4
<1>6. AssertEvidence(m, e, c, s) = [both EXCEPT !.beliefs = @ \cup {<<e, c, s>>}]
  BY DEF AssertEvidence, one
<1> HIDE DEF both
<1> DEFINE n == AssertEvidence(m, e, c, s)
<1>7. /\ n.src = both.src /\ n.pending = both.pending /\ n.calls = both.calls
      /\ n.stubs = both.stubs /\ n.weights = both.weights /\ n.dirty = both.dirty
      /\ n.hot = both.hot /\ n.beliefs = both.beliefs \cup {<<e, c, s>>}
  BY <1>3, <1>6 DEF Mem
<1> HIDE DEF n
<1> QED
  BY <1>3, <1>5, <1>7 DEF n

\* Two memories with the same files, stubs, call sites and links.
LEMMA CoherentOf ==
  ASSUME NEW m \in Mem, NEW n \in Mem, Coherent(m),
         n.src = m.src, n.stubs = m.stubs, n.pending = m.pending,
         n.calls = m.calls, n.dirty = m.dirty
  PROVE  Coherent(n)
<1>1. Calling(n) = Calling(m) /\ Known(n) = Known(m)
  BY DEF Calling, Known, Present
<1>2. \A f : Resolved(n, f) = Resolved(m, f)
  BY <1>1 DEF Resolved
<1> QED
  BY <1>1, <1>2 DEF Coherent

LEMMA IngestCoherent ==
  ASSUME NEW m \in Mem, Coherent(m), NEW f \in Files, NEW c \in Contents
  PROVE  Coherent(IngestDeferred(m, f, c))
<1> DEFINE n == IngestDeferred(m, f, c)
<1>1. n.dirty
  BY IngestFields
<1>2. c # Absent
  BY ContentsAssumption DEF Absent
<1>3. CASE m.src[f] = c
  <2>1. n.src = m.src /\ n.pending = m.pending /\ n.calls = m.calls
    BY <1>3, IngestFields
  <2> HIDE DEF n
  <2> QED
    BY <1>1, <2>1 DEF Coherent, Calling, Present, n
<1>4. CASE m.src[f] # c
  <2>1. /\ n.src[f] = c
        /\ \A g \in Files \ {f} : n.src[g] = m.src[g]
        /\ n.pending = {g \in m.pending \cup {f} : g = f => Wants[f] # {}}
    BY <1>4, IngestFields
  <2>2. n.calls \subseteq m.calls
    <3>1. CASE m.src[f] = Absent
      BY <1>4, <3>1, IngestFields
    <3>2. CASE m.src[f] # Absent
      <4>1. n.calls = {e \in m.calls : e[1] # f /\ e[2] # f}
        BY <1>4, <3>2, IngestFields
      <4> QED
        BY <4>1
    <3> QED
      BY <3>1, <3>2
  <2> HIDE DEF n
  <2>3. Calling(m) \subseteq Calling(n)
    BY <1>2, <2>1 DEF Calling, Present
  <2>4. Wants[f] # {} => f \in Calling(n)
    BY <1>2, <2>1 DEF Calling, Present
  <2>5. n.pending \subseteq Calling(n)
    BY <2>1, <2>3, <2>4 DEF Coherent
  <2> QED
    BY <1>1, <2>2, <2>3, <2>5 DEF Coherent, n
<1> QED
  BY <1>3, <1>4

LEMMA ResolveCoherent ==
  ASSUME NEW m \in Mem, Coherent(m)
  PROVE  Coherent(Resolve(m))
<1> DEFINE n == Resolve(m)
           links == UNION {Resolved(m, f) : f \in m.pending}
<1>1. CASE ~m.dirty
  <2>1. n = m
    BY <1>1, ResolveFields
  <2> QED
    BY <2>1
<1>2. CASE m.dirty
  <2>1. n.src = m.src /\ n.pending = m.pending /\ n.stubs = m.stubs
    BY ResolveFields
  <2>2. n.calls = {e \in m.calls : e[1] \notin m.pending} \cup links
    BY <1>2, ResolveFields
  <2> HIDE DEF n
  <2>3. Calling(n) = Calling(m) /\ Known(n) = Known(m)
    BY <2>1 DEF Calling, Known, Present
  <2>4. \A f : Resolved(n, f) = Resolved(m, f)
    BY <2>3 DEF Resolved
  <2>5. \A e \in links : e[1] \in m.pending
    BY DEF Resolved
  <2>6. links = UNION {Resolved(n, f) : f \in n.pending}
    BY <2>1, <2>4
  <2> HIDE DEF links
  <2>7. {e \in n.calls : e[1] \in n.pending} = links
    BY <2>1, <2>2, <2>5
  <2>8. \A e \in n.calls : e[1] \in Calling(n)
    BY <2>2, <2>3, <2>5 DEF Coherent
  <2>9. n.pending \subseteq Calling(n)
    BY <2>1, <2>3 DEF Coherent
  <2> QED
    BY <2>6, <2>7, <2>8, <2>9 DEF Coherent, n
<1> QED
  BY <1>1, <1>2

LEMMA ReloadedCoherent ==
  ASSUME NEW m \in Mem, Coherent(m)
  PROVE  Coherent(Reloaded(m))
<1> DEFINE n == Reloaded(m)
<1>1. n.src = m.src /\ n.pending = {} /\ n.calls = m.calls
  BY ReloadedFields
<1> HIDE DEF n
<1>2. Calling(n) = Calling(m)
  BY <1>1 DEF Calling, Present
<1> QED
  BY <1>1, <1>2 DEF Coherent, n

LEMMA SignalFailureCoherent ==
  ASSUME NEW m \in Mem, Coherent(m), NEW f \in Files
  PROVE  Coherent(SignalFailure(m, f))
<1> DEFINE n == SignalFailure(m, f)
<1>1. n \in Mem
  BY SignalFailureType
<1>2. /\ n.src = m.src /\ n.stubs = m.stubs /\ n.pending = m.pending
      /\ n.calls = m.calls /\ n.dirty = m.dirty
  BY SignalFailureFields
<1> HIDE DEF n
<1> QED
  BY <1>1, <1>2, CoherentOf DEF n

LEMMA SignalAllCoherent ==
  ASSUME NEW m \in Mem, Coherent(m), NEW fs \in SUBSET Files
  PROVE  Coherent(SignalAll(m, fs))
<1> DEFINE n == SignalAll(m, fs)
<1>1. n \in Mem
  BY SignalAllType
<1>2. /\ n.src = m.src /\ n.stubs = m.stubs /\ n.pending = m.pending
      /\ n.calls = m.calls /\ n.dirty = m.dirty
  BY SignalAllFields
<1> HIDE DEF n
<1> QED
  BY <1>1, <1>2, CoherentOf DEF n

LEMMA SetWeightsCoherent ==
  ASSUME NEW m \in Mem, Coherent(m), NEW w \in Weights
  PROVE  Coherent(SetScoringWeights(m, w))
<1> DEFINE n == SetScoringWeights(m, w)
<1>1. n \in Mem
  BY SetScoringWeightsType
<1>2. /\ n.src = m.src /\ n.stubs = m.stubs /\ n.pending = m.pending
      /\ n.calls = m.calls /\ n.dirty = m.dirty
  BY SetWeightsFields
<1> HIDE DEF n
<1> QED
  BY <1>1, <1>2, CoherentOf DEF n

LEMMA AssertCoherent ==
  ASSUME NEW m \in Mem, Coherent(m),
         NEW e \in Files, NEW c \in Files, NEW s \in BOOLEAN
  PROVE  Coherent(AssertEvidence(m, e, c, s))
<1> DEFINE n == AssertEvidence(m, e, c, s)
<1>1. n \in Mem
  BY AssertEvidenceType
<1>2. /\ n.src = m.src /\ n.pending = m.pending
      /\ n.calls = m.calls /\ n.dirty = m.dirty
      /\ n.stubs = m.stubs \cup {f \in {e, c} : f \notin Known(m)}
  BY AssertFields
<1> HIDE DEF n
<1>3. CASE n.stubs = m.stubs
  BY <1>1, <1>2, <1>3, CoherentOf DEF n
<1>4. CASE n.stubs # m.stubs
  <2>1. n.stubs # {}
    BY <1>2, <1>4
  <2>2. Calling(n) = Calling(m)
    BY <1>2 DEF Calling, Present
  <2> QED
    BY <1>2, <2>1, <2>2 DEF Coherent, n
<1> QED
  BY <1>3, <1>4

LEMMA ApplyOpCoherent ==
  ASSUME NEW m \in Mem, Coherent(m), NEW op \in Op
  PROVE  Coherent(ApplyOp(m, op))
<1>0. Resolve(m) \in Mem /\ Coherent(Resolve(m))
  BY ResolveType, ResolveCoherent
<1>1. CASE op \in [kind : {"ingest"}, file : Files, content : Contents]
  BY <1>1, IngestCoherent DEF ApplyOp
<1>2. CASE op \in [kind : {"failure"}, file : Files]
  BY <1>0, <1>2, SignalFailureCoherent DEF ApplyOp
<1>3. CASE op \in [kind : {"recall"}]
  BY <1>0, <1>3 DEF ApplyOp
<1>4. CASE op \in [kind : {"pagefault"}, files : SUBSET Files]
  BY <1>0, <1>4, SignalAllCoherent DEF ApplyOp
<1>5. CASE op \in [kind : {"retune"}, weights : Weights]
  BY <1>5, SetWeightsCoherent DEF ApplyOp
<1>6. CASE op \in [kind : {"assert"}, evidence : Files, claim : Files, supports : BOOLEAN]
  BY <1>6, AssertCoherent DEF ApplyOp
<1>7. QED
  BY <1>1, <1>2, <1>3, <1>4, <1>5, <1>6 DEF Op

-----------------------------------------------------------------------------
(* Memories that tell the same story *)

\* No file there calls another.
Callless(m) == Calling(m) = {}

\* The same contents, assertions and weights; and where no file calls another, the
\* same pressure. How calls were resolved, and when, is left out.
Alike(m, n) ==
  /\ Given(m) = Given(n)
  /\ Callless(m) => m.hot = n.hot

(* Equal givens mean the same files, and so the same callers and stubs.      *)
LEMMA GivenFields ==
  ASSUME NEW m, NEW n
  PROVE  /\ Given(m) = Given(n) <=>
              /\ m.src = n.src /\ m.stubs = n.stubs
              /\ m.beliefs = n.beliefs /\ m.weights = n.weights
         /\ Given(m) = Given(n) =>
              /\ Present(m) = Present(n) /\ Known(m) = Known(n)
              /\ Calling(m) = Calling(n) /\ (Callless(m) <=> Callless(n))
  BY DEF Given, Present, Known, Calling, Callless

LEMMA AlikeEquivalence ==
  ASSUME NEW k, NEW m, NEW n
  PROVE  /\ Alike(m, m)
         /\ Alike(m, n) => Alike(n, m)
         /\ Alike(k, m) /\ Alike(m, n) => Alike(k, n)
<1>1. /\ Given(m) = Given(n) => (Callless(m) <=> Callless(n))
      /\ Given(k) = Given(m) => (Callless(k) <=> Callless(m))
  BY GivenFields
<1> QED
  BY <1>1 DEF Alike

(* Resolving a memory, or writing and loading it, changes neither.           *)
LEMMA ResolveAlike ==
  ASSUME NEW m \in Mem
  PROVE  Alike(m, Resolve(m)) /\ Alike(m, Reloaded(m))
<1>1. Given(m) = Given(Resolve(m)) /\ m.hot = Resolve(m).hot
  BY ResolveFields, GivenFields
<1>2. Given(m) = Given(Reloaded(m)) /\ m.hot = Reloaded(m).hot
  BY ReloadedFields, GivenFields
<1> QED
  BY <1>1, <1>2 DEF Alike

LEMMA IngestAlike ==
  ASSUME NEW m \in Mem, NEW n \in Mem, Alike(m, n), NEW f \in Files, NEW c \in Contents
  PROVE  Alike(IngestDeferred(m, f, c), IngestDeferred(n, f, c))
<1> DEFINE x == IngestDeferred(m, f, c)
           y == IngestDeferred(n, f, c)
<1>0. c # Absent
  BY ContentsAssumption DEF Absent
<1>1. /\ m.src = n.src /\ m.stubs = n.stubs /\ m.beliefs = n.beliefs
      /\ m.weights = n.weights
  BY GivenFields DEF Alike
<1>2. x.src \in [Files -> Contents \cup {Absent}] /\ y.src \in [Files -> Contents \cup {Absent}]
  BY IngestDeferredType DEF Mem
<1>3. CASE m.src[f] = c
  <2>1. /\ x.src = m.src /\ x.stubs = m.stubs /\ x.beliefs = m.beliefs
        /\ x.weights = m.weights /\ x.hot = m.hot
    BY <1>3, IngestFields
  <2>2. /\ y.src = n.src /\ y.stubs = n.stubs /\ y.beliefs = n.beliefs
        /\ y.weights = n.weights /\ y.hot = n.hot
    BY <1>1, <1>3, IngestFields
  <2> HIDE DEF x, y
  <2>3. Given(x) = Given(y) /\ Given(x) = Given(m)
    BY <1>1, <2>1, <2>2, GivenFields
  <2>4. Callless(x) => x.hot = y.hot
    BY <2>1, <2>2, <2>3, GivenFields DEF Alike
  <2> QED
    BY <2>3, <2>4 DEF Alike, x, y
<1>4. CASE m.src[f] # c
  <2>1. /\ x.src[f] = c /\ \A g \in Files \ {f} : x.src[g] = m.src[g]
        /\ x.stubs = m.stubs \ {f} /\ x.weights = m.weights
    BY <1>4, IngestFields
  <2>2. /\ y.src[f] = c /\ \A g \in Files \ {f} : y.src[g] = m.src[g]
        /\ y.stubs = m.stubs \ {f} /\ y.weights = m.weights
    BY <1>1, <1>4, IngestFields
  <2>3. x.src = y.src
    <3> HIDE DEF x, y
    <3> QED
      BY <1>2, <2>1, <2>2
  <2>4. x.beliefs = y.beliefs /\ (m.hot = n.hot => x.hot = y.hot)
    <3>1. CASE m.src[f] = Absent
      <4>1. x.beliefs = m.beliefs /\ x.hot = m.hot
        BY <1>4, <3>1, IngestFields
      <4>2. y.beliefs = n.beliefs /\ y.hot = n.hot
        BY <1>1, <1>4, <3>1, IngestFields
      <4> QED
        BY <1>1, <4>1, <4>2
    <3>2. CASE m.src[f] # Absent
      <4>1. /\ x.beliefs = {b \in m.beliefs : b[1] # f /\ b[2] # f}
            /\ x.hot = m.hot \ {f}
        BY <1>4, <3>2, IngestFields
      <4>2. /\ y.beliefs = {b \in n.beliefs : b[1] # f /\ b[2] # f}
            /\ y.hot = n.hot \ {f}
        BY <1>1, <1>4, <3>2, IngestFields
      <4> HIDE DEF x, y
      <4> QED
        BY <1>1, <4>1, <4>2
    <3> QED
      BY <3>1, <3>2
  <2> HIDE DEF x, y
  <2>5. Given(x) = Given(y)
    BY <2>1, <2>2, <2>3, <2>4, GivenFields
  <2>6. Callless(x) => Callless(m)
    BY <1>0, <2>1 DEF Callless, Calling, Present
  <2> QED
    BY <2>4, <2>5, <2>6 DEF Alike, x, y
<1> QED
  BY <1>3, <1>4

(* A coherent memory without callers has no links, so that failure pressure  *)
(* flows along its beliefs alone.                                            *)
LEMMA CalllessHasNoCalls ==
  ASSUME NEW m \in Mem, Coherent(m), Callless(m)
  PROVE  m.calls = {} /\ m.pending = {}
  BY DEF Coherent, Callless

LEMMA DownstreamAlike ==
  ASSUME NEW m \in Mem, NEW n \in Mem, Coherent(m), Coherent(n), Alike(m, n), Callless(m),
         NEW f \in Files
  PROVE  Downstream(m, f) = Downstream(n, f)
<1>1. Callless(n) /\ m.beliefs = n.beliefs
  BY GivenFields DEF Alike
<1>2. m.calls = {} /\ n.calls = {}
  BY <1>1, CalllessHasNoCalls
<1> QED
  BY <1>1, <1>2 DEF Downstream

LEMMA SignalFailureAlike ==
  ASSUME NEW m \in Mem, NEW n \in Mem, Coherent(m), Coherent(n), Alike(m, n),
         NEW f \in Files
  PROVE  Alike(SignalFailure(m, f), SignalFailure(n, f))
<1> DEFINE x == SignalFailure(m, f)
           y == SignalFailure(n, f)
<1>1. Given(m) = Given(n) /\ Present(m) = Present(n)
  BY GivenFields DEF Alike
<1>2. x.src = m.src /\ x.stubs = m.stubs /\ x.beliefs = m.beliefs /\ x.weights = m.weights
  BY SignalFailureFields
<1>3. y.src = n.src /\ y.stubs = n.stubs /\ y.beliefs = n.beliefs /\ y.weights = n.weights
  BY SignalFailureFields
<1>4. /\ f \in Present(m) => /\ x.hot = m.hot \cup {f} \cup Downstream(m, f)
                             /\ y.hot = n.hot \cup {f} \cup Downstream(n, f)
      /\ f \notin Present(m) => x = m /\ y = n
  BY <1>1, SignalFailureFields
<1> HIDE DEF x, y
<1>5. Given(x) = Given(m) /\ Given(y) = Given(n)
  BY <1>2, <1>3, GivenFields
<1>6. Callless(x) => Callless(m)
  BY <1>5, GivenFields
<1>7. Callless(m) => m.hot = n.hot /\ Downstream(m, f) = Downstream(n, f)
  BY DownstreamAlike DEF Alike
<1>8. Callless(m) => x.hot = y.hot
  BY <1>4, <1>7
<1> QED
  BY <1>1, <1>5, <1>6, <1>8 DEF Alike, x, y

LEMMA SignalAllAlike ==
  ASSUME NEW m \in Mem, NEW n \in Mem, Coherent(m), Coherent(n), Alike(m, n),
         NEW fs \in SUBSET Files
  PROVE  Alike(SignalAll(m, fs), SignalAll(n, fs))
<1> DEFINE x == SignalAll(m, fs)
           y == SignalAll(n, fs)
<1>1. Given(m) = Given(n) /\ Present(m) = Present(n)
  BY GivenFields DEF Alike
<1>2. x.src = m.src /\ x.stubs = m.stubs /\ x.beliefs = m.beliefs /\ x.weights = m.weights
  BY SignalAllFields
<1>3. y.src = n.src /\ y.stubs = n.stubs /\ y.beliefs = n.beliefs /\ y.weights = n.weights
  BY SignalAllFields
<1>4. /\ x.hot = m.hot \cup UNION {{f} \cup Downstream(m, f) : f \in fs \cap Present(m)}
      /\ y.hot = n.hot \cup UNION {{f} \cup Downstream(n, f) : f \in fs \cap Present(n)}
  BY SignalAllFields
<1> HIDE DEF x, y
<1>5. Given(x) = Given(m) /\ Given(y) = Given(n)
  BY <1>2, <1>3, GivenFields
<1>6. Callless(x) => Callless(m)
  BY <1>5, GivenFields
<1>7. Callless(m) => m.hot = n.hot /\ \A f \in Files : Downstream(m, f) = Downstream(n, f)
  BY DownstreamAlike DEF Alike
<1>8. ASSUME Callless(m) PROVE x.hot = y.hot
  <2>1. \A f \in fs \cap Present(m) : {f} \cup Downstream(m, f) = {f} \cup Downstream(n, f)
    BY <1>7, <1>8
  <2>2. UNION {{f} \cup Downstream(m, f) : f \in fs \cap Present(m)}
          = UNION {{f} \cup Downstream(n, f) : f \in fs \cap Present(n)}
    BY <1>1, <2>1
  <2> QED
    BY <1>4, <1>7, <1>8, <2>2
<1> QED
  BY <1>1, <1>5, <1>6, <1>8 DEF Alike, x, y

LEMMA SetWeightsAlike ==
  ASSUME NEW m \in Mem, NEW n \in Mem, Alike(m, n), NEW w \in Weights
  PROVE  Alike(SetScoringWeights(m, w), SetScoringWeights(n, w))
<1> DEFINE x == SetScoringWeights(m, w)
           y == SetScoringWeights(n, w)
<1>1. /\ x.src = m.src /\ x.stubs = m.stubs /\ x.beliefs = m.beliefs /\ x.weights = w
      /\ x.hot = m.hot
  BY SetWeightsFields
<1>2. /\ y.src = n.src /\ y.stubs = n.stubs /\ y.beliefs = n.beliefs /\ y.weights = w
      /\ y.hot = n.hot
  BY SetWeightsFields
<1> HIDE DEF x, y
<1>3. Given(x) = Given(y)
  BY <1>1, <1>2, GivenFields DEF Alike
<1>4. Callless(x) => Callless(m)
  BY <1>1 DEF Callless, Calling, Present
<1> QED
  BY <1>1, <1>2, <1>3, <1>4 DEF Alike, x, y

LEMMA AssertAlike ==
  ASSUME NEW m \in Mem, NEW n \in Mem, Alike(m, n),
         NEW e \in Files, NEW c \in Files, NEW s \in BOOLEAN
  PROVE  Alike(AssertEvidence(m, e, c, s), AssertEvidence(n, e, c, s))
<1> DEFINE x == AssertEvidence(m, e, c, s)
           y == AssertEvidence(n, e, c, s)
<1>1. /\ x.src = m.src /\ x.weights = m.weights /\ x.hot = m.hot
      /\ x.stubs = m.stubs \cup {f \in {e, c} : f \notin Known(m)}
      /\ x.beliefs = m.beliefs \cup {<<e, c, s>>}
  BY AssertFields
<1>2. /\ y.src = n.src /\ y.weights = n.weights /\ y.hot = n.hot
      /\ y.stubs = n.stubs \cup {f \in {e, c} : f \notin Known(n)}
      /\ y.beliefs = n.beliefs \cup {<<e, c, s>>}
  BY AssertFields
<1> HIDE DEF x, y
<1>3. /\ m.src = n.src /\ m.stubs = n.stubs /\ m.beliefs = n.beliefs
      /\ m.weights = n.weights /\ Known(m) = Known(n)
  BY GivenFields DEF Alike
<1>4. x.stubs = y.stubs
  <2>1. {f \in {e, c} : f \notin Known(m)} = {f \in {e, c} : f \notin Known(n)}
    BY <1>3
  <2> QED
    BY <1>1, <1>2, <1>3, <2>1, Zenon
<1>5. Given(x) = Given(y)
  <2>1. x.beliefs = y.beliefs
    BY <1>1, <1>2, <1>3, Zenon
  <2>2. x.src = y.src /\ x.weights = y.weights
    BY <1>1, <1>2, <1>3, Zenon
  <2> QED
    BY <1>4, <2>1, <2>2 DEF Given
<1>6. Callless(x) => Callless(m)
  BY <1>1 DEF Callless, Calling, Present
<1> QED
  BY <1>1, <1>2, <1>5, <1>6 DEF Alike, x, y

(* An operation cannot tell memories apart that tell the same story.         *)
LEMMA ApplyOpAlike ==
  ASSUME NEW m \in Mem, NEW n \in Mem, Coherent(m), Coherent(n), Alike(m, n), NEW op \in Op
  PROVE  Alike(ApplyOp(m, op), ApplyOp(n, op))
<1>0. /\ Resolve(m) \in Mem /\ Coherent(Resolve(m))
      /\ Resolve(n) \in Mem /\ Coherent(Resolve(n))
  BY ResolveType, ResolveCoherent
<1>a. Alike(Resolve(m), Resolve(n))
  <2>1. Alike(m, Resolve(m)) /\ Alike(n, Resolve(n))
    BY ResolveAlike
  <2>2. Alike(Resolve(m), m)
    BY <2>1, AlikeEquivalence
  <2>3. Alike(Resolve(m), n)
    BY <2>2, AlikeEquivalence
  <2> QED
    BY <2>1, <2>3, AlikeEquivalence
<1>1. CASE op \in [kind : {"ingest"}, file : Files, content : Contents]
  BY <1>1, IngestAlike DEF ApplyOp
<1>2. CASE op \in [kind : {"failure"}, file : Files]
  BY <1>0, <1>a, <1>2, SignalFailureAlike DEF ApplyOp
<1>3. CASE op \in [kind : {"recall"}]
  BY <1>0, <1>a, <1>3 DEF ApplyOp
<1>4. CASE op \in [kind : {"pagefault"}, files : SUBSET Files]
  BY <1>0, <1>a, <1>4, SignalAllAlike DEF ApplyOp
<1>5. CASE op \in [kind : {"retune"}, weights : Weights]
  BY <1>5, SetWeightsAlike DEF ApplyOp
<1>6. CASE op \in [kind : {"assert"}, evidence : Files, claim : Files, supports : BOOLEAN]
  BY <1>6, AssertAlike DEF ApplyOp
<1>7. QED
  BY <1>1, <1>2, <1>3, <1>4, <1>5, <1>6 DEF Op

(* A replay from a coherent baseline is coherent at every operation.         *)
LEMMA ReplaysCoherent ==
  ASSUME NEW b \in Mem, Coherent(b), NEW ops \in Seq(Op)
  PROVE  \A i \in 0..Len(ops) : Replays(b, ops)[i] \in Mem /\ Coherent(Replays(b, ops)[i])
<1> DEFINE n == Len(ops)
           S == {m \in Mem : Coherent(m)}
           g == Replays(b, ops)
<1>1. n \in Nat /\ \A i \in 1..n : ops[i] \in Op
  BY LenProperties, ElementOfSeq
<1>2. g[0] = b /\ \A i \in 1..n : g[i] = ApplyOp(g[i - 1], ops[i])
  BY ReplaysDefined
<1> HIDE DEF g, n
<1>3. \A i \in 1..n : g[i - 1] \in S => g[i] \in S
  BY <1>1, <1>2, ApplyOpType, ApplyOpCoherent
<1>4. g[0] \in S
  BY <1>2
<1> HIDE DEF S
<1>5. \A i \in 0..n : g[i] \in S
  BY <1>1, <1>3, <1>4, RunStaysIn
<1> QED
  BY <1>5 DEF S, g, n

(* Replays of the same operations from baselines that tell the same story    *)
(* tell the same story, operation by operation: ops2 is what ops has from    *)
(* its place n on.                                                           *)
LEMMA ReplaysAlike ==
  ASSUME NEW b \in Mem, Coherent(b), NEW ops \in Seq(Op),
         NEW b2 \in Mem, Coherent(b2), NEW ops2 \in Seq(Op),
         NEW n \in Nat, n + Len(ops2) <= Len(ops),
         \A i \in 1..Len(ops2) : ops2[i] = ops[n + i],
         Alike(b2, Replays(b, ops)[n])
  PROVE  \A k \in 0..Len(ops2) : Alike(Replays(b2, ops2)[k], Replays(b, ops)[n + k])
<1> DEFINE last == Len(ops2)
           old == Replays(b, ops)
           new == Replays(b2, ops2)
           T == {k \in Nat : k <= last => Alike(new[k], old[n + k])}
<1>1. last \in Nat /\ Len(ops) \in Nat /\ \A i \in 1..last : ops2[i] \in Op
  BY LenProperties, ElementOfSeq
<1>2. /\ new[0] = b2 /\ \A i \in 1..last : new[i] = ApplyOp(new[i - 1], ops2[i])
      /\ \A i \in 0..last : new[i] \in Mem /\ Coherent(new[i])
  BY ReplaysDefined, ReplaysCoherent
<1>3. /\ \A i \in 1..Len(ops) : old[i] = ApplyOp(old[i - 1], ops[i])
      /\ \A i \in 0..Len(ops) : old[i] \in Mem /\ Coherent(old[i])
  BY ReplaysDefined, ReplaysCoherent
<1>4. n + last <= Len(ops) /\ (\A i \in 1..last : ops2[i] = ops[n + i]) /\ Alike(b2, old[n])
  OBVIOUS
<1> HIDE DEF last, old, new
<1>5. 0 \in T
  BY <1>2, <1>4
<1>6. ASSUME NEW k \in T PROVE k + 1 \in T
  <2> SUFFICES ASSUME k + 1 <= last PROVE Alike(new[k + 1], old[n + (k + 1)])
    OBVIOUS
  <2>1. k \in 0..last /\ k + 1 \in 1..last /\ (k + 1) - 1 = k /\ Alike(new[k], old[n + k])
    BY <1>1
  <2>2. /\ n + k \in 0..Len(ops) /\ n + (k + 1) \in 1..Len(ops)
        /\ n + (k + 1) - 1 = n + k
    BY <1>1, <1>4, <2>1
  <2>3. new[k + 1] = ApplyOp(new[k], ops2[k + 1])
    BY <1>2, <2>1
  <2>4. old[n + (k + 1)] = ApplyOp(old[n + k], ops2[k + 1])
    BY <1>3, <1>4, <2>1, <2>2
  <2>5. /\ new[k] \in Mem /\ Coherent(new[k]) /\ ops2[k + 1] \in Op
        /\ old[n + k] \in Mem /\ Coherent(old[n + k])
    BY <1>1, <1>2, <1>3, <2>1, <2>2
  <2> QED
    BY <2>1, <2>3, <2>4, <2>5, ApplyOpAlike
<1> HIDE DEF T
<1>7. T = Nat
  <2>1. T \subseteq Nat
    BY DEF T
  <2> QED
    BY <1>5, <1>6, <2>1, SetInduction
<1>8. ASSUME NEW k \in 0..last PROVE Alike(new[k], old[n + k])
  <2>1. k \in T /\ k <= last
    BY <1>1, <1>7
  <2> QED
    BY <2>1 DEF T
<1> QED
  BY <1>8 DEF last, old, new

(* A replay of a log in which no file calls another has no caller.           *)
LEMMA ReplaysCallless ==
  ASSUME NEW t \in Timeline, CallFree(t)
  PROVE  \A i \in 0..Len(t.ops) : Callless(Replays(t.base, t.ops)[i])
<1> DEFINE ops == t.ops
           n == Len(ops)
           S == {m \in Mem : Callless(m)}
           g == Replays(t.base, ops)
<1>1. /\ t.base \in Mem /\ ops \in Seq(Op) /\ n \in Nat /\ \A i \in 1..n : ops[i] \in Op
      /\ \A f \in Present(t.base) : Wants[f] = {}
      /\ \A i \in 1..n : ops[i].kind = "ingest" => Wants[ops[i].file] = {}
  BY LenProperties, ElementOfSeq DEF Timeline, CallFree
<1>2. g[0] = t.base /\ \A i \in 1..n : g[i] = ApplyOp(g[i - 1], ops[i])
  BY <1>1, ReplaysDefined
<1> HIDE DEF g, n, ops
<1>3. ASSUME NEW m \in Mem, Callless(m), NEW op \in Op,
             op.kind = "ingest" => Wants[op.file] = {}
      PROVE  Callless(ApplyOp(m, op))
  <2>0. Resolve(m) \in Mem /\ Resolve(m).src = m.src
    BY ResolveType, ResolveFields
  <2>1. ASSUME NEW k, k.src = m.src PROVE Callless(k)
    BY <1>3, <2>1 DEF Callless, Calling, Present
  <2>2. CASE op \in [kind : {"ingest"}, file : Files, content : Contents]
    <3> DEFINE k == IngestDeferred(m, op.file, op.content)
    <3>1. ApplyOp(m, op) = k /\ op.file \in Files /\ op.content \in Contents
      BY <2>2 DEF ApplyOp
    <3>2. Wants[op.file] = {}
      BY <1>3, <2>2
    <3>3. \A f \in Files \ {op.file} : k.src[f] = m.src[f]
      <4>1. CASE m.src[op.file] = op.content
        BY <3>1, <4>1, IngestFields
      <4>2. CASE m.src[op.file] # op.content
        BY <3>1, <4>2, IngestFields
      <4> QED
        BY <4>1, <4>2
    <3> HIDE DEF k
    <3> QED
      BY <1>3, <3>1, <3>2, <3>3 DEF Callless, Calling, Present
  <2>3. CASE op \in [kind : {"failure"}, file : Files]
    <3>1. ApplyOp(m, op) = SignalFailure(Resolve(m), op.file) /\ op.file \in Files
      BY <2>3 DEF ApplyOp
    <3> QED
      BY <2>0, <2>1, <3>1, SignalFailureFields
  <2>4. CASE op \in [kind : {"recall"}]
    BY <2>0, <2>1, <2>4 DEF ApplyOp
  <2>5. CASE op \in [kind : {"pagefault"}, files : SUBSET Files]
    <3>1. ApplyOp(m, op) = SignalAll(Resolve(m), op.files)
      BY <2>5 DEF ApplyOp
    <3> QED
      BY <2>0, <2>1, <3>1, SignalAllFields
  <2>6. CASE op \in [kind : {"retune"}, weights : Weights]
    <3>1. ApplyOp(m, op) = SetScoringWeights(m, op.weights) /\ op.weights \in Weights
      BY <2>6 DEF ApplyOp
    <3> QED
      BY <2>1, <3>1, SetWeightsFields
  <2>7. CASE op \in [kind : {"assert"}, evidence : Files, claim : Files, supports : BOOLEAN]
    <3>1. /\ ApplyOp(m, op) = AssertEvidence(m, op.evidence, op.claim, op.supports)
          /\ op.evidence \in Files /\ op.claim \in Files /\ op.supports \in BOOLEAN
      BY <2>7 DEF ApplyOp
    <3> QED
      BY <2>1, <3>1, AssertFields
  <2> QED
    BY <2>2, <2>3, <2>4, <2>5, <2>6, <2>7 DEF Op
<1>4. \A i \in 1..n : g[i - 1] \in S => g[i] \in S
  BY <1>1, <1>2, <1>3, ApplyOpType
<1>5. g[0] \in S
  BY <1>1, <1>2 DEF Callless, Calling
<1> HIDE DEF S
<1>6. \A i \in 0..n : g[i] \in S
  BY <1>1, <1>4, <1>5, RunStaysIn
<1> QED
  BY <1>6 DEF S, g, n, ops

\* The last memory of a replay, before it is resolved.
LastMem(t) == Replays(t.base, t.ops)[Len(t.ops)]

(* What a replay to a step at or above the floor ends with.                  *)
LEMMA ReplayToSteps ==
  ASSUME NEW t \in Timeline
  PROVE  /\ \A k \in 0..Len(t.ops) :
              ReplayTo(t, t.folded + k) = Resolve(Replays(t.base, t.ops)[k])
         /\ Replay(t) = Resolve(LastMem(t))
<1>1. t.folded \in Nat /\ Len(t.ops) \in Nat /\ Total(t) = t.folded + Len(t.ops)
  BY LenProperties DEF Timeline, Total
<1>2. ASSUME NEW k \in 0..Len(t.ops)
      PROVE  ReplayTo(t, t.folded + k) = Resolve(Replays(t.base, t.ops)[k])
  <2> DEFINE step == t.folded + k
             upto == IF step > Total(t) THEN Total(t) ELSE step
             tail == IF upto < t.folded THEN 0 ELSE upto - t.folded
  <2>1. tail = k
    BY <1>1
  <2>2. ReplayTo(t, step) = Resolve(Replays(t.base, t.ops)[tail])
    BY DEF ReplayTo
  <2> HIDE DEF tail, step
  <2> QED
    BY <2>1, <2>2 DEF step
<1>3. Len(t.ops) \in 0..Len(t.ops)
  BY <1>1
<1>4. Replay(t) = Resolve(LastMem(t))
  BY <1>1, <1>2, <1>3 DEF Replay, LastMem
<1> QED
  BY <1>2, <1>4

(* Alike memories that are coherent and resolved hold the same knowledge     *)
(* where no file calls another.                                              *)
LEMMA AlikeKnowledge ==
  ASSUME NEW m \in Mem, NEW n \in Mem, Coherent(m), Coherent(n), Alike(m, n),
         ~m.dirty, ~n.dirty, Callless(m)
  PROVE  SameKnowledge(m, n)
<1>1. /\ m.src = n.src /\ m.stubs = n.stubs /\ m.beliefs = n.beliefs
      /\ m.weights = n.weights /\ m.hot = n.hot /\ Callless(n)
  BY GivenFields DEF Alike
<1>2. m.calls = {} /\ m.pending = {} /\ n.calls = {} /\ n.pending = {}
  BY <1>1, CalllessHasNoCalls
<1>3. m.dirty = n.dirty
  BY DEF Mem
<1>4. m = n
  BY <1>1, <1>2, <1>3 DEF Mem
<1> QED
  BY <1>4 DEF SameKnowledge

(* A compaction is a suffix of the log over a baseline that tells the same   *)
(* story as the replay it was taken from.                                    *)
LEMMA FoldFirstFields ==
  ASSUME NEW t, GoodTimeline(t), Coherent(t.base), NEW n \in 1..Len(t.ops)
  PROVE  LET u == FoldFirst(t, n)
         IN /\ u.base \in Mem /\ Coherent(u.base)
            /\ Alike(u.base, Replays(t.base, t.ops)[n])
            /\ u.ops \in Seq(Op) /\ Len(u.ops) = Len(t.ops) - n
            /\ \A i \in 1..Len(u.ops) : u.ops[i] = t.ops[n + i]
            /\ u.folded = t.folded + n
<1> DEFINE u == FoldFirst(t, n)
           floor == Reloaded(ReplayTo(t, t.folded + n))
           at == Replays(t.base, t.ops)[n]
           len == Len(t.ops)
<1>1. /\ t \in Timeline /\ t.base \in Mem /\ t.ops \in Seq(Op)
      /\ t.folded \in Nat /\ len \in Nat
  BY LenProperties DEF GoodTimeline, Timeline
<1>2. at \in Mem /\ Coherent(at)
  BY <1>1, ReplaysCoherent
<1>3. n \in 0..Len(t.ops)
  BY <1>1
<1>4. ReplayTo(t, t.folded + n) = Resolve(at)
  BY <1>1, <1>3, ReplayToSteps
<1>5. floor = Reloaded(Resolve(at))
  BY <1>4
<1>6. /\ u.base = floor /\ u.ops = SubSeq(t.ops, n + 1, len)
      /\ u.folded = t.folded + n
  BY <1>1 DEF FoldFirst, Timeline
<1> HIDE DEF u, floor, at
<1>7. floor \in Mem /\ Coherent(floor) /\ Alike(floor, at)
  <2>1. Resolve(at) \in Mem /\ Coherent(Resolve(at)) /\ Alike(at, Resolve(at))
    BY <1>2, ResolveType, ResolveCoherent, ResolveAlike
  <2>2. /\ floor \in Mem /\ Coherent(floor) /\ Alike(Resolve(at), floor)
    BY <1>5, <2>1, ReloadedType, ReloadedCoherent, ResolveAlike
  <2> QED
    BY <2>1, <2>2, AlikeEquivalence
<1>8. /\ u.ops \in Seq(Op) /\ Len(u.ops) = len - n
      /\ \A i \in 1..(len - n) : u.ops[i] = t.ops[n + i]
  <2>1. \A i \in (n + 1)..len : t.ops[i] \in Op
    BY <1>1
  <2>2. /\ SubSeq(t.ops, n + 1, len) \in Seq(Op)
        /\ Len(SubSeq(t.ops, n + 1, len)) = IF n + 1 <= len THEN len - (n + 1) + 1 ELSE 0
        /\ \A i \in 1..(len - (n + 1) + 1) : SubSeq(t.ops, n + 1, len)[i] = t.ops[n + 1 + i - 1]
    BY <1>1, <2>1, SubSeqProperties
  <2>3. len - (n + 1) + 1 = len - n /\ (n + 1 <= len \/ len - n = 0)
    BY <1>1
  <2>4. \A i \in 1..(len - n) : n + 1 + i - 1 = n + i
    BY <1>1
  <2> HIDE DEF len
  <2>5. Len(u.ops) = len - n
    BY <1>6, <2>2, <2>3
  <2> QED
    BY <1>6, <2>2, <2>3, <2>4, <2>5
<1> QED
  BY <1>6, <1>7, <1>8 DEF u, at, len

LEMMA FoldFirstAlike ==
  ASSUME NEW t, GoodTimeline(t), Coherent(t.base), NEW n \in 1..Len(t.ops),
         NEW u, u = FoldFirst(t, n), GoodTimeline(u)
  PROVE  /\ Total(u) = Total(t)
         /\ Alike(LastMem(u), LastMem(t))
         /\ \A step \in u.folded..Total(t) :
              /\ Given(ReplayTo(u, step)) = Given(ReplayTo(t, step))
              /\ CallFree(t) => SameKnowledge(ReplayTo(u, step), ReplayTo(t, step))
<1> DEFINE len == Len(t.ops)
<1>1. /\ t \in Timeline /\ t.base \in Mem /\ t.ops \in Seq(Op)
      /\ t.folded \in Nat /\ len \in Nat /\ u \in Timeline
  BY LenProperties DEF GoodTimeline, Timeline
<1>2. /\ u.base \in Mem /\ Coherent(u.base)
      /\ Alike(u.base, Replays(t.base, t.ops)[n])
      /\ u.ops \in Seq(Op) /\ Len(u.ops) = Len(t.ops) - n
      /\ \A i \in 1..Len(u.ops) : u.ops[i] = t.ops[n + i]
      /\ u.folded = t.folded + n
  BY FoldFirstFields, SMTT(20)
<1>3. n \in Nat /\ n + Len(u.ops) <= Len(t.ops) /\ n + Len(u.ops) = len
  <2>1. n \in Nat /\ len \in Nat /\ n <= len
    BY <1>1
  <2>2. Len(u.ops) = len - n
    BY <1>2
  <2>3. n + Len(u.ops) = len
    BY <2>1, <2>2
  <2> QED
    BY <2>1, <2>3
<1>4. \A k \in 0..Len(u.ops) :
        Alike(Replays(u.base, u.ops)[k], Replays(t.base, t.ops)[n + k])
  BY <1>1, <1>2, <1>3, ReplaysAlike
<1>5. Total(u) = Total(t)
  BY <1>1, <1>2 DEF Total
<1>6. Len(u.ops) \in 0..Len(u.ops)
  BY <1>1, <1>2
<1>7. Alike(LastMem(u), LastMem(t))
  BY <1>3, <1>4, <1>6 DEF LastMem
<1>8. ASSUME NEW step \in u.folded..Total(t)
      PROVE  /\ Given(ReplayTo(u, step)) = Given(ReplayTo(t, step))
             /\ CallFree(t) => SameKnowledge(ReplayTo(u, step), ReplayTo(t, step))
  <2> DEFINE k == step - u.folded
             x == Replays(u.base, u.ops)[k]
             y == Replays(t.base, t.ops)[n + k]
  <2>0. /\ step \in (t.folded + n)..(t.folded + len) /\ Len(u.ops) = len - n
        /\ u.folded = t.folded + n
    BY <1>1, <1>2 DEF Total
  <2>1. /\ k \in 0..Len(u.ops) /\ n + k \in 0..Len(t.ops)
        /\ u.folded + k = step /\ t.folded + (n + k) = step
    <3> HIDE DEF len
    <3>1. step \in Int /\ t.folded + n <= step /\ step <= t.folded + len
      BY <1>1, <1>3, <2>0
    <3>2. k = step - (t.folded + n)
      BY <2>0
    <3> HIDE DEF k
    <3>3. k \in 0..(len - n) /\ n + k \in 0..len
      BY <1>1, <1>3, <3>1, <3>2, SMTT(20)
    <3>4. u.folded + k = step /\ t.folded + (n + k) = step
      BY <1>1, <1>3, <2>0, <3>1, <3>2
    <3> QED
      BY <2>0, <3>3, <3>4 DEF len
  <2> HIDE DEF k
  <2>2. ReplayTo(u, step) = Resolve(x)
    <3>1. ReplayTo(u, u.folded + k) = Resolve(x)
      BY <1>1, <2>1, ReplayToSteps
    <3> QED
      BY <2>1, <3>1
  <2>3. ReplayTo(t, step) = Resolve(y)
    <3>1. ReplayTo(t, t.folded + (n + k)) = Resolve(y)
      BY <1>1, <2>1, ReplayToSteps
    <3> QED
      BY <2>1, <3>1
  <2>4. Alike(x, y)
    BY <1>4, <2>1
  <2>5. x \in Mem /\ Coherent(x) /\ y \in Mem /\ Coherent(y)
    BY <1>1, <1>2, <2>1, ReplaysCoherent
  <2>6. CallFree(t) => Callless(y)
    BY <1>1, <2>1, ReplaysCallless
  <2> HIDE DEF x, y
  <2>7. /\ Resolve(x) \in Mem /\ ~Resolve(x).dirty /\ Coherent(Resolve(x))
        /\ Resolve(y) \in Mem /\ ~Resolve(y).dirty /\ Coherent(Resolve(y))
        /\ Alike(x, Resolve(x)) /\ Alike(y, Resolve(y))
    BY <2>5, ResolveType, ResolveCoherent, ResolveAlike
  <2>8. Alike(Resolve(x), x)
    BY <2>7, AlikeEquivalence
  <2>9. Alike(Resolve(x), y)
    BY <2>4, <2>8, AlikeEquivalence
  <2>10. Alike(Resolve(x), Resolve(y))
    BY <2>7, <2>9, AlikeEquivalence
  <2>11. Given(Resolve(x)) = Given(Resolve(y))
    BY <2>10 DEF Alike
  <2>12. CallFree(t) => Callless(Resolve(x))
    BY <2>6, <2>9, GivenFields DEF Alike
  <2>13. CallFree(t) => SameKnowledge(Resolve(x), Resolve(y))
    BY <2>7, <2>10, <2>12, AlikeKnowledge
  <2> QED
    BY <2>2, <2>3, <2>11, <2>13
<1> QED
  BY <1>5, <1>7, <1>8

(* A compaction that is needed, or not.                                      *)
LEMMA CompactIfNeededAlike ==
  ASSUME NEW t, GoodTimeline(t), Coherent(t.base),
         NEW u, u = CompactIfNeeded(t)
  PROVE  /\ Coherent(u.base)
         /\ Alike(LastMem(u), LastMem(t))
         /\ u.folded > t.folded =>
              /\ Total(u) = Total(t)
              /\ \A step \in u.folded..Total(t) :
                   /\ Given(ReplayTo(u, step)) = Given(ReplayTo(t, step))
                   /\ CallFree(t) => SameKnowledge(ReplayTo(u, step), ReplayTo(t, step))
<1>1. t.folded \in Nat /\ Len(t.ops) \in Nat
  BY LenProperties DEF GoodTimeline, Timeline
<1>2. CASE u = t
  BY <1>1, <1>2, AlikeEquivalence
<1>3. CASE u # t
  <2> DEFINE n == Len(t.ops) - OplogKeep
  <2>1. n \in 1..Len(t.ops) /\ u = FoldFirst(t, n)
    BY <1>1, <1>3, OplogAssumption DEF CompactIfNeeded, Compact
  <2> HIDE DEF n
  <2>2. GoodTimeline(u)
    BY CompactIfNeededGood
  <2>3. Coherent(u.base)
    BY <2>1, FoldFirstFields
  <2> QED
    BY <2>1, <2>2, <2>3, FoldFirstAlike
<1> QED
  BY <1>2, <1>3

-----------------------------------------------------------------------------
(* The live memory and the timeline of a session *)

(* Recording an operation adds it to the replay.                             *)
LEMMA RecordAlike ==
  ASSUME NEW t, GoodTimeline(t), Coherent(t.base), NEW op \in Op
  PROVE  /\ Record(t, op).base = t.base /\ Record(t, op).folded = t.folded
         /\ \A m \in Mem : Coherent(m) /\ Alike(LastMem(t), m)
              => Alike(LastMem(Record(t, op)), ApplyOp(m, op))
<1> DEFINE u == Record(t, op)
           n == Len(t.ops)
<1>1. /\ t \in Timeline /\ t.base \in Mem /\ t.ops \in Seq(Op) /\ n \in Nat
  BY LenProperties DEF GoodTimeline, Timeline
<1>2. u.base = t.base /\ u.folded = t.folded /\ u.ops = Append(t.ops, op)
  BY <1>1 DEF Record, Timeline
<1> HIDE DEF u
<1>3. /\ u.ops \in Seq(Op) /\ Len(u.ops) = n + 1 /\ u.ops[n + 1] = op
      /\ \A i \in 1..n : u.ops[i] = t.ops[i]
  BY <1>1, <1>2, AppendProperties
<1> DEFINE old == Replays(t.base, t.ops)
           new == Replays(t.base, u.ops)
<1>4. new[n + 1] = ApplyOp(new[n], op)
  <2>1. n + 1 \in 1..Len(u.ops) /\ (n + 1) - 1 = n
    <3>1. n \in Nat /\ Len(u.ops) = n + 1
      BY <1>1, <1>3
    <3> HIDE DEF n
    <3> QED
      BY <3>1
  <2> QED
    BY <1>1, <1>3, <2>1, ReplaysDefined, SMTT(20)
<1>5. new[n] \in Mem /\ Coherent(new[n])
  <2>1. n \in 0..Len(u.ops)
    BY <1>1, <1>3
  <2> QED
    BY <1>1, <1>3, <2>1, ReplaysCoherent
<1>6. Alike(old[n], new[n])
  <2>1. new[0] = t.base
    BY <1>1, <1>3, ReplaysDefined
  <2>2. Alike(t.base, new[0])
    BY <2>1, AlikeEquivalence
  <2>3. 0 + Len(t.ops) <= Len(u.ops) /\ \A i \in 1..Len(t.ops) : t.ops[i] = u.ops[0 + i]
    BY <1>1, <1>3
  <2>4. \A k \in 0..Len(t.ops) : Alike(old[k], new[0 + k])
    BY <1>1, <1>3, <2>2, <2>3, ReplaysAlike
  <2>5. n \in 0..Len(t.ops) /\ 0 + n = n
    BY <1>1
  <2> HIDE DEF old, new
  <2> QED
    BY <2>4, <2>5
<1>7. LastMem(t) = old[n] /\ LastMem(u) = new[n + 1]
  BY <1>2, <1>3 DEF LastMem
<1> HIDE DEF old, new
<1>8. ASSUME NEW m \in Mem, Coherent(m), Alike(LastMem(t), m)
      PROVE  Alike(LastMem(u), ApplyOp(m, op))
  <2>1. Alike(new[n], old[n]) /\ Alike(old[n], m)
    BY <1>6, <1>7, <1>8, AlikeEquivalence
  <2>2. Alike(new[n], m)
    BY <2>1, AlikeEquivalence
  <2> QED
    BY <1>4, <1>5, <1>7, <1>8, <2>2, ApplyOpAlike
<1> QED
  BY <1>2, <1>8 DEF u

(* So does recording a batch, file by file.                                  *)
LEMMA RecordAllAlike ==
  ASSUME NEW t, GoodTimeline(t), Coherent(t.base),
         NEW m \in Mem, Coherent(m), NEW batch \in Seq(Files \X Contents)
  PROVE  /\ RecordAll(t, batch).base = t.base /\ RecordAll(t, batch).folded = t.folded
         /\ Coherent(IngestAll(m, batch))
         /\ Alike(LastMem(t), m) => Alike(LastMem(RecordAll(t, batch)), IngestAll(m, batch))
<1> DEFINE n == Len(batch)
<1>1. n \in Nat /\ \A i \in 1..n : batch[i][1] \in Files /\ batch[i][2] \in Contents
  BY LenProperties, ElementOfSeq
<1>2. PICK g : /\ g[0] = t /\ RecordAll(t, batch) = g[n]
               /\ \A i \in 0..n : GoodTimeline(g[i])
               /\ \A i \in 1..n : g[i] = Record(g[i - 1], IngestOp(batch[i][1], batch[i][2]))
  BY RecordAllSteps
<1>3. PICK h : /\ h[0] = m /\ IngestAll(m, batch) = h[n]
               /\ \A i \in 0..n : h[i] \in Mem
               /\ \A i \in 1..n : h[i] = IngestDeferred(h[i - 1], batch[i][1], batch[i][2])
  BY IngestAllSteps
<1> HIDE DEF n
<1> DEFINE S == {i \in 0..n : /\ g[i].base = t.base /\ g[i].folded = t.folded /\ Coherent(h[i])
                              /\ Alike(LastMem(t), m) => Alike(LastMem(g[i]), h[i])}
           T == {k \in Nat : k <= n => k \in S}
<1>4. 0 \in S
  BY <1>1, <1>2, <1>3
<1>5. ASSUME NEW k \in S, k + 1 <= n PROVE k + 1 \in S
  <2> DEFINE f == batch[k + 1][1]
             c == batch[k + 1][2]
             op == IngestOp(f, c)
  <2>1. /\ k \in 0..n /\ k + 1 \in 1..n /\ k + 1 \in 0..n /\ (k + 1) - 1 = k
        /\ f \in Files /\ c \in Contents
    BY <1>1, <1>5
  <2>2. g[k + 1] = Record(g[k], op) /\ h[k + 1] = IngestDeferred(h[k], f, c)
    BY <1>2, <1>3, <2>1
  <2> HIDE DEF f, c
  <2>3. op \in Op /\ IngestDeferred(h[k], f, c) = ApplyOp(h[k], op)
    BY <2>1 DEF IngestOp, Op, ApplyOp
  <2>4. /\ GoodTimeline(g[k]) /\ h[k] \in Mem
        /\ g[k].base = t.base /\ g[k].folded = t.folded /\ Coherent(h[k])
        /\ Alike(LastMem(t), m) => Alike(LastMem(g[k]), h[k])
    BY <1>2, <1>3, <2>1
  <2> HIDE DEF op, S
  <2>5. g[k + 1].base = t.base /\ g[k + 1].folded = t.folded
    BY <2>2, <2>3, <2>4, RecordAlike
  <2>6. Coherent(h[k + 1])
    BY <2>2, <2>3, <2>4, ApplyOpCoherent
  <2>7. Alike(LastMem(t), m) => Alike(LastMem(g[k + 1]), h[k + 1])
    BY <2>2, <2>3, <2>4, RecordAlike
  <2> QED
    BY <2>1, <2>5, <2>6, <2>7 DEF S
<1> HIDE DEF S
<1>6. 0 \in T
  BY <1>4
<1>7. ASSUME NEW k \in T PROVE k + 1 \in T
  <2>1. k \in Nat /\ (k <= n => k \in S)
    OBVIOUS
  <2>2. ASSUME k + 1 <= n PROVE k + 1 \in S
    <3>1. k \in S
      BY <1>1, <2>1, <2>2
    <3> QED
      BY <1>5, <2>2, <3>1
  <2> QED
    BY <2>1, <2>2
<1> HIDE DEF T
<1>8. T = Nat
  <2>1. T \subseteq Nat
    BY DEF T
  <2> QED
    BY <1>6, <1>7, <2>1, SetInduction
<1>9. n \in S
  <2>1. n \in T
    BY <1>1, <1>8
  <2> QED
    BY <1>1, <2>1 DEF T
<1> QED
  BY <1>2, <1>3, <1>9 DEF S

\* Every memory, live, saved or at the floor of a log, is coherent.
CInv ==
  /\ \A p \in Procs : Coherent(mem[p])
  /\ Coherent(snapshot.mem)
  /\ \A p \in Sessions : Coherent(tl[p].base)
  /\ Coherent(sidecar.timeline.base)

\* Process p performs an operation, and its memory becomes what the replay of that
\* operation makes of it, but for what is left to resolve.
Performed(p) ==
  \E op \in Op, m \in Mem : /\ Perform(p, op, m)
                            /\ Coherent(m)
                            /\ Alike(ApplyOp(mem[p], op), m)

LEMMA OperationsPerformed ==
  ASSUME IInv, CInv, NEW p \in Procs,
         \/ \E f \in Files, c \in Contents : Ingest(p, f, c)
         \/ \E f \in Files : Failure(p, f)
         \/ \E f \in Files, c \in Contents : Sync(p, f, c)
         \/ Recall(p)
         \/ \E fs \in FaultLists : PageFault(p, fs)
         \/ \E k \in Claims : AssertClaim(p, k[1], k[2], k[3])
         \/ \E w \in Weights : AdoptTuned(p, w)
  PROVE  Performed(p)
<1> DEFINE m == mem[p]
<1>1. m \in Mem /\ ~m.dirty /\ Coherent(m) /\ Resolve(m) = m
  <2>1. m \in Mem /\ ~m.dirty /\ Coherent(m)
    BY DEF IInv, CInv
  <2> QED
    BY <2>1, ResolveFields
<1> HIDE DEF m
<1>2. ASSUME NEW op \in Op, ApplyOp(m, op) \in Mem, Perform(p, op, ApplyOp(m, op))
      PROVE  Performed(p)
  <2>1. Coherent(ApplyOp(m, op)) /\ Alike(ApplyOp(m, op), ApplyOp(m, op))
    BY <1>1, ApplyOpCoherent, AlikeEquivalence
  <2> QED
    BY <1>2, <2>1 DEF Performed, m
<1>3. ASSUME NEW f \in Files, NEW c \in Contents, Ingest(p, f, c)
      PROVE  Performed(p)
  <2> DEFINE op == IngestOp(f, c)
             next == IngestDeferred(m, f, c)
  <2>1. op \in Op /\ ApplyOp(m, op) = next
    BY DEF IngestOp, Op, ApplyOp
  <2>2. next \in Mem /\ Coherent(next)
    BY <1>1, IngestDeferredType, IngestCoherent
  <2>3. Perform(p, op, Resolve(next))
    BY <1>3 DEF Ingest, IngestSource, m
  <2> HIDE DEF op, next
  <2>4. Resolve(next) \in Mem /\ Coherent(Resolve(next)) /\ Alike(next, Resolve(next))
    BY <2>2, ResolveType, ResolveCoherent, ResolveAlike
  <2> QED
    BY <2>1, <2>3, <2>4 DEF Performed, m
<1>4. ASSUME NEW f \in Files, Failure(p, f) PROVE Performed(p)
  <2>1. FailureOp(f) \in Op /\ ApplyOp(m, FailureOp(f)) = SignalFailure(m, f)
    BY <1>1 DEF FailureOp, Op, ApplyOp
  <2> QED
    BY <1>1, <1>2, <1>4, <2>1, SignalFailureType DEF Failure, m
<1>5. ASSUME NEW f \in Files, NEW c \in Contents, Sync(p, f, c) PROVE Performed(p)
  BY <1>3, <1>5 DEF Sync
<1>6. CASE Recall(p)
  <2>1. RecallOp \in Op /\ ApplyOp(m, RecallOp) = m
    BY <1>1 DEF RecallOp, Op, ApplyOp
  <2> QED
    BY <1>1, <1>2, <1>6, <2>1 DEF Recall, m
<1>7. ASSUME NEW fs \in FaultLists, PageFault(p, fs) PROVE Performed(p)
  <2>1. fs \in SUBSET Files
    BY FaultListsAssumption
  <2>2. PageFaultOp(fs) \in Op /\ ApplyOp(m, PageFaultOp(fs)) = SignalAll(m, fs)
    BY <1>1, <2>1 DEF PageFaultOp, Op, ApplyOp
  <2> QED
    BY <1>1, <1>2, <1>7, <2>1, <2>2, SignalAllType DEF PageFault, m
<1>8. ASSUME NEW k \in Claims, AssertClaim(p, k[1], k[2], k[3]) PROVE Performed(p)
  <2> DEFINE op == AssertOp(k[1], k[2], k[3])
  <2>1. k[1] \in Files /\ k[2] \in Files /\ k[3] \in BOOLEAN
    BY ClaimsAssumption
  <2>2. op \in Op /\ ApplyOp(m, op) = AssertEvidence(m, k[1], k[2], k[3])
    BY <2>1 DEF AssertOp, Op, ApplyOp
  <2> HIDE DEF op
  <2>3. Perform(p, op, AssertEvidence(m, k[1], k[2], k[3]))
    BY <1>8 DEF AssertClaim, op, m
  <2> QED
    BY <1>1, <1>2, <2>1, <2>2, <2>3, AssertEvidenceType
<1>9. ASSUME NEW w \in Weights, AdoptTuned(p, w) PROVE Performed(p)
  <2>1. RetuneOp(w) \in Op /\ ApplyOp(m, RetuneOp(w)) = SetScoringWeights(m, w)
    BY DEF RetuneOp, Op, ApplyOp
  <2> QED
    BY <1>1, <1>2, <1>9, <2>1, SetScoringWeightsType DEF AdoptTuned, m
<1> QED
  BY <1>3, <1>4, <1>5, <1>6, <1>7, <1>8, <1>9

-----------------------------------------------------------------------------
(* A session alone, and what any step does to memories and timelines *)

\* Alone in its workspace, a session that is not stopped inside a checkpoint: only
\* then do the counts that open compares tell a stale sidecar from its snapshot.
Alone == /\ Writers = {} /\ ~StopInCheckpoint
         /\ \A p, q \in Sessions : p = q

\* The sidecar tells the story of the snapshot, except between the two writes, and
\* a running timeline that of the live memory.
Told ==
  /\ \A p \in Procs : pc[p] = "opening" => mem[p] = snapshot.mem
  /\ \A p \in Procs : pc[p] = "snapped" => snapshot.mem = Reloaded(mem[p])
  /\ (\A p \in Procs : pc[p] # "snapped") /\ ~sidecar.absent =>
       Alike(LastMem(sidecar.timeline), snapshot.mem)
  /\ \A p \in Sessions : Running(p) => Alike(LastMem(tl[p]), mem[p])

(* A new timeline replays to its baseline.                                   *)
LEMMA NewTimelineAlike ==
  ASSUME NEW m \in Mem
  PROVE  NewTimeline(m).base = m /\ Alike(LastMem(NewTimeline(m)), m)
<1> DEFINE t == NewTimeline(m)
<1>1. t.base = m /\ t.ops = << >>
  BY DEF NewTimeline
<1> HIDE DEF t
<1>2. << >> \in Seq(Op) /\ Len(<< >>) = 0
  BY EmptySeq
<1>3. Replays(m, << >>)[0] = m
  BY <1>2, ReplaysDefined
<1>4. LastMem(t) = m
  BY <1>1, <1>2, <1>3 DEF LastMem
<1> QED
  BY <1>1, <1>4, AlikeEquivalence DEF t

LEMMA InitCoherent == Init => CInv
<1> SUFFICES ASSUME Init PROVE CInv
  OBVIOUS
<1>1. /\ \A p \in Procs : mem[p] = EmptyMem
      /\ \A p \in Sessions : tl[p] = NewTimeline(EmptyMem)
  BY DEF Init, NoTimeline
<1>2. NewTimeline(EmptyMem).base = EmptyMem
  BY EmptyMemType, NewTimelineAlike
<1>3. CASE /\ snapshot = [mem |-> EmptyMem, stamp |-> NoSnapshot]
           /\ sidecar = NoSidecar
  <2>1. snapshot.mem = EmptyMem /\ sidecar.timeline.base = EmptyMem
    BY <1>2, <1>3 DEF NoSidecar, NoTimeline
  <2> QED
    BY <1>1, <1>2, <2>1, EmptyMemCoherent DEF CInv
<1>4. ASSUME NEW ops \in LegacyLogs,
             /\ snapshot = [mem |-> Reloaded(Replay(LegacyTimeline(ops))), stamp |-> 1]
             /\ sidecar = Stored(LegacyTimeline(ops))
      PROVE  CInv
  <2> DEFINE t == LegacyTimeline(ops)
  <2>1. ops \in Seq(Op)
    BY LegacyAssumption
  <2>2. t \in Timeline /\ t.base = EmptyMem /\ t.ops = ops
    BY <2>1, LegacyTimelineType DEF LegacyTimeline
  <2>3. snapshot.mem = Reloaded(Replay(t)) /\ sidecar.timeline = t
    BY <1>4 DEF Stored
  <2> HIDE DEF t
  <2>4. Len(ops) \in 0..Len(ops)
    BY <2>1, LenProperties
  <2>5. LastMem(t) \in Mem /\ Coherent(LastMem(t))
    BY <2>1, <2>2, <2>4, EmptyMemType, EmptyMemCoherent, ReplaysCoherent DEF LastMem
  <2>6. Replay(t) = Resolve(LastMem(t))
    BY <2>2, ReplayToSteps
  <2>7. Coherent(snapshot.mem)
    BY <2>3, <2>5, <2>6, ResolveType, ResolveCoherent, ReloadedCoherent
  <2> QED
    BY <1>1, <1>2, <2>2, <2>3, <2>7, EmptyMemCoherent DEF CInv
<1> QED
  BY <1>3, <1>4 DEF Init

LEMMA InitTold == Init => Told
<1> SUFFICES ASSUME Init PROVE Told
  OBVIOUS
<1>1. \A p \in Procs : pc[p] = Down
  BY DEF Init
<1>2. sidecar.absent \/ Alike(LastMem(sidecar.timeline), snapshot.mem)
  <2>1. CASE sidecar = NoSidecar
    BY <2>1 DEF NoSidecar
  <2>2. ASSUME NEW ops \in LegacyLogs,
               /\ snapshot = [mem |-> Reloaded(Replay(LegacyTimeline(ops))), stamp |-> 1]
               /\ sidecar = Stored(LegacyTimeline(ops))
        PROVE  Alike(LastMem(sidecar.timeline), snapshot.mem)
    <3> DEFINE t == LegacyTimeline(ops)
    <3>1. ops \in Seq(Op)
      BY LegacyAssumption
    <3>2. t \in Timeline /\ t.base = EmptyMem /\ t.ops = ops
      BY <3>1, LegacyTimelineType DEF LegacyTimeline
    <3>3. snapshot.mem = Reloaded(Replay(t)) /\ sidecar.timeline = t
      BY <2>2 DEF Stored
    <3> HIDE DEF t
    <3>4. Len(ops) \in 0..Len(ops)
      BY <3>1, LenProperties
    <3>5. LastMem(t) \in Mem
      BY <3>1, <3>2, <3>4, EmptyMemType, ReplaysDefined DEF LastMem
    <3>6. Replay(t) = Resolve(LastMem(t)) /\ Resolve(LastMem(t)) \in Mem
      BY <3>2, <3>5, ReplayToSteps, ResolveType
    <3>7. /\ Alike(LastMem(t), Resolve(LastMem(t)))
          /\ Alike(Resolve(LastMem(t)), Reloaded(Resolve(LastMem(t))))
      BY <3>5, <3>6, ResolveAlike
    <3>8. Alike(LastMem(t), Reloaded(Resolve(LastMem(t))))
      BY <3>7, AlikeEquivalence
    <3> QED
      BY <3>3, <3>6, <3>8
  <2> QED
    BY <2>1, <2>2 DEF Init
<1> QED
  BY <1>1, <1>2 DEF Told, Running, Down, Procs

(* The timeline a session opens with.                                        *)
LEMMA GuardedAlike ==
  ASSUME NEW t \in Timeline, NEW m \in Mem, Coherent(t.base), Coherent(m)
  PROVE  /\ Coherent(Guarded(t, m).base)
         /\ Alike(LastMem(t), m) => Alike(LastMem(Guarded(t, m)), m)
<1>1. CASE Guarded(t, m) = t
  BY <1>1
<1>2. CASE Guarded(t, m) = NewTimeline(m)
  BY <1>2, NewTimelineAlike
<1> QED
  BY <1>1, <1>2 DEF Guarded

LEMMA BackfilledAlike ==
  ASSUME NEW t \in Timeline, NEW u, u = IF t.chained THEN t ELSE Backfilled(t)
  PROVE  u.base = t.base /\ LastMem(u) = LastMem(t)
<1>1. u.base = t.base /\ u.ops = t.ops
  BY DEF Backfilled, Timeline
<1> QED
  BY <1>1 DEF LastMem


\* A step of process p that does what the replay of its new operations does, but
\* for what is left to resolve.
Advances(p) ==
  /\ pc[p] = "up" /\ UNCHANGED <<pc, snapshot, sidecar>>
  /\ \A q \in Procs : q # p => mem'[q] = mem[q]
  /\ \A q \in Sessions : q # p => tl'[q] = tl[q]
  /\ Coherent(mem'[p])
  /\ p \in Sessions => /\ Coherent(tl'[p].base)
                       /\ tl'[p].folded = tl[p].folded
                       /\ Alike(LastMem(tl[p]), mem[p]) => Alike(LastMem(tl'[p]), mem'[p])

LEMMA PerformedAdvances ==
  ASSUME IInv, CInv, NEW p \in Procs, Performed(p)
  PROVE  Advances(p)
<1>1. PICK op \in Op, m \in Mem : /\ Perform(p, op, m)
                                  /\ Coherent(m)
                                  /\ Alike(ApplyOp(mem[p], op), m)
  BY DEF Performed
<1>2. /\ pc[p] = "up" /\ UNCHANGED <<pc, seen, snapshot, sidecar>>
      /\ mem' = [mem EXCEPT ![p] = m]
      /\ p \in Sessions => tl' = [tl EXCEPT ![p] = Record(tl[p], op)]
      /\ p \notin Sessions => tl' = tl
  BY <1>1 DEF Perform
<1>3. mem'[p] = m /\ \A q \in Procs : q # p => mem'[q] = mem[q]
  BY <1>2 DEF IInv
<1>4. \A q \in Sessions : q # p => tl'[q] = tl[q]
  BY <1>2 DEF IInv
<1>5. ASSUME p \in Sessions
      PROVE  /\ Coherent(tl'[p].base) /\ tl'[p].folded = tl[p].folded
             /\ Alike(LastMem(tl[p]), mem[p]) => Alike(LastMem(tl'[p]), mem'[p])
  <2>1. tl'[p] = Record(tl[p], op) /\ GoodTimeline(tl[p]) /\ Coherent(tl[p].base)
    BY <1>2, <1>5 DEF IInv, CInv
  <2>2. mem[p] \in Mem /\ Coherent(mem[p])
    BY DEF IInv, CInv
  <2>3. /\ Record(tl[p], op).base = tl[p].base
        /\ Record(tl[p], op).folded = tl[p].folded
    BY <2>1, RecordAlike
  <2>4. Alike(LastMem(tl[p]), mem[p]) => Alike(LastMem(tl'[p]), ApplyOp(mem[p], op))
    BY <2>1, <2>2, RecordAlike
  <2> QED
    BY <1>1, <1>3, <2>1, <2>3, <2>4, AlikeEquivalence
<1> QED
  BY <1>1, <1>2, <1>3, <1>4, <1>5 DEF Advances

LEMMA BatchAdvances ==
  ASSUME IInv, CInv, NEW p \in Procs, NEW batch \in Batches, IngestBatch(p, batch)
  PROVE  Advances(p)
<1> DEFINE all == IngestAll(mem[p], batch)
<1>1. /\ p \in Sessions /\ pc[p] = "up" /\ UNCHANGED <<pc, seen, snapshot, sidecar>>
      /\ tl' = [tl EXCEPT ![p] = RecordAll(tl[p], batch)]
      /\ mem' = [mem EXCEPT ![p] = Resolve(all)]
  BY DEF IngestBatch
<1>2. batch \in Seq(Files \X Contents)
  BY BatchesAssumption
<1>3. /\ GoodTimeline(tl[p]) /\ Coherent(tl[p].base)
      /\ mem[p] \in Mem /\ Coherent(mem[p])
  BY <1>1 DEF IInv, CInv
<1>4. /\ RecordAll(tl[p], batch).base = tl[p].base
      /\ RecordAll(tl[p], batch).folded = tl[p].folded
      /\ all \in Mem /\ Coherent(all)
      /\ Alike(LastMem(tl[p]), mem[p]) => Alike(LastMem(RecordAll(tl[p], batch)), all)
  BY <1>2, <1>3, RecordAllAlike, IngestAllType
<1> HIDE DEF all
<1>5. Coherent(Resolve(all)) /\ Alike(all, Resolve(all))
  BY <1>4, ResolveCoherent, ResolveAlike
<1>6. /\ mem'[p] = Resolve(all) /\ \A q \in Procs : q # p => mem'[q] = mem[q]
      /\ tl'[p] = RecordAll(tl[p], batch)
      /\ \A q \in Sessions : q # p => tl'[q] = tl[q]
  BY <1>1 DEF IInv
<1>7. Alike(LastMem(tl[p]), mem[p]) => Alike(LastMem(tl'[p]), mem'[p])
  BY <1>4, <1>5, <1>6, AlikeEquivalence
<1> QED
  BY <1>1, <1>3, <1>4, <1>5, <1>6, <1>7 DEF Advances

(* What a step can be.                                                       *)
LEMMA StepCases ==
  ASSUME IInv, CInv, Next
  PROVE  \E p \in Procs :
           \/ Advances(p)
           \/ OpenMemory(p) \/ OpenTimeline(p)
           \/ CheckpointSnapshot(p) \/ CheckpointSidecar(p)
           \/ SidecarFails(p) \/ Stop(p)
<1>1. ASSUME NEW p \in Procs,
             \/ \E f \in Files, c \in Contents : Ingest(p, f, c)
             \/ \E f \in Files : Failure(p, f)
             \/ \E f \in Files, c \in Contents : Sync(p, f, c)
             \/ Recall(p)
             \/ \E fs \in FaultLists : PageFault(p, fs)
             \/ \E k \in Claims : AssertClaim(p, k[1], k[2], k[3])
             \/ \E w \in Weights : AdoptTuned(p, w)
      PROVE  Advances(p)
  BY <1>1, OperationsPerformed, PerformedAdvances
<1> QED
  BY <1>1, BatchAdvances DEF Next

(* How the first write of a checkpoint leaves the timelines.                 *)
LEMMA CheckpointTimelines ==
  ASSUME IInv, CInv, NEW p \in Procs, CheckpointSnapshot(p), NEW q \in Sessions
  PROVE  /\ Coherent(tl'[q].base)
         /\ Alike(LastMem(tl'[q]), LastMem(tl[q]))
         /\ tl'[q].folded > tl[q].folded =>
              /\ Total(tl'[q]) = Total(tl[q])
              /\ \A step \in tl'[q].folded..Total(tl[q]) :
                   /\ Given(ReplayTo(tl'[q], step)) = Given(ReplayTo(tl[q], step))
                   /\ CallFree(tl[q]) =>
                        SameKnowledge(ReplayTo(tl'[q], step), ReplayTo(tl[q], step))
<1>1. GoodTimeline(tl[q]) /\ Coherent(tl[q].base) /\ tl[q].folded \in Nat
  BY DEF IInv, CInv, GoodTimeline, Timeline
<1>2. CASE tl'[q] = tl[q]
  BY <1>1, <1>2, AlikeEquivalence
<1>3. CASE tl'[q] = CompactIfNeeded(tl[q])
  BY <1>1, <1>3, CompactIfNeededAlike
<1> QED
  BY <1>2, <1>3 DEF CheckpointSnapshot, IInv

LEMMA NextCoherent == IInv /\ CInv /\ [Next]_vars => CInv'
<1> SUFFICES ASSUME IInv, CInv, [Next]_vars PROVE CInv'
  OBVIOUS
<1>0. /\ \A p \in Procs : mem[p] \in Mem /\ Coherent(mem[p])
      /\ snapshot.mem \in Mem /\ Coherent(snapshot.mem)
      /\ \A p \in Sessions : tl[p] \in Timeline /\ Coherent(tl[p].base)
      /\ sidecar.timeline \in Timeline /\ Coherent(sidecar.timeline.base)
  BY DEF IInv, CInv, GoodSidecar
<1>1. ASSUME NEW p \in Procs, Advances(p) PROVE CInv'
  <2>1. \A q \in Procs : Coherent(mem'[q])
    BY <1>0, <1>1 DEF Advances
  <2>2. \A q \in Sessions : Coherent(tl'[q].base)
    BY <1>0, <1>1 DEF Advances
  <2> QED
    BY <1>0, <1>1, <2>1, <2>2 DEF Advances, CInv
<1>2. ASSUME NEW p \in Procs, OpenMemory(p) PROVE CInv'
  <2>1. mem' = [mem EXCEPT ![p] = snapshot.mem] /\ UNCHANGED <<tl, snapshot, sidecar>>
    BY <1>2 DEF OpenMemory
  <2>2. \A q \in Procs : Coherent(mem'[q])
    BY <1>0, <2>1 DEF IInv
  <2> QED
    BY <1>0, <2>1, <2>2 DEF CInv
<1>3. ASSUME NEW p \in Procs, OpenTimeline(p) PROVE CInv'
  <2> DEFINE t == sidecar.timeline
             u == IF t.chained THEN t ELSE Backfilled(t)
  <2>1. UNCHANGED <<mem, snapshot, sidecar>>
    BY <1>3 DEF OpenTimeline
  <2>2. u \in Timeline /\ u.base = t.base
    <3>1. GoodTimeline(u)
      BY BackfilledGood DEF IInv, GoodSidecar
    <3> QED
      BY <1>0, <3>1, BackfilledAlike DEF GoodTimeline
  <2>3. Coherent(Guarded(u, mem[p]).base)
    BY <1>0, <2>2, GuardedAlike
  <2>4. Coherent(NewTimeline(mem[p]).base)
    BY <1>0, NewTimelineAlike
  <2>5. \/ tl' = [tl EXCEPT ![p] = NewTimeline(mem[p])]
        \/ tl' = [tl EXCEPT ![p] = Guarded(u, mem[p])]
        \/ tl' = tl
    BY <1>3 DEF OpenTimeline
  <2> HIDE DEF u, t
  <2>6. \A q \in Sessions : Coherent(tl'[q].base)
    BY <1>0, <2>3, <2>4, <2>5 DEF IInv
  <2> QED
    BY <1>0, <2>1, <2>6 DEF CInv
<1>4. ASSUME NEW p \in Procs, CheckpointSnapshot(p) PROVE CInv'
  <2>1. \A q \in Sessions : Coherent(tl'[q].base)
    BY <1>4, CheckpointTimelines
  <2>2. mem' = mem /\ sidecar' = sidecar
    BY <1>4 DEF CheckpointSnapshot
  <2>3. snapshot'.mem = snapshot.mem \/ snapshot'.mem = Reloaded(mem[p])
    BY <1>4 DEF CheckpointSnapshot
  <2>4. Coherent(snapshot'.mem)
    BY <1>0, <2>3, ReloadedCoherent
  <2> QED
    BY <1>0, <2>1, <2>2, <2>4 DEF CInv
<1>5. ASSUME NEW p \in Procs, CheckpointSidecar(p) PROVE CInv'
  <2>1. sidecar' = Stored(tl[p]) /\ UNCHANGED <<mem, tl, snapshot>> /\ p \in Sessions
    BY <1>5 DEF CheckpointSidecar, IInv
  <2>2. sidecar'.timeline = tl[p]
    BY <2>1 DEF Stored
  <2> QED
    BY <1>0, <2>1, <2>2 DEF CInv
<1>6. ASSUME NEW p \in Procs, SidecarFails(p) PROVE CInv'
  BY <1>6 DEF SidecarFails, CInv
<1>7. ASSUME NEW p \in Procs, Stop(p) PROVE CInv'
  <2>1. /\ mem' = [mem EXCEPT ![p] = EmptyMem] /\ UNCHANGED <<snapshot, sidecar>>
        /\ tl' = tl \/ tl' = [tl EXCEPT ![p] = NoTimeline]
    BY <1>7 DEF Stop
  <2>2. NoTimeline.base = EmptyMem
    BY EmptyMemType, NewTimelineAlike DEF NoTimeline
  <2>3. \A q \in Procs : Coherent(mem'[q])
    BY <1>0, <2>1, EmptyMemCoherent DEF IInv
  <2>4. \A q \in Sessions : Coherent(tl'[q].base)
    BY <1>0, <2>1, <2>2, EmptyMemCoherent DEF IInv
  <2> QED
    BY <1>0, <2>1, <2>3, <2>4 DEF CInv
<1>8. CASE UNCHANGED vars
  BY <1>8 DEF vars, CInv
<1> QED
  BY <1>1, <1>2, <1>3, <1>4, <1>5, <1>6, <1>7, <1>8, StepCases

LEMMA CoherenceInvariant == Spec => [](IInv /\ CInv)
  BY InitEstablishes, StepPreserves, InitCoherent, NextCoherent, PTL DEF Spec

(* Alone, the sidecar and the snapshot never tell different stories at a     *)
(* reopen, and a session never a different one than its log.                 *)
LEMMA NextTold ==
  ASSUME Alone, IInv, CInv, Told, [Next]_vars
  PROVE  Told'
<1>0. /\ \A p \in Procs : mem[p] \in Mem /\ Coherent(mem[p])
      /\ snapshot.mem \in Mem /\ Coherent(snapshot.mem)
      /\ \A p \in Sessions : tl[p] \in Timeline /\ Coherent(tl[p].base)
      /\ sidecar.timeline \in Timeline /\ Coherent(sidecar.timeline.base)
  BY DEF IInv, CInv, GoodSidecar
<1>a. Procs = Sessions /\ ~StopInCheckpoint /\ \A p, q \in Procs : p = q
  BY DEF Alone, Procs
<1>1. ASSUME NEW p \in Procs, Advances(p) PROVE Told'
  BY <1>a, <1>1 DEF Advances, Told, Running
<1>2. ASSUME NEW p \in Procs, OpenMemory(p) PROVE Told'
  <2>1. /\ pc[p] = Down /\ mem'[p] = snapshot.mem /\ pc'[p] = "opening"
        /\ UNCHANGED <<tl, snapshot, sidecar>>
    BY <1>a, <1>2 DEF OpenMemory, IInv
  <2> QED
    BY <1>a, <2>1 DEF Told, Running, Down
<1>3. ASSUME NEW p \in Procs, OpenTimeline(p) PROVE Told'
  <2> DEFINE t == sidecar.timeline
             u == IF t.chained THEN t ELSE Backfilled(t)
  <2>1. UNCHANGED <<mem, snapshot, sidecar>> /\ pc[p] = "opening"
    BY <1>3 DEF OpenTimeline
  <2>2. GoodTimeline(u)
    BY BackfilledGood DEF IInv, GoodSidecar
  <2>3. u \in Timeline /\ u.base = t.base /\ LastMem(u) = LastMem(t)
    BY <1>0, <2>2, BackfilledAlike DEF GoodTimeline
  <2>4. t.chained => Verifies(t)
    BY DEF IInv, GoodSidecar, GoodTimeline
  <2>5. /\ pc'[p] = "up"
        /\ sidecar.absent => tl'[p] = NewTimeline(mem[p])
        /\ ~sidecar.absent => tl'[p] = Guarded(u, mem[p])
    BY <1>3, <1>a, <2>4 DEF OpenTimeline, IInv
  <2> HIDE DEF u, t
  <2>6. mem[p] = snapshot.mem
    BY <2>1 DEF Told
  <2>7. \A q \in Procs : pc[q] # "snapped"
    BY <1>a, <2>1
  <2>8. Alike(LastMem(tl'[p]), mem[p])
    <3>1. CASE sidecar.absent
      BY <1>0, <2>5, <3>1, NewTimelineAlike
    <3>2. CASE ~sidecar.absent
      <4>1. Alike(LastMem(u), mem[p])
        BY <2>3, <2>6, <2>7, <3>2 DEF Told, t
      <4> QED
        BY <1>0, <2>3, <2>5, <3>2, <4>1, GuardedAlike DEF t
    <3> QED
      BY <3>1, <3>2
  <2> QED
    BY <1>a, <2>1, <2>5, <2>6, <2>7, <2>8 DEF Told, Running
<1>4. ASSUME NEW p \in Procs, CheckpointSnapshot(p) PROVE Told'
  <2>1. /\ pc[p] = "up" /\ mem' = mem /\ sidecar' = sidecar
        /\ \/ /\ snapshot'.mem = Reloaded(mem[p]) /\ pc'[p] = "snapped"
           \/ UNCHANGED <<snapshot, pc>>
    BY <1>a, <1>4 DEF CheckpointSnapshot, IInv
  <2>2. Alike(LastMem(tl'[p]), LastMem(tl[p]))
    BY <1>a, <1>4, CheckpointTimelines
  <2>3. Alike(LastMem(tl[p]), mem[p])
    BY <1>a, <2>1 DEF Told, Running
  <2>4. Alike(LastMem(tl'[p]), mem'[p])
    BY <2>1, <2>2, <2>3, AlikeEquivalence
  <2> QED
    BY <1>a, <2>1, <2>4 DEF Told, Running
<1>5. ASSUME NEW p \in Procs, CheckpointSidecar(p) PROVE Told'
  <2>1. /\ pc[p] = "snapped" /\ pc'[p] = "up" /\ UNCHANGED <<mem, tl, snapshot>>
        /\ sidecar' = Stored(tl[p])
    BY <1>a, <1>5 DEF CheckpointSidecar, IInv
  <2>2. sidecar'.timeline = tl[p]
    BY <2>1 DEF Stored
  <2>3. Alike(LastMem(tl[p]), mem[p]) /\ snapshot.mem = Reloaded(mem[p])
    BY <1>a, <2>1 DEF Told, Running
  <2>4. Alike(LastMem(sidecar'.timeline), snapshot'.mem)
    BY <1>0, <2>1, <2>2, <2>3, ResolveAlike, AlikeEquivalence
  <2> QED
    BY <1>a, <2>1, <2>3, <2>4 DEF Told, Running
<1>6. ASSUME NEW p \in Procs, SidecarFails(p) PROVE Told'
  BY <1>a, <1>6 DEF SidecarFails
<1>7. ASSUME NEW p \in Procs, Stop(p) PROVE Told'
  <2>1. pc[p] # "snapped" /\ pc'[p] = Down /\ UNCHANGED <<snapshot, sidecar>>
    BY <1>a, <1>7 DEF Stop, IInv, Down
  <2> QED
    BY <1>a, <2>1 DEF Told, Running, Down
<1>8. CASE UNCHANGED vars
  BY <1>8 DEF vars, Told, Running
<1> QED
  BY <1>1, <1>2, <1>3, <1>4, <1>5, <1>6, <1>7, <1>8, StepCases

(* Told, and coherent and resolved memories, make replay equal to live.      *)
LEMMA ToldReplays ==
  ASSUME IInv, CInv, Told
  PROVE  ReplayRestoresSources
<1> SUFFICES ASSUME NEW p \in Sessions, Running(p)
             PROVE  LET replayed == Replay(tl[p]) IN
                    /\ Given(replayed) = Given(mem[p])
                    /\ Settled(replayed) /\ Settled(mem[p]) => replayed.calls = mem[p].calls
                    /\ CallFree(tl[p]) => SameKnowledge(replayed, mem[p])
  BY DEF ReplayRestoresSources
<1> DEFINE t == tl[p]
           m == mem[p]
           last == LastMem(t)
           r == Replay(t)
<1>1. /\ t \in Timeline /\ Coherent(t.base) /\ p \in Procs
      /\ m \in Mem /\ ~m.dirty /\ Coherent(m) /\ Alike(last, m)
  BY DEF IInv, CInv, Told, Procs
<1>2. t.base \in Mem /\ t.ops \in Seq(Op) /\ Len(t.ops) \in 0..Len(t.ops)
  BY <1>1, LenProperties DEF Timeline
<1>3. last \in Mem /\ Coherent(last) /\ (CallFree(t) => Callless(last))
  BY <1>1, <1>2, ReplaysCoherent, ReplaysCallless DEF LastMem
<1>4. r = Resolve(last)
  BY <1>1, ReplayToSteps
<1> HIDE DEF t, m, last, r
<1>5. r \in Mem /\ ~r.dirty /\ Coherent(r) /\ Alike(r, last)
  BY <1>3, <1>4, ResolveType, ResolveCoherent, ResolveAlike, AlikeEquivalence
<1>6. Alike(r, m)
  BY <1>1, <1>5, AlikeEquivalence
<1>7. ASSUME Settled(r), Settled(m) PROVE r.calls = m.calls
  <2>1. Calling(r) = Calling(m) /\ Known(r) = Known(m)
    BY <1>6, GivenFields DEF Alike
  <2>2. /\ r.pending = Calling(r) /\ r.stubs = {}
        /\ m.pending = Calling(m) /\ m.stubs = {}
    BY <1>7 DEF Settled, Calling
  <2>3. \A f : Resolved(r, f) = Resolved(m, f)
    BY <2>1 DEF Resolved
  <2>4. UNION {Resolved(r, f) : f \in r.pending} = UNION {Resolved(m, f) : f \in m.pending}
    BY <2>1, <2>2, <2>3
  <2>5. ASSUME NEW k, Coherent(k), ~k.dirty, k.stubs = {}, k.pending = Calling(k)
        PROVE  k.calls = UNION {Resolved(k, f) : f \in k.pending}
    <3>1. {e \in k.calls : e[1] \in k.pending} = k.calls
      BY <2>5 DEF Coherent
    <3> QED
      BY <2>5, <3>1 DEF Coherent
  <2>6. r.calls = UNION {Resolved(r, f) : f \in r.pending}
    BY <1>5, <2>2, <2>5
  <2>7. m.calls = UNION {Resolved(m, f) : f \in m.pending}
    BY <1>1, <2>2, <2>5
  <2> QED
    BY <2>4, <2>6, <2>7
<1>8. CallFree(t) => SameKnowledge(r, m)
  <2>1. CallFree(t) => Callless(r)
    BY <1>3, <1>5, GivenFields DEF Alike
  <2> QED
    BY <1>1, <1>5, <1>6, <2>1, AlikeKnowledge
<1>9. Given(r) = Given(m)
  BY <1>6 DEF Alike
<1> QED
  BY <1>7, <1>8, <1>9 DEF r, t, m

-----------------------------------------------------------------------------
(* Theorems *)

(* Every variable keeps its type; every live memory is resolved, and every   *)
(* snapshot is free of pending call sites, after any history of opens,       *)
(* operations, checkpoints, compactions, refused writes and stops.           *)
THEOREM TypeCorrect == Spec => []TypeOK
  BY InductiveInvariant, IInvImplies, PTL

(* The hash chain of every running timeline and of the sidecar on disk       *)
(* verifies link by link, wherever the writers stopped and whatever the      *)
(* compaction thresholds are.                                                *)
THEOREM ChainAlwaysVerifies == Spec => []ChainVerifies
  BY InductiveInvariant, IInvImplies, PTL

(* No sequence of legal calls, stops and concurrent writers makes open       *)
(* answer TimelineTampered.                                                  *)
THEOREM SessionNeverRefused == Spec => []NeverRefused
  BY InductiveInvariant, IInvImplies, PTL

(* The head stands for the whole history since GENESIS, folded operations    *)
(* included.                                                                 *)
THEOREM HeadAlwaysCommits == Spec => []HeadCommits
  BY InductiveInvariant, IInvImplies, PTL

(* While a session runs, a step leaves its head alone or extends it.         *)
THEOREM HeadIsAppendOnly == Spec => HeadOnlyGrows
<1> DEFINE Grows == \A p \in Sessions : Running(p) /\ Running(p)' =>
                      Extends(TimelineHead(tl[p])', TimelineHead(tl[p]))
<1>1. ASSUME IInv, [Next]_vars PROVE Grows
  <2> SUFFICES ASSUME NEW q \in Sessions, Running(q), Running(q)'
               PROVE  Extends(TimelineHead(tl'[q]), TimelineHead(tl[q]))
    BY DEF TimelineHead
  <2>1. GoodTimeline(tl[q]) /\ tl \in [Sessions -> Timeline]
    BY <1>1 DEF IInv
  <2>2. /\ tl'[q] = tl[q] => Extends(TimelineHead(tl'[q]), TimelineHead(tl[q]))
        /\ TimelineHead(tl'[q]) = TimelineHead(tl[q])
             => Extends(TimelineHead(tl'[q]), TimelineHead(tl[q]))
    <3>1. Len(TimelineHead(tl[q])) \in Nat
      BY <2>1 DEF GoodTimeline, CommitsToAll, Total, Timeline
    <3>2. QED
      BY <3>1 DEF Extends
  <2>3. ASSUME NEW op \in Op, tl'[q] = Record(tl[q], op)
        PROVE  Extends(TimelineHead(tl'[q]), TimelineHead(tl[q]))
    BY <2>1, <2>3, RecordGood
  <2>4. ASSUME NEW p \in Procs, NEW op \in Op, NEW m, Perform(p, op, m)
        PROVE  Extends(TimelineHead(tl'[q]), TimelineHead(tl[q]))
    <3>1. tl'[q] = tl[q] \/ tl'[q] = Record(tl[q], op)
      BY <2>1, <2>4 DEF Perform
    <3>2. QED
      BY <2>2, <2>3, <3>1
  <2>5. ASSUME NEW p \in Procs, OpenMemory(p) PROVE tl'[q] = tl[q]
    BY <2>5 DEF OpenMemory
  <2>6. ASSUME NEW p \in Procs, OpenTimeline(p) PROVE tl'[q] = tl[q]
    <3>1. p # q
      BY <2>6 DEF OpenTimeline, Running
    <3>2. QED
      BY <2>1, <2>6, <3>1 DEF OpenTimeline
  <2>7. ASSUME NEW p \in Procs, CheckpointSnapshot(p)
        PROVE  Extends(TimelineHead(tl'[q]), TimelineHead(tl[q]))
    <3>1. tl'[q] = tl[q] \/ tl'[q] = CompactIfNeeded(tl[q])
      BY <2>1, <2>7 DEF CheckpointSnapshot
    <3>2. QED
      BY <2>1, <2>2, <3>1, CompactIfNeededGood
  <2>8. ASSUME NEW p \in Procs, Stop(p) PROVE tl'[q] = tl[q]
    <3>1. p # q
      BY <2>8, <1>1 DEF Stop, Running, Down, IInv
    <3>2. QED
      BY <2>1, <2>8, <3>1 DEF Stop
  <2>9. ASSUME NEW p \in Procs, NEW f \in Files, NEW c \in Contents, Ingest(p, f, c)
        PROVE  Extends(TimelineHead(tl'[q]), TimelineHead(tl[q]))
    BY <2>4, <2>9 DEF Ingest, IngestOp, Op
  <2>10. ASSUME NEW p \in Procs, NEW f \in Files, Failure(p, f)
         PROVE  Extends(TimelineHead(tl'[q]), TimelineHead(tl[q]))
    BY <2>4, <2>10 DEF Failure, FailureOp, Op
  <2>11. ASSUME NEW p \in Procs, Recall(p)
         PROVE  Extends(TimelineHead(tl'[q]), TimelineHead(tl[q]))
    BY <2>4, <2>11 DEF Recall, RecallOp, Op
  <2>12. ASSUME NEW p \in Procs, CheckpointSidecar(p) \/ SidecarFails(p)
         PROVE  tl'[q] = tl[q]
    BY <2>12 DEF CheckpointSidecar, SidecarFails
  <2>13. ASSUME NEW p \in Procs, NEW f \in Files, NEW c \in Contents, Sync(p, f, c)
         PROVE  Extends(TimelineHead(tl'[q]), TimelineHead(tl[q]))
    BY <2>9, <2>13 DEF Sync
  <2>14. ASSUME NEW p \in Procs, NEW fs \in FaultLists, PageFault(p, fs)
         PROVE  Extends(TimelineHead(tl'[q]), TimelineHead(tl[q]))
    BY <2>4, <2>14, FaultListsAssumption DEF PageFault, PageFaultOp, Op
  <2>15. ASSUME NEW p \in Procs, NEW k \in Claims, AssertClaim(p, k[1], k[2], k[3])
         PROVE  Extends(TimelineHead(tl'[q]), TimelineHead(tl[q]))
    BY <2>4, <2>15, ClaimsAssumption DEF AssertClaim, AssertOp, Op
  <2>16. ASSUME NEW p \in Procs, NEW w \in Weights, AdoptTuned(p, w)
         PROVE  Extends(TimelineHead(tl'[q]), TimelineHead(tl[q]))
    BY <2>4, <2>16 DEF AdoptTuned, RetuneOp, Op
  <2>17. ASSUME NEW p \in Procs, NEW batch \in Batches, IngestBatch(p, batch)
         PROVE  Extends(TimelineHead(tl'[q]), TimelineHead(tl[q]))
    <3>1. batch \in Seq(Files \X Contents)
      BY BatchesAssumption
    <3>2. tl'[q] = tl[q] \/ tl'[q] = RecordAll(tl[q], batch)
      BY <2>1, <2>17 DEF IngestBatch
    <3>3. QED
      BY <2>1, <2>2, <3>1, <3>2, RecordAllGood
  <2>18. CASE UNCHANGED vars
    BY <2>2, <2>18 DEF vars
  <2>19. QED
    BY <1>1, <2>2, <2>5, <2>6, <2>7, <2>8, <2>9, <2>10, <2>11, <2>12, <2>13, <2>14,
       <2>15, <2>16, <2>17, <2>18 DEF Next
<1>2. IInv /\ [Next]_vars => [Grows]_vars
  BY <1>1
<1>3. HeadOnlyGrows <=> [][Grows]_vars
  BY DEF HeadOnlyGrows
<1>4. QED
  BY <1>2, <1>3, InductiveInvariant, PTL DEF Spec

(* Compaction never changes what a step at or above the floor replays to,    *)
(* for any thresholds, any sessions and writers, and wherever they stop.     *)
THEOREM CompactionKeepsSteps == Spec => CompactionIndexStable
<1> DEFINE Stable == \A p \in Sessions : Running(p) /\ tl'[p].folded > tl[p].folded =>
                       /\ Total(tl'[p]) = Total(tl[p])
                       /\ \A step \in tl'[p].folded..Total(tl[p]) :
                            LET new == ReplayTo(tl'[p], step)
                                old == ReplayTo(tl[p], step)
                            IN  Given(new) = Given(old) /\ (CallFree(tl[p]) => SameKnowledge(new, old))
<1>1. ASSUME IInv, CInv, [Next]_vars PROVE Stable
  <2> SUFFICES ASSUME NEW q \in Sessions, Running(q), tl'[q].folded > tl[q].folded
               PROVE  /\ Total(tl'[q]) = Total(tl[q])
                      /\ \A step \in tl'[q].folded..Total(tl[q]) :
                           /\ Given(ReplayTo(tl'[q], step)) = Given(ReplayTo(tl[q], step))
                           /\ CallFree(tl[q]) =>
                                SameKnowledge(ReplayTo(tl'[q], step), ReplayTo(tl[q], step))
    OBVIOUS
  <2>1. tl[q].folded \in Nat
    BY <1>1 DEF IInv, Timeline
  <2>2. tl'[q].folded # tl[q].folded
    BY <2>1
  <2>3. ASSUME NEW p \in Procs, CheckpointSnapshot(p)
        PROVE  /\ Total(tl'[q]) = Total(tl[q])
               /\ \A step \in tl'[q].folded..Total(tl[q]) :
                    /\ Given(ReplayTo(tl'[q], step)) = Given(ReplayTo(tl[q], step))
                    /\ CallFree(tl[q]) =>
                         SameKnowledge(ReplayTo(tl'[q], step), ReplayTo(tl[q], step))
    BY <1>1, <2>3, CheckpointTimelines
  <2>4. ASSUME NEW p \in Procs, Advances(p) PROVE FALSE
    BY <2>2, <2>4 DEF Advances
  <2>5. ASSUME NEW p \in Procs, OpenTimeline(p) PROVE FALSE
    <3>1. p # q
      BY <2>5 DEF OpenTimeline, Running
    <3>2. tl'[q] = tl[q]
      BY <1>1, <2>5, <3>1 DEF OpenTimeline, IInv
    <3> QED
      BY <2>2, <3>2
  <2>6. ASSUME NEW p \in Procs, Stop(p) PROVE FALSE
    <3>1. tl'[q] = tl[q] \/ tl'[q] = NoTimeline
      BY <1>1, <2>6 DEF Stop, IInv
    <3>2. NoTimeline.folded = 0
      BY DEF NoTimeline, NewTimeline
    <3> QED
      BY <2>1, <2>2, <3>1, <3>2
  <2>7. ~UNCHANGED tl
    BY <2>2
  <2>8. ASSUME NEW p \in Procs,
               OpenMemory(p) \/ CheckpointSidecar(p) \/ SidecarFails(p)
        PROVE  FALSE
    BY <2>7, <2>8 DEF OpenMemory, CheckpointSidecar, SidecarFails
  <2>9. Next
    BY <1>1, <2>7 DEF vars
  <2> QED
    BY <1>1, <2>3, <2>4, <2>5, <2>6, <2>8, <2>9, StepCases
<1>2. IInv /\ CInv /\ [Next]_vars => [Stable]_vars
  BY <1>1
<1>3. CompactionIndexStable <=> [][Stable]_vars
  BY DEF CompactionIndexStable
<1>4. QED
  BY <1>2, <1>3, CoherenceInvariant, PTL DEF Spec

(* Alone in its workspace and not stopped inside a checkpoint, a session     *)
(* that replays its log gets its contents, assertions and weights back, and  *)
(* its links and pressure where the model says they can be: through every    *)
(* operation, compaction, exit and reopen.                                   *)
THEOREM ReplayIsLive == Alone => (Spec => []ReplayRestoresSources)
<1> SUFFICES ASSUME Alone PROVE Spec => []ReplayRestoresSources
  OBVIOUS
<1>1. Init => IInv /\ CInv /\ Told
  BY InitEstablishes, InitCoherent, InitTold
<1>2. IInv /\ CInv /\ Told /\ [Next]_vars => IInv' /\ CInv' /\ Told'
  BY StepPreserves, NextCoherent, NextTold
<1>3. IInv /\ CInv /\ Told => ReplayRestoresSources
  BY ToldReplays
<1> QED
  BY <1>1, <1>2, <1>3, PTL DEF Spec

=============================================================================

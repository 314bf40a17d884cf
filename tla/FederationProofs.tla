-------------------------- MODULE FederationProofs --------------------------
(***************************************************************************)
(* Proofs about Federation, for any agents, ids, operations, builds, bounds*)
(* and compaction thresholds, and any bundles imported in any order: what  *)
(* is known of an agent is the beginning of one log it exported, a pinned  *)
(* log grows only by what its key signed, an agent is called an            *)
(* equivocator only for a fork, and the same heads mean the same view.     *)
(***************************************************************************)
EXTENDS Federation, SequenceTheorems, TLAPS

-----------------------------------------------------------------------------
(* Histories                                                                 *)

Steps == [seq : Nat, op : Ops]
Histories == Seq(Steps)
Logs == [ops : Seq(Ops), folded : Nat, chain : Seq(Histories), anchor : Histories]
KnownLogs == [ops : Seq(Ops), chain : Seq(Histories)]

\* l is the history h up to its step n.
IsUpto(l, h, n) ==
  l \in Histories /\ Len(l) = n /\ \A j \in 1..n : l[j] = h[j]

\* The chain has a link for every step of h after first, and anchor is the one
\* before them.
Chained(h, first, anchor, chain) ==
  /\ first + Len(chain) <= Len(h)
  /\ IsUpto(anchor, h, first)
  /\ \A i \in 1..Len(chain) : IsUpto(chain[i], h, first + i)

\* And the operations are those of the steps.
Lists(h, first, ops, chain) ==
  /\ Len(ops) = Len(chain)
  /\ \A i \in 1..Len(ops) : ops[i] = h[first + i].op

Counted(h) == h \in Histories /\ \A i \in 1..Len(h) : h[i].seq = i - 1

\* A log commits to its whole history.
GoodLog(t) ==
  /\ t \in Logs
  /\ Counted(TimelineHead(t)) /\ Len(TimelineHead(t)) = Total(t)
  /\ Chained(TimelineHead(t), t.folded, t.anchor, t.chain)
  /\ Lists(TimelineHead(t), t.folded, t.ops, t.chain)

\* The log known of an agent is the beginning of h.
Begins(k, h) ==
  /\ k \in KnownLogs
  /\ Chained(h, 0, Genesis, k.chain)
  /\ Lists(h, 0, k.ops, k.chain)

(* Two histories that are the same up to a step are.                         *)
LEMMA UptoSame ==
  ASSUME NEW l, NEW m, NEW h, NEW n \in Nat, IsUpto(l, h, n), IsUpto(m, h, n)
  PROVE  l = m
<1>1. /\ l \in Seq(Steps) /\ m \in Seq(Steps) /\ Len(l) = Len(m)
      /\ \A i \in 1..Len(l) : l[i] = m[i]
  BY DEF IsUpto, Histories
<1>2. QED
  BY <1>1, SeqEqual

(* A history is itself up to its end.                                        *)
LEMMA UptoEnd ==
  ASSUME NEW h \in Histories
  PROVE  IsUpto(h, h, Len(h))
BY DEF IsUpto

(* The parts of a good log.                                                  *)
LEMMA GoodLogIs ==
  ASSUME NEW t, GoodLog(t)
  PROVE  /\ t.ops \in Seq(Ops) /\ t.chain \in Seq(Histories) /\ t.anchor \in Histories
         /\ t.folded \in Nat /\ Len(t.ops) \in Nat /\ Len(t.chain) = Len(t.ops)
         /\ Total(t) = t.folded + Len(t.ops) /\ Total(t) \in Nat
         /\ TimelineHead(t) \in Histories
         /\ t = [ops |-> t.ops, folded |-> t.folded, chain |-> t.chain, anchor |-> t.anchor]
BY DEF GoodLog, Logs, Lists, Total, Counted

(* The log of a fresh workspace, or of a reset.                              *)
LEMMA NewLogGood == GoodLog(NewLog) /\ TimelineHead(NewLog) = << >>
<1>1. /\ NewLog.ops = << >> /\ NewLog.folded = 0 /\ NewLog.chain = << >>
      /\ NewLog.anchor = << >>
  BY DEF NewLog, Genesis
<1>2. NewLog \in Logs
  BY DEF NewLog, Logs, Genesis, Histories
<1>3. TimelineHead(NewLog) = << >> /\ Total(NewLog) = 0
  BY <1>1 DEF TimelineHead, Total
<1>4. << >> \in Histories /\ Len(<< >>) = 0
  BY DEF Histories
<1>5. QED
  BY <1>1, <1>2, <1>3, <1>4 DEF GoodLog, Counted, Chained, Lists, IsUpto

(* Recording an operation adds it to the history.                            *)
LEMMA RecordGood ==
  ASSUME NEW t, GoodLog(t), NEW x \in Ops
  PROVE  GoodLog(Record(t, x))
<1> DEFINE h == TimelineHead(t)
           step == [seq |-> Total(t), op |-> x]
           g == Append(h, step)
           u == Record(t, x)
           n == Len(t.ops)
<1>1. /\ t.ops \in Seq(Ops) /\ t.chain \in Seq(Histories) /\ t.anchor \in Histories
      /\ t.folded \in Nat /\ n \in Nat /\ Len(t.chain) = n
      /\ Total(t) = t.folded + n /\ Total(t) \in Nat
      /\ h \in Histories /\ Counted(h) /\ Len(h) = Total(t)
  BY GoodLogIs DEF GoodLog
<1>0. t = [ops |-> t.ops, folded |-> t.folded, chain |-> t.chain, anchor |-> t.anchor]
  BY GoodLogIs
<1>2. /\ g \in Histories /\ Len(g) = Total(t) + 1 /\ g[Total(t) + 1] = step
      /\ \A i \in 1..Total(t) : g[i] = h[i]
  <2>1. step \in Steps
    BY <1>1 DEF Steps
  <2> HIDE DEF h, step
  <2>2. QED
    BY <1>1, <2>1, AppendProperties DEF Histories
<1>3. u = [ops |-> Append(t.ops, x), folded |-> t.folded, chain |-> Append(t.chain, g),
           anchor |-> t.anchor]
  <2> DEFINE a == [t EXCEPT !.chain = Append(t.chain, g)]
  <2>1. u = [a EXCEPT !.ops = Append(t.ops, x)]
    BY DEF Record, LinkHash
  <2> HIDE DEF g, u
  <2>2. a = [ops |-> t.ops, folded |-> t.folded, chain |-> Append(t.chain, g),
             anchor |-> t.anchor]
    BY <1>0
  <2> HIDE DEF a
  <2>3. QED
    BY <2>1, <2>2
<1> HIDE DEF u, g
<1>4. /\ u.ops \in Seq(Ops) /\ Len(u.ops) = n + 1 /\ u.ops[n + 1] = x
      /\ \A i \in 1..n : u.ops[i] = t.ops[i]
  BY <1>1, <1>3, AppendProperties
<1>5. /\ u.chain \in Seq(Histories) /\ Len(u.chain) = n + 1 /\ u.chain[n + 1] = g
      /\ \A i \in 1..n : u.chain[i] = t.chain[i]
      /\ u.chain # << >>
  <2>1. u.chain = Append(t.chain, g)
    BY <1>3
  <2>2. t.chain \in Seq(Histories) /\ Len(t.chain) = n /\ g \in Histories
    BY <1>1, <1>2
  <2>3. QED
    BY <2>1, <2>2, AppendProperties
<1>6. u \in Logs /\ u.folded = t.folded /\ u.anchor = t.anchor
  BY <1>1, <1>3, <1>4, <1>5 DEF Logs
<1>7. TimelineHead(u) = g /\ Total(u) = Total(t) + 1
  <2>1. TimelineHead(u) = u.chain[Len(u.chain)]
    BY <1>5 DEF TimelineHead
  <2>2. TimelineHead(u) = g
    BY <1>5, <2>1
  <2>3. Total(u) = t.folded + (n + 1)
    BY <1>4, <1>6 DEF Total
  <2> HIDE DEF n
  <2>4. QED
    BY <1>1, <2>2, <2>3
<1>8. Counted(g)
  <2>1. \A i \in 1..Total(t) : h[i].seq = i - 1
    BY <1>1 DEF Counted
  <2>2. g[Total(t) + 1].seq = Total(t)
    BY <1>2
  <2> HIDE DEF h
  <2>3. QED
    BY <1>1, <1>2, <2>1, <2>2 DEF Counted
<1>9. Chained(g, u.folded, u.anchor, u.chain)
  <2>1. /\ IsUpto(t.anchor, h, t.folded)
        /\ \A i \in 1..n : IsUpto(t.chain[i], h, t.folded + i)
    BY <1>1 DEF GoodLog, Chained
  <2> HIDE DEF h, step
  <2>2. IsUpto(u.anchor, g, u.folded)
    BY <1>1, <1>2, <1>6, <2>1 DEF IsUpto
  <2>3. ASSUME NEW i \in 1..n PROVE IsUpto(u.chain[i], g, u.folded + i)
    <3>1. IsUpto(t.chain[i], h, t.folded + i)
      BY <2>1
    <3>2. \A j \in 1..(t.folded + i) : g[j] = h[j]
      BY <1>1, <1>2
    <3>3. u.chain[i] = t.chain[i] /\ u.folded = t.folded
      BY <1>5, <1>6
    <3>4. QED
      BY <3>1, <3>2, <3>3 DEF IsUpto
  <2>4. IsUpto(u.chain[n + 1], g, u.folded + (n + 1))
    BY <1>1, <1>2, <1>5, <1>6 DEF IsUpto
  <2>5. QED
    BY <1>1, <1>2, <1>5, <1>6, <2>2, <2>3, <2>4 DEF Chained
<1>10. Lists(g, u.folded, u.ops, u.chain)
  <2>1. \A i \in 1..n : t.ops[i] = h[t.folded + i].op
    BY DEF GoodLog, Lists
  <2>2. g[u.folded + (n + 1)].op = x
    BY <1>1, <1>2, <1>6
  <2> HIDE DEF h, step
  <2>3. ASSUME NEW i \in 1..n PROVE u.ops[i] = g[u.folded + i].op
    <3>1. t.folded + i \in 1..Total(t)
      BY <1>1
    <3>2. g[t.folded + i] = h[t.folded + i]
      BY <1>2, <3>1
    <3>3. QED
      BY <1>4, <1>6, <2>1, <3>2
  <2>4. QED
    BY <1>1, <1>4, <1>5, <2>2, <2>3 DEF Lists
<1>11. QED
  BY <1>1, <1>2, <1>6, <1>7, <1>8, <1>9, <1>10 DEF GoodLog, u

(* The elements of a sequence from one on.                                   *)
LEMMA SuffixIs ==
  ASSUME NEW S, NEW s \in Seq(S), NEW k \in 0..Len(s)
  PROVE  /\ SubSeq(s, k + 1, Len(s)) \in Seq(S)
         /\ Len(SubSeq(s, k + 1, Len(s))) = Len(s) - k
         /\ \A i \in 1..(Len(s) - k) : SubSeq(s, k + 1, Len(s))[i] = s[k + i]
<1>1. Len(s) \in Nat /\ k \in Int /\ k + 1 \in Int /\ \A i \in (k + 1)..Len(s) : s[i] \in S
  OBVIOUS
<1> DEFINE n == Len(s)
           u == SubSeq(s, k + 1, n)
<1>2. /\ u \in Seq(S) /\ Len(u) = IF k + 1 <= n THEN n - (k + 1) + 1 ELSE 0
      /\ \A i \in 1..(n - (k + 1) + 1) : u[i] = s[(k + 1) + i - 1]
  <2> HIDE DEF n
  <2>1. n \in Int
    BY <1>1 DEF n
  <2>2. \A i \in (k + 1)..n : s[i] \in S
    BY <1>1 DEF n
  <2>3. QED
    BY <1>1, <2>1, <2>2, SubSeqProperties
<1> HIDE DEF u
<1>3. n - (k + 1) + 1 = n - k /\ (k + 1 <= n \/ n - k = 0)
  BY <1>1
<1>4. ASSUME NEW i \in 1..(n - k) PROVE u[i] = s[k + i]
  <2>1. (k + 1) + i - 1 = k + i
    BY <1>1
  <2>2. QED
    BY <1>2, <1>3, <2>1
<1>5. QED
  BY <1>2, <1>3, <1>4 DEF u

(* A later part of a log is a log of the same history.                       *)
LEMMA LaterPart ==
  ASSUME NEW h, NEW first \in Nat, NEW anchor, NEW ops \in Seq(Ops),
         NEW chain \in Seq(Histories), Chained(h, first, anchor, chain),
         Lists(h, first, ops, chain), NEW k \in 0..Len(ops)
  PROVE  LET later == SubSeq(ops, k + 1, Len(ops))
             links == SubSeq(chain, k + 1, Len(chain))
         IN  /\ later \in Seq(Ops) /\ links \in Seq(Histories)
             /\ Len(later) = Len(ops) - k
             /\ Chained(h, first + k, IF k = 0 THEN anchor ELSE chain[k], links)
             /\ Lists(h, first + k, later, links)
<1> DEFINE later == SubSeq(ops, k + 1, Len(ops))
           links == SubSeq(chain, k + 1, Len(chain))
           n == Len(ops)
           last == IF k = 0 THEN anchor ELSE chain[k]
<1>1. Len(chain) = n /\ n \in Nat /\ k \in 0..n /\ first + n <= Len(h)
  BY DEF Lists, Chained
<1>2. /\ later \in Seq(Ops) /\ Len(later) = n - k
      /\ \A i \in 1..(n - k) : later[i] = ops[k + i]
  BY SuffixIs
<1>3. /\ links \in Seq(Histories) /\ Len(links) = n - k
      /\ \A i \in 1..(n - k) : links[i] = chain[k + i]
  <2>1. k \in 0..Len(chain)
    BY <1>1
  <2>2. /\ links \in Seq(Histories) /\ Len(links) = Len(chain) - k
        /\ \A i \in 1..(Len(chain) - k) : links[i] = chain[k + i]
    BY <2>1, SuffixIs
  <2> HIDE DEF links
  <2>3. QED
    BY <1>1, <2>2
<1> HIDE DEF later, links
<1>4. \A i \in 1..n : ops[i] = h[first + i].op /\ IsUpto(chain[i], h, first + i)
  BY <1>1 DEF Lists, Chained
<1>5. IsUpto(last, h, first + k)
  <2>1. CASE k = 0
    BY <2>1 DEF Chained
  <2>2. CASE k # 0
    BY <1>1, <1>4, <2>2
  <2>3. QED
    BY <2>1, <2>2
<1>6. ASSUME NEW i \in 1..(n - k)
      PROVE  later[i] = h[(first + k) + i].op /\ IsUpto(links[i], h, (first + k) + i)
  <2>1. k + i \in 1..n /\ first + (k + i) = (first + k) + i
    BY <1>1
  <2>2. later[i] = ops[k + i] /\ links[i] = chain[k + i]
    BY <1>2, <1>3
  <2>3. QED
    BY <1>4, <2>1, <2>2
<1>7. Chained(h, first + k, last, links)
  BY <1>1, <1>3, <1>5, <1>6 DEF Chained
<1>8. Lists(h, first + k, later, links)
  BY <1>1, <1>2, <1>3, <1>6 DEF Lists
<1>9. QED
  BY <1>2, <1>3, <1>7, <1>8 DEF later, links

(* Compaction forgets operations, never history.                             *)
LEMMA CompactGood ==
  ASSUME NEW t, GoodLog(t)
  PROVE  /\ GoodLog(CompactIfNeeded(t))
         /\ TimelineHead(CompactIfNeeded(t)) = TimelineHead(t)
<1> DEFINE n == Len(t.ops)
           fold == n - OplogKeep
           h == TimelineHead(t)
           u == CompactIfNeeded(t)
<1>1. /\ t.ops \in Seq(Ops) /\ t.chain \in Seq(Histories) /\ t.anchor \in Histories
      /\ t.folded \in Nat /\ n \in Nat /\ Len(t.chain) = n
      /\ Total(t) = t.folded + n /\ Counted(h) /\ Len(h) = Total(t)
      /\ Chained(h, t.folded, t.anchor, t.chain) /\ Lists(h, t.folded, t.ops, t.chain)
  BY GoodLogIs DEF GoodLog
<1>2. CASE ~(OplogMax > 0 /\ n > OplogMax /\ fold > 0)
  BY <1>2 DEF CompactIfNeeded
<1>3. CASE OplogMax > 0 /\ n > OplogMax /\ fold > 0
  <2>1. fold \in 1..n
    BY <1>1, <1>3, BoundsAssumption
  <2> DEFINE later == SubSeq(t.ops, fold + 1, n)
             links == SubSeq(t.chain, fold + 1, Len(t.chain))
  <2>2. u = [ops |-> later, folded |-> t.folded + fold, chain |-> links,
             anchor |-> t.chain[fold]]
    BY <1>3 DEF CompactIfNeeded
  <2>3. /\ later \in Seq(Ops) /\ links \in Seq(Histories)
        /\ Len(later) = n - fold
        /\ Chained(h, t.folded + fold, IF fold = 0 THEN t.anchor ELSE t.chain[fold], links)
        /\ Lists(h, t.folded + fold, later, links)
    <3>1. fold \in 0..n
      BY <1>1, <2>1
    <3> HIDE DEF fold, h
    <3>2. QED
      BY <1>1, <3>1, LaterPart
  <2> HIDE DEF later, links, u, fold
  <2>4. t.chain[fold] \in Histories /\ t.folded + fold \in Nat
    BY <1>1, <2>1
  <2>5. /\ u \in Logs /\ u.ops = later /\ u.folded = t.folded + fold /\ u.chain = links
        /\ u.anchor = t.chain[fold]
    BY <2>2, <2>3, <2>4 DEF Logs
  <2>6. Total(u) = Total(t)
    <3>1. Total(u) = (t.folded + fold) + (n - fold)
      BY <2>3, <2>5 DEF Total
    <3> HIDE DEF n
    <3>2. QED
      BY <1>1, <2>1, <3>1
  <2>7. Chained(h, u.folded, u.anchor, u.chain)
    BY <1>1, <2>1, <2>3, <2>5
  <2>8. TimelineHead(u) = h
    <3>1. Len(links) = n - fold
      BY <2>3 DEF Lists
    <3>2. IsUpto(TimelineHead(u), h, Total(t))
      <4>1. CASE links = << >>
        <5>1. fold = n
          BY <1>1, <2>1, <3>1, <4>1
        <5>2. TimelineHead(u) = u.anchor
          BY <2>5, <4>1 DEF TimelineHead
        <5>3. QED
          BY <1>1, <2>5, <2>7, <5>1, <5>2 DEF Chained
      <4>2. CASE links # << >>
        <5>1. Len(links) \in 1..Len(links) /\ u.folded + Len(links) = Total(t)
          BY <1>1, <2>1, <2>3, <2>5, <3>1, <4>2, EmptySeq
        <5>2. TimelineHead(u) = u.chain[Len(links)]
          BY <2>5, <4>2 DEF TimelineHead
        <5>3. QED
          BY <2>5, <2>7, <5>1, <5>2 DEF Chained
      <4>3. QED
        BY <4>1, <4>2
    <3>3. IsUpto(h, h, Total(t))
      BY <1>1, UptoEnd DEF Counted
    <3> HIDE DEF h
    <3>4. QED
      BY <1>1, <3>2, <3>3, UptoSame
  <2>9. GoodLog(u)
    BY <1>1, <2>3, <2>5, <2>6, <2>7, <2>8 DEF GoodLog
  <2>10. QED
    BY <2>8, <2>9 DEF u
<1>4. QED
  BY <1>2, <1>3

-----------------------------------------------------------------------------
(* Bundles                                                                   *)

\* What a bundle of the history h holds, whatever became of its operations.
Spans(b, h) ==
  /\ b.first \in Nat /\ b.ops \in Seq(Ops) /\ b.chain \in Seq(Histories)
  /\ b.anchor \in Histories /\ Len(b.ops) = Len(b.chain)
  /\ b.first <= Len(h) => /\ Chained(h, b.first, b.anchor, b.chain)
                          /\ b.first + Len(b.chain) = Len(h)
  /\ b.first > Len(h) => b.chain = << >>

\* It bears the key of the session that exported it, or none.
SignedBy(b, e) == b.sig = Unsigned \/ b.sig[1] = e.seed

(* The fields of a bundle.                                                   *)
LEMMA BundleFields ==
  ASSUME NEW e, NEW since
  PROVE  LET t == e.log
             b == ExportBundle(e, since)
             start == IF since > Total(t) THEN Len(t.ops) ELSE since - t.folded
         IN  /\ b = [agent |-> b.agent, first |-> b.first, anchor |-> b.anchor,
                     ops |-> b.ops, chain |-> b.chain, sig |-> b.sig]
             /\ b.agent = e.id /\ b.first = since
             /\ b.anchor = IF start = 0 THEN t.anchor ELSE t.chain[start]
             /\ b.ops = SubSeq(t.ops, start + 1, Len(t.ops))
             /\ b.chain = SubSeq(t.chain, start + 1, Len(t.chain))
             /\ SignedBy(b, e)
BY DEF ExportBundle, SignedBy, Unsigned

(* So a good log, from one of its operations on, is a part of its history.   *)
LEMMA LogPart ==
  ASSUME NEW t, GoodLog(t), NEW k \in 0..Len(t.ops)
  PROVE  LET later == SubSeq(t.ops, k + 1, Len(t.ops))
             links == SubSeq(t.chain, k + 1, Len(t.chain))
         IN  /\ later \in Seq(Ops) /\ links \in Seq(Histories)
             /\ Len(later) = Len(t.ops) - k
             /\ Chained(TimelineHead(t), t.folded + k,
                        IF k = 0 THEN t.anchor ELSE t.chain[k], links)
             /\ Lists(TimelineHead(t), t.folded + k, later, links)
<1> DEFINE h == TimelineHead(t)
<1>1. /\ t.ops \in Seq(Ops) /\ t.chain \in Seq(Histories) /\ t.folded \in Nat
      /\ Len(t.chain) = Len(t.ops)
      /\ Chained(h, t.folded, t.anchor, t.chain) /\ Lists(h, t.folded, t.ops, t.chain)
  BY GoodLogIs DEF GoodLog
<1> HIDE DEF h
<1>2. LET later == SubSeq(t.ops, k + 1, Len(t.ops))
          links == SubSeq(t.chain, k + 1, Len(t.chain))
      IN  /\ later \in Seq(Ops) /\ links \in Seq(Histories)
          /\ Len(later) = Len(t.ops) - k
          /\ Chained(h, t.folded + k, IF k = 0 THEN t.anchor ELSE t.chain[k], links)
          /\ Lists(h, t.folded + k, later, links)
  BY <1>1, LaterPart
<1>3. QED
  BY <1>2 DEF h

(* A bundle of an exported log is a part of its history up to its end.       *)
LEMMA ExportSpans ==
  ASSUME NEW e, GoodLog(e.log), NEW since \in e.log.folded..(Total(e.log) + 1)
  PROVE  LET b == ExportBundle(e, since)
             h == TimelineHead(e.log)
         IN  /\ Spans(b, h)
             /\ b.first <= Len(h) => Lists(h, b.first, b.ops, b.chain)
<1> DEFINE t == e.log
           h == TimelineHead(t)
           n == Len(t.ops)
           b == ExportBundle(e, since)
           start == IF since > Total(t) THEN n ELSE since - t.folded
           anchor == IF start = 0 THEN t.anchor ELSE t.chain[start]
<1>1. /\ t.ops \in Seq(Ops) /\ t.chain \in Seq(Histories) /\ t.anchor \in Histories
      /\ t.folded \in Nat /\ n \in Nat /\ Len(t.chain) = n
      /\ Total(t) = t.folded + n /\ Len(h) = Total(t)
      /\ Chained(h, t.folded, t.anchor, t.chain) /\ Lists(h, t.folded, t.ops, t.chain)
  BY GoodLogIs DEF GoodLog
<1>2. /\ b.first = since /\ b.anchor = anchor
      /\ b.ops = SubSeq(t.ops, start + 1, n)
      /\ b.chain = SubSeq(t.chain, start + 1, Len(t.chain))
  BY BundleFields
<1>3. since \in Int /\ since >= t.folded /\ start \in 0..n
  BY <1>1
<1> HIDE DEF b, h
<1>4. /\ b.ops \in Seq(Ops) /\ b.chain \in Seq(Histories) /\ Len(b.ops) = n - start
      /\ Chained(h, t.folded + start, anchor, b.chain)
      /\ Lists(h, t.folded + start, b.ops, b.chain)
  <2> DEFINE later == SubSeq(t.ops, start + 1, Len(t.ops))
             links == SubSeq(t.chain, start + 1, Len(t.chain))
  <2>1. start \in 0..Len(t.ops) /\ GoodLog(t)
    BY <1>3
  <2> HIDE DEF start, t
  <2>2. /\ later \in Seq(Ops) /\ links \in Seq(Histories) /\ Len(later) = n - start
        /\ Chained(h, t.folded + start, anchor, links)
        /\ Lists(h, t.folded + start, later, links)
    BY <2>1, LogPart DEF h
  <2>3. later = b.ops /\ links = b.chain
    BY <1>2
  <2> HIDE DEF later, links, anchor
  <2>4. QED
    BY <2>2, <2>3
<1>5. b.anchor \in Histories
  <2>1. start # 0 => t.chain[start] \in Histories
    BY <1>1, <1>3
  <2> HIDE DEF start, t
  <2>2. QED
    BY <1>1, <1>2, <2>1
<1>6. Len(b.ops) = Len(b.chain) /\ b.first \in Nat
  <2>1. Len(b.ops) = Len(b.chain)
    BY <1>4 DEF Lists
  <2>2. t.folded \in Nat /\ since \in Int /\ since >= t.folded
    BY <1>1, <1>3
  <2> HIDE DEF t
  <2>3. b.first \in Nat
    BY <1>2, <2>2
  <2>4. QED
    BY <2>1, <2>3
<1>7. ASSUME b.first <= Len(h)
      PROVE  /\ Chained(h, b.first, b.anchor, b.chain) /\ Lists(h, b.first, b.ops, b.chain)
             /\ b.first + Len(b.chain) = Len(h)
  <2>1. start = since - t.folded /\ t.folded + start = b.first
    BY <1>1, <1>2, <1>3, <1>7
  <2> HIDE DEF start, t, anchor
  <2>2. b.first + Len(b.chain) = Len(h)
    <3>1. Len(b.chain) = n - start /\ Len(h) = t.folded + n
      BY <1>1, <1>4, <1>6
    <3>2. n \in Nat /\ start \in Int /\ t.folded \in Nat
      BY <1>1, <1>3
    <3> HIDE DEF n
    <3>3. QED
      BY <2>1, <3>1, <3>2
  <2>3. QED
    BY <1>2, <1>4, <2>1, <2>2
<1>8. ASSUME b.first > Len(h) PROVE b.chain = << >>
  <2>1. start = n
    BY <1>1, <1>2, <1>3, <1>8
  <2> HIDE DEF start, t, n
  <2>2. Len(b.chain) = 0
    BY <1>1, <1>4, <1>6, <2>1
  <2>3. QED
    BY <1>4, <2>2, EmptySeq
<1>9. QED
  BY <1>4, <1>5, <1>6, <1>7, <1>8 DEF Spans, b, h

(* Damage changes an operation and nothing else.                             *)
LEMMA DamageIs ==
  ASSUME NEW e, NEW since, NEW d \in Damaged(ExportBundle(e, since)),
         NEW h, Spans(ExportBundle(e, since), h)
  PROVE  Spans(d, h) /\ d.agent = e.id /\ SignedBy(d, e)
<1> DEFINE b == ExportBundle(e, since)
<1>1. PICK i \in DOMAIN b.ops, x \in Ops : d = [b EXCEPT !.ops[i] = x]
  BY DEF Damaged
<1>2. /\ b = [agent |-> b.agent, first |-> b.first, anchor |-> b.anchor,
              ops |-> b.ops, chain |-> b.chain, sig |-> b.sig]
      /\ b.agent = e.id /\ SignedBy(b, e) /\ Spans(b, h)
  BY BundleFields
<1> HIDE DEF b
<1> DEFINE ops == [b.ops EXCEPT ![i] = x]
<1>3. d = [b EXCEPT !.ops = ops]
  BY <1>1
<1>4. ops \in Seq(Ops) /\ Len(ops) = Len(b.ops)
  BY <1>2, ExceptSeq DEF Spans
<1> HIDE DEF ops
<1>5. /\ d.agent = b.agent /\ d.first = b.first /\ d.anchor = b.anchor /\ d.ops = ops
      /\ d.chain = b.chain /\ d.sig = b.sig
  BY <1>2, <1>3
<1>6. QED
  BY <1>2, <1>4, <1>5 DEF Spans, SignedBy

(* In a bundle whose links recompute, the operations are those of the steps, *)
(* though they be damaged: a link commits to its operation.                  *)
LEMMA VerifiedLists ==
  ASSUME NEW b, NEW h, Spans(b, h), b.first <= Len(h), LinksVerify(b)
  PROVE  Lists(h, b.first, b.ops, b.chain)
<1>1. /\ b.first \in Nat /\ b.chain \in Seq(Histories) /\ b.anchor \in Histories
      /\ Len(b.ops) = Len(b.chain) /\ b.ops \in Seq(Ops)
      /\ IsUpto(b.anchor, h, b.first)
      /\ \A i \in 1..Len(b.chain) : IsUpto(b.chain[i], h, b.first + i)
  BY DEF Spans, Chained
<1>2. ASSUME NEW i \in 1..Len(b.ops) PROVE b.ops[i] = h[b.first + i].op
  <2> DEFINE prev == IF i = 1 THEN b.anchor ELSE b.chain[i - 1]
             step == [seq |-> b.first + i - 1, op |-> b.ops[i]]
             n == b.first + i
  <2>1. b.chain[i] = Append(prev, step)
    <3>1. i \in DOMAIN b.ops
      BY <1>1
    <3>2. b.chain[i] = LinkHash(prev, b.first + i - 1, b.ops[i])
      BY <3>1, Zenon DEF LinksVerify
    <3>3. QED
      BY <3>2 DEF LinkHash
  <2>2. IsUpto(b.chain[i], h, n)
    BY <1>1
  <2>3. prev \in Seq(Steps) /\ Len(prev) = n - 1
    <3>1. CASE i = 1
      BY <1>1, <3>1 DEF IsUpto, Histories
    <3>2. CASE i # 1
      <4>1. i - 1 \in 1..Len(b.chain)
        BY <1>1, <3>2
      <4>2. IsUpto(b.chain[i - 1], h, b.first + (i - 1))
        BY <1>1, <4>1
      <4>3. prev = b.chain[i - 1]
        BY <3>2
      <4>4. b.first + (i - 1) = n - 1
        BY <1>1
      <4> HIDE DEF prev, n
      <4>5. QED
        BY <4>2, <4>3, <4>4 DEF IsUpto, Histories
    <3>3. QED
      BY <3>1, <3>2
  <2>4. step \in Steps /\ step.op = b.ops[i]
    BY <1>1 DEF Steps
  <2>5. n \in Nat /\ n >= 1
    BY <1>1
  <2> HIDE DEF prev, step, n
  <2>6. Append(prev, step)[n] = step
    BY <2>3, <2>4, <2>5, AppendProperties
  <2>7. Append(prev, step)[n] = h[n]
    BY <2>1, <2>2, <2>5 DEF IsUpto
  <2>8. QED
    BY <2>4, <2>6, <2>7 DEF n
<1>3. QED
  BY <1>1, <1>2 DEF Lists

(* What begins one history begins another that is the same that far.         *)
LEMMA BeginsOther ==
  ASSUME NEW k, NEW g, Begins(k, g), NEW h, Len(k.ops) <= Len(h),
         \A j \in 1..Len(k.ops) : h[j] = g[j]
  PROVE  Begins(k, h)
<1> DEFINE n == Len(k.ops)
<1>1. /\ k \in KnownLogs /\ n \in Nat /\ Len(k.chain) = n
      /\ IsUpto(Genesis, g, 0)
      /\ \A i \in 1..n : IsUpto(k.chain[i], g, 0 + i) /\ k.ops[i] = g[0 + i].op
  BY DEF Begins, Chained, Lists, KnownLogs
<1>2. ASSUME NEW i \in 1..n PROVE IsUpto(k.chain[i], h, 0 + i) /\ k.ops[i] = h[0 + i].op
  <2>1. \A j \in 1..(0 + i) : h[j] = g[j]
    BY <1>1
  <2>2. h[0 + i] = g[0 + i]
    BY <1>1, <2>1
  <2>3. QED
    BY <1>1, <2>1, <2>2 DEF IsUpto
<1>3. IsUpto(Genesis, h, 0)
  BY <1>1 DEF IsUpto
<1>4. Chained(h, 0, Genesis, k.chain)
  BY <1>1, <1>2, <1>3 DEF Chained
<1>5. Lists(h, 0, k.ops, k.chain)
  BY <1>1, <1>2 DEF Lists
<1>6. QED
  BY <1>1, <1>4, <1>5 DEF Begins


(* What begins a history, followed by the rest of it, is all of it.          *)
LEMMA JoinBegins ==
  ASSUME NEW k, NEW h \in Histories, Begins(k, h), NEW later \in Seq(Ops),
         NEW links \in Seq(Histories), NEW last, Chained(h, Len(k.ops), last, links),
         Lists(h, Len(k.ops), later, links), links # << >>,
         Len(k.ops) + Len(links) = Len(h)
  PROVE  LET m == [ops |-> k.ops \o later, chain |-> k.chain \o links]
         IN  Begins(m, h) /\ HeadOf(m) = h
<1> DEFINE n == Len(k.ops)
           r == Len(links)
           m == [ops |-> k.ops \o later, chain |-> k.chain \o links]
<1>1. /\ k.ops \in Seq(Ops) /\ k.chain \in Seq(Histories) /\ n \in Nat /\ Len(k.chain) = n
      /\ IsUpto(Genesis, h, 0)
      /\ \A i \in 1..n : IsUpto(k.chain[i], h, 0 + i) /\ k.ops[i] = h[0 + i].op
  BY DEF Begins, Chained, Lists, KnownLogs
<1>2. /\ r \in Nat /\ r > 0 /\ Len(later) = r /\ n + r = Len(h)
      /\ \A i \in 1..r : IsUpto(links[i], h, n + i) /\ later[i] = h[n + i].op
  <2>1. r \in Nat /\ r # 0
    BY EmptySeq
  <2>2. QED
    BY <2>1 DEF Chained, Lists
<1>3. m.ops = k.ops \o later /\ m.chain = k.chain \o links
  OBVIOUS
<1>0. m = [ops |-> m.ops, chain |-> m.chain]
  OBVIOUS
<1> HIDE DEF m
<1>4. /\ m.ops \in Seq(Ops) /\ Len(m.ops) = n + r
      /\ \A i \in 1..(n + r) : m.ops[i] = IF i <= n THEN k.ops[i] ELSE later[i - n]
  <2>1. /\ k.ops \o later \in Seq(Ops) /\ Len(k.ops \o later) = Len(k.ops) + Len(later)
        /\ \A i \in 1..(Len(k.ops) + Len(later)) :
             (k.ops \o later)[i] = IF i <= Len(k.ops) THEN k.ops[i] ELSE later[i - Len(k.ops)]
    BY <1>1, ConcatProperties
  <2>2. QED
    BY <1>2, <1>3, <2>1
<1>5. /\ m.chain \in Seq(Histories) /\ Len(m.chain) = n + r
      /\ \A i \in 1..(n + r) : m.chain[i] = IF i <= n THEN k.chain[i] ELSE links[i - n]
  <2>1. /\ k.chain \o links \in Seq(Histories)
        /\ Len(k.chain \o links) = Len(k.chain) + Len(links)
        /\ \A i \in 1..(Len(k.chain) + Len(links)) :
             (k.chain \o links)[i]
               = IF i <= Len(k.chain) THEN k.chain[i] ELSE links[i - Len(k.chain)]
    <3>1. k.chain \in Seq(Histories) /\ links \in Seq(Histories)
      BY <1>1
    <3>2. QED
      BY <3>1, ConcatProperties
  <2>2. QED
    BY <1>1, <1>3, <2>1
<1> HIDE DEF n, r
<1>6. m \in KnownLogs
  BY <1>0, <1>4, <1>5 DEF KnownLogs
<1>7. ASSUME NEW i \in 1..(n + r)
      PROVE  IsUpto(m.chain[i], h, 0 + i) /\ m.ops[i] = h[0 + i].op
  <2>1. CASE i <= n
    <3>1. i \in 1..n
      BY <1>1, <1>2, <2>1
    <3>2. m.chain[i] = k.chain[i] /\ m.ops[i] = k.ops[i]
      BY <1>4, <1>5, <2>1
    <3>3. QED
      BY <1>1, <3>1, <3>2
  <2>2. CASE i > n
    <3> DEFINE j == i - n
    <3>1. j \in 1..r /\ n + j = 0 + i /\ ~(i <= n)
      BY <1>1, <1>2, <2>2
    <3>2. m.chain[i] = links[j] /\ m.ops[i] = later[j]
      BY <1>4, <1>5, <3>1
    <3> HIDE DEF j
    <3>3. QED
      BY <1>2, <3>1, <3>2
  <2>3. n \in Nat /\ r \in Nat
    BY <1>1, <1>2
  <2>4. i <= n \/ i > n
    BY <2>3
  <2>5. QED
    BY <2>1, <2>2, <2>4
<1>8. Begins(m, h)
  BY <1>1, <1>2, <1>4, <1>5, <1>6, <1>7 DEF Begins, Chained, Lists
<1>9. HeadOf(m) = h
  <2>1. Len(m.chain) \in 1..(n + r) /\ Len(m.chain) = Len(h)
    BY <1>1, <1>2, <1>5
  <2>2. m.chain # << >>
    BY <1>5, <2>1, EmptySeq
  <2>3. HeadOf(m) = m.chain[Len(m.chain)]
    BY <2>2 DEF HeadOf
  <2>4. IsUpto(HeadOf(m), h, Len(h))
    <3>1. IsUpto(HeadOf(m), h, 0 + Len(m.chain))
      BY <1>7, <2>1, <2>3
    <3>2. 0 + Len(m.chain) = Len(h)
      BY <1>1, <1>2, <2>1
    <3>3. QED
      BY <3>1, <3>2
  <2>5. QED
    BY <2>1, <2>4, UptoEnd, UptoSame
<1>10. QED
  BY <1>8, <1>9 DEF m

(* What a link-checked bundle adds to a log it does not contradict makes it  *)
(* the beginning of the bundle's history, up to its head, or nothing at all. *)
LEMMA ExtendedIs ==
  ASSUME NEW k, NEW g, Begins(k, g), NEW b, NEW h, Spans(b, h), h \in Histories,
         LinksVerify(b), b.first <= Len(k.ops), ~Disagrees(k, b)
  PROVE  \/ Extended(k, b) = k
         \/ Begins(Extended(k, b), h) /\ HeadOf(Extended(k, b)) = h
<1> DEFINE n == Len(k.ops)
           overlap == IF n - b.first < Len(b.ops) THEN n - b.first ELSE Len(b.ops)
           later == SubSeq(b.ops, overlap + 1, Len(b.ops))
           links == SubSeq(b.chain, overlap + 1, Len(b.chain))
           m == Extended(k, b)
<1>1. /\ k.ops \in Seq(Ops) /\ k.chain \in Seq(Histories) /\ n \in Nat /\ Len(k.chain) = n
      /\ k = [ops |-> k.ops, chain |-> k.chain]
  BY DEF Begins, Lists, KnownLogs
<1>2. /\ b.first \in Nat /\ b.ops \in Seq(Ops) /\ b.chain \in Seq(Histories)
      /\ Len(b.ops) \in Nat /\ Len(b.ops) = Len(b.chain) /\ Len(h) \in Nat
  BY DEF Spans, Histories
<1>3. m = [ops |-> k.ops \o later, chain |-> k.chain \o links]
  BY DEF Extended
<1>4. overlap \in 0..Len(b.ops)
  BY <1>1, <1>2
<1>5. /\ later \in Seq(Ops) /\ Len(later) = Len(b.ops) - overlap
      /\ links \in Seq(Histories) /\ Len(links) = Len(b.ops) - overlap
  <2> HIDE DEF overlap
  <2>1. overlap \in 0..Len(b.chain)
    BY <1>2, <1>4
  <2>2. QED
    BY <1>2, <1>4, <2>1, SuffixIs
<1>6. CASE Len(b.ops) <= n - b.first
  <2>1. overlap = Len(b.ops)
    BY <1>1, <1>2, <1>6
  <2> HIDE DEF overlap, later, links, m
  <2>2. later = << >> /\ links = << >>
    BY <1>2, <1>5, <2>1, EmptySeq
  <2>3. k.ops \o later = k.ops /\ k.chain \o links = k.chain
    BY <1>1, <2>2
  <2>4. m = k
    BY <1>1, <1>3, <2>3
  <2>5. QED
    BY <2>4 DEF m
<1>7. CASE n - b.first < Len(b.ops)
  <2>1. overlap = n - b.first /\ b.first + overlap = n
    BY <1>1, <1>2, <1>7
  <2>2. b.first <= Len(h)
    <3>1. CASE b.first > Len(h)
      <4>1. Len(b.ops) = 0
        BY <1>2, <3>1 DEF Spans
      <4>2. QED
        BY <1>1, <1>2, <1>7, <4>1
    <3>2. QED
      BY <1>2, <3>1
  <2>3. Chained(h, b.first, b.anchor, b.chain) /\ b.first + Len(b.chain) = Len(h)
    BY <2>2 DEF Spans
  <2>4. Lists(h, b.first, b.ops, b.chain)
    BY <2>2, VerifiedLists
  <2> DEFINE last == IF overlap = 0 THEN b.anchor ELSE b.chain[overlap]
  <2>5. Chained(h, n, last, links) /\ Lists(h, n, later, links)
    <3> HIDE DEF overlap, n
    <3>1. /\ Chained(h, b.first + overlap, last, links)
          /\ Lists(h, b.first + overlap, later, links)
      BY <1>2, <1>4, <2>3, <2>4, LaterPart
    <3>2. QED
      BY <2>1, <3>1
  <2>6. n > 0 => last = k.chain[n]
    <3>1. CASE overlap = 0
      <4>1. b.first = n
        BY <1>1, <1>2, <2>1, <3>1
      <4>2. ~(b.first > 0 /\ b.anchor # k.chain[b.first])
        BY Zenon DEF Disagrees
      <4>3. QED
        BY <1>1, <3>1, <4>1, <4>2
    <3>2. CASE overlap # 0
      <4>1. overlap \in DOMAIN b.chain /\ b.first + overlap <= Len(k.chain)
        BY <1>1, <1>2, <1>4, <2>1, <3>2
      <4> HIDE DEF overlap
      <4>2. k.chain[b.first + overlap] = b.chain[overlap]
        BY <4>1 DEF Disagrees
      <4>3. QED
        BY <2>1, <3>2, <4>2
    <3>3. QED
      BY <3>1, <3>2
  <2>7. Begins(k, h)
    <3> HIDE DEF n, overlap, last, later, links
    <3>1. IsUpto(last, h, n) /\ n <= Len(h)
      <4>1. n + Len(links) <= Len(h) /\ Len(links) \in Nat
        BY <1>5, <2>5 DEF Chained
      <4>2. QED
        BY <1>1, <1>2, <2>5, <4>1 DEF Chained
    <3>2. \A j \in 1..n : h[j] = g[j]
      <4>1. CASE n = 0
        BY <4>1
      <4>2. CASE n > 0
        <5>1. IsUpto(k.chain[n], g, 0 + n)
          BY <1>1, <4>2 DEF Begins, Chained
        <5>2. QED
          BY <1>1, <2>6, <3>1, <4>2, <5>1 DEF IsUpto
      <4>3. QED
        BY <1>1, <4>1, <4>2
    <3>3. QED
      BY <3>1, <3>2, BeginsOther DEF n
  <2>8. links # << >> /\ n + Len(links) = Len(h)
    <3> HIDE DEF n, overlap, last, later, links, m
    <3>1. Len(links) > 0 /\ n + Len(links) = Len(h)
      <4>1. Len(links) = Len(b.ops) - (n - b.first)
        BY <1>5, <2>1
      <4>2. b.first + Len(b.ops) = Len(h)
        BY <1>2, <2>3
      <4>3. QED
        BY <1>1, <1>2, <1>7, <4>1, <4>2
    <3>2. links # << >>
      BY <1>5, <3>1, EmptySeq
    <3>3. QED
      BY <3>1, <3>2
  <2>9. Begins(m, h) /\ HeadOf(m) = h
    <3> HIDE DEF overlap, last, later, links, m
    <3>1. /\ later \in Seq(Ops) /\ links \in Seq(Histories)
          /\ m = [ops |-> k.ops \o later, chain |-> k.chain \o links]
      BY <1>3, <1>5
    <3>2. /\ Chained(h, Len(k.ops), last, links) /\ Lists(h, Len(k.ops), later, links)
          /\ links # << >> /\ Len(k.ops) + Len(links) = Len(h)
      BY <2>5, <2>8
    <3>3. LET u == [ops |-> k.ops \o later, chain |-> k.chain \o links]
          IN  Begins(u, h) /\ HeadOf(u) = h
      BY <2>7, <3>1, <3>2, JoinBegins
    <3>4. QED
      BY <3>1, <3>3
  <2>10. QED
    BY <2>9
<1>8. QED
  BY <1>1, <1>2, <1>6, <1>7

-----------------------------------------------------------------------------
(* The invariant                                                             *)

IdsOrNone == ToSet(Ids) \cup {""}
Notes == UNION {[D -> KnownLogs] : D \in SUBSET ToSet(Ids)}
Keyrings == UNION {[D -> Nat] : D \in SUBSET ToSet(Ids)}
Sessions == [up : BOOLEAN, crypto : BOOLEAN, seed : Nat, id : IdsOrNone, log : Logs,
             known : Notes, pins : Keyrings]
Files == [id : IdsOrNone, log : Logs, known : Notes, pins : Keyrings]
Exports == [id : ToSet(Ids), log : Logs, seed : Nat]

TypeOK ==
  /\ session \in [Agents -> Sessions]
  /\ disk \in [Agents -> Files]
  /\ keyFile \in [Agents -> [there : BOOLEAN, made : Nat]]
  /\ opens \in [Agents -> Nat] /\ saves \in [Agents -> Nat]
  /\ published \in SUBSET Exports

\* k is the beginning of a log exported under the id.
Held(k, id) == \E e \in published : e.id = id /\ Begins(k, TimelineHead(e.log))

\* The own log is whole, the others are beginnings of exported ones, and a key
\* is pinned only for whom a log is known.
GoodSidecar(s) ==
  /\ GoodLog(s.log)
  /\ DOMAIN s.pins \subseteq DOMAIN s.known
  /\ \A id \in DOMAIN s.known : Held(s.known[id], id)

IInv ==
  /\ TypeOK
  /\ \A e \in published : GoodLog(e.log)
  /\ \A a \in Agents : GoodSidecar(session[a]) /\ GoodSidecar(disk[a])

(* The fields of a session and of a sidecar file.                            *)
LEMMA SessionFields ==
  ASSUME NEW s \in Sessions
  PROVE  /\ s = [up |-> s.up, crypto |-> s.crypto, seed |-> s.seed, id |-> s.id,
                 log |-> s.log, known |-> s.known, pins |-> s.pins]
         /\ s.up \in BOOLEAN /\ s.crypto \in BOOLEAN /\ s.seed \in Nat /\ s.id \in IdsOrNone
         /\ s.log \in Logs /\ s.known \in Notes /\ s.pins \in Keyrings
BY DEF Sessions

(* And of a sidecar file.                                                   *)
LEMMA FileFields ==
  ASSUME NEW s \in Files
  PROVE  /\ s.id \in IdsOrNone /\ s.log \in Logs /\ s.known \in Notes /\ s.pins \in Keyrings
BY DEF Files

(* Nothing known and no key pinned.                                          *)
LEMMA NothingKnown ==
  /\ << >> \in Notes /\ << >> \in Keyrings /\ DOMAIN << >> = {}
<1>1. << >> \in [{} -> KnownLogs] /\ << >> \in [{} -> Nat]
  OBVIOUS
<1>2. {} \in SUBSET ToSet(Ids)
  OBVIOUS
<1>3. QED
  BY <1>1, <1>2 DEF Notes, Keyrings

(* What a step does to one session, and nothing else that is known or        *)
(* exported, keeps the invariant if that session's own state is good.        *)
LEMMA SessionStep ==
  ASSUME IInv, NEW a \in Agents, NEW s \in Sessions, GoodSidecar(s),
         session' = [session EXCEPT ![a] = s], UNCHANGED <<disk, published>>,
         keyFile' \in [Agents -> [there : BOOLEAN, made : Nat]],
         opens' \in [Agents -> Nat], saves' \in [Agents -> Nat]
  PROVE  IInv'
<1>1. TypeOK'
  BY DEF IInv, TypeOK
<1>2. \A k, id : Held(k, id)' <=> Held(k, id)
  BY DEF Held
<1>3. ASSUME NEW c \in Agents PROVE GoodSidecar(session[c])' /\ GoodSidecar(disk[c])'
  <2>1. session'[c] = s \/ session'[c] = session[c]
    BY DEF IInv, TypeOK
  <2>2. GoodSidecar(session[c]) /\ GoodSidecar(disk[c]) /\ disk' = disk
    BY DEF IInv
  <2>3. QED
    BY <1>2, <2>1, <2>2 DEF GoodSidecar
<1>4. QED
  BY <1>1, <1>3 DEF IInv

(* A sidecar that knows one more log, or more of one.                       *)
LEMMA WithNote ==
  ASSUME NEW f \in Notes, NEW x \in ToSet(Ids), NEW y \in KnownLogs
  PROVE  /\ With(f, x, y) \in Notes
         /\ DOMAIN With(f, x, y) = DOMAIN f \cup {x}
         /\ \A z \in DOMAIN f \cup {x} : With(f, x, y)[z] = IF z = x THEN y ELSE f[z]
<1>1. PICK D \in SUBSET ToSet(Ids) : f \in [D -> KnownLogs]
  BY DEF Notes
<1>2. With(f, x, y) \in [D \cup {x} -> KnownLogs]
  BY <1>1 DEF With
<1>3. D \cup {x} \in SUBSET ToSet(Ids)
  BY <1>1
<1>4. QED
  BY <1>2, <1>3 DEF With, Notes

(* A sidecar with a key pinned.                                              *)
LEMMA WithPin ==
  ASSUME NEW f \in Keyrings, NEW x \in ToSet(Ids), NEW y \in Nat
  PROVE  /\ With(f, x, y) \in Keyrings
         /\ DOMAIN With(f, x, y) = DOMAIN f \cup {x}
         /\ \A z \in DOMAIN f \cup {x} : With(f, x, y)[z] = IF z = x THEN y ELSE f[z]
<1>1. PICK D \in SUBSET ToSet(Ids) : f \in [D -> Nat]
  BY DEF Keyrings
<1>2. With(f, x, y) \in [D \cup {x} -> Nat]
  BY <1>1 DEF With
<1>3. D \cup {x} \in SUBSET ToSet(Ids)
  BY <1>1
<1>4. QED
  BY <1>2, <1>3 DEF With, Keyrings

(* The start: nothing recorded, known, pinned or exported.                   *)
LEMMA Begun == Init => IInv
<1> SUFFICES ASSUME Init PROVE IInv
  OBVIOUS
<1>1. NewLog \in Logs /\ GoodLog(NewLog)
  BY NewLogGood DEF GoodLog
<1>2. "" \in IdsOrNone
  BY DEF IdsOrNone
<1>3. Down \in Sessions
  BY <1>1, <1>2, NothingKnown DEF Down, Sessions
<1>4. NoSidecar \in Files
  BY <1>1, <1>2, NothingKnown DEF NoSidecar, Files
<1>5. GoodSidecar(Down)
  <2>1. Down.log = NewLog /\ Down.known = << >> /\ Down.pins = << >>
    BY DEF Down
  <2>2. QED
    BY <1>1, <2>1, NothingKnown DEF GoodSidecar
<1>6. GoodSidecar(NoSidecar)
  <2>1. NoSidecar.log = NewLog /\ NoSidecar.known = << >> /\ NoSidecar.pins = << >>
    BY DEF NoSidecar
  <2>2. QED
    BY <1>1, <2>1, NothingKnown DEF GoodSidecar
<1>7. TypeOK
  BY <1>3, <1>4 DEF Init, TypeOK
<1>8. \A a \in Agents : GoodSidecar(session[a]) /\ GoodSidecar(disk[a])
  BY <1>5, <1>6 DEF Init
<1>9. QED
  BY <1>7, <1>8 DEF IInv, Init

(* A process opens what was last saved, or all of it but the own log.        *)
LEMMA OpenKeeps ==
  ASSUME IInv, NEW a \in Agents, Open(a)
  PROVE  IInv'
<1>1. PICK crypto \in Builds[a], reset \in BOOLEAN :
        session' = [session EXCEPT ![a] =
          [up |-> TRUE, crypto |-> crypto,
           seed |-> IF crypto /\ keyFile[a].there THEN keyFile[a].made ELSE 0,
           id |-> disk[a].id, known |-> disk[a].known, pins |-> disk[a].pins,
           log |-> IF reset THEN NewLog ELSE disk[a].log]]
  BY DEF Open
<1> DEFINE log == IF reset THEN NewLog ELSE disk[a].log
           seed == IF crypto /\ keyFile[a].there THEN keyFile[a].made ELSE 0
           s == [up |-> TRUE, crypto |-> crypto, seed |-> seed, id |-> disk[a].id,
                 known |-> disk[a].known, pins |-> disk[a].pins, log |-> log]
<1>2. /\ disk[a] \in Files /\ GoodSidecar(disk[a])
      /\ keyFile[a].made \in Nat /\ crypto \in BOOLEAN
      /\ keyFile' = keyFile /\ saves' = saves /\ UNCHANGED <<disk, published>>
      /\ opens' = [opens EXCEPT ![a] = opens[a] + 1]
      /\ keyFile \in [Agents -> [there : BOOLEAN, made : Nat]] /\ saves \in [Agents -> Nat]
      /\ opens \in [Agents -> Nat]
  BY BoundsAssumption DEF IInv, TypeOK, Open
<1>3. GoodLog(log) /\ log \in Logs
  BY <1>2, NewLogGood DEF GoodSidecar, GoodLog
<1>4. seed \in Nat
  BY <1>2
<1> HIDE DEF log, seed
<1>5. s \in Sessions /\ s.log = log /\ s.known = disk[a].known /\ s.pins = disk[a].pins
  <2>1. /\ disk[a].id \in IdsOrNone /\ disk[a].known \in Notes /\ disk[a].pins \in Keyrings
    BY <1>2, FileFields
  <2>2. QED
    BY <1>2, <1>3, <1>4, <2>1 DEF Sessions
<1>6. session' = [session EXCEPT ![a] = s]
  BY <1>1 DEF log, seed
<1> HIDE DEF s
<1>7. GoodSidecar(s)
  BY <1>2, <1>3, <1>5 DEF GoodSidecar
<1>8. opens' \in [Agents -> Nat]
  BY <1>2
<1>9. QED
  BY <1>2, <1>5, <1>6, <1>7, <1>8, SessionStep

(* A process that stops leaves its sidecar.                                 *)
LEMMA StopKeeps ==
  ASSUME IInv, NEW a \in Agents, Stop(a)
  PROVE  IInv'
<1>1. NewLog \in Logs /\ GoodLog(NewLog) /\ "" \in IdsOrNone
  BY NewLogGood DEF GoodLog, IdsOrNone
<1>2. /\ Down \in Sessions /\ Down.log = NewLog /\ Down.known = << >> /\ Down.pins = << >>
  BY <1>1, NothingKnown DEF Down, Sessions
<1>3. GoodSidecar(Down)
  BY <1>1, <1>2, NothingKnown DEF GoodSidecar
<1>4. /\ session' = [session EXCEPT ![a] = Down] /\ UNCHANGED <<disk, published>>
      /\ keyFile' = keyFile /\ opens' = opens /\ saves' = saves
  BY DEF Stop
<1>5. QED
  BY <1>2, <1>3, <1>4, SessionStep DEF IInv, TypeOK

(* The agent id is set.                                                     *)
LEMMA SetAgentKeeps ==
  ASSUME IInv, NEW a \in Agents, SetAgent(a)
  PROVE  IInv'
<1> DEFINE c == session[a]
           s == [c EXCEPT !.id = Name[a]]
<1>1. c \in Sessions /\ GoodSidecar(c) /\ Name[a] \in IdsOrNone
  BY IdsAssumption DEF IInv, TypeOK, IdsOrNone
<1>2. /\ session' = [session EXCEPT ![a] = s] /\ UNCHANGED <<disk, published>>
      /\ keyFile' = keyFile /\ opens' = opens /\ saves' = saves
  BY DEF SetAgent
<1> HIDE DEF c
<1>3. s \in Sessions /\ s.log = c.log /\ s.known = c.known /\ s.pins = c.pins
  BY <1>1 DEF Sessions
<1> HIDE DEF s
<1>4. GoodSidecar(s)
  BY <1>1, <1>3 DEF GoodSidecar
<1>5. QED
  BY <1>2, <1>3, <1>4, SessionStep DEF IInv, TypeOK

(* An operation is recorded.                                                *)
LEMMA PerformKeeps ==
  ASSUME IInv, NEW a \in Agents, NEW x \in Ops, Perform(a, x)
  PROVE  IInv'
<1> DEFINE c == session[a]
           s == [c EXCEPT !.log = Record(c.log, x)]
<1>1. c \in Sessions /\ GoodSidecar(c)
  BY DEF IInv, TypeOK
<1>2. /\ session' = [session EXCEPT ![a] = s] /\ UNCHANGED <<disk, published>>
      /\ keyFile' = keyFile /\ opens' = opens /\ saves' = saves
  BY DEF Perform
<1>3. GoodLog(Record(c.log, x)) /\ Record(c.log, x) \in Logs
  BY <1>1, RecordGood DEF GoodSidecar, GoodLog
<1> HIDE DEF c
<1>4. s \in Sessions /\ s.log = Record(c.log, x) /\ s.known = c.known /\ s.pins = c.pins
  BY <1>1, <1>3 DEF Sessions
<1> HIDE DEF s
<1>5. GoodSidecar(s)
  BY <1>1, <1>3, <1>4 DEF GoodSidecar
<1>6. QED
  BY <1>2, <1>4, <1>5, SessionStep DEF IInv, TypeOK


(* A checkpoint compacts the log and writes it, or fails to write it.        *)
LEMMA CheckpointKeeps ==
  ASSUME IInv, NEW a \in Agents, Checkpoint(a)
  PROVE  IInv'
<1> DEFINE c == session[a]
           s == [c EXCEPT !.log = CompactIfNeeded(c.log)]
           f == [id |-> s.id, log |-> s.log, known |-> s.known, pins |-> s.pins]
<1>1. c \in Sessions /\ GoodSidecar(c)
  BY DEF IInv, TypeOK
<1>2. /\ session' = [session EXCEPT ![a] = s]
      /\ disk' = [disk EXCEPT ![a] = f] \/ disk' = disk
      /\ published' = published /\ keyFile' = keyFile /\ opens' = opens
      /\ saves' = [saves EXCEPT ![a] = saves[a] + 1]
  BY DEF Checkpoint
<1>3. GoodLog(CompactIfNeeded(c.log)) /\ CompactIfNeeded(c.log) \in Logs
  BY <1>1, CompactGood DEF GoodSidecar, GoodLog
<1> HIDE DEF c
<1>4. s \in Sessions /\ s.log = CompactIfNeeded(c.log) /\ s.known = c.known /\ s.pins = c.pins
  BY <1>1, <1>3 DEF Sessions
<1> HIDE DEF s
<1>5. GoodSidecar(s)
  BY <1>1, <1>3, <1>4 DEF GoodSidecar
<1>6. f \in Files /\ f.log = s.log /\ f.known = s.known /\ f.pins = s.pins
  BY <1>4, SessionFields DEF Files
<1> HIDE DEF f
<1>7. GoodSidecar(f)
  BY <1>5, <1>6 DEF GoodSidecar
<1>8. TypeOK'
  BY <1>2, <1>4, <1>6 DEF IInv, TypeOK
<1>9. \A k, id : Held(k, id)' <=> Held(k, id)
  BY <1>2 DEF Held
<1>10. ASSUME NEW d \in Agents PROVE GoodSidecar(session[d])' /\ GoodSidecar(disk[d])'
  <2>1. session'[d] = s \/ session'[d] = session[d]
    BY <1>2 DEF IInv, TypeOK
  <2>2. disk'[d] = f \/ disk'[d] = disk[d]
    BY <1>2 DEF IInv, TypeOK
  <2>3. GoodSidecar(session[d]) /\ GoodSidecar(disk[d])
    BY DEF IInv
  <2>4. GoodSidecar(session[d])'
    BY <1>5, <1>9, <2>1, <2>3 DEF GoodSidecar
  <2>5. GoodSidecar(disk[d])'
    BY <1>7, <1>9, <2>2, <2>3 DEF GoodSidecar
  <2>6. QED
    BY <2>4, <2>5
<1>11. QED
  BY <1>2, <1>8, <1>10 DEF IInv

(* An export adds a good log to those that were exported.                    *)
LEMMA ExportKeeps ==
  ASSUME IInv, NEW a \in Agents, Export(a)
  PROVE  IInv'
<1> DEFINE c == session[a]
           e == [id |-> c.id, log |-> c.log, seed |-> c.seed]
<1>1. c \in Sessions /\ GoodSidecar(c) /\ c.id # ""
  BY DEF IInv, TypeOK, Export
<1>2. /\ published' = published \cup {e} /\ session' = session /\ disk' = disk
      /\ keyFile' = keyFile /\ opens' = opens /\ saves' = saves
  BY DEF Export
<1> HIDE DEF c
<1>3. e \in Exports /\ e.log = c.log
  BY <1>1, SessionFields DEF Exports, IdsOrNone
<1> HIDE DEF e
<1>4. TypeOK'
  BY <1>2, <1>3 DEF IInv, TypeOK
<1>5. \A k, id : Held(k, id) => Held(k, id)'
  BY <1>2 DEF Held
<1>6. ASSUME NEW d \in Agents PROVE GoodSidecar(session[d])' /\ GoodSidecar(disk[d])'
  <2>1. GoodSidecar(session[d]) /\ GoodSidecar(disk[d])
    BY DEF IInv
  <2>2. QED
    BY <1>2, <1>5, <2>1 DEF GoodSidecar
<1>7. \A g \in published' : GoodLog(g.log)
  BY <1>1, <1>2, <1>3 DEF IInv, GoodSidecar
<1>8. QED
  BY <1>4, <1>6, <1>7 DEF IInv

(* Keys are made and deleted while no process runs.                          *)
LEMMA KeysKeep ==
  ASSUME IInv, NEW a \in Agents, GenerateKey(a) \/ DeleteKey(a)
  PROVE  IInv'
<1> DEFINE k == keyFile[a]
<1>1. k \in [there : BOOLEAN, made : Nat]
  BY DEF IInv, TypeOK
<1>2. PICK r \in [there : BOOLEAN, made : Nat] : keyFile' = [keyFile EXCEPT ![a] = r]
  <2>1. CASE GenerateKey(a)
    <3> DEFINE r == [there |-> TRUE, made |-> k.made + 1]
    <3>1. r \in [there : BOOLEAN, made : Nat]
      BY <1>1
    <3>2. keyFile' = [keyFile EXCEPT ![a] = r]
      BY <2>1 DEF GenerateKey
    <3>3. QED
      BY <3>1, <3>2
  <2>2. CASE DeleteKey(a)
    <3> DEFINE r == [k EXCEPT !.there = FALSE]
    <3>1. r \in [there : BOOLEAN, made : Nat]
      BY <1>1
    <3>2. keyFile' = [keyFile EXCEPT ![a] = r]
      BY <2>2 DEF DeleteKey
    <3>3. QED
      BY <3>1, <3>2
  <2>3. QED
    BY <2>1, <2>2
<1>3. /\ session' = session /\ disk' = disk /\ published' = published
      /\ opens' = opens /\ saves' = saves
  BY DEF GenerateKey, DeleteKey
<1>4. TypeOK'
  BY <1>2, <1>3 DEF IInv, TypeOK
<1>5. \A l, id : Held(l, id)' <=> Held(l, id)
  BY <1>3 DEF Held
<1>6. ASSUME NEW d \in Agents PROVE GoodSidecar(session[d])' /\ GoodSidecar(disk[d])'
  <2>1. GoodSidecar(session[d]) /\ GoodSidecar(disk[d])
    BY DEF IInv
  <2>2. QED
    BY <1>3, <1>5, <2>1 DEF GoodSidecar
<1>7. QED
  BY <1>3, <1>4, <1>6 DEF IInv


(* A bundle, damaged or not, is a part of a history exported under its id.   *)
LEMMA BundleIs ==
  ASSUME IInv, NEW b \in Bundles
  PROVE  \E e \in published :
           b.agent = e.id /\ Spans(b, TimelineHead(e.log)) /\ SignedBy(b, e)
<1>1. PICK e \in published : b \in UNION {{d} \cup Damaged(d) : d \in BundlesOf(e)}
  BY DEF Bundles
<1>2. PICK d \in BundlesOf(e) : b = d \/ b \in Damaged(d)
  BY <1>1
<1>3. PICK since \in e.log.folded..(Total(e.log) + 1) : d = ExportBundle(e, since)
  BY <1>2 DEF BundlesOf
<1>4. GoodLog(e.log)
  BY DEF IInv
<1>5. Spans(d, TimelineHead(e.log)) /\ d.agent = e.id /\ SignedBy(d, e)
  BY <1>3, <1>4, ExportSpans, BundleFields
<1>6. CASE b = d
  BY <1>5, <1>6
<1>7. CASE b \in Damaged(d)
  BY <1>3, <1>5, <1>7, DamageIs
<1>8. QED
  BY <1>2, <1>6, <1>7

(* Nothing is the beginning of every history.                                *)
LEMMA NoLogBegins ==
  ASSUME NEW h \in Histories
  PROVE  Begins(NoLog, h)
<1>1. NoLog.ops = << >> /\ NoLog.chain = << >> /\ NoLog \in KnownLogs
  BY DEF NoLog, KnownLogs
<1>2. IsUpto(Genesis, h, 0)
  BY DEF IsUpto, Genesis, Histories
<1>3. Len(h) \in Nat
  BY DEF Histories
<1>4. Chained(h, 0, Genesis, NoLog.chain)
  BY <1>1, <1>2, <1>3 DEF Chained
<1>5. Lists(h, 0, NoLog.ops, NoLog.chain)
  BY <1>1 DEF Lists
<1>6. QED
  BY <1>1, <1>4, <1>5 DEF Begins

(* What an import that is not refused makes of the log known of its agent.   *)
LEMMA ImportIs ==
  ASSUME IInv, NEW a \in Agents, NEW b \in Bundles, Judge(session[a], b) = "Imported"
  PROVE  LET k == Known(session[a], b.agent)
             m == Extended(k, b)
         IN  \E e \in published :
               /\ e.id = b.agent /\ SignedBy(b, e) /\ Held(m, b.agent) /\ m \in KnownLogs
               /\ m = k \/ HeadOf(m) = TimelineHead(e.log)
<1> DEFINE c == session[a]
           k == Known(c, b.agent)
           m == Extended(k, b)
<1>1. PICK e \in published :
        b.agent = e.id /\ Spans(b, TimelineHead(e.log)) /\ SignedBy(b, e)
  BY BundleIs
<1> DEFINE h == TimelineHead(e.log)
<1>2. h \in Histories
  BY GoodLogIs DEF IInv
<1>3. LinksVerify(b) /\ ~(b.first > Len(k.ops)) /\ ~Disagrees(k, b)
  <2>1. b.agent # c.id /\ Authentic(c, b)
    BY DEF Judge
  <2>2. LinksVerify(b) /\ ~(b.first > Len(k.ops)) /\ ~Disagrees(k, b)
    BY <2>1 DEF Judge
  <2>3. QED
    BY <2>2
<1>4. Held(k, b.agent)
  <2>1. CASE b.agent \in DOMAIN c.known
    <3>1. k = c.known[b.agent]
      BY <2>1 DEF Known
    <3>2. QED
      BY <2>1, <3>1 DEF IInv, GoodSidecar
  <2>2. CASE b.agent \notin DOMAIN c.known
    <3>1. k = NoLog
      BY <2>2 DEF Known
    <3>2. Begins(k, h)
      BY <1>2, <3>1, NoLogBegins
    <3>3. QED
      BY <1>1, <3>2 DEF Held
  <2>3. QED
    BY <2>1, <2>2
<1>5. PICK g \in published : g.id = b.agent /\ Begins(k, TimelineHead(g.log))
  BY <1>4 DEF Held
<1> HIDE DEF k, c
<1>6. Len(k.ops) \in Nat /\ b.first \in Nat /\ k \in KnownLogs
  BY <1>1, <1>5 DEF Begins, KnownLogs, Spans
<1>7. m = k \/ (Begins(m, h) /\ HeadOf(m) = h)
  <2>1. b.first <= Len(k.ops)
    BY <1>3, <1>6
  <2>2. Spans(b, h)
    BY <1>1
  <2> HIDE DEF h
  <2>3. QED
    BY <1>2, <1>3, <1>5, <2>1, <2>2, ExtendedIs
<1> HIDE DEF m
<1>8. Held(m, b.agent) /\ m \in KnownLogs
  <2>1. CASE m = k
    BY <1>4, <1>6, <2>1
  <2>2. CASE Begins(m, h) /\ HeadOf(m) = h
    BY <1>1, <2>2 DEF Held, Begins
  <2>3. QED
    BY <1>7, <2>1, <2>2
<1>9. QED
  BY <1>1, <1>7, <1>8 DEF m, k, c


\* The session after an import.
Imported(c, b) ==
  [up |-> c.up, crypto |-> c.crypto, seed |-> c.seed, id |-> c.id, log |-> c.log,
   known |-> With(c.known, b.agent, Extended(Known(c, b.agent), b)),
   pins |-> IF b.sig = Unsigned THEN c.pins ELSE With(c.pins, b.agent, b.sig[1])]

(* An import changes what is known of the bundle's agent and the key pinned  *)
(* for it, and nothing else.                                                 *)
LEMMA ImportSession ==
  ASSUME TypeOK, NEW a \in Agents, NEW b, Import(a, b)
  PROVE  session' = [session EXCEPT ![a] = Imported(session[a], b)]
<1> DEFINE c == session[a]
           K == With(c.known, b.agent, Extended(Known(c, b.agent), b))
           P == IF b.sig = Unsigned THEN c.pins ELSE With(c.pins, b.agent, b.sig[1])
           s == [up |-> c.up, crypto |-> c.crypto, seed |-> c.seed, id |-> c.id,
                 log |-> c.log, known |-> K, pins |-> P]
<1>1. session' = [session EXCEPT ![a].known = K, ![a].pins = P]
  BY DEF Import
<1>2. s = Imported(c, b)
  BY DEF Imported
<1> HIDE DEF K, P
<1>3. session \in [Agents -> Sessions] /\ c \in Sessions
  BY DEF TypeOK
<1>4. session' = [session EXCEPT ![a] = s]
  <2> DEFINE one == [c EXCEPT !.known = K]
             two == [one EXCEPT !.pins = P]
  <2>1. two = s
    <3>1. c = [up |-> c.up, crypto |-> c.crypto, seed |-> c.seed, id |-> c.id,
               log |-> c.log, known |-> c.known, pins |-> c.pins]
      BY <1>3, SessionFields
    <3> HIDE DEF c
    <3>2. one = [up |-> c.up, crypto |-> c.crypto, seed |-> c.seed, id |-> c.id,
                 log |-> c.log, known |-> K, pins |-> c.pins]
      BY <3>1
    <3> HIDE DEF one
    <3>3. QED
      BY <3>2
  <2>2. session' = [session EXCEPT ![a] = two]
    BY <1>1, <1>3
  <2>3. QED
    BY <2>1, <2>2
<1>5. QED
  BY <1>2, <1>4


(* An import keeps every known log the beginning of an exported one.         *)
LEMMA ImportKeeps ==
  ASSUME IInv, NEW a \in Agents, NEW b \in Bundles, Import(a, b)
  PROVE  IInv'
<1> DEFINE c == session[a]
           id == b.agent
           m == Extended(Known(c, id), b)
           s == Imported(c, b)
<1>1. c \in Sessions /\ GoodSidecar(c) /\ Judge(c, b) = "Imported"
  BY DEF IInv, TypeOK, Import
<1>2. /\ session' = [session EXCEPT ![a] = s] /\ UNCHANGED <<disk, published>>
      /\ keyFile' = keyFile /\ opens' = opens /\ saves' = saves
  BY ImportSession DEF IInv, Import
<1>3. PICK e \in published :
        e.id = id /\ SignedBy(b, e) /\ Held(m, id) /\ m \in KnownLogs
  BY <1>1, ImportIs
<1>4. id \in ToSet(Ids) /\ e.seed \in Nat
  BY <1>3 DEF IInv, TypeOK, Exports
<1> DEFINE K == With(c.known, id, m)
           P == IF b.sig = Unsigned THEN c.pins ELSE With(c.pins, id, b.sig[1])
<1>5. s = [up |-> c.up, crypto |-> c.crypto, seed |-> c.seed, id |-> c.id, log |-> c.log,
           known |-> K, pins |-> P]
  BY DEF Imported
<1> HIDE DEF c, s, id, m
<1>6. c.known \in Notes /\ c.pins \in Keyrings
  BY <1>1, SessionFields
<1>7. /\ K \in Notes /\ DOMAIN K = DOMAIN c.known \cup {id}
      /\ \A z \in DOMAIN c.known \cup {id} : K[z] = IF z = id THEN m ELSE c.known[z]
  <2>1. id \in ToSet(Ids) /\ m \in KnownLogs /\ c.known \in Notes
    BY <1>3, <1>4, <1>6
  <2>2. K \in Notes
    BY <2>1, WithNote
  <2>3. DOMAIN K = DOMAIN c.known \cup {id}
    BY <2>1, WithNote
  <2>4. ASSUME NEW z \in DOMAIN c.known \cup {id}
        PROVE  K[z] = IF z = id THEN m ELSE c.known[z]
    BY DEF With
  <2>5. QED
    BY <2>2, <2>3, <2>4
<1>8. P \in Keyrings /\ DOMAIN P \subseteq DOMAIN c.pins \cup {id}
  <2>1. CASE b.sig = Unsigned
    BY <1>6, <2>1
  <2>2. CASE b.sig # Unsigned
    <3>1. b.sig[1] \in Nat
      BY <1>3, <1>4, <2>2 DEF SignedBy
    <3>2. /\ With(c.pins, id, b.sig[1]) \in Keyrings
          /\ DOMAIN With(c.pins, id, b.sig[1]) = DOMAIN c.pins \cup {id}
      <4>1. id \in ToSet(Ids) /\ c.pins \in Keyrings
        BY <1>4, <1>6
      <4>2. QED
        BY <3>1, <4>1, WithPin
    <3>3. QED
      BY <2>2, <3>2
  <2>3. QED
    BY <2>1, <2>2
<1> HIDE DEF K, P
<1>9. s \in Sessions /\ s.log = c.log /\ s.known = K /\ s.pins = P
  BY <1>1, <1>5, <1>7, <1>8, SessionFields DEF Sessions
<1>10. GoodSidecar(s)
  <2>1. \A z \in DOMAIN K : Held(K[z], z)
    BY <1>1, <1>3, <1>7 DEF GoodSidecar
  <2>2. DOMAIN P \subseteq DOMAIN K
    BY <1>1, <1>7, <1>8 DEF GoodSidecar
  <2>3. QED
    BY <1>1, <1>9, <2>1, <2>2 DEF GoodSidecar
<1>11. QED
  BY <1>2, <1>9, <1>10, SessionStep DEF IInv, TypeOK

(* Every step keeps the invariant.                                           *)
LEMMA StepKeeps ==
  ASSUME IInv, [Next]_vars
  PROVE  IInv'
<1>1. CASE UNCHANGED vars
  <2>1. \A k, id : Held(k, id)' <=> Held(k, id)
    BY <1>1 DEF vars, Held
  <2>2. ASSUME NEW d \in Agents PROVE GoodSidecar(session[d])' /\ GoodSidecar(disk[d])'
    BY <1>1, <2>1 DEF vars, IInv, GoodSidecar
  <2>3. QED
    BY <1>1, <2>2 DEF vars, IInv, TypeOK
<1>2. CASE Next
  <2>1. PICK a \in Agents :
          \/ Open(a) \/ Stop(a) \/ SetAgent(a) \/ Checkpoint(a) \/ Export(a)
          \/ \E x \in Ops : Perform(a, x)
          \/ \E b \in Bundles : Import(a, b)
          \/ GenerateKey(a) \/ DeleteKey(a)
    BY <1>2 DEF Next
  <2>2. QED
    BY <2>1, OpenKeeps, StopKeeps, SetAgentKeeps, CheckpointKeeps, ExportKeeps,
       PerformKeeps, ImportKeeps, KeysKeep
<1>3. QED
  BY <1>1, <1>2

(* The invariant holds in every reachable state.                            *)
LEMMA Invariance == Spec => []IInv
<1>1. Init => IInv
  BY Begun
<1>2. IInv /\ [Next]_vars => IInv'
  BY StepKeeps
<1>3. QED
  BY <1>1, <1>2, PTL DEF Spec


(* The types, for all values of the constants: in particular a log, own or   *)
(* known, is made of operations and histories.                               *)
THEOREM TypeCorrect == Spec => []TypeOK
<1>1. IInv => TypeOK
  BY DEF IInv
<1>2. QED
  BY <1>1, Invariance, PTL

-----------------------------------------------------------------------------
(* What is known was exported                                                *)

(* A prefix is the same, as far as it goes.                                  *)
LEMMA PrefixIs ==
  ASSUME NEW S, NEW s \in Seq(S), NEW t \in Seq(S)
  PROVE  IsPrefix(s, t) <=> Len(s) <= Len(t) /\ \A i \in 1..Len(s) : s[i] = t[i]
<1> DEFINE n == Len(s)
           u == SubSeq(s, 1, n)
           v == SubSeq(t, 1, n)
<1>1. n \in Nat /\ Len(t) \in Nat
  OBVIOUS
<1>2. u \in Seq(S) /\ Len(u) = n /\ \A i \in 1..n : u[i] = s[i]
  <2>1. \A i \in 1..n : s[i] \in S
    OBVIOUS
  <2> HIDE DEF n
  <2>2. /\ u \in Seq(S) /\ Len(u) = IF 1 <= n THEN n - 1 + 1 ELSE 0
        /\ \A i \in 1..(n - 1 + 1) : u[i] = s[1 + i - 1]
    BY <1>1, <2>1, SubSeqProperties
  <2> HIDE DEF u
  <2>3. n - 1 + 1 = n /\ (1 <= n \/ n = 0) /\ \A i \in 1..n : 1 + i - 1 = i
    BY <1>1
  <2>4. QED
    BY <1>1, <2>2, <2>3
<1>3. ASSUME n <= Len(t)
      PROVE  v \in Seq(S) /\ Len(v) = n /\ \A i \in 1..n : v[i] = t[i]
  <2>1. \A i \in 1..n : t[i] \in S
    BY <1>1, <1>3
  <2> HIDE DEF n
  <2>2. /\ v \in Seq(S) /\ Len(v) = IF 1 <= n THEN n - 1 + 1 ELSE 0
        /\ \A i \in 1..(n - 1 + 1) : v[i] = t[1 + i - 1]
    BY <1>1, <2>1, SubSeqProperties
  <2> HIDE DEF v
  <2>3. n - 1 + 1 = n /\ (1 <= n \/ n = 0) /\ \A i \in 1..n : 1 + i - 1 = i
    BY <1>1
  <2>4. QED
    BY <1>1, <2>2, <2>3
<1>4. IsPrefix(s, t) <=> n <= Len(t) /\ u = v
  BY DEF IsPrefix
<1> HIDE DEF u, v, n
<1>5. ASSUME n <= Len(t) PROVE u = v <=> \A i \in 1..n : s[i] = t[i]
  <2>1. v \in Seq(S) /\ Len(v) = n /\ \A i \in 1..n : v[i] = t[i]
    BY <1>3, <1>5
  <2>2. ASSUME \A i \in 1..n : s[i] = t[i] PROVE u = v
    <3>1. \A i \in 1..Len(u) : u[i] = v[i]
      BY <1>2, <2>1, <2>2
    <3>2. QED
      BY <1>2, <2>1, <3>1, SeqEqual
  <2>3. ASSUME u = v PROVE \A i \in 1..n : s[i] = t[i]
    BY <1>2, <2>1, <2>3
  <2>4. QED
    BY <2>2, <2>3
<1>6. QED
  BY <1>4, <1>5 DEF n

(* The operations of a history.                                              *)
LEMMA CommittedIs ==
  ASSUME NEW h \in Histories
  PROVE  /\ Committed(h) \in Seq(Ops) /\ Len(Committed(h)) = Len(h)
         /\ \A i \in 1..Len(h) : Committed(h)[i] = h[i].op
<1>1. ASSUME NEW i \in 1..Len(h) PROVE h[i].op \in Ops
  <2>1. h[i] \in Steps
    BY DEF Histories
  <2>2. QED
    BY <2>1 DEF Steps
<1>2. Committed(h) = [i \in 1..Len(h) |-> h[i].op] /\ Len(h) \in Nat
  BY DEF Committed, Histories
<1>3. QED
  BY <1>1, <1>2

(* The beginning of a history recomputes and lists its operations.           *)
LEMMA BeginsMeans ==
  ASSUME NEW k, NEW h, Counted(h), Begins(k, h)
  PROVE  Recomputes(k) /\ IsPrefix(k.ops, Committed(h))
<1> DEFINE n == Len(k.ops)
<1>1. /\ k.ops \in Seq(Ops) /\ k.chain \in Seq(Histories) /\ n \in Nat /\ Len(k.chain) = n
      /\ n <= Len(h) /\ h \in Histories /\ Len(h) \in Nat
      /\ \A i \in 1..n : IsUpto(k.chain[i], h, 0 + i) /\ k.ops[i] = h[0 + i].op
  BY DEF Begins, Chained, Lists, KnownLogs, Counted, Histories
<1>2. IsUpto(Genesis, h, 0)
  BY DEF Begins, Chained
<1>3. \A i \in 1..n : k.ops[i] = h[i].op
  <2>1. \A i \in 1..n : 0 + i = i
    BY <1>1
  <2>2. QED
    BY <1>1, <2>1
<1>4. ASSUME NEW i \in 1..n
      PROVE  k.chain[i] = LinkHash(IF i = 1 THEN Genesis ELSE k.chain[i - 1], i - 1, k.ops[i])
  <2> DEFINE prev == IF i = 1 THEN Genesis ELSE k.chain[i - 1]
             step == [seq |-> i - 1, op |-> k.ops[i]]
             l == Append(prev, step)
  <2>1. i \in Nat /\ i >= 1 /\ i <= Len(h)
    BY <1>1
  <2>2. IsUpto(prev, h, i - 1)
    <3>1. CASE i = 1
      BY <1>2, <3>1
    <3>2. CASE i # 1
      <4>1. i - 1 \in 1..n /\ 0 + (i - 1) = i - 1
        BY <1>1, <3>2
      <4>2. QED
        BY <1>1, <3>2, <4>1
    <3>3. QED
      BY <3>1, <3>2
  <2>3. h[i] = step
    <3>1. h[i] \in Steps
      BY <1>1, <2>1 DEF Histories
    <3>2. h[i].seq = i - 1
      BY <2>1 DEF Counted
    <3>3. QED
      BY <1>3, <3>1, <3>2 DEF Steps
  <2>4. step \in Steps
    BY <1>1, <2>1, <2>3 DEF Histories
  <2> HIDE DEF prev, step
  <2>5. IsUpto(l, h, i)
    <3>1. /\ l \in Seq(Steps) /\ Len(l) = i /\ l[i] = step
          /\ \A j \in 1..(i - 1) : l[j] = prev[j]
      BY <2>1, <2>2, <2>4, AppendProperties DEF IsUpto, Histories
    <3> HIDE DEF l
    <3>2. QED
      BY <2>1, <2>2, <2>3, <3>1 DEF IsUpto, Histories
  <2>6. IsUpto(k.chain[i], h, i)
    <3>1. 0 + i = i
      BY <2>1
    <3>2. QED
      BY <1>1, <3>1
  <2> HIDE DEF l
  <2>7. k.chain[i] = l
    BY <2>1, <2>5, <2>6, UptoSame
  <2>8. QED
    BY <2>7 DEF LinkHash, l, prev, step
<1>5. Recomputes(k)
  <2>1. DOMAIN k.ops = 1..n
    BY <1>1
  <2>2. QED
    BY <1>1, <1>4, <2>1 DEF Recomputes
<1>6. IsPrefix(k.ops, Committed(h))
  <2>1. /\ Committed(h) \in Seq(Ops) /\ Len(Committed(h)) = Len(h)
        /\ \A i \in 1..Len(h) : Committed(h)[i] = h[i].op
    BY <1>1, CommittedIs
  <2>2. \A i \in 1..n : k.ops[i] = Committed(h)[i]
    BY <1>1, <1>3, <2>1
  <2>3. QED
    BY <1>1, <2>1, <2>2, PrefixIs
<1>7. QED
  BY <1>5, <1>6

(* However bundles are lost, repeated, reordered or damaged, and whoever     *)
(* stops, reopens, resets or compacts in between: what a session, or the     *)
(* sidecar it will reopen from, knows of an agent is the beginning of one    *)
(* log exported under that id, and its chain recomputes from GENESIS.        *)
THEOREM KnownLogsArePublished == Spec => []KnownIsPublished
<1>1. IInv => KnownIsPublished
  <2> SUFFICES ASSUME IInv, NEW s \in Sidecars, NEW id \in DOMAIN s.known
               PROVE  /\ Recomputes(s.known[id])
                      /\ \E e \in published :
                           e.id = id /\ IsPrefix(s.known[id].ops, Committed(TimelineHead(e.log)))
    BY DEF KnownIsPublished
  <2>1. GoodSidecar(s)
    BY DEF IInv, Sidecars
  <2>2. PICK e \in published : e.id = id /\ Begins(s.known[id], TimelineHead(e.log))
    BY <2>1 DEF GoodSidecar, Held
  <2>3. Counted(TimelineHead(e.log))
    BY DEF IInv, GoodLog
  <2>4. QED
    BY <2>2, <2>3, BeginsMeans
<1>2. QED
  BY <1>1, Invariance, PTL


-----------------------------------------------------------------------------
(* A pinned log grows by what its key signed                                 *)

(* While a session runs no step but an import of its own changes what it     *)
(* knows or has pinned.                                                      *)
LEMMA OnlyImports ==
  ASSUME IInv, NEW a \in Agents, session[a].up, session'[a].up, [Next]_vars,
         ~\E b \in Bundles : Import(a, b)
  PROVE  session'[a].known = session[a].known /\ session'[a].pins = session[a].pins
<1> DEFINE c == session[a]
<1>1. session \in [Agents -> Sessions] /\ c \in Sessions
  BY DEF IInv, TypeOK
<1>2. CASE UNCHANGED vars
  BY <1>2 DEF vars
<1>3. CASE Next
  <2>1. PICK d \in Agents :
          \/ Open(d) \/ Stop(d) \/ SetAgent(d) \/ Checkpoint(d) \/ Export(d)
          \/ \E x \in Ops : Perform(d, x)
          \/ \E b \in Bundles : Import(d, b)
          \/ GenerateKey(d) \/ DeleteKey(d)
    BY <1>3 DEF Next
  <2>2. CASE d # a
    <3>1. session'[a] = session[a]
      BY <1>1, <2>1, <2>2
         DEF Open, Stop, SetAgent, Checkpoint, Export, Perform, Import, GenerateKey, DeleteKey
    <3>2. QED
      BY <3>1
  <2>3. CASE d = a
    <3>1. ~Open(a)
      BY DEF Open
    <3>2. ~Stop(a)
      <4>1. ASSUME Stop(a) PROVE FALSE
        <5>1. session'[a] = Down
          BY <1>1, <4>1 DEF Stop
        <5>2. Down.up = FALSE
          BY DEF Down
        <5>3. QED
          BY <5>1, <5>2
      <4>2. QED
        BY <4>1
    <3>3. CASE SetAgent(a)
      <4>1. session'[a] = [c EXCEPT !.id = Name[a]]
        BY <1>1, <3>3 DEF SetAgent
      <4> HIDE DEF c
      <4>2. QED
        BY <1>1, <4>1 DEF Sessions, c
    <3>4. CASE Checkpoint(a)
      <4>1. session'[a] = [c EXCEPT !.log = CompactIfNeeded(c.log)]
        BY <1>1, <3>4 DEF Checkpoint
      <4>2. QED
        BY <1>1, <4>1 DEF Sessions
    <3>5. CASE \E x \in Ops : Perform(a, x)
      <4>1. PICK x \in Ops : Perform(a, x)
        BY <3>5
      <4>2. session'[a] = [c EXCEPT !.log = Record(c.log, x)]
        BY <1>1, <4>1 DEF Perform
      <4>3. QED
        BY <1>1, <4>2 DEF Sessions
    <3>6. CASE Export(a) \/ GenerateKey(a) \/ DeleteKey(a)
      BY <3>6 DEF Export, GenerateKey, DeleteKey
    <3>7. QED
      BY <2>1, <2>3, <3>1, <3>2, <3>3, <3>4, <3>5, <3>6
  <2>4. QED
    BY <2>2, <2>3
<1>4. QED
  BY <1>2, <1>3

(* An import leaves pinned keys alone, and a pinned log grows only to the    *)
(* head of one exported with the pinned key.                                 *)
LEMMA ImportRespectsPins ==
  ASSUME IInv, NEW a \in Agents, NEW b \in Bundles, Import(a, b),
         NEW id \in DOMAIN session[a].pins
  PROVE  /\ id \in DOMAIN session'[a].pins /\ session'[a].pins[id] = session[a].pins[id]
         /\ session'[a].known[id] # session[a].known[id] =>
              \E e \in published :
                /\ e.id = id /\ e.seed = session[a].pins[id]
                /\ TimelineHead(e.log) = HeadOf(session'[a].known[id])
<1> DEFINE c == session[a]
           m == Extended(Known(c, b.agent), b)
           s == Imported(c, b)
           K == With(c.known, b.agent, m)
           P == IF b.sig = Unsigned THEN c.pins ELSE With(c.pins, b.agent, b.sig[1])
<1>1. /\ session \in [Agents -> Sessions] /\ c \in Sessions /\ GoodSidecar(c)
      /\ Judge(c, b) = "Imported"
  BY DEF IInv, TypeOK, Import
<1>2. session'[a] = s
  <2>1. session' = [session EXCEPT ![a] = s]
    BY ImportSession DEF IInv
  <2> HIDE DEF s
  <2>2. QED
    BY <1>1, <2>1
<1>3. PICK e \in published :
        /\ e.id = b.agent /\ SignedBy(b, e)
        /\ m = Known(c, b.agent) \/ HeadOf(m) = TimelineHead(e.log)
  BY <1>1, ImportIs
<1>4. Authentic(c, b)
  BY <1>1 DEF Judge
<1>5. s.known = K /\ s.pins = P
  BY DEF Imported
<1>6. id \in DOMAIN c.known
  BY <1>1 DEF GoodSidecar
<1>7. ASSUME id = b.agent PROVE b.sig # Unsigned /\ b.sig[1] = c.pins[id] /\ e.seed = c.pins[id]
  <2>1. Pinned(c, b.agent)
    BY <1>7 DEF Pinned
  <2>2. b.sig # Unsigned
    BY <1>4, <2>1 DEF Authentic
  <2>3. c.pins[b.agent] = b.sig[1]
    BY <1>4, <2>1, <2>2 DEF Authentic
  <2>4. QED
    BY <1>3, <1>7, <2>2, <2>3 DEF SignedBy
<1> HIDE DEF s
<1>8. id \in DOMAIN P /\ P[id] = c.pins[id]
  <2>1. CASE b.sig = Unsigned
    BY <2>1
  <2>2. CASE b.sig # Unsigned
    BY <1>7, <2>2 DEF With
  <2>3. QED
    BY <2>1, <2>2
<1>9. ASSUME K[id] # c.known[id]
      PROVE  id = b.agent /\ e.seed = c.pins[id] /\ TimelineHead(e.log) = HeadOf(K[id])
  <2> HIDE DEF m
  <2>1. id = b.agent
    BY <1>6, <1>9 DEF With
  <2>2. K[id] = m
    BY <1>6, <2>1 DEF With
  <2>3. Known(c, b.agent) = c.known[id]
    BY <1>6, <2>1 DEF Known
  <2>4. QED
    BY <1>3, <1>7, <1>9, <2>1, <2>2, <2>3
<1> HIDE DEF K, P
<1>10. QED
  BY <1>2, <1>3, <1>5, <1>8, <1>9

(* Once a key is pinned for an agent, what a session knows of it grows only  *)
(* to the head of a log exported under that id with that key, and the pin    *)
(* stays as long as the process runs.                                        *)
THEOREM PinnedLogsAreSigned == Spec => PinnedLogIsSigned
<1> DEFINE Respected == \A a \in Agents : session[a].up /\ session'[a].up =>
             \A id \in DOMAIN session[a].pins :
               /\ id \in DOMAIN session'[a].pins /\ session'[a].pins[id] = session[a].pins[id]
               /\ session'[a].known[id] # session[a].known[id] =>
                    \E e \in published :
                      /\ e.id = id /\ e.seed = session[a].pins[id]
                      /\ TimelineHead(e.log) = HeadOf(session'[a].known[id])
<1>1. ASSUME IInv, [Next]_vars PROVE Respected
  <2> SUFFICES ASSUME NEW a \in Agents, session[a].up, session'[a].up,
                      NEW id \in DOMAIN session[a].pins
               PROVE  /\ id \in DOMAIN session'[a].pins
                      /\ session'[a].pins[id] = session[a].pins[id]
                      /\ session'[a].known[id] # session[a].known[id] =>
                           \E e \in published :
                             /\ e.id = id /\ e.seed = session[a].pins[id]
                             /\ TimelineHead(e.log) = HeadOf(session'[a].known[id])
    OBVIOUS
  <2>1. CASE \E b \in Bundles : Import(a, b)
    BY <1>1, <2>1, ImportRespectsPins
  <2>2. CASE ~\E b \in Bundles : Import(a, b)
    <3>1. session'[a].known = session[a].known /\ session'[a].pins = session[a].pins
      BY <1>1, <2>2, OnlyImports
    <3>2. QED
      BY <3>1
  <2>3. QED
    BY <2>1, <2>2
<1>2. IInv /\ [Next]_vars => [Respected]_vars
  BY <1>1
<1>3. PinnedLogIsSigned <=> [][Respected]_vars
  BY DEF PinnedLogIsSigned
<1>4. QED
  BY <1>2, <1>3, Invariance, PTL DEF Spec


-----------------------------------------------------------------------------
(* Only a fork is called one                                                 *)

(* A bundle does not contradict the beginning of a history that is the same  *)
(* as its own as far as both go.                                             *)
LEMMA NoContradiction ==
  ASSUME NEW k, NEW g \in Histories, Begins(k, g), NEW b, NEW h \in Histories, Spans(b, h),
         b.first <= Len(h), b.first <= Len(k.ops),
         \A j \in 1..Len(h) : j <= Len(g) => h[j] = g[j]
  PROVE  ~Disagrees(k, b)
<1>1. /\ b.first \in Nat /\ Len(h) \in Nat /\ Len(g) \in Nat /\ Len(b.chain) \in Nat
      /\ IsUpto(b.anchor, h, b.first) /\ b.first + Len(b.chain) = Len(h)
      /\ \A i \in 1..Len(b.chain) : IsUpto(b.chain[i], h, b.first + i)
      /\ DOMAIN b.chain = 1..Len(b.chain)
  BY DEF Spans, Chained, Histories
<1>2. /\ Len(k.chain) \in Nat /\ Len(k.ops) = Len(k.chain) /\ Len(k.chain) <= Len(g)
      /\ \A i \in 1..Len(k.chain) : IsUpto(k.chain[i], g, 0 + i)
  BY DEF Begins, Chained, Lists, KnownLogs
<1>3. ASSUME NEW i \in 1..Len(k.chain), NEW l, IsUpto(l, h, i), i <= Len(h)
      PROVE  k.chain[i] = l
  <2>1. i \in Nat /\ 0 + i = i /\ i <= Len(g)
    BY <1>1, <1>2
  <2>2. IsUpto(k.chain[i], g, i)
    BY <1>2, <2>1
  <2>3. \A j \in 1..i : h[j] = g[j]
    BY <1>1, <1>3, <2>1
  <2>4. IsUpto(l, g, i)
    BY <1>3, <2>3 DEF IsUpto
  <2>5. QED
    BY <2>1, <2>2, <2>4, UptoSame
<1>4. ~(b.first > 0 /\ b.anchor # k.chain[b.first])
  <2>1. CASE b.first > 0
    <3>1. b.first \in 1..Len(k.chain)
      BY <1>1, <1>2, <2>1
    <3>2. k.chain[b.first] = b.anchor
      BY <1>1, <1>3, <3>1
    <3>3. QED
      BY <3>2
  <2>2. QED
    BY <2>1
<1>5. ASSUME NEW i \in DOMAIN b.chain, b.first + i <= Len(k.chain)
      PROVE  k.chain[b.first + i] = b.chain[i]
  <2>1. /\ i \in 1..Len(b.chain) /\ b.first + i \in 1..Len(k.chain)
        /\ b.first + i <= Len(h)
    BY <1>1, <1>2, <1>5
  <2>2. IsUpto(b.chain[i], h, b.first + i)
    BY <1>1, <2>1
  <2>3. QED
    BY <1>3, <2>1, <2>2
<1>6. QED
  BY <1>4, <1>5 DEF Disagrees

(* A bundle that starts within its exporter's log is refused as diverged     *)
(* only if two logs were exported under its id of which neither begins with  *)
(* the other: nothing that befalls bundles on their way, no compaction and   *)
(* no restart makes an agent look like an equivocator.                       *)
THEOREM OnlyForksDiverge == Spec => []DivergedOnlyIfForked
<1>1. ASSUME IInv, NEW a \in Agents, NEW e \in published, NEW b \in BundlesOf(e),
             b.first <= Total(e.log), Judge(session[a], b) = "Diverged"
      PROVE  Forked(b.agent)
  <2> DEFINE c == session[a]
             k == Known(c, b.agent)
             h == TimelineHead(e.log)
  <2>1. PICK since \in e.log.folded..(Total(e.log) + 1) : b = ExportBundle(e, since)
    BY DEF BundlesOf
  <2>2. GoodLog(e.log)
    BY <1>1 DEF IInv
  <2>3. Spans(b, h) /\ b.agent = e.id
    BY <2>1, <2>2, ExportSpans, BundleFields
  <2>4. h \in Histories /\ b.first <= Len(h)
    BY <1>1, <2>2, GoodLogIs DEF GoodLog
  <2>5. ~(b.first > Len(k.ops)) /\ Disagrees(k, b)
    <3>1. b.agent # c.id /\ Authentic(c, b)
      BY <1>1 DEF Judge
    <3>2. QED
      BY <1>1, <3>1 DEF Judge
  <2>6. b.first \in Nat
    BY <2>3 DEF Spans
  <2>7. b.agent \in DOMAIN c.known
    <3>1. SUFFICES ASSUME b.agent \notin DOMAIN c.known PROVE FALSE
      OBVIOUS
    <3>2. k = NoLog
      BY <3>1 DEF Known
    <3>3. Begins(k, h)
      BY <2>4, <3>2, NoLogBegins
    <3>4. Len(k.ops) = 0
      BY <3>2 DEF NoLog
    <3>5. b.first <= Len(k.ops)
      BY <2>5, <2>6, <3>4
    <3> HIDE DEF k, h
    <3>6. QED
      BY <2>3, <2>4, <2>5, <3>3, <3>5, NoContradiction
  <2>8. PICK f \in published : f.id = b.agent /\ Begins(k, TimelineHead(f.log))
    BY <1>1, <2>7 DEF IInv, GoodSidecar, Held, Known
  <2> DEFINE g == TimelineHead(f.log)
  <2>9. g \in Histories
    BY <1>1, GoodLogIs DEF IInv
  <2>10. b.first <= Len(k.ops)
    <3>1. Len(k.ops) \in Nat
      BY <2>8 DEF Begins, KnownLogs
    <3>2. QED
      BY <2>5, <2>6, <3>1
  <2>11. ~(\A j \in 1..Len(h) : j <= Len(g) => h[j] = g[j])
    <3>1. Begins(k, g)
      BY <2>8
    <3> HIDE DEF k, h, g
    <3>2. QED
      BY <2>3, <2>4, <2>5, <2>9, <2>10, <3>1, NoContradiction
  <2>12. ~IsPrefix(h, g) /\ ~IsPrefix(g, h)
    <3> HIDE DEF h, g
    <3>1. h \in Seq(Steps) /\ g \in Seq(Steps)
      BY <2>4, <2>9 DEF Histories
    <3>2. Len(h) \in Nat /\ Len(g) \in Nat
      BY <3>1
    <3>3. IsPrefix(h, g) => \A j \in 1..Len(h) : h[j] = g[j]
      BY <3>1, PrefixIs
    <3>4. IsPrefix(g, h) => \A j \in 1..Len(g) : g[j] = h[j]
      BY <3>1, PrefixIs
    <3>5. QED
      BY <2>11, <3>2, <3>3, <3>4
  <2>13. e \in {x \in published : x.id = b.agent} /\ f \in {x \in published : x.id = b.agent}
    BY <2>3, <2>8
  <2>14. QED
    BY <2>12, <2>13 DEF Forked
<1>2. IInv => DivergedOnlyIfForked
  BY <1>1 DEF DivergedOnlyIfForked
<1>3. QED
  BY <1>2, Invariance, PTL

-----------------------------------------------------------------------------
(* The same heads mean the same view                                         *)

(* The operations of what begins a history are those its head commits to.    *)
LEMMA HeadCommitsKnown ==
  ASSUME NEW k, NEW h, Begins(k, h)
  PROVE  k.ops = Committed(HeadOf(k))
<1> DEFINE n == Len(k.ops)
           l == HeadOf(k)
<1>1. /\ k.ops \in Seq(Ops) /\ k.chain \in Seq(Histories) /\ n \in Nat /\ Len(k.chain) = n
      /\ \A i \in 1..n : IsUpto(k.chain[i], h, 0 + i) /\ k.ops[i] = h[0 + i].op
  BY DEF Begins, Chained, Lists, KnownLogs
<1>2. IsUpto(l, h, n)
  <2>1. CASE k.chain = << >>
    <3>1. n = 0 /\ l = Genesis
      BY <1>1, <2>1 DEF HeadOf
    <3>2. QED
      BY <3>1 DEF Begins, Chained
  <2>2. CASE k.chain # << >>
    <3>1. l = k.chain[n]
      BY <1>1, <2>2 DEF HeadOf
    <3>2. n \in 1..n /\ 0 + n = n
      BY <1>1, <2>2, EmptySeq
    <3> HIDE DEF n, l
    <3>3. QED
      BY <1>1, <3>1, <3>2
  <2>3. QED
    BY <2>1, <2>2
<1> HIDE DEF l
<1>3. l \in Histories /\ Len(l) = n /\ \A i \in 1..n : l[i] = h[i]
  BY <1>2 DEF IsUpto
<1>4. /\ Committed(l) \in Seq(Ops) /\ Len(Committed(l)) = n
      /\ \A i \in 1..n : Committed(l)[i] = l[i].op
  BY <1>3, CommittedIs
<1>5. ASSUME NEW i \in 1..n PROVE k.ops[i] = Committed(l)[i]
  <2>1. 0 + i = i
    BY <1>1
  <2>2. QED
    BY <1>1, <1>3, <1>4, <2>1
<1> HIDE DEF n
<1>6. k.ops = Committed(l)
  <2>1. Len(k.ops) = n
    BY DEF n
  <2>2. QED
    BY <1>1, <1>4, <1>5, <2>1, SeqEqual
<1>7. QED
  BY <1>6 DEF l

(* And those of a log of which nothing is folded away.                       *)
LEMMA HeadCommitsOwn ==
  ASSUME NEW t, GoodLog(t), t.folded = 0
  PROVE  t.ops = Committed(TimelineHead(t))
<1> DEFINE h == TimelineHead(t)
           n == Len(t.ops)
<1>1. t.ops \in Seq(Ops) /\ n \in Nat /\ h \in Histories /\ Len(h) = n
  BY GoodLogIs DEF GoodLog
<1>2. \A i \in 1..n : t.ops[i] = h[0 + i].op
  BY DEF GoodLog, Lists
<1> HIDE DEF h
<1>3. /\ Committed(h) \in Seq(Ops) /\ Len(Committed(h)) = n
      /\ \A i \in 1..n : Committed(h)[i] = h[i].op
  BY <1>1, CommittedIs
<1>4. ASSUME NEW i \in 1..n PROVE t.ops[i] = Committed(h)[i]
  <2>1. 0 + i = i
    BY <1>1
  <2>2. QED
    BY <1>2, <1>3, <2>1
<1>5. t.ops = Committed(h)
  BY <1>1, <1>3, <1>4, SeqEqual
<1>6. QED
  BY <1>5 DEF h

\* The operations heads commit to.
CommittedBy(heads) == [id \in DOMAIN heads |-> Committed(heads[id])]

(* The streams a named session would replay are what its heads commit to.    *)
LEMMA StreamsOfHeads ==
  ASSUME NEW s, GoodSidecar(s), s.id # "", s.log.folded = 0
  PROVE  Streams(s) = CommittedBy(Heads(s))
<1> DEFINE D == DOMAIN s.known \cup {s.id}
<1>1. Streams(s) = [id \in D |-> IF id \in DOMAIN s.known THEN s.known[id].ops ELSE s.log.ops]
  BY DEF Streams
<1>2. /\ DOMAIN Heads(s) = D
      /\ \A id \in D : Heads(s)[id] = IF id \in DOMAIN s.known THEN HeadOf(s.known[id])
                                      ELSE TimelineHead(s.log)
  BY DEF Heads
<1> HIDE DEF D
<1>3. ASSUME NEW id \in D
      PROVE  Committed(Heads(s)[id])
               = IF id \in DOMAIN s.known THEN s.known[id].ops ELSE s.log.ops
  <2>1. CASE id \in DOMAIN s.known
    <3>1. s.known[id].ops = Committed(HeadOf(s.known[id]))
      BY <2>1, HeadCommitsKnown DEF GoodSidecar, Held
    <3>2. QED
      BY <1>2, <2>1, <3>1
  <2>2. CASE id \notin DOMAIN s.known
    <3>1. s.log.ops = Committed(TimelineHead(s.log))
      BY HeadCommitsOwn DEF GoodSidecar
    <3>2. QED
      BY <1>2, <2>2, <3>1
  <2>3. QED
    BY <2>1, <2>2
<1>4. QED
  BY <1>1, <1>2, <1>3 DEF CommittedBy

(* Two named agents of which neither has compacted its own log, and that     *)
(* hold the same heads, materialize the same view, however what they know    *)
(* reached them.                                                             *)
THEOREM SameHeadsConverge == Spec => []SameHeadsSameView
<1>1. ASSUME IInv, NEW a \in Agents, NEW b \in Agents,
             session[a].id # "", session[b].id # "",
             session[a].log.folded = 0, session[b].log.folded = 0,
             Heads(session[a]) = Heads(session[b])
      PROVE  MergedView(session[a]) = MergedView(session[b])
  <2>1. GoodSidecar(session[a]) /\ GoodSidecar(session[b])
    BY <1>1 DEF IInv
  <2>2. Streams(session[a]) = Streams(session[b])
    <3>1. Streams(session[a]) = CommittedBy(Heads(session[a]))
      BY <1>1, <2>1, StreamsOfHeads
    <3>2. Streams(session[b]) = CommittedBy(Heads(session[b]))
      BY <1>1, <2>1, StreamsOfHeads
    <3>3. QED
      BY <1>1, <3>1, <3>2
  <2>3. QED
    BY <2>2 DEF MergedView
<1>2. IInv => SameHeadsSameView
  BY <1>1 DEF SameHeadsSameView
<1>3. QED
  BY <1>2, Invariance, PTL

=============================================================================

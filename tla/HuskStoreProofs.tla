--------------------------- MODULE HuskStoreProofs ---------------------------
(***************************************************************************)
(* Proofs about HuskStore, for every set of keys and values, every memtable*)
(* and cache size, every way a write can fail and every bound: its types,  *)
(* what an orphaned file can be, what a compaction leaves, and that the    *)
(* store implements DurableMap. Removals of merged-away files are assumed  *)
(* not to fail.                                                            *)
(***************************************************************************)
EXTENDS HuskStore, FiniteSetTheorems, WellFoundedInduction, TLAPS

-----------------------------------------------------------------------------
(* The least of some naturals *)

(* Every non-empty set of naturals has a least element.                      *)
LEMMA LeastElement ==
  ASSUME NEW T \in SUBSET Nat, T # {}
  PROVE  \E x \in T : \A y \in T : x <= y
<1> DEFINE R == OpToRel(<, Nat)
<1>1. IsWellFoundedOn(R, Nat)
  BY NatLessThanWellFounded
<1>2. \A y, x \in Nat : y < x => <<y, x>> \in R
  BY DEF OpToRel
<1> HIDE DEF R
<1>3. PICK x \in T : \A y \in T : ~(<<y, x>> \in R)
  BY <1>1, WFMin
<1>4. ASSUME NEW y \in T PROVE x <= y
  <2>1. ~(y < x)
    BY <1>2, <1>3
  <2>2. x \in Nat /\ y \in Nat
    OBVIOUS
  <2>3. QED
    BY <2>1, <2>2
<1>5. QED
  BY <1>4


-----------------------------------------------------------------------------
(* Newest, by what it means: the value of the highest numbered holder        *)

(* A set of naturals that is bounded has a greatest element.                 *)
LEMMA GreatestElement ==
  ASSUME NEW N \in Nat, NEW T \in SUBSET (0..N), T # {}
  PROVE  \E x \in T : \A y \in T : y <= x
<1> DEFINE U == {N - y : y \in T}
<1>1. U \in SUBSET Nat /\ U # {}
  <2>1. \A y \in T : N - y \in Nat
    OBVIOUS
  <2>2. PICK y \in T : TRUE
    OBVIOUS
  <2>3. N - y \in U
    OBVIOUS
  <2>4. QED
    BY <2>1, <2>3
<1>2. PICK u \in U : \A v \in U : u <= v
  BY <1>1, LeastElement
<1>3. PICK x \in T : u = N - x
  OBVIOUS
<1>4. ASSUME NEW y \in T PROVE y <= x
  <2>1. N - x <= N - y
    BY <1>2, <1>3
  <2>2. x \in Int /\ y \in Int
    OBVIOUS
  <2>3. QED
    BY <2>1, <2>2
<1>5. QED
  BY <1>4

(* Max is the greatest element there is.                                     *)
LEMMA MaxIs ==
  ASSUME NEW T \in SUBSET Int, NEW x \in T, \A y \in T : y <= x
  PROVE  Max(T) = x
<1>1. Max(T) \in T /\ \A y \in T : Max(T) >= y
  BY DEF Max
<1>2. Max(T) >= x /\ Max(T) <= x /\ Max(T) \in Int /\ x \in Int
  BY <1>1
<1>3. QED
  BY <1>2

(* Min is the least element there is.                                        *)
LEMMA MinIs ==
  ASSUME NEW T \in SUBSET Int, NEW x \in T, \A y \in T : x <= y
  PROVE  Min(T) = x
<1>1. Min(T) \in T /\ \A y \in T : Min(T) =< y
  BY DEF Min
<1>2. Min(T) >= x /\ Min(T) <= x /\ Min(T) \in Int /\ x \in Int
  BY <1>1
<1>3. QED
  BY <1>2

Holds(files, n, k) == k \in DOMAIN files[n]

(* A key no file has was never put, or everything about it is gone.          *)
LEMMA NewestNone ==
  ASSUME NEW files, NEW S, NEW k, \A n \in S : ~Holds(files, n, k)
  PROVE  Newest(files, S, k) = NoValue
BY DEF Newest, Holds

(* The highest numbered holder answers.                                      *)
LEMMA NewestTop ==
  ASSUME NEW files, NEW S \in SUBSET Int, NEW k, NEW n \in S,
         Holds(files, n, k), \A m \in S : Holds(files, m, k) => m <= n
  PROVE  Newest(files, S, k) = files[n][k]
<1> DEFINE T == {m \in S : k \in DOMAIN files[m]}
<1>1. T \in SUBSET Int /\ n \in T /\ \A m \in T : m <= n
  BY DEF Holds
<1>2. Max(T) = n
  BY <1>1, MaxIs
<1>3. QED
  BY <1>1, <1>2 DEF Newest

(* There is no third case.                                                   *)
LEMMA NewestCases ==
  ASSUME NEW files, NEW S \in SUBSET (0..MaxSeq), NEW k
  PROVE  \/ \A n \in S : ~Holds(files, n, k)
         \/ \E n \in S : Holds(files, n, k) /\ \A m \in S : Holds(files, m, k) => m <= n
<1> DEFINE T == {m \in S : Holds(files, m, k)}
<1>1. CASE T = {}
  BY <1>1
<1>2. CASE T # {}
  <2>1. PICK n \in T : \A m \in T : m <= n
    BY <1>2, GreatestElement, LimitsAssumption
  <2>2. QED
    BY <2>1
<1>3. QED
  BY <1>1, <1>2

(* Newest looks at the files that have the key, and at no other: a file that *)
(* lacks it may come or go.                                                  *)
LEMMA NewestSame ==
  ASSUME NEW f, NEW g, NEW S \in SUBSET (0..MaxSeq), NEW T \in SUBSET (0..MaxSeq),
         NEW k,
         \A n \in S : Holds(f, n, k) => n \in T,
         \A n \in T : Holds(g, n, k) => n \in S,
         \A n \in S \cap T : f[n] = g[n]
  PROVE  Newest(f, S, k) = Newest(g, T, k)
<1>1. CASE \A n \in S : ~Holds(f, n, k)
  <2>1. \A n \in T : ~Holds(g, n, k)
    BY <1>1 DEF Holds
  <2>2. QED
    BY <1>1, <2>1, NewestNone
<1>2. CASE \E n \in S : Holds(f, n, k) /\ \A m \in S : Holds(f, m, k) => m <= n
  <2>1. PICK n \in S : Holds(f, n, k) /\ \A m \in S : Holds(f, m, k) => m <= n
    BY <1>2
  <2>2. n \in T /\ f[n] = g[n] /\ Holds(g, n, k)
    BY <2>1 DEF Holds
  <2>3. \A m \in T : Holds(g, m, k) => m <= n
    BY <2>1 DEF Holds
  <2>4. S \in SUBSET Int /\ T \in SUBSET Int
    BY LimitsAssumption
  <2>5. Newest(f, S, k) = f[n][k]
    BY <2>1, <2>4, NewestTop
  <2>6. Newest(g, T, k) = g[n][k]
    BY <2>2, <2>3, <2>4, NewestTop
  <2>7. QED
    BY <2>2, <2>5, <2>6
<1>3. QED
  BY <1>1, <1>2, NewestCases

(* A file put on top of the others answers for the keys it has, and leaves   *)
(* the others' answers alone.                                                *)
LEMMA NewestAdd ==
  ASSUME NEW f, NEW g, NEW S \in SUBSET (0..MaxSeq), NEW n \in 0..MaxSeq, NEW k,
         NEW T, T = S \cup {n},
         \A m \in S : m < n, \A m \in S : g[m] = f[m]
  PROVE  Newest(g, T, k) = IF k \in DOMAIN g[n] THEN g[n][k] ELSE Newest(f, S, k)
<1>1. T \in SUBSET (0..MaxSeq) /\ T \in SUBSET Int /\ n \in T /\ \A m \in T : m <= n
  BY LimitsAssumption
<1>2. CASE k \in DOMAIN g[n]
  <2>1. Holds(g, n, k)
    BY <1>2 DEF Holds
  <2>2. Newest(g, T, k) = g[n][k]
    BY <1>1, <2>1, NewestTop
  <2>3. QED
    BY <1>2, <2>2
<1>3. CASE k \notin DOMAIN g[n]
  <2>1. \A m \in T : Holds(g, m, k) => m \in S
    BY <1>3 DEF Holds
  <2>2. \A m \in S : Holds(f, m, k) => m \in T
    OBVIOUS
  <2>3. \A m \in S \cap T : f[m] = g[m]
    OBVIOUS
  <2>4. Newest(f, S, k) = Newest(g, T, k)
    BY <1>1, <2>1, <2>2, <2>3, NewestSame
  <2>5. QED
    BY <1>3, <2>4
<1>4. QED
  BY <1>2, <1>3

(* If some of the files answer for all of them, they still do when the least *)
(* of the others is removed.                                                 *)
LEMMA NewestRemove ==
  ASSUME NEW f, NEW g, NEW S \in SUBSET (0..MaxSeq), NEW T \in SUBSET S,
         NEW m \in S \ T, NEW k,
         \A n \in S : m <= n, \A n \in S \ {m} : g[n] = f[n],
         Newest(f, S, k) = Newest(f, T, k)
  PROVE  Newest(g, S \ {m}, k) = Newest(f, T, k)
<1> DEFINE R == S \ {m}
<1>1. CASE \A n \in R : ~Holds(f, n, k)
  <2>1. \A n \in T : ~Holds(f, n, k)
    BY <1>1
  <2>2. Newest(f, T, k) = NoValue
    BY <2>1, NewestNone
  <2>3. \A n \in R : ~Holds(g, n, k)
    BY <1>1 DEF Holds
  <2>4. QED
    BY <2>2, <2>3, NewestNone
<1>2. CASE \E n \in R : Holds(f, n, k)
                            /\ \A j \in R : Holds(f, j, k) => j <= n
  <2>1. PICK n \in R : Holds(f, n, k)
                            /\ \A j \in R : Holds(f, j, k) => j <= n
    BY <1>2
  <2>2. \A j \in S : Holds(f, j, k) => j <= n
    BY <2>1
  <2>3. Holds(g, n, k) /\ g[n] = f[n] /\ \A j \in R : Holds(g, j, k) => j <= n
    BY <2>1 DEF Holds
  <2>4. S \in SUBSET Int /\ R \in SUBSET Int
    BY LimitsAssumption
  <2>5. Newest(f, S, k) = f[n][k]
    BY <2>1, <2>2, <2>4, NewestTop
  <2>6. Newest(g, R, k) = g[n][k]
    <3> HIDE DEF R
    <3>1. QED
      BY <2>1, <2>3, <2>4, NewestTop
  <2>7. QED
    BY <2>3, <2>5, <2>6
<1>3. R \in SUBSET (0..MaxSeq)
  OBVIOUS
<1>4. QED
  BY <1>1, <1>2, <1>3, NewestCases

-----------------------------------------------------------------------------
(* Maps                                                                      *)

(* A map is a function from some of the keys, and an empty one is Nothing.   *)
LEMMA MapIs ==
  ASSUME NEW f
  PROVE  /\ f \in Map => f \in [DOMAIN f -> Slots] /\ DOMAIN f \in SUBSET Keys
         /\ \A K \in SUBSET Keys : f \in [K -> Slots] => f \in Map
         /\ f \in Map /\ DOMAIN f = {} => f = Nothing
BY DEF Map, Nothing

LEMMA NothingIs == Nothing \in Map /\ DOMAIN Nothing = {}
BY DEF Map, Nothing

LEMMA SetIs ==
  ASSUME NEW f \in Map, NEW k \in Keys, NEW v \in Slots
  PROVE  /\ Set(f, k, v) \in Map /\ DOMAIN Set(f, k, v) = DOMAIN f \cup {k}
         /\ Set(f, k, v)[k] = v /\ \A j \in DOMAIN f \ {k} : Set(f, k, v)[j] = f[j]
<1>1. DOMAIN f \in SUBSET Keys /\ f \in [DOMAIN f -> Slots]
  BY MapIs
<1>2. Set(f, k, v) \in [DOMAIN f \cup {k} -> Slots] /\ DOMAIN f \cup {k} \in SUBSET Keys
  BY <1>1 DEF Set
<1>3. Set(f, k, v) \in Map
  BY <1>2, MapIs
<1>4. QED
  BY <1>1, <1>3 DEF Set

LEMMA WithoutIs ==
  ASSUME NEW f \in Map, NEW k
  PROVE  /\ Without(f, k) \in Map /\ DOMAIN Without(f, k) = DOMAIN f \ {k}
         /\ \A j \in DOMAIN f \ {k} : Without(f, k)[j] = f[j]
<1>1. DOMAIN f \in SUBSET Keys /\ f \in [DOMAIN f -> Slots]
  BY MapIs
<1>2. Without(f, k) \in [DOMAIN f \ {k} -> Slots] /\ DOMAIN f \ {k} \in SUBSET Keys
  BY <1>1 DEF Without
<1>3. QED
  BY <1>2, MapIs DEF Without

(* What Newest finds is a value or a tombstone, and only keys have values.   *)
LEMMA NewestSlot ==
  ASSUME NEW f, NEW S \in SUBSET (0..MaxSeq), NEW k, \A n \in S : f[n] \in Map
  PROVE  Newest(f, S, k) \in Slots /\ (Newest(f, S, k) # NoValue => k \in Keys)
<1>1. CASE \A n \in S : ~Holds(f, n, k)
  BY <1>1, NewestNone DEF Slots
<1>2. CASE \E n \in S : Holds(f, n, k) /\ \A m \in S : Holds(f, m, k) => m <= n
  <2>1. PICK n \in S : Holds(f, n, k) /\ \A m \in S : Holds(f, m, k) => m <= n
    BY <1>2
  <2>2. S \in SUBSET Int
    BY LimitsAssumption
  <2>3. Newest(f, S, k) = f[n][k]
    BY <2>1, <2>2, NewestTop
  <2>4. f[n] \in [DOMAIN f[n] -> Slots] /\ DOMAIN f[n] \in SUBSET Keys
    BY MapIs
  <2>5. QED
    BY <2>1, <2>3, <2>4 DEF Holds
<1>3. QED
  BY <1>1, <1>2, NewestCases

-----------------------------------------------------------------------------
(* The inductive invariant                                                   *)

\* A stopped process has nothing but its files.
DownInv ==
  pc = "down" => /\ buffer = Nothing /\ cache = Nothing
                 /\ segs = {} /\ doomed = {} /\ nextSeq = 0

\* The next number is above every segment's, and every file has an owner.
NumbersInv ==
  pc # "down" => /\ \A n \in DOMAIN disk : n <= nextSeq
                 /\ DOMAIN disk \subseteq segs \cup doomed \cup {nextSeq}
                 /\ nextSeq \notin segs \cup doomed

\* The cache has what the segments have, and yields to the memtable.
CacheInv ==
  \A k \in DOMAIN cache : k \notin DOMAIN buffer /\ cache[k] = Newest(disk, segs, k)

\* With the memtable empty, an orphan can only be a merge of what is there, which
\* is two segments at least.
OrphanInv ==
  pc \in {"up", "merging"} =>
    /\ doomed = {}
    /\ buffer = Nothing /\ nextSeq \in DOMAIN disk =>
         disk[nextSeq] = Merged /\ Merged # Nothing /\ Cardinality(segs) >= 2

MergingInv ==
  pc = "merging" => buffer = Nothing /\ segs # {} /\ Cardinality(segs) >= 2

\* The merged segment is above the files it replaces, and answers for them.
RemovingInv ==
  pc = "removing" =>
    /\ buffer = Nothing /\ doomed # {} /\ nextSeq \notin DOMAIN disk
    /\ \A d \in doomed, n \in segs : d < n
    /\ \A k \in Keys : Newest(disk, DOMAIN disk, k) = Newest(disk, segs, k)
    /\ Cardinality(segs) <= 1
    /\ \A n \in segs : \A k \in DOMAIN disk[n] : disk[n][k] # NoValue

IInv ==
  TypeOK /\ DownInv /\ NumbersInv /\ CacheInv /\ OrphanInv /\ MergingInv /\ RemovingInv

-----------------------------------------------------------------------------
(* What the states of IInv give the steps                                    *)

(* Every set of files is a set of numbers the bound admits.                  *)
LEMMA FilesAre ==
  ASSUME TypeOK
  PROVE  /\ segs \in SUBSET (0..MaxSeq) /\ doomed \in SUBSET (0..MaxSeq)
         /\ DOMAIN disk \in SUBSET (0..MaxSeq) /\ nextSeq \in 0..MaxSeq
         /\ \A n \in DOMAIN disk \cup segs \cup doomed : disk[n] \in Map
BY LimitsAssumption DEF TypeOK

(* With a coherent cache, get answers the memtable over the segments.        *)
LEMMA AnswerIs ==
  ASSUME CacheInv, NEW k
  PROVE  Answer(k) = IF k \in DOMAIN buffer THEN buffer[k] ELSE Newest(disk, segs, k)
BY DEF CacheInv, Answer

(* The merge of the segments has exactly the values they answer with.        *)
LEMMA MergedIs ==
  ASSUME TypeOK
  PROVE  /\ Merged \in Map
         /\ \A k : k \in DOMAIN Merged <=> Newest(disk, segs, k) # NoValue
         /\ \A k \in DOMAIN Merged : Merged[k] = Newest(disk, segs, k) /\ Merged[k] # NoValue
<1> DEFINE K == {j \in Keys : Newest(disk, segs, j) # NoValue}
<1>1. \A k : Newest(disk, segs, k) \in Slots /\ (Newest(disk, segs, k) # NoValue => k \in Keys)
  BY FilesAre, NewestSlot
<1>2. Merged = [k \in K |-> Newest(disk, segs, k)]
  BY DEF Merged
<1>3. Merged \in [K -> Slots] /\ K \in SUBSET Keys
  BY <1>1, <1>2
<1>4. Merged \in Map
  BY <1>3, MapIs
<1>5. QED
  BY <1>1, <1>2, <1>4

(* Between compactions the segments are all the files but an orphan.         *)
LEMMA UpFiles ==
  ASSUME IInv, pc \in {"up", "merging"}
  PROVE  /\ \A n \in segs : n < nextSeq
         /\ segs \subseteq DOMAIN disk /\ DOMAIN disk \subseteq segs \cup {nextSeq}
<1>1. segs \in SUBSET (0..MaxSeq) /\ nextSeq \in 0..MaxSeq
  BY FilesAre DEF IInv
<1>2. doomed = {} /\ nextSeq \notin segs /\ segs \subseteq DOMAIN disk
  BY DEF IInv, OrphanInv, NumbersInv, TypeOK
<1>3. \A n \in DOMAIN disk : n <= nextSeq
  BY DEF IInv, NumbersInv
<1>4. DOMAIN disk \subseteq segs \cup {nextSeq}
  BY <1>2 DEF IInv, NumbersInv
<1>5. \A n \in segs : n < nextSeq
  BY <1>1, <1>2, <1>3, LimitsAssumption
<1>6. QED
  BY <1>2, <1>4, <1>5

(* A file written under the next number is on top of the segments.           *)
LEMMA NewestWrite ==
  ASSUME segs \in SUBSET (0..MaxSeq), nextSeq \in 0..MaxSeq,
         \A n \in segs : n < nextSeq, \A n \in segs : disk'[n] = disk[n]
  PROVE  \A k : Newest(disk', segs \cup {nextSeq}, k) =
               IF k \in DOMAIN disk'[nextSeq] THEN disk'[nextSeq][k]
                                              ELSE Newest(disk, segs, k)
<1> TAKE k
<1> DEFINE T == segs \cup {nextSeq}
<1>1. T = segs \cup {nextSeq}
  OBVIOUS
<1> HIDE DEF T
<1>2. Newest(disk', T, k) =
      IF k \in DOMAIN disk'[nextSeq] THEN disk'[nextSeq][k] ELSE Newest(disk, segs, k)
  BY <1>1, NewestAdd
<1>3. QED
  BY <1>1, <1>2

(* What writing the map c under the next number does to the files, and to    *)
(* what they answer: c goes over what the segments had.                      *)
LEMMA WriteIs ==
  ASSUME IInv, pc \in {"up", "merging"}, nextSeq < MaxSeq,
         NEW c \in Map, disk' = Set(disk, nextSeq, c)
  PROVE  /\ DOMAIN disk' = segs \cup {nextSeq} /\ DOMAIN disk' \subseteq 0..(MaxSeq - 1)
         /\ disk'[nextSeq] = c
         /\ \A n \in segs : disk'[n] = disk[n]
         /\ \A n \in DOMAIN disk' : disk'[n] \in Map
         /\ \A k : Newest(disk', segs \cup {nextSeq}, k) =
                     IF k \in DOMAIN c THEN c[k] ELSE Newest(disk, segs, k)
         /\ \A k : Newest(disk', segs, k) = Newest(disk, segs, k)
<1>1. /\ segs \in SUBSET (0..MaxSeq) /\ nextSeq \in 0..MaxSeq
      /\ \A n \in segs : disk[n] \in Map
  BY FilesAre DEF IInv
<1>2. /\ \A n \in segs : n < nextSeq
      /\ segs \subseteq DOMAIN disk /\ DOMAIN disk \subseteq segs \cup {nextSeq}
  BY UpFiles
<1>3. /\ DOMAIN disk' = segs \cup {nextSeq} /\ disk'[nextSeq] = c
      /\ \A n \in DOMAIN disk \ {nextSeq} : disk'[n] = disk[n]
  BY <1>2 DEF Set
<1>4. nextSeq \notin segs
  BY <1>1, <1>2, LimitsAssumption
<1>5. \A n \in segs : disk'[n] = disk[n]
  BY <1>2, <1>3, <1>4
<1>6. DOMAIN disk' \subseteq 0..(MaxSeq - 1)
  BY <1>1, <1>2, <1>3, LimitsAssumption
<1>7. \A n \in DOMAIN disk' : disk'[n] \in Map
  BY <1>1, <1>3, <1>5
<1>8. ASSUME NEW k
      PROVE  Newest(disk', segs \cup {nextSeq}, k) =
             IF k \in DOMAIN c THEN c[k] ELSE Newest(disk, segs, k)
  BY <1>1, <1>2, <1>3, <1>5, NewestWrite
<1>9. ASSUME NEW k PROVE Newest(disk', segs, k) = Newest(disk, segs, k)
  BY <1>1, <1>5, NewestSame DEF Holds
<1>10. QED
  BY <1>3, <1>5, <1>6, <1>7, <1>8, <1>9

\* What get answers, and what the files answer.
Live == [k \in Keys |-> IF k \in DOMAIN buffer THEN buffer[k] ELSE Newest(disk, segs, k)]

\* What they answer once the memtable holds b.
Over(b) == [k \in Keys |-> IF k \in DOMAIN b THEN b[k] ELSE Newest(disk, segs, k)]

\* What a flush that found b in the memtable leaves, whatever became of it.
Flushed(b) ==
  /\ DOMAIN disk' \subseteq 0..(MaxSeq - 1) /\ \A n \in DOMAIN disk' : disk'[n] \in Map
  /\ buffer' \in Map /\ segs' \subseteq DOMAIN disk' /\ nextSeq' \in 0..MaxSeq
  /\ NumbersInv' /\ CacheInv' /\ OrphanInv'
  /\ Live' = Over(b)
  /\ disk' = disk \/ OnDisk' = Over(b)

(* A memtable kept with the files as they were: before the flush is due, or  *)
(* after one that lost its file.                                             *)
LEMMA FlushNothing ==
  ASSUME IInv, pc = "up", pc' \in {"up", "merging"}, doomed' = doomed,
         NEW b \in Map, b = buffer \/ b # Nothing,
         \A k \in DOMAIN cache' :
           k \in DOMAIN cache /\ k \notin DOMAIN b /\ cache'[k] = cache[k],
         disk' = disk, segs' = segs, nextSeq' = nextSeq, buffer' = b
  PROVE  Flushed(b)
<1>1. TypeOK /\ NumbersInv /\ CacheInv /\ OrphanInv
  BY DEF IInv
<1>2. /\ DOMAIN disk' \subseteq 0..(MaxSeq - 1) /\ \A n \in DOMAIN disk' : disk'[n] \in Map
      /\ buffer' \in Map /\ segs' \subseteq DOMAIN disk' /\ nextSeq' \in 0..MaxSeq
  BY <1>1 DEF TypeOK
<1>3. NumbersInv'
  BY <1>1 DEF NumbersInv
<1>4. CacheInv'
  BY <1>1 DEF CacheInv
<1>5. Merged' = Merged
  BY DEF Merged
<1>6. OrphanInv'
  BY <1>1, <1>5 DEF OrphanInv
<1>7. Live' = Over(b)
  BY DEF Live, Over
<1>8. QED
  BY <1>2, <1>3, <1>4, <1>6, <1>7 DEF Flushed

(* The file is in place, but the call failed: nobody knows of it, and the    *)
(* memtable keeps what it holds.                                             *)
LEMMA FlushOrphan ==
  ASSUME IInv, pc = "up", pc' \in {"up", "merging"}, doomed' = doomed,
         NEW b \in Map, b # Nothing, nextSeq < MaxSeq,
         \A k \in DOMAIN cache' :
           k \in DOMAIN cache /\ k \notin DOMAIN b /\ cache'[k] = cache[k],
         disk' = Set(disk, nextSeq, b), segs' = segs, nextSeq' = nextSeq, buffer' = b
  PROVE  Flushed(b)
<1>1. TypeOK /\ NumbersInv /\ CacheInv /\ OrphanInv
  BY DEF IInv
<1>2. /\ DOMAIN disk' = segs \cup {nextSeq} /\ DOMAIN disk' \subseteq 0..(MaxSeq - 1)
      /\ \A n \in DOMAIN disk' : disk'[n] \in Map
      /\ \A k : Newest(disk', segs \cup {nextSeq}, k) =
                  IF k \in DOMAIN b THEN b[k] ELSE Newest(disk, segs, k)
      /\ \A k : Newest(disk', segs, k) = Newest(disk, segs, k)
  BY WriteIs
<1>3. \A n \in segs : n < nextSeq
  BY UpFiles
<1>4. nextSeq \in 0..MaxSeq /\ segs \in SUBSET (0..MaxSeq)
  BY <1>1, FilesAre
<1>5. /\ DOMAIN disk' \subseteq 0..(MaxSeq - 1) /\ \A n \in DOMAIN disk' : disk'[n] \in Map
      /\ buffer' \in Map /\ segs' \subseteq DOMAIN disk' /\ nextSeq' \in 0..MaxSeq
  BY <1>2, <1>4
<1>6. NumbersInv'
  <2>1. \A n \in segs \cup {nextSeq} : n <= nextSeq
    BY <1>3, <1>4, LimitsAssumption
  <2>2. nextSeq \notin segs \cup doomed
    BY <1>1 DEF NumbersInv
  <2>3. QED
    BY <1>2, <2>1, <2>2 DEF NumbersInv
<1>7. CacheInv'
  <2>1. ASSUME NEW k \in DOMAIN cache'
        PROVE  k \notin DOMAIN buffer' /\ cache'[k] = Newest(disk', segs', k)
    BY <1>1, <1>2 DEF CacheInv
  <2>2. QED
    BY <2>1 DEF CacheInv
<1>8. OrphanInv'
  BY <1>1 DEF OrphanInv
<1>9. Live' = Over(b)
  BY <1>2 DEF Live, Over
<1>10. OnDisk' = Over(b)
  BY <1>2 DEF OnDisk, Over
<1>11. QED
  BY <1>5, <1>6, <1>7, <1>8, <1>9, <1>10 DEF Flushed

(* The memtable has become the newest segment.                               *)
LEMMA FlushOk ==
  ASSUME IInv, pc = "up", pc' \in {"up", "merging"}, doomed' = doomed,
         NEW b \in Map, b # Nothing, nextSeq < MaxSeq,
         \A k \in DOMAIN cache' :
           k \in DOMAIN cache /\ k \notin DOMAIN b /\ cache'[k] = cache[k],
         disk' = Set(disk, nextSeq, b), segs' = segs \cup {nextSeq},
         nextSeq' = nextSeq + 1, buffer' = Nothing
  PROVE  Flushed(b)
<1>1. TypeOK /\ NumbersInv /\ CacheInv /\ OrphanInv
  BY DEF IInv
<1>2. /\ DOMAIN disk' = segs \cup {nextSeq} /\ DOMAIN disk' \subseteq 0..(MaxSeq - 1)
      /\ \A n \in DOMAIN disk' : disk'[n] \in Map
      /\ \A k : Newest(disk', segs \cup {nextSeq}, k) =
                  IF k \in DOMAIN b THEN b[k] ELSE Newest(disk, segs, k)
  BY WriteIs
<1>3. \A n \in segs : n < nextSeq
  BY UpFiles
<1>4. nextSeq \in 0..MaxSeq /\ segs \in SUBSET (0..MaxSeq)
  BY <1>1, FilesAre
<1>5. /\ DOMAIN disk' \subseteq 0..(MaxSeq - 1) /\ \A n \in DOMAIN disk' : disk'[n] \in Map
      /\ buffer' \in Map /\ segs' \subseteq DOMAIN disk' /\ nextSeq' \in 0..MaxSeq
  BY <1>2, <1>4, NothingIs, LimitsAssumption
<1>6. doomed = {}
  BY <1>1 DEF OrphanInv
<1>7. \A n \in segs \cup {nextSeq} : n < nextSeq + 1 /\ n <= nextSeq + 1 /\ n # nextSeq + 1
  <2>1. nextSeq \in Nat /\ \A n \in segs : n \in Nat /\ n < nextSeq
    BY <1>3, <1>4, LimitsAssumption
  <2>2. QED
    BY <2>1
<1>8. nextSeq' \notin DOMAIN disk' /\ \A n \in DOMAIN disk' : n <= nextSeq'
  BY <1>2, <1>7
<1>9. NumbersInv'
  BY <1>2, <1>6, <1>8 DEF NumbersInv
<1>10. CacheInv'
  <2>1. ASSUME NEW k \in DOMAIN cache'
        PROVE  k \notin DOMAIN buffer' /\ cache'[k] = Newest(disk', segs', k)
    BY <1>1, <1>2, NothingIs DEF CacheInv
  <2>2. QED
    BY <2>1 DEF CacheInv
<1>11. OrphanInv'
  BY <1>6, <1>8 DEF OrphanInv
<1>12. Live' = Over(b)
  BY <1>2, NothingIs DEF Live, Over
<1>13. OnDisk' = Over(b)
  BY <1>2 DEF OnDisk, Over
<1>14. QED
  BY <1>5, <1>9, <1>10, <1>11, <1>12, <1>13 DEF Flushed

(* Together: flush, or an update that finds room.                            *)
LEMMA FlushKeeps ==
  ASSUME IInv, pc = "up", pc' \in {"up", "merging"}, doomed' = doomed,
         NEW b \in Map, b = buffer \/ b # Nothing,
         \A k \in DOMAIN cache' :
           k \in DOMAIN cache /\ k \notin DOMAIN b /\ cache'[k] = cache[k],
         FlushBuffer(b) \/ (buffer' = b /\ UNCHANGED <<disk, segs, nextSeq>>)
  PROVE  Flushed(b)
<1>1. CASE buffer' = b /\ UNCHANGED <<disk, segs, nextSeq>>
  BY <1>1, FlushNothing
<1>2. CASE b # Nothing /\ \E outcome \in Outcomes :
          /\ WriteSegment(b, outcome)
          /\ segs' = IF outcome = "ok" THEN segs \cup {nextSeq} ELSE segs
          /\ buffer' = IF outcome = "ok" THEN Nothing ELSE b
  <2>1. PICK outcome \in Outcomes :
          /\ WriteSegment(b, outcome)
          /\ segs' = IF outcome = "ok" THEN segs \cup {nextSeq} ELSE segs
          /\ buffer' = IF outcome = "ok" THEN Nothing ELSE b
    BY <1>2
  <2>2. CASE outcome = "ok"
    BY <1>2, <2>1, <2>2, FlushOk DEF WriteSegment
  <2>3. CASE outcome = "lost"
    BY <1>2, <2>1, <2>3, FlushNothing DEF WriteSegment
  <2>4. CASE outcome = "orphan"
    BY <1>2, <2>1, <2>4, FlushOrphan DEF WriteSegment
  <2>5. outcome \in {"ok", "lost", "orphan"}
    BY FaultsAssumption DEF Outcomes
  <2>6. QED
    BY <2>2, <2>3, <2>4, <2>5
<1>3. QED
  BY <1>1, <1>2 DEF FlushBuffer

-----------------------------------------------------------------------------
(* The actions: each keeps IInv and is a step of DurableMap, or none         *)

\* What a caller sees, as HuskStore substitutes it for the abstract map.
Shown == IF pc = "down" THEN OnDisk ELSE [k \in Keys |-> Answer(k)]

\* A step of the abstract map, in the terms of this one.
MapStep ==
  \/ Shown' = Shown /\ OnDisk' = OnDisk
  \/ Shown' = Shown /\ OnDisk' = Shown
  \/ Shown' = OnDisk /\ OnDisk' = OnDisk
  \/ \E k \in Keys, v \in Slots :
       Shown' = [Shown EXCEPT ![k] = v] /\ OnDisk' \in {OnDisk, Shown'}

(* While it runs, a coherent store shows its memtable over its segments.     *)
LEMMA ShownIs ==
  ASSUME CacheInv
  PROVE  pc # "down" => Shown = Live
BY AnswerIs DEF Shown, Live

(* The last part of flush, put, delete and the start of compact.             *)
LEMMA FlushedKeeps ==
  ASSUME IInv, pc = "up", pc' \in {"up", "merging"}, doomed' = doomed,
         cache' \in Map, Cardinality(DOMAIN cache') <= CacheCap,
         \A k \in DOMAIN cache' : cache'[k] # NoValue,
         NEW b \in Map, Flushed(b),
         pc' = "merging" => buffer' = Nothing /\ segs' # {} /\ Cardinality(segs') >= 2
  PROVE  /\ IInv'
         /\ Shown = Live /\ Shown' = Over(b)
         /\ OnDisk' = OnDisk \/ OnDisk' = Over(b)
<1>1. doomed' = {}
  BY DEF IInv, OrphanInv
<1>2. TypeOK'
  BY <1>1 DEF Flushed, TypeOK
<1>3. NumbersInv' /\ CacheInv' /\ OrphanInv'
  BY DEF Flushed
<1>4. DownInv' /\ MergingInv' /\ RemovingInv'
  BY DEF DownInv, MergingInv, RemovingInv
<1>5. Shown = Live
  BY ShownIs DEF IInv
<1>6. Shown' = Live'
  BY <1>3, AnswerIs DEF Shown, Live, CacheInv, Answer
<1>7. disk' = disk => OnDisk' = OnDisk
  BY DEF OnDisk
<1>8. QED
  BY <1>2, <1>3, <1>4, <1>5, <1>6, <1>7 DEF IInv, Flushed

(* Dropping a key from the cache keeps it within its bound.                  *)
LEMMA CacheShrinks ==
  ASSUME TypeOK, NEW k, NEW c, c = Without(cache, k)
  PROVE  /\ c \in Map /\ Cardinality(DOMAIN c) <= CacheCap /\ IsFiniteSet(DOMAIN c)
         /\ \A j \in DOMAIN c : c[j] # NoValue
         /\ k \in DOMAIN cache => Cardinality(DOMAIN c) < CacheCap
<1>1. cache \in Map /\ DOMAIN cache \in SUBSET Keys
  BY MapIs DEF TypeOK
<1>2. IsFiniteSet(DOMAIN cache)
  BY <1>1, KeysAssumption, FS_Subset
<1>3. /\ c \in Map /\ DOMAIN c = DOMAIN cache \ {k}
      /\ \A j \in DOMAIN cache \ {k} : c[j] = cache[j]
  BY <1>1, WithoutIs
<1>4. Cardinality(DOMAIN cache) \in Nat /\ Cardinality(DOMAIN c) \in Nat
  BY <1>2, <1>3, FS_RemoveElement, FS_CardinalityType
<1>5. IsFiniteSet(DOMAIN c) /\ Cardinality(DOMAIN c) =
        IF k \in DOMAIN cache THEN Cardinality(DOMAIN cache) - 1 ELSE Cardinality(DOMAIN cache)
  BY <1>2, <1>3, FS_RemoveElement
<1>6. Cardinality(DOMAIN cache) <= CacheCap
  BY DEF TypeOK
<1>7. QED
  BY <1>3, <1>4, <1>5, <1>6, LimitsAssumption DEF TypeOK

(* put and delete.                                                           *)
LEMMA UpdateKeeps ==
  ASSUME IInv, NEW k \in Keys, NEW v \in Slots, Update(k, v)
  PROVE  IInv' /\ MapStep
<1> DEFINE b == Set(buffer, k, v)
<1>1. TypeOK /\ CacheInv /\ buffer \in Map /\ cache \in Map
  BY DEF IInv, TypeOK
<1>2. /\ b \in Map /\ DOMAIN b = DOMAIN buffer \cup {k} /\ b[k] = v
      /\ \A j \in DOMAIN buffer \ {k} : b[j] = buffer[j]
  BY <1>1, SetIs
<1>3. /\ pc = "up" /\ pc' = pc /\ doomed' = doomed /\ cache' = Without(cache, k)
      /\ FlushBuffer(b) \/ (buffer' = b /\ UNCHANGED <<disk, segs, nextSeq>>)
  BY DEF Update
<1> HIDE DEF b
<1>4. b # Nothing
  BY <1>2, NothingIs
<1>5. /\ DOMAIN cache' = DOMAIN cache \ {k}
      /\ \A j \in DOMAIN cache \ {k} : cache'[j] = cache[j]
  BY <1>1, <1>3, WithoutIs
<1>6. \A j \in DOMAIN cache' : j \in DOMAIN cache /\ j \notin DOMAIN b /\ cache'[j] = cache[j]
  BY <1>1, <1>2, <1>5 DEF CacheInv
<1>7. Flushed(b)
  BY <1>2, <1>3, <1>4, <1>6, FlushKeeps
<1>8. /\ cache' \in Map /\ Cardinality(DOMAIN cache') <= CacheCap
      /\ \A j \in DOMAIN cache' : cache'[j] # NoValue
  BY <1>1, <1>3, CacheShrinks
<1>9. /\ IInv' /\ Shown = Live /\ Shown' = Over(b)
      /\ OnDisk' = OnDisk \/ OnDisk' = Over(b)
  BY <1>2, <1>3, <1>7, <1>8, FlushedKeeps
<1>10. Over(b) = [Live EXCEPT ![k] = v]
  BY <1>2 DEF Over, Live
<1>11. QED
  BY <1>9, <1>10 DEF MapStep

(* flush.                                                                    *)
LEMMA FlushStep ==
  ASSUME IInv, Flush
  PROVE  IInv' /\ MapStep
<1>1. TypeOK /\ CacheInv /\ buffer \in Map
  BY DEF IInv, TypeOK
<1>2. pc = "up" /\ pc' = pc /\ doomed' = doomed /\ cache' = cache /\ FlushBuffer(buffer)
  BY DEF Flush
<1>3. Flushed(buffer)
  <2>1. \A k \in DOMAIN cache' :
          k \in DOMAIN cache /\ k \notin DOMAIN buffer /\ cache'[k] = cache[k]
    BY <1>1, <1>2 DEF CacheInv
  <2>2. QED
    BY <1>1, <1>2, <2>1, FlushKeeps
<1>4. /\ cache' \in Map /\ Cardinality(DOMAIN cache') <= CacheCap
      /\ \A k \in DOMAIN cache' : cache'[k] # NoValue
  BY <1>1, <1>2 DEF TypeOK
<1>5. /\ IInv' /\ Shown = Live /\ Shown' = Over(buffer)
      /\ OnDisk' = OnDisk \/ OnDisk' = Over(buffer)
  BY <1>1, <1>2, <1>3, <1>4, FlushedKeeps
<1>6. Over(buffer) = Live
  BY DEF Over, Live
<1>7. QED
  BY <1>5, <1>6 DEF MapStep

(* The start of compact: a flush, and then there may be segments to merge.   *)
LEMMA CompactStep ==
  ASSUME IInv, Compact
  PROVE  IInv' /\ MapStep
<1>1. TypeOK /\ CacheInv /\ buffer \in Map
  BY DEF IInv, TypeOK
<1>2. pc = "up" /\ pc' \in {"up", "merging"} /\ doomed' = doomed /\ cache' = cache
      /\ FlushBuffer(buffer)
  BY DEF Compact
<1>3. Flushed(buffer)
  <2>1. \A k \in DOMAIN cache' :
          k \in DOMAIN cache /\ k \notin DOMAIN buffer /\ cache'[k] = cache[k]
    BY <1>1, <1>2 DEF CacheInv
  <2>2. QED
    BY <1>1, <1>2, <2>1, FlushKeeps
<1>4. pc' = "merging" => buffer' = Nothing /\ segs' # {} /\ Cardinality(segs') >= 2
  BY FS_EmptySet DEF Compact
<1>5. /\ cache' \in Map /\ Cardinality(DOMAIN cache') <= CacheCap
      /\ \A k \in DOMAIN cache' : cache'[k] # NoValue
  BY <1>1, <1>2 DEF TypeOK
<1>6. /\ IInv' /\ Shown = Live /\ Shown' = Over(buffer)
      /\ OnDisk' = OnDisk \/ OnDisk' = Over(buffer)
  BY <1>1, <1>2, <1>3, <1>4, <1>5, FlushedKeeps
<1>7. Over(buffer) = Live
  BY DEF Over, Live
<1>8. QED
  BY <1>6, <1>7 DEF MapStep

(* get: only the cache changes, by a value the segments have, over at most   *)
(* one entry that leaves.                                                    *)
LEMMA GetKeeps ==
  ASSUME IInv, NEW k \in Keys, Get(k)
  PROVE  IInv' /\ MapStep
<1> DEFINE v == Newest(disk, segs, k)
           Kept(c) == /\ c \in Map /\ DOMAIN c \subseteq DOMAIN cache /\ IsFiniteSet(DOMAIN c)
                      /\ Cardinality(DOMAIN c) < CacheCap
                      /\ \A j \in DOMAIN c : c[j] = cache[j]
<1>1. TypeOK /\ CacheInv /\ cache \in Map
  BY DEF IInv, TypeOK
<1>2. /\ pc = "up" /\ k \notin DOMAIN buffer /\ v # NoValue
      /\ UNCHANGED <<disk, pc, buffer, segs, nextSeq, doomed>>
  BY DEF Get
<1>3. v \in Slots
  BY <1>1, FilesAre, NewestSlot
<1> HIDE DEF v
<1>4. PICK c : Kept(c) /\ cache' = Set(c, k, v)
  <2>1. CASE Cardinality(DOMAIN cache) < CacheCap
    <3>1. IsFiniteSet(DOMAIN cache)
      BY <1>1, MapIs, KeysAssumption, FS_Subset
    <3>2. cache' = Set(cache, k, v)
      BY <2>1 DEF Get, v
    <3>3. QED
      BY <1>1, <2>1, <3>1, <3>2
  <2>2. CASE ~(Cardinality(DOMAIN cache) < CacheCap)
    <3>1. PICK victim \in DOMAIN cache : cache' = Set(Without(cache, victim), k, v)
      BY <2>2 DEF Get, v
    <3> DEFINE c == Without(cache, victim)
    <3>2. c = Without(cache, victim)
      OBVIOUS
    <3> HIDE DEF c
    <3>3. c \in Map /\ IsFiniteSet(DOMAIN c) /\ Cardinality(DOMAIN c) < CacheCap
      BY <1>1, <3>1, <3>2, CacheShrinks
    <3>4. DOMAIN c \subseteq DOMAIN cache /\ \A j \in DOMAIN c : c[j] = cache[j]
      BY <1>1, <3>2, WithoutIs
    <3>5. QED
      BY <3>1, <3>2, <3>3, <3>4
  <2>3. QED
    BY <2>1, <2>2
<1>5. /\ cache' \in Map /\ DOMAIN cache' = DOMAIN c \cup {k} /\ cache'[k] = v
      /\ \A j \in DOMAIN c \ {k} : cache'[j] = cache[j]
  BY <1>3, <1>4, SetIs
<1>6. Cardinality(DOMAIN cache') <= CacheCap
  <2>1. IsFiniteSet(DOMAIN c) /\ Cardinality(DOMAIN c) \in Nat
    BY <1>4, FS_CardinalityType
  <2>2. Cardinality(DOMAIN cache') \in {Cardinality(DOMAIN c), Cardinality(DOMAIN c) + 1}
    BY <1>5, <2>1, FS_AddElement
  <2>3. Cardinality(DOMAIN c) < CacheCap
    BY <1>4
  <2> HIDE DEF Kept
  <2>4. QED
    BY <2>1, <2>2, <2>3, LimitsAssumption
<1>7. TypeOK'
  BY <1>1, <1>2, <1>4, <1>5, <1>6 DEF TypeOK
<1>8. CacheInv'
  <2>1. ASSUME NEW j \in DOMAIN cache'
        PROVE  j \notin DOMAIN buffer' /\ cache'[j] = Newest(disk', segs', j)
    <3>1. CASE j = k
      BY <1>2, <1>5, <3>1 DEF v
    <3>2. CASE j # k
      BY <1>1, <1>2, <1>4, <1>5, <3>2 DEF CacheInv
    <3>3. QED
      BY <3>1, <3>2
  <2>2. QED
    BY <2>1 DEF CacheInv
<1>9. NumbersInv' /\ DownInv' /\ MergingInv' /\ RemovingInv'
  BY <1>2 DEF IInv, NumbersInv, DownInv, MergingInv, RemovingInv
<1>10. OrphanInv'
  <2>1. Merged' = Merged
    BY <1>2 DEF Merged
  <2>2. QED
    BY <1>2, <2>1 DEF IInv, OrphanInv
<1>11. IInv'
  BY <1>7, <1>8, <1>9, <1>10 DEF IInv
<1>12. Shown' = Shown /\ OnDisk' = OnDisk
  <2>1. Shown = Live
    BY <1>1, <1>2, ShownIs
  <2>2. Shown' = Live'
    BY <1>2, <1>8 DEF Shown, Live, CacheInv, Answer
  <2>3. QED
    BY <1>2, <2>1, <2>2 DEF Live, OnDisk
<1>13. QED
  BY <1>11, <1>12 DEF MapStep

(* The handle that opens knows every file, orphans included, and shows what  *)
(* they answer.                                                              *)
LEMMA OpenStep ==
  ASSUME IInv, Open
  PROVE  IInv' /\ MapStep
<1>1. TypeOK /\ buffer = Nothing /\ cache = Nothing /\ doomed = {}
  BY DEF IInv, DownInv, Open
<1>2. /\ pc = "down" /\ pc' = "up" /\ segs' = DOMAIN disk
      /\ nextSeq' = IF DOMAIN disk = {} THEN 0 ELSE Max(DOMAIN disk) + 1
      /\ UNCHANGED <<disk, buffer, cache, doomed>>
  BY DEF Open
<1>3. nextSeq' \in 0..MaxSeq /\ \A n \in DOMAIN disk : n < nextSeq'
  <2>1. DOMAIN disk \in SUBSET (0..MaxSeq) /\ DOMAIN disk \subseteq 0..(MaxSeq - 1)
    BY <1>1, FilesAre DEF TypeOK
  <2>2. CASE DOMAIN disk = {}
    BY <1>2, <2>2, LimitsAssumption
  <2>3. CASE DOMAIN disk # {}
    <3>1. PICK n \in DOMAIN disk : \A m \in DOMAIN disk : m <= n
      BY <2>1, <2>3, GreatestElement, LimitsAssumption
    <3>2. Max(DOMAIN disk) = n
      <4>1. DOMAIN disk \in SUBSET Int
        BY <2>1, LimitsAssumption
      <4>2. QED
        BY <3>1, <4>1, MaxIs
    <3>3. nextSeq' = n + 1
      BY <1>2, <2>3, <3>2
    <3>4. n + 1 \in 0..MaxSeq /\ \A m \in DOMAIN disk : m < n + 1
      BY <2>1, <3>1, LimitsAssumption
    <3>5. QED
      BY <3>3, <3>4
  <2>4. QED
    BY <2>2, <2>3
<1>4. nextSeq' \notin DOMAIN disk /\ \A n \in DOMAIN disk : n <= nextSeq'
  <2>1. DOMAIN disk \in SUBSET Int /\ nextSeq' \in Int
    BY <1>1, <1>3, FilesAre, LimitsAssumption
  <2>2. QED
    BY <1>3, <2>1
<1>5. TypeOK'
  BY <1>1, <1>2, <1>3 DEF TypeOK
<1>6. DownInv' /\ MergingInv' /\ RemovingInv'
  BY <1>2 DEF DownInv, MergingInv, RemovingInv
<1>7. NumbersInv'
  BY <1>1, <1>2, <1>4 DEF NumbersInv
<1>8. CacheInv'
  BY <1>1, <1>2, NothingIs DEF CacheInv
<1>9. OrphanInv'
  BY <1>1, <1>2, <1>4 DEF OrphanInv
<1>10. Shown' = Shown /\ OnDisk' = OnDisk
  <2>1. Shown = OnDisk
    BY <1>2 DEF Shown
  <2>2. Shown' = OnDisk
    BY <1>1, <1>2, NothingIs DEF Shown, OnDisk, Answer
  <2>3. QED
    BY <1>2, <2>1, <2>2 DEF OnDisk
<1>11. QED
  BY <1>5, <1>6, <1>7, <1>8, <1>9, <1>10 DEF IInv, MapStep

(* A process that ends leaves its files, and what they answer.               *)
LEMMA StopStep ==
  ASSUME IInv, Stop
  PROVE  IInv' /\ MapStep
<1>1. TypeOK
  BY DEF IInv
<1>2. /\ pc' = "down" /\ buffer' = Nothing /\ segs' = {} /\ nextSeq' = 0
      /\ cache' = Nothing /\ doomed' = {} /\ disk' = disk
  BY DEF Stop
<1>3. TypeOK'
  <2>1. Cardinality(DOMAIN Nothing) <= CacheCap
    BY NothingIs, FS_EmptySet, LimitsAssumption
  <2>2. 0 \in 0..MaxSeq
    BY LimitsAssumption
  <2>3. QED
    BY <1>1, <1>2, <2>1, <2>2, NothingIs DEF TypeOK
<1>4. CacheInv'
  BY <1>2, NothingIs DEF CacheInv
<1>5. DownInv' /\ NumbersInv' /\ OrphanInv' /\ MergingInv' /\ RemovingInv'
  BY <1>2 DEF DownInv, NumbersInv, OrphanInv, MergingInv, RemovingInv
<1>6. Shown' = OnDisk /\ OnDisk' = OnDisk
  BY <1>2 DEF Shown, OnDisk
<1>7. QED
  BY <1>3, <1>4, <1>5, <1>6 DEF IInv, MapStep

(* The merge writes what the segments answer, so it changes no answer:       *)
(* neither of all the files, nor of its own segment alone.                   *)
LEMMA MergeAnswers ==
  ASSUME IInv, pc = "merging", nextSeq < MaxSeq, disk' = Set(disk, nextSeq, Merged)
  PROVE  /\ \A k : Newest(disk', segs \cup {nextSeq}, k) = Newest(disk, segs, k)
         /\ \A k : Newest(disk', {nextSeq}, k) = Newest(disk, segs, k)
         /\ segs' = segs => Merged' = Merged
<1>1. TypeOK
  BY DEF IInv
<1>2. /\ Merged \in Map
      /\ \A k : k \in DOMAIN Merged <=> Newest(disk, segs, k) # NoValue
      /\ \A k \in DOMAIN Merged : Merged[k] = Newest(disk, segs, k)
  BY <1>1, MergedIs
<1>3. /\ disk'[nextSeq] = Merged
      /\ \A k : Newest(disk', segs \cup {nextSeq}, k) =
                  IF k \in DOMAIN Merged THEN Merged[k] ELSE Newest(disk, segs, k)
      /\ \A k : Newest(disk', segs, k) = Newest(disk, segs, k)
  BY <1>2, WriteIs
<1>4. \A k : Newest(disk', segs \cup {nextSeq}, k) = Newest(disk, segs, k)
  BY <1>2, <1>3
<1>5. ASSUME NEW k PROVE Newest(disk', {nextSeq}, k) = Newest(disk, segs, k)
  <2>1. CASE k \in DOMAIN Merged
    <3>1. Holds(disk', nextSeq, k) /\ nextSeq \in Int
      BY <1>1, <1>3, <2>1, FilesAre, LimitsAssumption DEF Holds
    <3>2. \A n \in {nextSeq} : n <= nextSeq
      BY <3>1
    <3>3. Newest(disk', {nextSeq}, k) = disk'[nextSeq][k]
      BY <3>1, <3>2, NewestTop
    <3>4. QED
      BY <1>2, <1>3, <2>1, <3>3
  <2>2. CASE k \notin DOMAIN Merged
    <3>1. \A n \in {nextSeq} : ~Holds(disk', n, k)
      BY <1>3, <2>2 DEF Holds
    <3>2. QED
      BY <1>2, <2>2, <3>1, NewestNone
  <2>3. QED
    BY <2>1, <2>2
<1>6. segs' = segs => Merged' = Merged
  BY <1>3 DEF Merged
<1>7. QED
  BY <1>4, <1>5, <1>6

(* Nothing is left: every segment is to go.                                  *)
LEMMA MergeNothing ==
  ASSUME IInv, pc = "merging", Merged = Nothing,
         segs' = {}, doomed' = segs, pc' = "removing",
         UNCHANGED <<disk, nextSeq, buffer, cache>>
  PROVE  IInv' /\ MapStep
<1>1. TypeOK /\ CacheInv /\ NumbersInv /\ OrphanInv /\ buffer = Nothing /\ segs # {}
  BY DEF IInv, MergingInv
<1>2. \A k : Newest(disk, segs, k) = NoValue
  BY <1>1, MergedIs, NothingIs
<1>3. nextSeq \notin DOMAIN disk /\ DOMAIN disk = segs
  <2>1. nextSeq \notin DOMAIN disk
    BY <1>1 DEF OrphanInv
  <2>2. segs \subseteq DOMAIN disk /\ DOMAIN disk \subseteq segs \cup {nextSeq}
    BY UpFiles
  <2>3. QED
    BY <2>1, <2>2
<1>4. \A k : Newest(disk, {}, k) = NoValue
  BY NewestNone
<1>5. DOMAIN cache = {}
  BY <1>1, <1>2 DEF CacheInv, TypeOK
<1>6. TypeOK'
  BY <1>1 DEF TypeOK
<1>7. NumbersInv'
  BY <1>1, <1>3 DEF NumbersInv
<1>8. CacheInv'
  BY <1>5 DEF CacheInv
<1>9. RemovingInv'
  <2>1. Cardinality({}) <= 1
    BY FS_EmptySet
  <2>2. QED
    BY <1>1, <1>2, <1>3, <1>4, <2>1 DEF RemovingInv
<1>10. DownInv' /\ OrphanInv' /\ MergingInv'
  BY DEF DownInv, OrphanInv, MergingInv
<1>11. Shown' = Shown /\ OnDisk' = OnDisk
  <2>1. Shown = Live
    BY <1>1, ShownIs
  <2>2. Shown' = Live'
    BY <1>8 DEF Shown, Live, CacheInv, Answer
  <2>3. Live' = Live
    BY <1>1, <1>2, <1>4, NothingIs DEF Live
  <2>4. QED
    BY <2>1, <2>2, <2>3 DEF OnDisk
<1>12. QED
  BY <1>6, <1>7, <1>8, <1>9, <1>10, <1>11 DEF IInv, MapStep

(* The write failed before the file was in place: as if it was never tried.  *)
LEMMA MergeLost ==
  ASSUME IInv, pc = "merging", pc' = "up", doomed' = {},
         UNCHANGED <<disk, segs, nextSeq, buffer, cache>>
  PROVE  IInv' /\ MapStep
<1>1. TypeOK /\ CacheInv /\ NumbersInv /\ OrphanInv /\ doomed = {}
  BY DEF IInv, OrphanInv
<1>2. TypeOK' /\ CacheInv' /\ NumbersInv'
  BY <1>1 DEF TypeOK, CacheInv, NumbersInv
<1>3. Merged' = Merged
  BY DEF Merged
<1>4. OrphanInv'
  BY <1>1, <1>3 DEF OrphanInv
<1>5. DownInv' /\ MergingInv' /\ RemovingInv'
  BY DEF DownInv, MergingInv, RemovingInv
<1>6. Shown' = Shown /\ OnDisk' = OnDisk
  BY DEF Shown, OnDisk, Answer
<1>7. QED
  BY <1>2, <1>4, <1>5, <1>6 DEF IInv, MapStep

(* The write failed after the file was in place: the orphan is the merge.    *)
LEMMA MergeOrphan ==
  ASSUME IInv, pc = "merging", Merged # Nothing, nextSeq < MaxSeq,
         disk' = Set(disk, nextSeq, Merged), pc' = "up", doomed' = {},
         UNCHANGED <<segs, nextSeq, buffer, cache>>
  PROVE  IInv' /\ MapStep
<1>1. TypeOK /\ CacheInv /\ NumbersInv /\ OrphanInv /\ doomed = {} /\ buffer = Nothing
  BY DEF IInv, OrphanInv, MergingInv
<1>2. Merged \in Map
  BY <1>1, MergedIs
<1>3. /\ DOMAIN disk' = segs \cup {nextSeq} /\ DOMAIN disk' \subseteq 0..(MaxSeq - 1)
      /\ disk'[nextSeq] = Merged /\ \A n \in DOMAIN disk' : disk'[n] \in Map
      /\ \A k : Newest(disk', segs, k) = Newest(disk, segs, k)
  BY <1>2, WriteIs
<1>4. Merged' = Merged /\ \A k : Newest(disk', segs \cup {nextSeq}, k) = Newest(disk, segs, k)
  BY MergeAnswers
<1>5. TypeOK'
  BY <1>1, <1>3 DEF TypeOK
<1>6. CacheInv'
  BY <1>1, <1>3 DEF CacheInv
<1>7. NumbersInv'
  <2>1. \A n \in segs \cup {nextSeq} : n <= nextSeq
    <3>1. \A n \in segs : n < nextSeq
      BY UpFiles
    <3>2. nextSeq \in 0..MaxSeq /\ segs \in SUBSET (0..MaxSeq)
      BY <1>1, FilesAre
    <3>3. QED
      BY <3>1, <3>2, LimitsAssumption
  <2>2. nextSeq \notin segs \cup doomed
    BY <1>1 DEF NumbersInv
  <2>3. QED
    BY <1>1, <1>3, <2>1, <2>2 DEF NumbersInv
<1>8. OrphanInv'
  <2>1. Cardinality(segs') >= 2
    BY DEF IInv, MergingInv
  <2>2. QED
    BY <1>3, <1>4, <2>1 DEF OrphanInv
<1>9. DownInv' /\ MergingInv' /\ RemovingInv'
  BY DEF DownInv, MergingInv, RemovingInv
<1>10. Shown' = Shown /\ OnDisk' = Shown
  <2>1. Shown = Live
    BY <1>1, ShownIs
  <2>2. Shown' = Live'
    BY <1>6 DEF Shown, Live, CacheInv, Answer
  <2>3. Live' = Live
    BY <1>3 DEF Live
  <2>4. OnDisk' = Live
    BY <1>1, <1>3, <1>4, NothingIs DEF OnDisk, Live
  <2>5. QED
    BY <2>1, <2>2, <2>3, <2>4
<1>11. QED
  BY <1>5, <1>6, <1>7, <1>8, <1>9, <1>10 DEF IInv, MapStep

(* The merged segment is the only one, and the old ones are to go.           *)
LEMMA MergeOk ==
  ASSUME IInv, pc = "merging", Merged # Nothing, nextSeq < MaxSeq,
         disk' = Set(disk, nextSeq, Merged), pc' = "removing",
         segs' = {nextSeq}, doomed' = segs, nextSeq' = nextSeq + 1,
         UNCHANGED <<buffer, cache>>
  PROVE  IInv' /\ MapStep
<1>1. TypeOK /\ CacheInv /\ NumbersInv /\ buffer = Nothing /\ segs # {}
  BY DEF IInv, MergingInv
<1>2. Merged \in Map /\ \A k \in DOMAIN Merged : Merged[k] # NoValue
  BY <1>1, MergedIs
<1>3. /\ DOMAIN disk' = segs \cup {nextSeq} /\ DOMAIN disk' \subseteq 0..(MaxSeq - 1)
      /\ disk'[nextSeq] = Merged /\ \A n \in DOMAIN disk' : disk'[n] \in Map
  BY <1>2, WriteIs
<1>4. /\ \A k : Newest(disk', segs \cup {nextSeq}, k) = Newest(disk, segs, k)
      /\ \A k : Newest(disk', {nextSeq}, k) = Newest(disk, segs, k)
  BY MergeAnswers
<1>5. /\ \A n \in segs : n < nextSeq
      /\ nextSeq \in 0..MaxSeq /\ segs \in SUBSET (0..MaxSeq)
  BY <1>1, UpFiles, FilesAre
<1>6. nextSeq + 1 \in 0..MaxSeq /\ \A n \in segs \cup {nextSeq} : n <= nextSeq + 1 /\ n # nextSeq + 1
  BY <1>5, LimitsAssumption
<1>7. TypeOK'
  BY <1>1, <1>3, <1>6 DEF TypeOK
<1>8. NumbersInv'
  BY <1>3, <1>6 DEF NumbersInv
<1>9. CacheInv'
  BY <1>1, <1>4 DEF CacheInv
<1>10. RemovingInv'
  <2>1. Cardinality(segs') <= 1
    BY FS_Singleton
  <2>2. nextSeq' \notin DOMAIN disk'
    BY <1>3, <1>6
  <2>3. \A k \in Keys : Newest(disk', DOMAIN disk', k) = Newest(disk', segs', k)
    BY <1>3, <1>4
  <2>4. \A n \in segs' : \A k \in DOMAIN disk'[n] : disk'[n][k] # NoValue
    BY <1>2, <1>3
  <2>5. \A d \in doomed', n \in segs' : d < n
    BY <1>5
  <2>6. QED
    BY <1>1, <2>1, <2>2, <2>3, <2>4, <2>5 DEF RemovingInv
<1>11. DownInv' /\ OrphanInv' /\ MergingInv'
  BY DEF DownInv, OrphanInv, MergingInv
<1>12. Shown' = Shown /\ OnDisk' = Shown
  <2>1. Shown = Live
    BY <1>1, ShownIs
  <2>2. Shown' = Live'
    BY <1>9 DEF Shown, Live, CacheInv, Answer
  <2>3. Live' = Live
    BY <1>4 DEF Live
  <2>4. OnDisk' = Live
    BY <1>1, <1>3, <1>4, NothingIs DEF OnDisk, Live
  <2>5. QED
    BY <2>1, <2>2, <2>3, <2>4
<1>13. QED
  BY <1>7, <1>8, <1>9, <1>10, <1>11, <1>12 DEF IInv, MapStep

LEMMA MergeStep ==
  ASSUME IInv, Merge
  PROVE  IInv' /\ MapStep
<1>1. pc = "merging" /\ UNCHANGED <<buffer, cache>> /\ doomed = {}
  BY DEF Merge, IInv, OrphanInv
<1>2. CASE /\ Merged = Nothing /\ segs' = {} /\ doomed' = segs /\ pc' = "removing"
           /\ UNCHANGED <<disk, nextSeq>>
  BY <1>1, <1>2, MergeNothing
<1>3. ASSUME Merged # Nothing, NEW outcome \in Outcomes,
             WriteSegment(Merged, outcome),
             segs' = IF outcome = "ok" THEN {nextSeq} ELSE segs,
             doomed' = IF outcome = "ok" THEN segs ELSE {},
             pc' = IF outcome = "ok" THEN "removing" ELSE "up"
      PROVE  IInv' /\ MapStep
  <2>1. CASE outcome = "ok"
    BY <1>1, <1>3, <2>1, MergeOk DEF WriteSegment
  <2>2. CASE outcome = "lost"
    BY <1>1, <1>3, <2>2, MergeLost DEF WriteSegment
  <2>3. CASE outcome = "orphan"
    BY <1>1, <1>3, <2>3, MergeOrphan DEF WriteSegment
  <2>4. outcome \in {"ok", "lost", "orphan"}
    BY FaultsAssumption DEF Outcomes
  <2>5. QED
    BY <2>1, <2>2, <2>3, <2>4
<1>4. QED
  BY <1>2, <1>3 DEF Merge

(* Taking away the least file, none of the segments, leaves their answers.   *)
LEMMA RemovedAnswers ==
  ASSUME NEW m, segs \in SUBSET (DOMAIN disk), DOMAIN disk \in SUBSET (0..MaxSeq),
         m \in DOMAIN disk, m \notin segs, \A n \in DOMAIN disk : m <= n,
         DOMAIN disk' = DOMAIN disk \ {m},
         \A n \in DOMAIN disk \ {m} : disk'[n] = disk[n],
         \A k \in Keys : Newest(disk, DOMAIN disk, k) = Newest(disk, segs, k)
  PROVE  /\ \A k \in Keys : Newest(disk', DOMAIN disk', k) = Newest(disk, segs, k)
         /\ \A k : Newest(disk', segs, k) = Newest(disk, segs, k)
<1>1. ASSUME NEW k \in Keys
      PROVE  Newest(disk', DOMAIN disk \ {m}, k) = Newest(disk, segs, k)
  BY NewestRemove
<1>2. ASSUME NEW k PROVE Newest(disk', segs, k) = Newest(disk, segs, k)
  <2>1. segs \in SUBSET (0..MaxSeq) /\ \A n \in segs : disk'[n] = disk[n]
    OBVIOUS
  <2>2. QED
    BY <2>1, NewestSame DEF Holds
<1>3. QED
  BY <1>1, <1>2

(* The oldest of the merged-away files goes: what is left answers as before, *)
(* and when it was the last, only the merged segment is left.                *)
LEMMA RemoveStep ==
  ASSUME IInv, RemoveOldest, ~RemovalFails
  PROVE  /\ IInv' /\ MapStep
         /\ pc' = "up" => DOMAIN disk' = segs /\ \A n \in segs : disk'[n] = disk[n]
<1> DEFINE m == Min(doomed)
<1>1. TypeOK /\ CacheInv /\ NumbersInv
  BY DEF IInv
<1>2. /\ pc = "removing" /\ buffer = Nothing /\ doomed # {} /\ nextSeq \notin DOMAIN disk
      /\ \A d \in doomed, n \in segs : d < n
      /\ \A k \in Keys : Newest(disk, DOMAIN disk, k) = Newest(disk, segs, k)
      /\ Cardinality(segs) <= 1
      /\ \A n \in segs : \A k \in DOMAIN disk[n] : disk[n][k] # NoValue
  BY DEF RemoveOldest, IInv, RemovingInv
<1>3. /\ disk' = Without(disk, m) /\ doomed' = doomed \ {m}
      /\ pc' = IF doomed' = {} THEN "up" ELSE "removing"
      /\ UNCHANGED <<buffer, segs, nextSeq, cache>>
  BY DEF RemoveOldest
<1>4. /\ segs \in SUBSET (0..MaxSeq) /\ doomed \in SUBSET (0..MaxSeq)
      /\ DOMAIN disk \in SUBSET (0..MaxSeq)
  BY <1>1, FilesAre
<1>5. m \in doomed /\ \A d \in doomed : m <= d
  <2>1. doomed \in SUBSET Nat /\ doomed \in SUBSET Int
    BY <1>4, LimitsAssumption
  <2>2. PICK d \in doomed : \A e \in doomed : d <= e
    BY <1>2, <2>1, LeastElement
  <2>3. m = d
    BY <2>1, <2>2, MinIs
  <2>4. QED
    BY <2>2, <2>3
<1> HIDE DEF m
<1>6. /\ segs \subseteq DOMAIN disk /\ doomed \subseteq DOMAIN disk
      /\ DOMAIN disk \subseteq segs \cup doomed
  BY <1>1, <1>2 DEF TypeOK, NumbersInv
<1>7. m \in Int /\ m \notin segs /\ \A n \in DOMAIN disk : m <= n
  <2>1. m \in Int /\ segs \in SUBSET Int /\ ~(m < m)
    BY <1>4, <1>5, LimitsAssumption
  <2>2. m \notin segs
    BY <1>2, <1>5, <2>1
  <2>3. \A n \in segs : m <= n
    BY <1>2, <1>5, <2>1
  <2>4. QED
    BY <1>5, <1>6, <2>1, <2>2, <2>3
<1>8. /\ DOMAIN disk' = DOMAIN disk \ {m}
      /\ \A n \in DOMAIN disk \ {m} : disk'[n] = disk[n]
  BY <1>3 DEF Without
<1>9. /\ \A k \in Keys : Newest(disk', DOMAIN disk', k) = Newest(disk, segs, k)
      /\ \A k : Newest(disk', segs, k) = Newest(disk, segs, k)
  BY <1>2, <1>4, <1>5, <1>6, <1>7, <1>8, RemovedAnswers
<1>10. TypeOK'
  BY <1>1, <1>3, <1>6, <1>7, <1>8 DEF TypeOK
<1>11. NumbersInv'
  BY <1>1, <1>2, <1>3, <1>8 DEF NumbersInv
<1>12. CacheInv'
  BY <1>1, <1>3, <1>9 DEF CacheInv
<1>13. OrphanInv'
  BY <1>2, <1>3, <1>8 DEF OrphanInv
<1>14. RemovingInv'
  <2>1. \A n \in segs : disk'[n] = disk[n]
    BY <1>6, <1>7, <1>8
  <2>2. SUFFICES ASSUME pc' = "removing" PROVE RemovingInv'
    BY DEF RemovingInv
  <2>3. doomed' # {} /\ nextSeq' \notin DOMAIN disk' /\ buffer' = Nothing
    BY <1>2, <1>3, <1>8, <2>2
  <2>4. \A d \in doomed', n \in segs' : d < n
    BY <1>2, <1>3
  <2>5. \A k \in Keys : Newest(disk', DOMAIN disk', k) = Newest(disk', segs', k)
    BY <1>3, <1>9
  <2>6. Cardinality(segs') <= 1
    BY <1>2, <1>3
  <2>7. \A n \in segs' : \A k \in DOMAIN disk'[n] : disk'[n][k] # NoValue
    BY <1>2, <1>3, <2>1
  <2>8. QED
    BY <2>3, <2>4, <2>5, <2>6, <2>7 DEF RemovingInv
<1>15. DownInv' /\ MergingInv'
  BY <1>3 DEF DownInv, MergingInv
<1>16. Shown' = Shown /\ OnDisk' = OnDisk
  <2>1. Shown = Live
    BY <1>1, <1>2, ShownIs
  <2>2. Shown' = Live'
    BY <1>3, <1>12 DEF Shown, Live, CacheInv, Answer
  <2>3. Live' = Live
    BY <1>3, <1>9 DEF Live
  <2>4. OnDisk' = OnDisk
    BY <1>2, <1>9 DEF OnDisk
  <2>5. QED
    BY <2>1, <2>2, <2>3, <2>4
<1>17. pc' = "up" => DOMAIN disk' = segs /\ \A n \in segs : disk'[n] = disk[n]
  BY <1>3, <1>5, <1>6, <1>7, <1>8
<1>18. QED
  BY <1>10, <1>11, <1>12, <1>13, <1>14, <1>15, <1>16, <1>17 DEF IInv, MapStep

-----------------------------------------------------------------------------
(* The theorems                                                              *)

LEMMA InitKeeps ==
  ASSUME Init
  PROVE  IInv /\ Shown = [k \in Keys |-> NoValue] /\ OnDisk = [k \in Keys |-> NoValue]
<1>1. TypeOK
  <2>1. Cardinality(DOMAIN Nothing) <= CacheCap
    BY NothingIs, FS_EmptySet, LimitsAssumption
  <2>2. 0 \in 0..MaxSeq
    BY LimitsAssumption
  <2>3. QED
    BY <2>1, <2>2, NothingIs DEF Init, TypeOK
<1>2. DownInv /\ NumbersInv /\ CacheInv /\ OrphanInv /\ MergingInv /\ RemovingInv
  BY NothingIs DEF Init, DownInv, NumbersInv, CacheInv, OrphanInv, MergingInv, RemovingInv
<1>3. DOMAIN disk = {}
  BY DEF Init
<1>4. OnDisk = [k \in Keys |-> NoValue]
  BY <1>3, NewestNone DEF OnDisk
<1>5. Shown = OnDisk
  BY DEF Init, Shown
<1>6. QED
  BY <1>1, <1>2, <1>4, <1>5 DEF IInv

LEMMA NextKeeps ==
  ASSUME IInv, [Next]_vars, ~RemovalFails
  PROVE  IInv' /\ MapStep
<1>1. CASE Open
  BY <1>1, OpenStep
<1>2. CASE Stop
  BY <1>2, StopStep
<1>3. ASSUME NEW k \in Keys, NEW v \in Values, Put(k, v) PROVE IInv' /\ MapStep
  BY <1>3, UpdateKeeps DEF Put, Slots
<1>4. ASSUME NEW k \in Keys, Delete(k) PROVE IInv' /\ MapStep
  BY <1>4, UpdateKeeps DEF Delete, Slots
<1>5. ASSUME NEW k \in Keys, Get(k) PROVE IInv' /\ MapStep
  BY <1>5, GetKeeps
<1>6. CASE Flush
  BY <1>6, FlushStep
<1>7. CASE Compact
  BY <1>7, CompactStep
<1>8. CASE Merge
  BY <1>8, MergeStep
<1>9. CASE RemoveOldest
  BY <1>9, RemoveStep
<1>10. CASE UNCHANGED vars
  <2>1. IInv'
    BY <1>10 DEF vars, IInv, TypeOK, DownInv, NumbersInv, CacheInv, OrphanInv, MergingInv,
                 RemovingInv, Merged
  <2>2. Shown' = Shown /\ OnDisk' = OnDisk
    BY <1>10 DEF vars, Shown, OnDisk, Answer
  <2>3. QED
    BY <2>1, <2>2 DEF MapStep
<1>11. QED
  BY <1>1, <1>2, <1>3, <1>4, <1>5, <1>6, <1>7, <1>8, <1>9, <1>10 DEF Next

(* The reachable states are states of IInv.                                  *)
LEMMA InductiveInvariant ==
  ASSUME ~RemovalFails
  PROVE  Spec => []IInv
<1>1. Init => IInv
  BY InitKeeps
<1>2. IInv /\ [Next]_vars => IInv'
  BY NextKeeps
<1>3. QED
  BY <1>1, <1>2, PTL DEF Spec

(* The handle only knows files that exist, and the cache holds values, never *)
(* tombstones, within its bound.                                             *)
THEOREM TypeCorrect ==
  ASSUME ~RemovalFails
  PROVE  Spec => []TypeOK
<1>1. IInv => TypeOK
  BY DEF IInv
<1>2. QED
  BY <1>1, InductiveInvariant, PTL

(* A file that a failed write left behind carries the number of the next     *)
(* segment: it is written over before it could answer for anything newer.    *)
THEOREM OrphansAreNext ==
  ASSUME ~RemovalFails
  PROVE  Spec => []OrphanIsNext
<1>1. IInv => OrphanIsNext
  BY UpFiles DEF OrphanIsNext
<1>2. QED
  BY <1>1, InductiveInvariant, PTL

(* However a compaction returns without an error, its segment, if there is   *)
(* one, is the only file; what was merged is left without tombstones.        *)
THEOREM CompactionAlwaysCollects ==
  ASSUME ~RemovalFails
  PROVE  Spec => CompactionCollects
<1> DEFINE Alone == pc = "up" /\ buffer = Nothing /\ Cardinality(segs) < 2
                      => DOMAIN disk = segs
           Collects == pc = "removing" /\ pc' = "up" =>
             /\ DOMAIN disk' = segs' /\ Cardinality(segs') <= 1
             /\ \A n \in segs', k \in Keys : k \in DOMAIN disk'[n] => disk'[n][k] # NoValue
<1>1. ASSUME IInv, [Next]_vars PROVE Collects
  <2> SUFFICES ASSUME pc = "removing", pc' = "up" PROVE Collects
    OBVIOUS
  <2>1. RemoveOldest
    BY <1>1 DEF Next, vars, Open, Stop, Put, Delete, Update, Get, Flush, Compact, Merge
  <2>2. DOMAIN disk' = segs /\ \A n \in segs : disk'[n] = disk[n]
    BY <1>1, <2>1, RemoveStep
  <2>3. /\ Cardinality(segs) <= 1
        /\ \A n \in segs : \A k \in DOMAIN disk[n] : disk[n][k] # NoValue
    BY <1>1 DEF IInv, RemovingInv
  <2>4. segs' = segs
    BY <2>1 DEF RemoveOldest
  <2>5. QED
    BY <2>2, <2>3, <2>4
<1>2. IInv /\ [Next]_vars => [Collects]_vars
  BY <1>1
<1>3. ASSUME IInv PROVE Alone
  <2> SUFFICES ASSUME pc = "up", buffer = Nothing, Cardinality(segs) < 2
               PROVE  DOMAIN disk = segs
    OBVIOUS
  <2>1. segs \in SUBSET (0..MaxSeq)
    BY <1>3, FilesAre DEF IInv
  <2>2. Cardinality(segs) \in Nat
    <3>1. IsFiniteSet(0..MaxSeq)
      BY LimitsAssumption, FS_Interval
    <3>2. IsFiniteSet(segs)
      BY <2>1, <3>1, FS_Subset
    <3>3. QED
      BY <3>2, FS_CardinalityType
  <2>3. nextSeq \notin DOMAIN disk
    BY <1>3, <2>2 DEF IInv, OrphanInv
  <2> QED
    BY <1>3, <2>3, UpFiles
<1>4. QED
  BY <1>2, <1>3, InductiveInvariant, PTL DEF Spec, CompactionCollects

(* The store is the map it promises: every step is an update, a save or a    *)
(* restart of DurableMap, or changes nothing a caller could see.             *)
THEOREM StoreImplementsDurableMap ==
  ASSUME ~RemovalFails
  PROVE  Spec => ImplementsDurableMap
<1>1. Init => DM!Init
  BY InitKeeps DEF DM!Init, Shown
<1>2. IInv /\ [Next]_vars => [DM!Next]_(DM!vars)
  <2> SUFFICES ASSUME IInv, [Next]_vars PROVE [DM!Next]_(DM!vars)
    OBVIOUS
  <2>1. MapStep
    BY NextKeeps
  <2>2. QED
    BY <2>1 DEF MapStep, Shown, Slots, DM!Next, DM!vars, DM!Update, DM!Save, DM!Restart
<1>3. QED
  BY <1>1, <1>2, InductiveInvariant, PTL DEF Spec, ImplementsDurableMap, DM!Spec

=============================================================================

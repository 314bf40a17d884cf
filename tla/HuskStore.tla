----------------------------- MODULE HuskStore ------------------------------
(***************************************************************************)
(* The on-disk key-value store of src/cold_index.rs: a memtable flushed to *)
(* immutable segment files, read newest first through a bounded cache, and *)
(* compacted into one segment.                                             *)
(*                                                                         *)
(* A segment file is the map it holds (a tombstone is NoValue); files are  *)
(* named by their sequence number. Writing one is atomic (write_durable    *)
(* renames), but the call can fail before the rename or after it. The      *)
(* process can stop between any two of the writes and removals.            *)
(***************************************************************************)
EXTENDS Integers, FiniteSetsExt

CONSTANTS
  Keys,
  Values,
  NoValue,
  BufferLimit,  \* memtable entries that trigger a flush
  CacheCap,     \* entries of the read cache
  Faults,       \* which ways a segment write may fail, of "lost" and "orphan"
  RemovalFails, \* whether removing a merged-away file may fail
  MaxSeq        \* bound: sequence numbers given to segments

ASSUME ValuesAssumption == NoValue \notin Values
ASSUME LimitsAssumption == BufferLimit \in Nat /\ CacheCap \in Nat /\ MaxSeq \in Nat
ASSUME KeysAssumption == IsFiniteSet(Keys)
ASSUME FaultsAssumption == Faults \subseteq {"lost", "orphan"} /\ RemovalFails \in BOOLEAN

VARIABLES
  disk,     \* the segment files: disk[n] is the map in file seg-n
  pc,       \* "down", "up", or inside compact: "merging", "removing"
  buffer,   \* the memtable
  segs,     \* the segments the handle knows, by number
  nextSeq,  \* the number the next segment gets
  cache,    \* the read cache
  doomed    \* merged-away files compact has still to remove

vars == <<disk, pc, buffer, segs, nextSeq, cache, doomed>>

-----------------------------------------------------------------------------
(* Maps from some of the keys, and lookups *)

Nothing == [k \in {} |-> NoValue]
Set(f, k, v) == [j \in DOMAIN f \cup {k} |-> IF j = k THEN v ELSE f[j]]
Without(f, k) == [j \in DOMAIN f \ {k} |-> f[j]]

\* Newest first: the highest numbered of the files that has the key.
Newest(files, S, k) ==
  LET holders == {n \in S : k \in DOMAIN files[n]}
  IN  IF holders = {} THEN NoValue ELSE files[Max(holders)][k]

\* get: the memtable, else the cache, else the segments.
Answer(k) ==
  IF k \in DOMAIN buffer THEN buffer[k]
  ELSE IF k \in DOMAIN cache THEN cache[k]
  ELSE Newest(disk, segs, k)

\* Fault: a merge that keeps tombstones.
MergedTombstones ==
  [k \in {j \in Keys : \E n \in segs : j \in DOMAIN disk[n]} |-> Newest(disk, segs, k)]

\* What oldest-to-newest replay of the segments leaves: no tombstone.
Merged ==
  [k \in {j \in Keys : Newest(disk, segs, j) # NoValue} |-> Newest(disk, segs, k)]

-----------------------------------------------------------------------------
(* Segment writes *)

Outcomes == {"ok"} \cup Faults

\* The file takes the next number. It is in place unless the write was lost,
\* but the handle knows of it only when the call succeeded.
WriteSegment(content, outcome) ==
  /\ nextSeq < MaxSeq
  /\ disk' = IF outcome = "lost" THEN disk ELSE Set(disk, nextSeq, content)
  /\ nextSeq' = IF outcome = "ok" THEN nextSeq + 1 ELSE nextSeq

\* flush, of a memtable that holds b; a failure keeps the memtable.
FlushBuffer(b) ==
  \/ /\ b = Nothing
     /\ buffer' = b
     /\ UNCHANGED <<disk, segs, nextSeq>>
  \/ /\ b # Nothing
     /\ \E outcome \in Outcomes :
          /\ WriteSegment(b, outcome)
          /\ segs' = IF outcome = "ok" THEN segs \cup {nextSeq} ELSE segs
          /\ buffer' = IF outcome = "ok" THEN Nothing ELSE b

-----------------------------------------------------------------------------
(* Actions *)

Init ==
  /\ disk = [n \in {} |-> Nothing]
  /\ pc = "down"
  /\ buffer = Nothing
  /\ segs = {}
  /\ nextSeq = 0
  /\ cache = Nothing
  /\ doomed = {}

Open ==
  /\ pc = "down"
  /\ pc' = "up"
  /\ segs' = DOMAIN disk
  /\ nextSeq' = IF DOMAIN disk = {} THEN 0 ELSE Max(DOMAIN disk) + 1
  /\ UNCHANGED <<disk, buffer, cache, doomed>>

\* The process ends, wherever it stands: only the files remain.
Stop ==
  /\ pc # "down"
  /\ pc' = "down"
  /\ buffer' = Nothing
  /\ segs' = {}
  /\ nextSeq' = 0
  /\ cache' = Nothing
  /\ doomed' = {}
  /\ UNCHANGED disk

Update(k, v) ==
  LET b == Set(buffer, k, v) IN
  /\ pc = "up"
  /\ cache' = Without(cache, k)
  /\ IF Cardinality(DOMAIN b) >= BufferLimit
     THEN FlushBuffer(b)
     ELSE buffer' = b /\ UNCHANGED <<disk, segs, nextSeq>>
  /\ UNCHANGED <<pc, doomed>>

Put(k, v) == Update(k, v)
Delete(k) == Update(k, NoValue)

\* A value found in a segment enters the cache; when it is full, one of its
\* entries leaves. (Which one, the least recently used, matters to no one here.)
Get(k) ==
  LET v == Newest(disk, segs, k) IN
  /\ pc = "up"
  /\ k \notin DOMAIN buffer
  /\ k \notin DOMAIN cache
  /\ v # NoValue
  /\ CacheCap > 0
  /\ IF Cardinality(DOMAIN cache) < CacheCap
     THEN cache' = Set(cache, k, v)
     ELSE \E victim \in DOMAIN cache : cache' = Set(Without(cache, victim), k, v)
  /\ UNCHANGED <<disk, pc, buffer, segs, nextSeq, doomed>>

Flush ==
  /\ pc = "up"
  /\ FlushBuffer(buffer)
  /\ UNCHANGED <<pc, cache, doomed>>

\* compact, first the memtable: fewer than two segments need no merge.
Compact ==
  /\ pc = "up"
  /\ FlushBuffer(buffer)
  /\ pc' = IF buffer' = Nothing /\ Cardinality(segs') >= 2 THEN "merging" ELSE "up"
  /\ UNCHANGED <<cache, doomed>>

\* Then the merged segment, if anything is left to hold, becomes the only one.
Merge ==
  /\ pc = "merging"
  /\ \/ /\ Merged = Nothing
        /\ segs' = {}
        /\ doomed' = segs
        /\ pc' = "removing"
        /\ UNCHANGED <<disk, nextSeq>>
     \/ /\ Merged # Nothing
        /\ \E outcome \in Outcomes :
             /\ WriteSegment(Merged, outcome)
             /\ segs' = IF outcome = "ok" THEN {nextSeq} ELSE segs
             /\ doomed' = IF outcome = "ok" THEN segs ELSE {}
             /\ pc' = IF outcome = "ok" THEN "removing" ELSE "up"
  /\ UNCHANGED <<buffer, cache>>

\* Fault: the old files go newest first.
RemoveNewest ==
  /\ pc = "removing"
  /\ disk' = Without(disk, Max(doomed))
  /\ doomed' = doomed \ {Max(doomed)}
  /\ pc' = IF doomed' = {} THEN "up" ELSE "removing"
  /\ UNCHANGED <<buffer, segs, nextSeq, cache>>

\* Then the old files go, oldest first; a removal that fails is ignored.
RemoveOldest ==
  /\ pc = "removing"
  /\ disk' \in {Without(disk, Min(doomed))} \cup (IF RemovalFails THEN {disk} ELSE {})
  /\ doomed' = doomed \ {Min(doomed)}
  /\ pc' = IF doomed' = {} THEN "up" ELSE "removing"
  /\ UNCHANGED <<buffer, segs, nextSeq, cache>>

Next ==
  \/ Open
  \/ Stop
  \/ \E k \in Keys, v \in Values : Put(k, v)
  \/ \E k \in Keys : Delete(k)
  \/ \E k \in Keys : Get(k)
  \/ Flush
  \/ Compact
  \/ Merge
  \/ RemoveOldest

Spec == Init /\ [][Next]_vars

-----------------------------------------------------------------------------
(* Properties *)

Slots == Values \cup {NoValue}
Map == UNION {[K -> Slots] : K \in SUBSET Keys}

(* Every variable has its type, the handle only knows files that exist, and  *)
(* the cache holds values, never tombstones, within its bound.               *)
TypeOK ==
  /\ DOMAIN disk \subseteq 0..(MaxSeq - 1)
  /\ \A n \in DOMAIN disk : disk[n] \in Map
  /\ pc \in {"down", "up", "merging", "removing"}
  /\ buffer \in Map
  /\ segs \subseteq DOMAIN disk
  /\ nextSeq \in 0..MaxSeq
  /\ cache \in Map /\ Cardinality(DOMAIN cache) <= CacheCap
  /\ \A k \in DOMAIN cache : cache[k] # NoValue
  /\ doomed \subseteq DOMAIN disk

(* A file the handle does not know of, left by a failed write, carries the   *)
(* number the next segment gets: it is replaced before it can be forgotten   *)
(* and come back, older than what was written since.                         *)
OrphanIsNext ==
  pc = "up" => DOMAIN disk \ segs \subseteq {nextSeq}

(* The store implements the map it promises: get answers the last update     *)
(* whatever was flushed, merged, cached or failed in between, and a restart  *)
(* brings back one past state of the whole map, however far a flush or a     *)
(* compaction had got.                                                       *)
OnDisk == [k \in Keys |-> Newest(disk, DOMAIN disk, k)]
DM == INSTANCE DurableMap WITH
        live  <- IF pc = "down" THEN OnDisk ELSE [k \in Keys |-> Answer(k)],
        saved <- OnDisk
ImplementsDurableMap == DM!Spec

(* However compact returns without an error, one segment file at most is left*)
(* and nothing behind the handle's back: at its end, when the merged-away    *)
(* files are gone, and where it has nothing to merge, with the memtable empty*)
(* and fewer than two segments. What it merged is left without tombstones; a *)
(* segment that is alone is left as it is, with those it has.                *)
CompactionCollects ==
  /\ [](pc = "up" /\ buffer = Nothing /\ Cardinality(segs) < 2 => DOMAIN disk = segs)
  /\ [][pc = "removing" /\ pc' = "up" =>
          /\ DOMAIN disk' = segs' /\ Cardinality(segs') <= 1
          /\ \A n \in segs', k \in Keys : k \in DOMAIN disk'[n] => disk'[n][k] # NoValue]_vars

=============================================================================

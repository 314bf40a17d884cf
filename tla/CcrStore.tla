------------------------------ MODULE CcrStore -------------------------------
(***************************************************************************)
(* The compression of a recalled window and the store of originals behind  *)
(* it (CausalCompressor of src/compressor.rs). A content is a number, its  *)
(* place in the order of the content hashes the store is keyed by; what a  *)
(* compressed form looks like is left out, but for the two facts the code  *)
(* decides by: whether the content is kept in the store when it is         *)
(* compressed, and which forms are near-duplicates.                        *)
(***************************************************************************)
EXTENDS Naturals, Sequences, FiniteSets

CONSTANTS
  Contents,    \* contents of items, by the order of their hashes
  Shortened,   \* contents whose compressed form comes with a reference
  Alike,       \* pairs of contents with near-duplicate compressed forms
  CcrCapacity  \* ccr_capacity: entries of the store; 0 is no bound

ASSUME ContentsAssumption == Contents \subseteq Nat /\ IsFiniteSet(Contents)
ASSUME ShortenedAssumption == Shortened \subseteq Contents
ASSUME AlikeAssumption == Alike \subseteq Contents \X Contents
ASSUME CapacityAssumption == CcrCapacity \in Nat

\* The references an item sequence is handed back with.
Refs(items) == {items[i] : i \in DOMAIN items} \cap Shortened

\* Which items are shown as a placeholder: those like an earlier one that is not.
Duplicate(items) ==
  LET dup[i \in DOMAIN items] ==
        \E j \in 1..(i - 1) : ~dup[j] /\ <<items[i], items[j]>> \in Alike
  IN dup

\* enforce_ccr_capacity: the lowest entries outside keep go until the store is
\* within its capacity, or only keep is left.
EnforceCapacity(store, keep) ==
  LET old == store \ keep
      excess == Cardinality(store) - CcrCapacity
  IN IF CcrCapacity = 0 \/ Cardinality(store) <= CcrCapacity THEN store
     ELSE {c \in store : c \in keep \/ Cardinality({d \in old : d < c}) >= excess}

\* Fault: the capacity is enforced as each original is stored.
CompressEach(store, items) ==
  LET after[i \in 0..Len(items)] ==
        IF i = 0 THEN store
        ELSE IF items[i] \in Shortened
             THEN EnforceCapacity(after[i - 1] \cup {items[i]}, {items[i]})
             ELSE after[i - 1]
  IN [store |-> after[Len(items)],
      window |-> [i \in DOMAIN items |->
                    [content |-> items[i],
                     placeholder |-> Duplicate(items)[i],
                     ref |-> items[i] \in Shortened]]]

\* compress_window: every item is compressed and its original stored, the
\* near-duplicates become placeholders, and the capacity is enforced once.
CompressWindow(store, items) ==
  [store |-> EnforceCapacity(store \cup Refs(items), Refs(items)),
   window |-> [i \in DOMAIN items |->
                 [content |-> items[i],
                  placeholder |-> Duplicate(items)[i],
                  ref |-> items[i] \in Shortened]]]

=============================================================================

----------------------------- MODULE SpillStore -----------------------------
(* The store COLD content is spilled to (memory.rs, ColdSpill): one file per
   content, compressed, named by the hash of the content, and a dictionary the
   files share. Nodes leave the resident window with their content, which goes
   to the store while more than Budget bytes of it are inline, and comes back
   when the node is paged in. Writes fail, leave part of a file, or are the
   last thing the process does. Every call is followed by a checkpoint, so a
   call a stop interrupts is undone, except for what it did to the files.
   A content stands for its own hash. *)
EXTENDS Lzss

CONSTANTS
  Nodes,
  Contents,        \* texts a node may have
  Budget,          \* bytes of COLD content that may stay inline
  DictMinContent,  \* no dictionary for less content than this (256 KB)
  DictMin,         \* nor one shorter than this (4 KB)
  MaxFaults        \* bound: failed writes, interrupted calls and torn files

ASSUME SpillAssumption ==
  /\ {Budget, DictMinContent, MaxFaults} \subseteq Nat
  /\ DictMin \in Nat \ {0, 1}
  /\ Contents \subseteq Seq(Nat) \ {<< >>}

VARIABLES
  node,      \* the checkpointed nodes: where each one's content is
  disk,      \* the files: blobs, the dictionary, and the text its hash is of
  ram,       \* the loaded dictionary and the compressor's table
  up,        \* the process runs, with the store attached
  faults,    \* how many there were
  given,     \* history: what each node was last ingested with
  torn,      \* history: contents whose file is not what was written to it
  undone,    \* history: contents whose file a call removed that a stop undid
  dictTorn   \* history: a file of the dictionary was torn

vars == <<node, disk, ram, up, faults, given, torn, undone, dictTorn>>

NoText == << >>
Absent == [place |-> "absent", text |-> NoText]
NoRam  == [dict |-> NoText, table |-> Empty]

\* Where a node's content is: "resident", "inline" in a COLD entry, or "spilled",
\* and then text is what the hash in the entry is of.
PlaceSet == {"absent", "resident", "inline", "spilled"}

NoFault == [at |-> 0, left |-> "nothing", stops |-> FALSE]

\* What may go wrong in one call: its at-th write fails, or the process stops
\* there. The write left nothing, or part of the file.
FaultSet ==
  {NoFault} \cup
  (IF faults < MaxFaults
   THEN [at : 1..(Cardinality(Nodes) + 3), left : {"nothing", "part"}, stops : BOOLEAN]
   ELSE {})

Short(text) == SubSeq(text, 1, Len(text) - 1)
ShortBlob(blob) == [blob EXCEPT !.tokens = IF @ = << >> THEN @ ELSE Short(@)]

-----------------------------------------------------------------------------
(* A call in progress: the state so far, the writes done, what was removed *)

Started(nodes) ==
  [node |-> nodes, blobs |-> disk.blobs, dictFile |-> disk.dictFile, hashFile |-> disk.hashFile,
   dict |-> ram.dict, table |-> ram.table, torn |-> torn, writes |-> 0,
   removed |-> {}, stopped |-> FALSE]

\* How the next write goes: "whole", or what the fault leaves of it.
Outcome(t, fault) == IF t.writes + 1 = fault.at THEN fault.left ELSE "whole"

\* A dictionary file after a write. A torn hash is as good as none.
After(outcome, old, new, short) ==
  CASE outcome = "whole" -> new [] outcome = "part" -> short [] outcome = "nothing" -> old

Written(t, fault) ==
  [t EXCEPT !.writes = @ + 1,
            !.stopped = @ \/ (t.writes + 1 = fault.at /\ fault.stops)]

\* load_dict: only a dictionary the hash file is of.
Load(d) == IF d.dictFile # NoText /\ d.hashFile = d.dictFile THEN d.dictFile ELSE NoText

\* A loaded dictionary is there for good.
Sealed(t) == t.dict # NoText

\* build_dict: the dictionary, then its hash, and both done it is used.
BuildDict(t, fault, bytes) ==
  LET first  == Outcome(t, fault)
      u      == [Written(t, fault) EXCEPT !.dictFile = After(first, @, bytes, Short(bytes))]
      second == Outcome(u, fault)
      w      == [Written(u, fault) EXCEPT !.hashFile = After(second, @, bytes, NoText)]
  IN  IF Sealed(t) \/ Len(bytes) < DictMin THEN t
      ELSE IF first # "whole" THEN u
      ELSE IF second # "whole" THEN w
      ELSE [w EXCEPT !.dict = bytes, !.table = DictTable(bytes)]

\* maybe_build_spill_dictionary: from the contents about to be spilled.
MaybeBuildSpillDictionary(t, fault, order) ==
  LET sample == FlattenSeq([i \in DOMAIN order |-> t.node[order[i]].text]) IN
  IF Len(sample) < DictMinContent THEN t
  ELSE BuildDict(t, fault, SubSeq(sample, 1, Min({Len(sample), DictWindow})))

\* fs::write of c's file, from t, in which the compressor packed it.
WriteBlob(t, fault, c, blob) ==
  LET u       == Written(t, fault)
      file(b) == (c :> b) @@ t.blobs
  IN  CASE Outcome(t, fault) = "whole" ->
             [done |-> TRUE, t |-> [u EXCEPT !.blobs = file(blob), !.torn = @ \ {c}]]
        [] Outcome(t, fault) = "part" ->
             [done |-> FALSE, t |-> [u EXCEPT !.blobs = file(ShortBlob(blob)),
                                              !.torn = @ \cup {c}]]
        [] Outcome(t, fault) = "nothing" -> [done |-> FALSE, t |-> u]

WritePacked(t, fault, c, packed) ==
  WriteBlob([t EXCEPT !.table = packed.table], fault, c, packed.blob)

\* ColdSpill::put. A content that has a file is not written again.
Put(t, fault, c) ==
  IF c \in DOMAIN t.blobs THEN [done |-> TRUE, t |-> t]
  ELSE WritePacked(t, fault, c, IF t.dict = NoText
                                THEN [blob |-> Compress(c), table |-> t.table]
                                ELSE CompressWith(t.dict, t.table, c))

Inline(t) == {n \in Nodes : t.node[n].place = "inline"}
InlineBytes(t) == MapThenSumSet(LAMBDA n : Len(t.node[n].text), Inline(t))

\* The entry of n, and its content spilled unless the write failed.
Settle(put, n) == IF put.done THEN [put.t EXCEPT !.node[n].place = "spilled"] ELSE put.t

SpillNext(t, fault, n) ==
  IF t.stopped \/ InlineBytes(t) <= Budget THEN t
  ELSE Settle(Put(t, fault, t.node[n].text), n)

\* enforce_cold_budget, in any order of the scores.
EnforceColdBudget(t, fault) ==
  IF InlineBytes(t) <= Budget THEN {t}
  ELSE {FoldLeft(LAMBDA u, n : SpillNext(u, fault, n),
                 MaybeBuildSpillDictionary(t, fault, order), order)
          : order \in SetToSeqs(Inline(t))}

\* Nodes swapped out of the window, and the budget then.
SwapOut(t, fault, victims) ==
  EnforceColdBudget([t EXCEPT !.node = [n \in Nodes |-> IF n \in victims
                                                        THEN [@[n] EXCEPT !.place = "inline"]
                                                        ELSE @[n]]], fault)

\* Fault: the blob goes, whoever else is spilled to it.
ReleaseAlways(t, c) ==
  [t EXCEPT !.blobs = Restrict(@, DOMAIN @ \ {c}), !.torn = @ \ {c}, !.removed = @ \cup {c}]

\* release_content_blob_if_orphan
Release(t, c) ==
  IF \E n \in Nodes : t.node[n] = [place |-> "spilled", text |-> c] THEN t
  ELSE [t EXCEPT !.blobs = Restrict(@, DOMAIN @ \ {c}), !.torn = @ \ {c}, !.removed = @ \cup {c}]

\* The node n becomes e. The blob it was spilled to may be an orphan then.
Replace(t, n, e) ==
  LET u == [t EXCEPT !.node[n] = e] IN
  IF t.node[n].place = "spilled" THEN Release(u, t.node[n].text) ELSE u

\* Fault: the text is not checked against the hash.
GetUnchecked(t, c) == IF c \in DOMAIN t.blobs THEN Decompress(t.blobs[c], t.dict) ELSE Malformed

\* ColdSpill::get
Get(t, c) ==
  LET text == IF c \in DOMAIN t.blobs THEN Decompress(t.blobs[c], t.dict) ELSE Malformed
  IN  IF text = c THEN text ELSE Malformed

-----------------------------------------------------------------------------
(* The calls *)

\* How a call that came to t ends: with a checkpoint, or with the process
\* stopped, on the files as they are and the nodes as they were.
Finish(t, fault, ingested) ==
  LET stops == t.stopped \/ (fault.stops /\ fault.at > t.writes)
      used  == stops \/ fault.at \in 1..t.writes
      final == IF stops THEN node ELSE t.node
      kept  == {final[n].text : n \in {m \in Nodes : final[m].place = "spilled"}}
  IN  /\ node' = final
      /\ given' = IF stops THEN given ELSE ingested
      /\ up' = ~stops
      /\ ram' = IF stops THEN NoRam ELSE [dict |-> t.dict, table |-> t.table]
      /\ disk' = [blobs |-> t.blobs, dictFile |-> t.dictFile, hashFile |-> t.hashFile]
      /\ faults' = IF used THEN faults + 1 ELSE faults
      /\ torn' = t.torn
      /\ undone' = (undone \cup (IF stops THEN t.removed ELSE {})) \cap (kept \ DOMAIN t.blobs)
      /\ UNCHANGED dictTorn

Init ==
  /\ node = [n \in Nodes |-> Absent]
  /\ disk = [blobs |-> << >>, dictFile |-> NoText, hashFile |-> NoText]
  /\ ram = NoRam
  /\ up = TRUE
  /\ faults = 0
  /\ given = [n \in Nodes |-> NoText]
  /\ torn = {}
  /\ undone = {}
  /\ dictTorn = FALSE

Residents == {n \in Nodes : node[n].place = "resident"}

\* upsert_node, and enforce_paging when the window is full.
UpsertNode(n, c) ==
  LET t == Replace(Started(node), n, [place |-> "resident", text |-> c]) IN
  /\ up
  /\ \E fault \in FaultSet, victims \in SUBSET (Residents \cup {n}) :
       \E u \in IF victims = {} THEN {t} ELSE SwapOut(t, fault, victims) :
         Finish(u, fault, [given EXCEPT ![n] = c])

\* remove_node
RemoveNode(n) ==
  /\ up
  /\ node[n].place # "absent"
  /\ \E fault \in FaultSet :
       Finish(Replace(Started(node), n, Absent), fault, [given EXCEPT ![n] = NoText])

\* page_in of a node whose content can be read, and the swap for it.
PageIn(n) ==
  LET t    == Started(node)
      text == IF node[n].place = "inline" THEN node[n].text ELSE Get(t, node[n].text)
  IN  /\ up
      /\ node[n].place \in {"inline", "spilled"}
      /\ text # Malformed
      /\ \E fault \in FaultSet, victims \in SUBSET Residents :
           \E u \in SwapOut(Replace(t, n, [place |-> "resident", text |-> text]),
                            fault, victims) :
             Finish(u, fault, given)

\* attach_cold_spill, on the nodes of the last checkpoint.
Attach ==
  LET dict == Load(disk)
      t    == [Started(node) EXCEPT !.dict = dict,
                                    !.table = IF dict = NoText THEN Empty ELSE DictTable(dict)]
  IN  /\ ~up
      /\ \E fault \in FaultSet : \E u \in EnforceColdBudget(t, fault) : Finish(u, fault, given)

Down ==
  /\ up
  /\ up' = FALSE
  /\ ram' = NoRam
  /\ UNCHANGED <<node, given, undone>>

Fails ==
  /\ faults < MaxFaults
  /\ faults' = faults + 1

\* The process stops between two calls.
Stop == Down /\ UNCHANGED <<disk, faults, torn, dictTorn>>

\* The machine does. The files were never synced: one of them is short.
TearBlob(c) ==
  /\ Down /\ Fails
  /\ c \in DOMAIN disk.blobs
  /\ disk' = [disk EXCEPT !.blobs[c] = ShortBlob(@)]
  /\ torn' = torn \cup {c}
  /\ UNCHANGED dictTorn

TearDict ==
  /\ Down /\ Fails
  /\ disk.dictFile # NoText
  /\ \/ disk' = [disk EXCEPT !.dictFile = Short(@)]
     \/ disk' = [disk EXCEPT !.hashFile = NoText]
  /\ dictTorn' = TRUE
  /\ UNCHANGED torn

Next ==
  \/ \E n \in Nodes, c \in Contents : UpsertNode(n, c)
  \/ \E n \in Nodes : RemoveNode(n) \/ PageIn(n)
  \/ Attach
  \/ Stop
  \/ \E c \in Contents : TearBlob(c)
  \/ TearDict

Spec == Init /\ [][Next]_vars

-----------------------------------------------------------------------------
(* Properties *)

\* A node has the content it was last ingested with, wherever that is: what a
\* page-in restores is never another text, whatever happened to the files.
NeverWrongRestore == \A n \in Nodes : node[n].text = given[n]

\* A spilled content reads back as what was spilled, unless its own file was torn, or
\* a file of the dictionary it was compressed with, or a call that a stop undid had
\* removed it. That is the promise of enforce_cold_budget, "spill never drops data",
\* as far as it holds: across contents that share a file, failed writes, restarts and
\* the building of the dictionary.
OnlyTearsLose ==
  up => \A n \in Nodes :
    node[n].place = "spilled" =>
      \/ Get(Started(node), node[n].text) = node[n].text
      \/ node[n].text \in torn \cup undone
      \/ dictTorn /\ disk.blobs[node[n].text].format = 2

\* What is in a file that was not torn depends on the content and the dictionary
\* alone, not on what the compressor packed before: it is what a new compressor
\* writes, and no longer than without the dictionary.
BlobsCanonical ==
  \A c \in DOMAIN disk.blobs \ torn :
    LET blob == disk.blobs[c] IN
    /\ BlobSize(blob) <= BlobSize(Compress(c))
    /\ blob.format < 2 => blob = Compress(c)
    /\ blob.format = 2 /\ ~dictTorn /\ up =>
         blob = CompressWith(ram.dict, DictTable(ram.dict), c).blob

=============================================================================

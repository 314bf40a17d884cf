------------------------------ MODULE Migration ------------------------------
(***************************************************************************)
(* The import of migration bundles into a workspace (migrate_records of    *)
(* src/migrate.rs and the ccos-migrate command around it). A bundle is a   *)
(* list of records; documents become nodes with the text of their record,  *)
(* parents, ordinals and relations become links, code is parsed by the     *)
(* memory (its nodes and links are left to Resolution: here a code file is *)
(* one node). Without --extend the workspace is replaced, with it the new  *)
(* sub-graph is merged into what is there. The command writes the          *)
(* workspace, then the manifest, then the embeddings, and may fail or be   *)
(* stopped at each. Metadata is whatever the manifest says of a record.    *)
(***************************************************************************)
EXTENDS SequencesExt, FiniteSetsExt

CONSTANTS
  Migrators,  \* ccos-migrate processes on one workspace
  Bundles,    \* the bundles there are: nonempty sequences of records
  None,       \* no parent, no ordinal, no workspace
  NoText,     \* the empty text
  MaxRuns     \* bound: imports started

VARIABLES
  workspace,   \* the snapshot: nodes with their text, links, retained sources
  manifest,    \* <workspace>.migration.jsonl
  embeddings,  \* <workspace>.embeddings.jsonl
  migrator,    \* migrator[m]: the run of process m, if any
  reports,     \* what the runs that came to their end said: lossless or not
  runs         \* imports started so far

vars == <<workspace, manifest, embeddings, migrator, reports, runs>>

Idle == [pc |-> "idle"]
Empty == << >>
NewWorkspace == [nodes |-> Empty, links |-> {}, sources |-> Empty]

Init == /\ workspace = None
        /\ manifest = << >> /\ embeddings = << >>
        /\ migrator = [m \in Migrators |-> Idle]
        /\ reports = {} /\ runs = 0

-----------------------------------------------------------------------------
(* What a bundle becomes. A record has an id, a text, a parent and an      *)
(* ordinal or None, relations from an id to an id, a vector or not.        *)

Node(rec) == <<IF rec.code THEN "file" ELSE "doc", rec.id>>
IsDoc(n) == n[1] = "doc"

\* Positions of bundle b whose record satisfies P: the last one counts.
Where(b, P(_)) == {i \in DOMAIN b : P(b[i])}

\* The node an id stands for: its last record's, else a document.
Resolved(b, id) ==
  LET at == Where(b, LAMBDA r : r.id = id)
  IN  IF at = {} THEN <<"doc", id>> ELSE Node(b[Max(at)])

Documents(b) == {n \in {Node(r) : r \in ToSet(b)} : IsDoc(n)}
Code(b) == {n \in {Node(r) : r \in ToSet(b)} : ~IsDoc(n)}
Texts(b, nodes) ==
  [n \in nodes |-> b[Max(Where(b, LAMBDA r : Node(r) = n))].text]

Containment(b) ==
  {<<Resolved(b, r.parent), Resolved(b, r.id), "Contains">> :
     r \in {s \in ToSet(b) : s.parent # None}}

Relations(b) ==
  {<<Resolved(b, x[1]), Resolved(b, x[2]), "RelatedTo">> :
     x \in UNION {r.relations : r \in ToSet(b)}}

\* Chunks of one parent in the order of their ordinals, and of the bundle
\* where those agree, each linked to the next.
Chunk(r) == r.parent # None /\ r.ordinal # None
Before(b, i, j) ==
  /\ b[i].parent = b[j].parent
  /\ \/ b[i].ordinal < b[j].ordinal
     \/ b[i].ordinal = b[j].ordinal /\ i < j
Sequence(b) ==
  LET chunks == Where(b, Chunk)
      next(i, j) == /\ Before(b, i, j)
                    /\ \A k \in chunks : ~(Before(b, i, k) /\ Before(b, k, j))
  IN  {<<Node(b[x[1]]), Node(b[x[2]]), "RelatedTo">> :
         x \in {y \in chunks \X chunks : next(y[1], y[2])}}

\* Documents that are referred to without a record of their own: empty nodes,
\* so that the link to them is kept.
Placeholders(b) ==
  LET links == Containment(b) \union Relations(b)
  IN  {n \in UNION {{l[1], l[2]} : l \in links} : IsDoc(n)} \ Documents(b)

SubGraph(b) ==
  LET nodes == Documents(b) \union Placeholders(b)
  IN  [nodes |-> Texts(b, Documents(b)) @@ [n \in Placeholders(b) |-> NoText],
       links |-> {l \in Containment(b) \union Sequence(b) \union Relations(b) :
                    l[1] # l[2] /\ {l[1], l[2]} \subseteq nodes},
       sources |-> Texts(b, Documents(b))]

\* Every node of the sub-graph is upserted into the base, placeholders too.
Merged(base, sub) == [nodes |-> sub.nodes @@ base.nodes,
                      links |-> base.links \union sub.links,
                      sources |-> sub.sources @@ base.sources]

\* The code of the bundle is ingested last.
Assembled(b, base) ==
  LET mem == Merged(base, SubGraph(b))
      code == Texts(b, Code(b))
  IN  [mem EXCEPT !.nodes = code @@ @, !.sources = code @@ @]

\* The verification of the records of this bundle, and of those alone.
Lossless(b, mem) ==
  \A r \in ToSet(b) : /\ Node(r) \in DOMAIN mem.nodes
                      /\ r.code \/ mem.nodes[Node(r)] = r.text

-----------------------------------------------------------------------------
(* The command *)

\* The bundle is parsed, the base read and the memory assembled. A dry run
\* writes nothing.
Assemble(m, b, extend, dry) ==
  /\ migrator[m] = Idle /\ runs < MaxRuns
  /\ runs' = runs + 1
  /\ LET base == IF extend /\ workspace # None THEN workspace ELSE NewWorkspace
         mem == Assembled(b, base)
     IN  migrator' = [migrator EXCEPT ![m] =
           [pc |-> IF dry THEN "report" ELSE "checkpoint",
            mem |-> mem, bundle |-> b]]
  /\ UNCHANGED <<workspace, manifest, embeddings, reports>>

\* checkpoint_to replaces the snapshot whoever wrote it, by a rename.
Checkpoint(m) ==
  /\ migrator[m].pc = "checkpoint"
  /\ workspace' = migrator[m].mem
  /\ migrator' = [migrator EXCEPT ![m].pc = "manifest"]
  /\ UNCHANGED <<manifest, embeddings, reports, runs>>

\* The two sidecars are written over, all of it or a part before a failure.
WriteManifest(m) ==
  /\ migrator[m].pc = "manifest"
  /\ \E k \in 0 .. Len(migrator[m].bundle) :
       LET b == migrator[m].bundle
       IN  /\ manifest' = SubSeq(b, 1, k)
           /\ migrator' = [migrator EXCEPT ![m] =
                IF k < Len(b) THEN Idle
                ELSE [@ EXCEPT !.pc = IF \E r \in ToSet(b) : r.vector
                                      THEN "embeddings" ELSE "report"]]
  /\ UNCHANGED <<workspace, embeddings, reports, runs>>

WriteEmbeddings(m) ==
  /\ migrator[m].pc = "embeddings"
  /\ LET vectors == SelectSeq(migrator[m].bundle, LAMBDA r : r.vector)
     IN  \E k \in 0 .. Len(vectors) :
           /\ embeddings' = [i \in 1 .. k |-> Node(vectors[i])]
           /\ migrator' = [migrator EXCEPT ![m] =
                IF k < Len(vectors) THEN Idle ELSE [@ EXCEPT !.pc = "report"]]
  /\ UNCHANGED <<workspace, manifest, reports, runs>>

\* The report, and with it the exit code, rests on what was assembled.
Report(m) ==
  /\ migrator[m].pc = "report"
  /\ reports' = reports \union {Lossless(migrator[m].bundle, migrator[m].mem)}
  /\ migrator' = [migrator EXCEPT ![m] = Idle]
  /\ UNCHANGED <<workspace, manifest, embeddings, runs>>

\* A failed write of the snapshot ends the command, as a kill does anywhere.
Stop(m) ==
  /\ migrator[m] # Idle
  /\ migrator' = [migrator EXCEPT ![m] = Idle]
  /\ UNCHANGED <<workspace, manifest, embeddings, reports, runs>>

Next ==
  \E m \in Migrators :
    \/ \E b \in Bundles, extend, dry \in BOOLEAN : Assemble(m, b, extend, dry)
    \/ Checkpoint(m)
    \/ WriteManifest(m)
    \/ WriteEmbeddings(m)
    \/ Report(m)
    \/ Stop(m)

Spec == Init /\ [][Next]_vars

-----------------------------------------------------------------------------
\* As long as every import that came to its end reported to be lossless, a
\* document of the workspace reads the text that was retained for it: an import
\* with --extend keeps the texts of documents it does not bring
\* (docs/MIGRATION.md:204-205, src/migrate.rs:18-20). It does not: a document
\* that a later bundle only refers to becomes a placeholder there, and the
\* merge writes the placeholder's empty text over the document's.
ExtendKeepsText ==
  workspace # None /\ FALSE \notin reports =>
    \A n \in DOMAIN workspace.sources :
      IsDoc(n) => workspace.nodes[n] = workspace.sources[n]
=============================================================================

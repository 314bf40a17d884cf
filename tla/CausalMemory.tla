---------------------------- MODULE CausalMemory ----------------------------
(***************************************************************************)
(* The replayable state of one CcosMemory (src/external_memory.rs) and the *)
(* operations a session records on it, as pure functions of that state.    *)
(*                                                                         *)
(* The causal graph is abstracted to one node group per ingested file.     *)
(* What survives is what replay, the sidecar guard and the resolver tell   *)
(* apart: which content each file has, which cross-file Calls edges are    *)
(* resolved, which files still have their call sites in the runtime-only   *)
(* pending index (it is not serialised), which files carry failure         *)
(* pressure, what was asserted of them, which of them are only a stub that *)
(* an assertion made, the scoring weights, and whether a deferred          *)
(* resolution is outstanding.                                              *)
(***************************************************************************)
EXTENDS Integers, FiniteSets, Sequences

CONSTANTS
  Files,     \* the source files that can be ingested
  Contents,  \* the non-empty contents a file can have
  Wants,     \* Wants[f]: the files that define the symbol the bodies of f call
  Weights    \* the scoring weights in use; 0 stands for the shipped ones

ASSUME FilesAssumption == IsFiniteSet(Files)
ASSUME ContentsAssumption == Contents \subseteq Nat \ {0}
ASSUME WantsAssumption == /\ Wants \in [Files -> SUBSET Files]
                          /\ \A f \in Files : f \notin Wants[f]
ASSUME WeightsAssumption == 0 \in Weights

Absent == 0

Mem == [src     : [Files -> Contents \cup {Absent}],
        calls   : SUBSET (Files \X Files),
        pending : SUBSET Files,
        hot     : SUBSET Files,
        stubs   : SUBSET Files,
        beliefs : SUBSET (Files \X Files \X BOOLEAN),
        weights : Weights,
        dirty   : BOOLEAN]

EmptyMem == [src     |-> [f \in Files |-> Absent],
             calls   |-> {},
             pending |-> {},
             hot     |-> {},
             stubs   |-> {},
             beliefs |-> {},
             weights |-> 0,
             dirty   |-> FALSE]

Present(m) == {f \in Files : m.src[f] # Absent}

\* The files whose symbol has a node, ingested or made by an assertion.
Known(m) == Present(m) \cup m.stubs

-----------------------------------------------------------------------------
(* Ingestion and resolution *)

\* The file's nodes are removed, and with them every edge that touches them.
EvictFile(m, f) ==
  [m EXCEPT !.hot     = @ \ {f},
            !.calls   = {e \in @ : e[1] # f /\ e[2] # f},
            !.beliefs = {b \in @ : b[1] # f /\ b[2] # f}]

\* Parsing a file records its call sites, replacing what was recorded before;
\* a file that calls nothing has no entry. A stub becomes the real node, and
\* keeps its pressure and its beliefs.
ParseFile(m, f, c) ==
  [m EXCEPT !.src[f]   = c,
            !.stubs    = @ \ {f},
            !.pending  = IF Wants[f] = {} THEN @ \ {f} ELSE @ \cup {f}]

\* process_delta: an unchanged file is not parsed again, a modified one is
\* evicted first. Resolution is left for the end of the batch.
IngestDeferred(m, f, c) ==
  LET parsed == IF m.src[f] = c THEN m
                ELSE ParseFile(IF m.src[f] = Absent THEN m ELSE EvictFile(m, f), f, c)
  IN  [parsed EXCEPT !.dirty = TRUE]

\* The files of a batch, one after the other.
IngestAll(m, batch) ==
  LET run[i \in 0..Len(batch)] ==
        IF i = 0 THEN m ELSE IngestDeferred(run[i - 1], batch[i][1], batch[i][2])
  IN  run[Len(batch)]

\* A call site resolves when exactly one node has the name. The lookup goes by
\* node id: a stub defines the name as a parsed symbol does.
Resolved(m, f) == {f} \X {g \in Files : Known(m) \cap Wants[f] = {g}}

\* Edges of a file whose call sites are still known are dropped and rebuilt
\* from the final state; a loaded file, whose call sites are gone, keeps its.
Resolve(m) ==
  IF ~m.dirty THEN m
  ELSE [m EXCEPT !.calls = {e \in @ : e[1] \notin m.pending}
                           \cup UNION {Resolved(m, f) : f \in m.pending},
                 !.dirty = FALSE]

IngestSource(m, f, c) == Resolve(IngestDeferred(m, f, c))

-----------------------------------------------------------------------------
(* Failure pressure *)

\* The pressure flows along every kind of edge; one hop of it is kept.
Downstream(m, f) ==
  {g \in Files : <<f, g>> \in m.calls \/ \E s \in BOOLEAN : <<f, g, s>> \in m.beliefs}

\* A file that was not ingested is an error and changes nothing.
SignalFailure(m, f) ==
  IF f \notin Present(m) THEN m
  ELSE [m EXCEPT !.hot = @ \cup {f} \cup Downstream(m, f)]

\* One signal for each of the files, in some order: a signal changes no edge,
\* so the order does not matter.
SignalAll(m, fs) ==
  [m EXCEPT !.hot = @ \cup UNION {{f} \cup Downstream(m, f) : f \in fs \cap Present(m)}]

-----------------------------------------------------------------------------
(* Assertions and weights *)

\* The node of a file that is not known is created empty.
EnsureNode(m, f) == IF f \in Known(m) THEN m ELSE [m EXCEPT !.stubs = @ \cup {f}]

\* Evidence for or against a claim; asserting it again adds nothing.
AssertEvidence(m, e, c, supports) ==
  [EnsureNode(EnsureNode(m, e), c) EXCEPT !.beliefs = @ \cup {<<e, c, supports>>}]

SetScoringWeights(m, w) == [m EXCEPT !.weights = w]

-----------------------------------------------------------------------------
(* The snapshot form, and what the sidecar guard compares *)

\* to_json followed by from_json: the pending call sites are serde(skip).
Reloaded(m) == [m EXCEPT !.pending = {}]

Stats(m) == [nodes |-> Cardinality(Known(m)),
             edges |-> Cardinality(m.calls) + Cardinality(m.beliefs),
             files |-> Cardinality(Present(m))]

\* Two memories hold the same knowledge when a snapshot of each would.
SameKnowledge(m, n) == Reloaded(m) = Reloaded(n)

=============================================================================

---------------------------- MODULE AgentTimeline ----------------------------
(***************************************************************************)
(* The event-sourced timeline of src/agent_session.rs and the two files it *)
(* is kept in: the memory snapshot, which `ccos memory` processes write    *)
(* too, and the op-log sidecar, which only sessions write.                 *)
(*                                                                         *)
(* A process opens the snapshot, and a session then the sidecar; it applies*)
(* operations, which a session also records in its hash chain; and it      *)
(* checkpoints in two writes, the snapshot (refused when another process   *)
(* wrote it since) and then the sidecar. It can stop at any point.         *)
(*                                                                         *)
(* The hash chain and its links are those of OpLog.                        *)
(***************************************************************************)
EXTENDS CausalMemory, OpLog

CONSTANTS
  Sessions,    \* AgentSession processes
  Writers,     \* `ccos memory` processes: a CcosMemory without a timeline
  OplogMax,    \* CCOS_OPLOG_MAX: a longer op-log is compacted at a checkpoint
  OplogKeep,   \* CCOS_OPLOG_KEEP: operations a compaction retains
  StopInCheckpoint, \* whether a checkpoint can stop between its two writes
  Claims,      \* assertions agents make: <<evidence, claim, whether it supports>>
  FaultLists,  \* sets of files that compiler output names
  Batches,     \* bulk ingests: sequences of <<file, content>>
  LegacyLogs,  \* op-logs a pre-chain sidecar may hold when the system starts
  MaxOps,      \* bound: operations recorded on one timeline
  MaxWrites    \* bound: snapshot writes

ASSUME ProcsAssumption == Sessions \cap Writers = {}
ASSUME OplogAssumption == OplogMax \in Nat /\ OplogKeep \in Nat
ASSUME ClaimsAssumption == Claims \subseteq Files \X Files \X BOOLEAN
ASSUME FaultListsAssumption == FaultLists \subseteq SUBSET Files
ASSUME BatchesAssumption == Batches \subseteq Seq(Files \X Contents)
ASSUME BoundsAssumption == MaxOps \in Nat /\ MaxWrites \in Nat
ASSUME SwitchAssumption == StopInCheckpoint \in BOOLEAN

VARIABLES
  pc,        \* pc[p]: where process p stands
  mem,       \* mem[p]: its live memory
  seen,      \* seen[p]: the stamp of the snapshot it last read or wrote
  tl,        \* tl[p]: the timeline of session p
  snapshot,  \* the snapshot file
  sidecar    \* the .oplog file

vars == <<pc, mem, seen, tl, snapshot, sidecar>>

Procs == Sessions \cup Writers

-----------------------------------------------------------------------------
(* Operations, links and timelines *)

Op == [kind : {"ingest"}, file : Files, content : Contents]
      \cup [kind : {"failure"}, file : Files]
      \cup [kind : {"recall"}]
      \cup [kind : {"pagefault"}, files : SUBSET Files]
      \cup [kind : {"retune"}, weights : Weights]
      \cup [kind : {"assert"}, evidence : Files, claim : Files, supports : BOOLEAN]

IngestOp(f, c) == [kind |-> "ingest", file |-> f, content |-> c]
FailureOp(f) == [kind |-> "failure", file |-> f]
RecallOp == [kind |-> "recall"]
PageFaultOp(fs) == [kind |-> "pagefault", files |-> fs]
RetuneOp(w) == [kind |-> "retune", weights |-> w]
AssertOp(e, c, s) == [kind |-> "assert", evidence |-> e, claim |-> c, supports |-> s]

Hash == Seq([seq : Nat, op : Op])
Commitment(base) == <<"sha256", base>>

NewTimeline(base) ==
  [base |-> base, ops |-> << >>, folded |-> 0, chain |-> << >>,
   anchor |-> Genesis, bhash |-> Commitment(base), chained |-> TRUE]

\* A sidecar written before timelines were chained has none of the hashes.
LegacyTimeline(ops) ==
  [base |-> EmptyMem, ops |-> ops, folded |-> 0, chain |-> << >>,
   anchor |-> Genesis, bhash |-> Genesis, chained |-> FALSE]

Backfilled(t) ==
  [t EXCEPT !.anchor = Genesis, !.bhash = Commitment(t.base),
            !.chain = ChainOver(Genesis, t.folded, t.ops), !.chained = TRUE]

\* What verify_timeline_parts accepts.
Prev(t, i) == IF i = 1 THEN t.anchor ELSE t.chain[i - 1]
Verifies(t) ==
  /\ t.bhash = Commitment(t.base)
  /\ Len(t.chain) = Len(t.ops)
  /\ \A i \in 1..Len(t.ops) :
       t.chain[i] = LinkHash(Prev(t, i), t.folded + i - 1, t.ops[i])

-----------------------------------------------------------------------------
(* Replay *)

\* Replay defers the resolution of ingests until an operation reads edges.
\* Retunes and assertions are taken not to, and do not resolve.
ApplyOp(m, op) ==
  CASE op.kind = "ingest"    -> IngestDeferred(m, op.file, op.content)
    [] op.kind = "failure"   -> SignalFailure(Resolve(m), op.file)
    [] op.kind = "recall"    -> Resolve(m)
    [] op.kind = "pagefault" -> SignalAll(Resolve(m), op.files)
    [] op.kind = "retune"    -> SetScoringWeights(m, op.weights)
    [] op.kind = "assert"    -> AssertEvidence(m, op.evidence, op.claim, op.supports)

\* The memories a replay of ops from base passes through, before the last resolve.
Replays(base, ops) ==
  LET run[i \in 0..Len(ops)] == IF i = 0 THEN base ELSE ApplyOp(run[i - 1], ops[i])
  IN  run

ReplayTo(t, step) ==
  LET upto == IF step > Total(t) THEN Total(t) ELSE step
      tail == IF upto < t.folded THEN 0 ELSE upto - t.folded
  IN  Resolve(Replays(t.base, t.ops)[tail])

Replay(t) == ReplayTo(t, Total(t))

\* Only counts are compared.
ReproducesMemory(t, m) == Stats(Replay(t)) = Stats(m)

\* The first n operations go into the baseline, hashed and replayed.
FoldFirst(t, n) ==
  LET floor == Reloaded(ReplayTo(t, t.folded + n))
  IN  [t EXCEPT !.anchor = t.chain[n],
                !.chain  = SubSeq(@, n + 1, Len(@)),
                !.bhash  = Commitment(floor),
                !.base   = floor,
                !.ops    = SubSeq(@, n + 1, Len(@)),
                !.folded = @ + n]

\* Faults: a baseline taken one operation early, an operation folded but kept
\* out of the baseline, an anchor or a commitment left as it was, a chain
\* hashed anew from GENESIS.
CompactEarly(t, keep) ==
  LET n == Len(t.ops) - keep
  IN  IF n <= 0 THEN t
      ELSE [FoldFirst(t, n) EXCEPT !.base = Reloaded(ReplayTo(t, t.folded + n - 1))]
CompactLossy(t, keep) ==
  LET n == Len(t.ops) - keep
  IN  IF n <= 0 THEN t
      ELSE [FoldFirst(t, n) EXCEPT !.base = t.base]
CompactSameAnchor(t, keep) ==
  LET n == Len(t.ops) - keep
  IN  IF n <= 0 THEN t ELSE [FoldFirst(t, n) EXCEPT !.anchor = t.anchor]
CompactSameCommitment(t, keep) ==
  LET n == Len(t.ops) - keep
  IN  IF n <= 0 THEN t ELSE [FoldFirst(t, n) EXCEPT !.bhash = t.bhash]
CompactRehashed(t, keep) ==
  LET n == Len(t.ops) - keep
      u == FoldFirst(t, n)
  IN  IF n <= 0 THEN t
      ELSE [u EXCEPT !.anchor = Genesis, !.chain = ChainOver(Genesis, u.folded, u.ops)]

Compact(t, keep) ==
  IF Len(t.ops) <= keep THEN t ELSE FoldFirst(t, Len(t.ops) - keep)

CompactIfNeeded(t) ==
  IF OplogMax > 0 /\ Len(t.ops) > OplogMax THEN Compact(t, OplogKeep) ELSE t

-----------------------------------------------------------------------------
(* Files *)

ASSUME LegacyAssumption ==
  LegacyLogs # {} => MaxWrites > 0 /\ \A ops \in LegacyLogs : ops \in Seq(Op)

NoSnapshot == 0
Down == "down"
NoTimeline == NewTimeline(EmptyMem)
NoSidecar == [absent |-> TRUE, timeline |-> NoTimeline]
Stored(t) == [absent |-> FALSE, timeline |-> t]

Init ==
  /\ pc = [p \in Procs |-> Down]
  /\ mem = [p \in Procs |-> EmptyMem]
  /\ seen = [p \in Procs |-> NoSnapshot]
  /\ tl = [p \in Sessions |-> NoTimeline]
  /\ \/ /\ snapshot = [mem |-> EmptyMem, stamp |-> NoSnapshot]
        /\ sidecar = NoSidecar
     \/ \E ops \in LegacyLogs :
          /\ snapshot = [mem |-> Reloaded(Replay(LegacyTimeline(ops))), stamp |-> 1]
          /\ sidecar = Stored(LegacyTimeline(ops))

-----------------------------------------------------------------------------
(* Opening *)

\* CcosMemory::open: load the snapshot if there is one, and remember its stamp.
OpenMemory(p) ==
  /\ pc[p] = Down
  /\ mem' = [mem EXCEPT ![p] = snapshot.mem]
  /\ seen' = [seen EXCEPT ![p] = snapshot.stamp]
  /\ pc' = [pc EXCEPT ![p] = IF p \in Sessions THEN "opening" ELSE "up"]
  /\ UNCHANGED <<tl, snapshot, sidecar>>

\* The timeline a session starts with, from the sidecar t and the memory m:
\* a log that does not reproduce the memory is dropped for a new timeline.
Guarded(t, m) ==
  IF t.ops # << >> /\ ~ReproducesMemory(t, m) THEN NewTimeline(m) ELSE t

\* The rest of AgentSession::open. A chained sidecar that does not verify is
\* refused, and left as it is.
OpenTimeline(p) ==
  LET t == sidecar.timeline IN
  /\ pc[p] = "opening"
  /\ \/ /\ sidecar.absent
        /\ tl' = [tl EXCEPT ![p] = NewTimeline(mem[p])]
        /\ pc' = [pc EXCEPT ![p] = "up"]
     \/ /\ ~sidecar.absent
        /\ t.chained => Verifies(t)
        /\ tl' = [tl EXCEPT ![p] =
                    Guarded(IF t.chained THEN t ELSE Backfilled(t), mem[p])]
        /\ pc' = [pc EXCEPT ![p] = "up"]
     \/ /\ ~sidecar.absent
        /\ t.chained /\ ~Verifies(t)
        /\ pc' = [pc EXCEPT ![p] = "refused"]
        /\ UNCHANGED tl
  /\ UNCHANGED <<mem, seen, snapshot, sidecar>>

-----------------------------------------------------------------------------
(* Operations *)

\* A session records op; a `ccos memory` process only applies it.
Perform(p, op, m) ==
  /\ pc[p] = "up"
  /\ mem' = [mem EXCEPT ![p] = m]
  /\ IF p \in Sessions
     THEN /\ Total(tl[p]) < MaxOps
          /\ tl' = [tl EXCEPT ![p] = Record(@, op)]
     ELSE UNCHANGED tl
  /\ UNCHANGED <<pc, seen, snapshot, sidecar>>

Ingest(p, f, c) == Perform(p, IngestOp(f, c), IngestSource(mem[p], f, c))

Failure(p, f) == Perform(p, FailureOp(f), SignalFailure(mem[p], f))

\* ccos focus: a file that did not change is not recorded.
Sync(p, f, c) == p \in Sessions /\ mem[p].src[f] # c /\ Ingest(p, f, c)

Recall(p) == p \in Sessions /\ Perform(p, RecallOp, mem[p])

\* Compiler output names files, known or not; each gets a failure signal.
PageFault(p, fs) ==
  p \in Sessions /\ Perform(p, PageFaultOp(fs), SignalAll(mem[p], fs))

\* assert_support and assert_contradiction.
AssertClaim(p, e, c, s) == Perform(p, AssertOp(e, c, s), AssertEvidence(mem[p], e, c, s))

\* Which weights the log suggests is any choice but those in use.
AdoptTuned(p, w) ==
  /\ p \in Sessions
  /\ w # mem[p].weights
  /\ Perform(p, RetuneOp(w), SetScoringWeights(mem[p], w))

\* Every file of a batch is recorded on its own and left unresolved until the
\* last one is in.
RecordAll(t, batch) ==
  LET log[i \in 0..Len(batch)] ==
        IF i = 0 THEN t ELSE Record(log[i - 1], IngestOp(batch[i][1], batch[i][2]))
  IN  log[Len(batch)]

IngestBatch(p, batch) ==
  /\ p \in Sessions
  /\ pc[p] = "up"
  /\ Total(tl[p]) + Len(batch) <= MaxOps
  /\ tl' = [tl EXCEPT ![p] = RecordAll(@, batch)]
  /\ mem' = [mem EXCEPT ![p] = Resolve(IngestAll(@, batch))]
  /\ UNCHANGED <<pc, seen, snapshot, sidecar>>

-----------------------------------------------------------------------------
(* Checkpoints and stops *)

\* The first write. The log is compacted whether or not the write succeeds.
CheckpointSnapshot(p) ==
  /\ pc[p] = "up"
  /\ tl' = IF p \in Sessions THEN [tl EXCEPT ![p] = CompactIfNeeded(@)] ELSE tl
  /\ IF seen[p] = snapshot.stamp
     THEN /\ snapshot.stamp < MaxWrites
          /\ snapshot' = [mem |-> Reloaded(mem[p]), stamp |-> snapshot.stamp + 1]
          /\ seen' = [seen EXCEPT ![p] = snapshot'.stamp]
          /\ pc' = [pc EXCEPT ![p] = IF p \in Sessions THEN "snapped" ELSE "up"]
     ELSE UNCHANGED <<snapshot, seen, pc>>
  /\ UNCHANGED <<mem, sidecar>>

\* The second write. It compares nothing with what is on disk.
CheckpointSidecar(p) ==
  /\ pc[p] = "snapped"
  /\ sidecar' = Stored(tl[p])
  /\ pc' = [pc EXCEPT ![p] = "up"]
  /\ UNCHANGED <<mem, seen, tl, snapshot>>

\* The second write fails: the caller is told, the session goes on.
SidecarFails(p) ==
  /\ StopInCheckpoint
  /\ pc[p] = "snapped"
  /\ pc' = [pc EXCEPT ![p] = "up"]
  /\ UNCHANGED <<mem, seen, tl, snapshot, sidecar>>

\* The process exits or is killed; nothing in memory survives.
Stop(p) ==
  /\ pc[p] \in {"opening", "up", "refused"} \cup (IF StopInCheckpoint THEN {"snapped"} ELSE {})
  /\ pc' = [pc EXCEPT ![p] = Down]
  /\ mem' = [mem EXCEPT ![p] = EmptyMem]
  /\ seen' = [seen EXCEPT ![p] = NoSnapshot]
  /\ tl' = IF p \in Sessions THEN [tl EXCEPT ![p] = NoTimeline] ELSE tl
  /\ UNCHANGED <<snapshot, sidecar>>

Next ==
  \E p \in Procs :
    \/ OpenMemory(p)
    \/ OpenTimeline(p)
    \/ \E f \in Files, c \in Contents : Ingest(p, f, c)
    \/ \E f \in Files : Failure(p, f)
    \/ \E f \in Files, c \in Contents : Sync(p, f, c)
    \/ Recall(p)
    \/ \E fs \in FaultLists : PageFault(p, fs)
    \/ \E k \in Claims : AssertClaim(p, k[1], k[2], k[3])
    \/ \E w \in Weights : AdoptTuned(p, w)
    \/ \E batch \in Batches : IngestBatch(p, batch)
    \/ CheckpointSnapshot(p)
    \/ CheckpointSidecar(p)
    \/ SidecarFails(p)
    \/ Stop(p)

Spec == Init /\ [][Next]_vars

-----------------------------------------------------------------------------
(* Properties *)

Timeline == [base : Mem, ops : Seq(Op), folded : Nat, chain : Seq(Hash),
             anchor : Hash, bhash : {Genesis} \cup ({"sha256"} \X Mem),
             chained : BOOLEAN]

\* The running sessions, whose timeline is in use.
Running(p) == p \in Sessions /\ pc[p] \in {"up", "snapped"}

(* Every variable has its type; a memory at rest is always resolved, and a   *)
(* snapshot never carries pending call sites.                                *)
TypeOK ==
  /\ pc \in [Procs -> {Down, "opening", "up", "snapped", "refused"}]
  /\ mem \in [Procs -> {m \in Mem : ~m.dirty}]
  /\ seen \in [Procs -> 0..MaxWrites]
  /\ tl \in [Sessions -> {t \in Timeline : t.chained}]
  /\ snapshot \in [mem : {m \in Mem : ~m.dirty /\ m = Reloaded(m)}, stamp : 0..MaxWrites]
  /\ sidecar \in [absent : BOOLEAN, timeline : Timeline]

(* The chain of every timeline in use, and of the one on disk, verifies:     *)
(* neither recording, compaction, backfill nor a reset ever breaks a link.   *)
ChainVerifies ==
  /\ \A p \in Sessions : Verifies(tl[p])
  /\ sidecar.timeline.chained => Verifies(sidecar.timeline)

(* A session is never locked out of its workspace: with no one editing the   *)
(* sidecar, open never answers TimelineTampered, whatever was written and    *)
(* wherever the writers stopped.                                             *)
NeverRefused == \A p \in Procs : pc[p] # "refused"

(* The head commits to every operation since GENESIS: it stands for exactly  *)
(* Total(t) operations, numbered without gap, the retained log being its end.*)
CommitsToAll(t) ==
  LET h == TimelineHead(t) IN
  /\ Len(h) = Total(t)
  /\ \A i \in 1..Len(h) : h[i].seq = i - 1
  /\ \A i \in 1..Len(t.ops) : h[t.folded + i].op = t.ops[i]

HeadCommits ==
  /\ \A p \in Sessions : CommitsToAll(tl[p])
  /\ sidecar.timeline.chained => CommitsToAll(sidecar.timeline)

(* While a session runs its head is only ever extended: no step, compaction  *)
(* included, rewrites what it committed to.                                  *)
Extends(new, old) ==
  /\ Len(old) <= Len(new)
  /\ \A i \in 1..Len(old) : new[i] = old[i]

HeadOnlyGrows ==
  [][\A p \in Sessions : Running(p) /\ Running(p)' =>
       Extends(TimelineHead(tl[p])', TimelineHead(tl[p]))]_vars

\* No file this timeline knows of calls another.
CallFree(t) ==
  /\ \A f \in Present(t.base) : Wants[f] = {}
  /\ \A i \in 1..Len(t.ops) : t.ops[i].kind = "ingest" => Wants[t.ops[i].file] = {}

\* What does not hang on how calls were resolved.
Given(m) == <<m.src, m.stubs, m.beliefs, m.weights>>

\* The call sites of every file are known, and no stub stands for a file.
Settled(m) == m.pending = {f \in Present(m) : Wants[f] # {}} /\ m.stubs = {}

(* replay == live, as far as it goes: the same contents, assertions and      *)
(* weights always; the same links when both sides still have every call site *)
(* and no assertion stands in for a file; and everything when no file calls  *)
(* another, through every reopen and compaction.                             *)
ReplayRestoresSources ==
  \A p \in Sessions : Running(p) =>
    LET replayed == Replay(tl[p]) IN
    /\ Given(replayed) = Given(mem[p])
    /\ Settled(replayed) /\ Settled(mem[p]) => replayed.calls = mem[p].calls
    /\ CallFree(tl[p]) => SameKnowledge(replayed, mem[p])

(* Compaction is index stable: every step at or above the new floor still    *)
(* replays to the contents, assertions and weights it replayed to before, and*)
(* when no file calls another to the whole memory it replayed to before.     *)
CompactionIndexStable ==
  [][\A p \in Sessions : Running(p) /\ tl'[p].folded > tl[p].folded =>
       /\ Total(tl'[p]) = Total(tl[p])
       /\ \A step \in tl'[p].folded..Total(tl[p]) :
            LET new == ReplayTo(tl'[p], step)
                old == ReplayTo(tl[p], step)
            IN  Given(new) = Given(old) /\ (CallFree(tl[p]) => SameKnowledge(new, old))]_vars

=============================================================================

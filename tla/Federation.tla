----------------------------- MODULE Federation -----------------------------
(***************************************************************************)
(* The exchange of timelines between agents (export_bundle, import_bundle  *)
(* and merged_view of src/agent_session.rs, driven by `ccos sync`). Each   *)
(* agent keeps the log of its own operations and one grow-only log for     *)
(* every other agent it imported; a bundle is a file, which may be         *)
(* imported never, late, again, in any order, by anyone, or damaged.       *)
(*                                                                         *)
(* A process may stop at any point and then reopens what it last           *)
(* checkpointed; its own log, and that alone, may then be found not to     *)
(* reproduce the memory and start anew. The memory itself is left to       *)
(* AgentTimeline. A signature is what it covers and the key it was made    *)
(* with; a process of a build without signatures neither signs nor checks. *)
(***************************************************************************)
EXTENDS OpLog, FiniteSets, SequencesExt

CONSTANTS
  Agents,       \* the workspaces
  Name,         \* Name[a]: the agent id that --agent gives workspace a
  Ids,          \* the ids, "local" among them, in their canonical order
  Ops,          \* the operations
  Builds,       \* Builds[a]: whether the builds run on a have signed-sync
  OplogMax,     \* CCOS_OPLOG_MAX: a longer log is compacted at a checkpoint
  OplogKeep,    \* CCOS_OPLOG_KEEP
  MaxOps,       \* bound: MaxOps[a] operations on the log of a
  MaxOpens,     \* bound: MaxOpens[a] processes run on a one after the other
  MaxSaves,     \* bound: MaxSaves[a] checkpoints of a
  MaxKeys,      \* bound: MaxKeys[a] signing keys ever made for a
  MaxPublished  \* bound: logs ever exported, by all together

ASSUME IdsAssumption ==
  /\ "local" \in ToSet(Ids) /\ "" \notin ToSet(Ids)
  /\ IsInjective(Ids)
  /\ Name \in [Agents -> ToSet(Ids) \ {"local"}]
  /\ \A a, b \in Agents : Name[a] = Name[b] => a = b
ASSUME BoundsAssumption ==
  /\ OplogMax \in Nat /\ OplogKeep \in Nat
  /\ Builds \in [Agents -> SUBSET BOOLEAN]
  /\ MaxOps \in [Agents -> Nat] /\ MaxOpens \in [Agents -> Nat]
  /\ MaxSaves \in [Agents -> Nat]
  /\ MaxKeys \in [Agents -> Nat]
  /\ MaxPublished \in Nat

VARIABLES
  session,   \* session[a]: the process on workspace a, if any
  disk,      \* disk[a]: its sidecar
  keyFile,   \* keyFile[a]: its .key file, and how many were ever made
  opens,     \* opens[a]: processes run on a so far
  saves,     \* saves[a]: its checkpoints so far
  published  \* the logs exported so far, each under an id and a key

vars == <<session, disk, keyFile, opens, saves, published>>

-----------------------------------------------------------------------------
(* Logs and bundles *)

NewLog == [ops |-> << >>, folded |-> 0, chain |-> << >>, anchor |-> Genesis]
NoLog == [ops |-> << >>, chain |-> << >>]
Unsigned == << >>

\* Without the functions' entries: nothing known, no key pinned.
NoSidecar == [id |-> "", log |-> NewLog, known |-> << >>, pins |-> << >>]

CompactIfNeeded(t) ==
  LET fold == Len(t.ops) - OplogKeep
  IN IF OplogMax > 0 /\ Len(t.ops) > OplogMax /\ fold > 0
     THEN [ops |-> SubSeq(t.ops, fold + 1, Len(t.ops)), folded |-> t.folded + fold,
           chain |-> SubSeq(t.chain, fold + 1, Len(t.chain)), anchor |-> t.chain[fold]]
     ELSE t

Payload(b) == [agent |-> b.agent, first |-> b.first, anchor |-> b.anchor,
               ops |-> b.ops, chain |-> b.chain]

\* export_bundle of a log from absolute step since, which compaction has not
\* folded; a step past the end is clamped for the operations, not for first.
ExportBundle(e, since) ==
  LET t      == e.log
      start  == IF since > Total(t) THEN Len(t.ops) ELSE since - t.folded
      anchor == IF start = 0 THEN t.anchor ELSE t.chain[start]
      ops    == SubSeq(t.ops, start + 1, Len(t.ops))
      chain  == SubSeq(t.chain, start + 1, Len(t.chain))
      signed == [agent |-> e.id, first |-> since, anchor |-> anchor, ops |-> ops, chain |-> chain]
  IN [agent |-> e.id, first |-> since, anchor |-> anchor, ops |-> ops, chain |-> chain,
      sig |-> IF e.seed = 0 THEN Unsigned ELSE <<e.seed, signed>>]

\* The bundles there may be of an exported log.
BundlesOf(e) ==
  {ExportBundle(e, since) : since \in e.log.folded..(Total(e.log) + 1)}

\* A bundle with one operation changed on its way.
Damaged(b) == {[b EXCEPT !.ops[i] = x] : i \in DOMAIN b.ops, x \in Ops}

Bundles == UNION {UNION {{b} \cup Damaged(b) : b \in BundlesOf(e)} : e \in published}

-----------------------------------------------------------------------------
(* What an import checks, in its order *)

Known(s, id) == IF id \in DOMAIN s.known THEN s.known[id] ELSE NoLog
Pinned(s, id) == id \in DOMAIN s.pins

\* Fault: an unsigned bundle is taken from anyone.
AuthenticIfSigned(s, b) ==
  b.sig # Unsigned =>
    s.crypto /\ b.sig[2] = Payload(b) /\ (Pinned(s, b.agent) => s.pins[b.agent] = b.sig[1])

\* A signature must be one this build can check and cover this bundle, by the
\* key pinned for its agent if one is; who has a pinned key must sign.
Authentic(s, b) ==
  IF b.sig = Unsigned THEN ~Pinned(s, b.agent)
  ELSE s.crypto /\ b.sig[2] = Payload(b) /\ (Pinned(s, b.agent) => s.pins[b.agent] = b.sig[1])

\* Every link recomputes from the anchor.
LinksVerify(b) ==
  /\ Len(b.ops) = Len(b.chain)
  /\ b.first = 0 => b.anchor = Genesis
  /\ \A i \in DOMAIN b.ops :
       b.chain[i] = LinkHash(IF i = 1 THEN b.anchor ELSE b.chain[i - 1], b.first + i - 1, b.ops[i])

\* Fault: the overlap is compared one link off.
DisagreesShifted(k, b) ==
  \E i \in DOMAIN b.chain : b.first + i < Len(k.chain) /\ k.chain[b.first + i + 1] # b.chain[i]

\* Fault: only the link before the bundle's start is compared.
DisagreesAtStart(k, b) == b.first > 0 /\ b.anchor # k.chain[b.first]

\* The bundle contradicts the known log k, before its start or in the overlap.
Disagrees(k, b) ==
  \/ b.first > 0 /\ b.anchor # k.chain[b.first]
  \/ \E i \in DOMAIN b.chain : b.first + i <= Len(k.chain) /\ k.chain[b.first + i] # b.chain[i]

Judge(s, b) ==
  CASE b.agent = s.id -> "SelfImport"
    [] b.agent # s.id /\ ~Authentic(s, b) -> "NotAuthentic"
    [] b.agent # s.id /\ Authentic(s, b) ->
         IF ~LinksVerify(b) THEN "Tampered"
         ELSE IF b.first > Len(Known(s, b.agent).ops) THEN "Gap"
         ELSE IF Disagrees(Known(s, b.agent), b) THEN "Diverged"
         ELSE "Imported"

\* Fault: the operations already known are appended again.
ExtendedAgain(k, b) == [ops |-> k.ops \o b.ops, chain |-> k.chain \o b.chain]

\* The known log with the genuinely new suffix.
Extended(k, b) ==
  LET overlap == IF Len(k.ops) - b.first < Len(b.ops) THEN Len(k.ops) - b.first ELSE Len(b.ops)
  IN [ops   |-> k.ops \o SubSeq(b.ops, overlap + 1, Len(b.ops)),
      chain |-> k.chain \o SubSeq(b.chain, overlap + 1, Len(b.chain))]

\* A function with f[x] = y; an entry is made if there is none.
With(f, x, y) == [z \in DOMAIN f \cup {x} |-> IF z = x THEN y ELSE f[z]]

-----------------------------------------------------------------------------
(* Actions *)

Down == [up |-> FALSE, crypto |-> FALSE, seed |-> 0,
         id |-> "", log |-> NewLog, known |-> << >>, pins |-> << >>]

Init ==
  /\ session = [a \in Agents |-> Down]
  /\ disk = [a \in Agents |-> NoSidecar]
  /\ keyFile = [a \in Agents |-> [there |-> FALSE, made |-> 0]]
  /\ opens = [a \in Agents |-> 0]
  /\ saves = [a \in Agents |-> 0]
  /\ published = {}

\* AgentSession::open: the guard may drop the own log, never what was imported.
Open(a) ==
  /\ ~session[a].up
  /\ opens[a] < MaxOpens[a]
  /\ opens' = [opens EXCEPT ![a] = @ + 1]
  /\ \E crypto \in Builds[a], reset \in BOOLEAN :
       /\ reset => disk[a].log.ops # << >>
       /\ session' = [session EXCEPT ![a] =
            [up |-> TRUE, crypto |-> crypto,
             seed |-> IF crypto /\ keyFile[a].there THEN keyFile[a].made ELSE 0,
             id |-> disk[a].id, known |-> disk[a].known, pins |-> disk[a].pins,
             log |-> IF reset THEN NewLog ELSE disk[a].log]]
  /\ UNCHANGED <<disk, keyFile, saves, published>>

\* The process exits or is killed; within the bound, if another may follow.
Stop(a) ==
  /\ session[a].up
  /\ opens[a] < MaxOpens[a]
  /\ session' = [session EXCEPT ![a] = Down]
  /\ UNCHANGED <<disk, keyFile, opens, saves, published>>

SetAgent(a) ==
  /\ session[a].up
  /\ session' = [session EXCEPT ![a].id = Name[a]]
  /\ UNCHANGED <<disk, keyFile, opens, saves, published>>

Perform(a, x) ==
  /\ session[a].up
  /\ Total(session[a].log) < MaxOps[a]
  /\ session' = [session EXCEPT ![a].log = Record(@, x)]
  /\ UNCHANGED <<disk, keyFile, opens, saves, published>>

\* checkpoint: compacted whether or not the snapshot can then be written.
Checkpoint(a) ==
  LET s == [session[a] EXCEPT !.log = CompactIfNeeded(@)]
  IN /\ session[a].up
     /\ saves[a] < MaxSaves[a]
     /\ saves' = [saves EXCEPT ![a] = @ + 1]
     /\ session' = [session EXCEPT ![a] = s]
     /\ \/ disk' = [disk EXCEPT ![a] = [id |-> s.id, log |-> s.log, known |-> s.known,
                                        pins |-> s.pins]]
        \/ UNCHANGED disk
     /\ UNCHANGED <<keyFile, opens, published>>

\* export_bundle, whatever step it starts from. Nothing is written of it here.
Export(a) ==
  LET e == [id |-> session[a].id, log |-> session[a].log, seed |-> session[a].seed]
  IN /\ session[a].up
     /\ session[a].id # ""
     /\ Cardinality(published \cup {e}) <= MaxPublished
     /\ published' = published \cup {e}
     /\ UNCHANGED <<session, disk, keyFile, opens, saves>>

\* import_bundle: a refusal changes nothing; the first signed bundle pins its key.
Import(a, b) ==
  LET s == session[a]
  IN /\ s.up
     /\ Judge(s, b) = "Imported"
     /\ session' = [session EXCEPT
          ![a].known = With(s.known, b.agent, Extended(Known(s, b.agent), b)),
          ![a].pins = IF b.sig = Unsigned THEN s.pins ELSE With(s.pins, b.agent, b.sig[1])]
     /\ UNCHANGED <<disk, keyFile, opens, saves, published>>

\* generate_workspace_key refuses to overwrite a key; who wants another deletes
\* the file first. Only open reads the file: it is enough to change it before.
GenerateKey(a) ==
  /\ ~session[a].up
  /\ ~keyFile[a].there
  /\ keyFile[a].made < MaxKeys[a]
  /\ keyFile' = [keyFile EXCEPT ![a] = [there |-> TRUE, made |-> @.made + 1]]
  /\ UNCHANGED <<session, disk, opens, saves, published>>

DeleteKey(a) ==
  /\ ~session[a].up
  /\ keyFile[a].there
  /\ keyFile' = [keyFile EXCEPT ![a].there = FALSE]
  /\ UNCHANGED <<session, disk, opens, saves, published>>

Next ==
  \E a \in Agents :
    \/ Open(a) \/ Stop(a) \/ SetAgent(a) \/ Checkpoint(a) \/ Export(a)
    \/ \E x \in Ops : Perform(a, x)
    \/ \E b \in Bundles : Import(a, b)
    \/ GenerateKey(a) \/ DeleteKey(a)

Spec == Init /\ [][Next]_vars

-----------------------------------------------------------------------------
(* The merged view *)

\* The view is the replay, from empty, of the streams in the order of their ids;
\* it is modelled by the operations it replays.
Streams(s) ==
  LET own == IF s.id = "" THEN "local" ELSE s.id
  IN [id \in DOMAIN s.known \cup {own} |->
        IF id \in DOMAIN s.known THEN s.known[id].ops ELSE s.log.ops]

MergedView(s) ==
  FlattenSeq([i \in DOMAIN Ids |->
    IF Ids[i] \in DOMAIN Streams(s) THEN Streams(s)[Ids[i]] ELSE << >>])

-----------------------------------------------------------------------------
(* Properties *)

\* The operations a link commits to.
Committed(link) == [i \in DOMAIN link |-> link[i].op]

HeadOf(log) == IF log.chain = << >> THEN Genesis ELSE log.chain[Len(log.chain)]
Sidecars == {session[a] : a \in Agents} \cup {disk[a] : a \in Agents}

\* The chain recomputes from GENESIS over exactly the operations beside it.
Recomputes(k) ==
  /\ Len(k.chain) = Len(k.ops)
  /\ \A i \in DOMAIN k.ops :
       k.chain[i] = LinkHash(IF i = 1 THEN Genesis ELSE k.chain[i - 1], i - 1, k.ops[i])

(* What is known of an agent is the beginning of one log that was exported    *)
(* under its id, though it came in pieces of several exports, and its chain   *)
(* verifies: whatever overlapped, damaged or out-of-order bundles arrive,     *)
(* none is spliced into another history, lost or counted twice.               *)
KnownIsPublished ==
  \A s \in Sidecars : \A id \in DOMAIN s.known :
    /\ Recomputes(s.known[id])
    /\ \E e \in published : e.id = id /\ IsPrefix(s.known[id].ops, Committed(TimelineHead(e.log)))

(* A bundle that starts within its exporter's log is called an equivocation   *)
(* only if two logs were exported under the id of which neither begins with   *)
(* the other: gaps, repeats, damage, compaction and lost imports do not do it.*)
Forked(id) ==
  \E e, f \in {h \in published : h.id = id} :
    /\ ~IsPrefix(TimelineHead(e.log), TimelineHead(f.log))
    /\ ~IsPrefix(TimelineHead(f.log), TimelineHead(e.log))

DivergedOnlyIfForked ==
  \A a \in Agents : \A e \in published : \A b \in BundlesOf(e) :
    /\ b.first <= Total(e.log)
    /\ session[a].up
    /\ Judge(session[a], b) = "Diverged"
    => Forked(b.agent)

(* Once a key is pinned for an agent, its log only grows by what that key has *)
(* signed, and while the session runs no import takes the key back.           *)
PinnedLogIsSigned ==
  [][\A a \in Agents : session[a].up /\ session'[a].up =>
       \A id \in DOMAIN session[a].pins :
         /\ id \in DOMAIN session'[a].pins /\ session'[a].pins[id] = session[a].pins[id]
         /\ session'[a].known[id] # session[a].known[id] =>
              \E e \in published :
                /\ e.id = id /\ e.seed = session[a].pins[id]
                /\ TimelineHead(e.log) = HeadOf(session'[a].known[id])]_vars

(* Convergence: two named agents that hold the same heads materialize the     *)
(* same view, however their knowledge reached them, unless one compacted its  *)
(* own log (a folded operation is not in its own view).                       *)
Heads(s) ==
  [id \in DOMAIN s.known \cup {s.id} |->
     IF id \in DOMAIN s.known THEN HeadOf(s.known[id]) ELSE TimelineHead(s.log)]

SameHeadsSameView ==
  \A a, b \in Agents :
    LET s == session[a]
        t == session[b]
    IN /\ s.up /\ t.up /\ s.id # "" /\ t.id # ""
       /\ s.log.folded = 0 /\ t.log.folded = 0
       /\ Heads(s) = Heads(t)
       => MergedView(s) = MergedView(t)

=============================================================================

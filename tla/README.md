# CCOS-Core in TLA+

TLA+ models of the parts of CCOS-Core that keep state, the TLC configurations
that check them on small instances, and proofs, checked by TLAPS, of what holds
for every instance. Paths such as `src/memory.rs` are relative to the
repository's crate; `PROJECT.json` maps every definition to the lines it models,
lists the hazards each property is aimed at, and gives for each property a
mutation of the model that breaks it.

CCOS-Core is a memory for coding agents: source files are parsed into a causal
graph, which is paged, spilled, scored, recalled from and checkpointed. It is a
library with a CLI and an MCP server on top. The core is single-threaded and has
no locks; the difficulty is in long sequences of calls, in files that several
*processes* share, in exchanges between agents, and in stopping between two
writes.

## 1. Inventory

| Component | Where | State | Operations | Hard because | Correct means | Module |
|---|---|---|---|---|---|---|
| Agent session timeline | `agent_session.rs` | base memory, op-log, hash chain, anchor, fold count; the `.oplog` sidecar | open, record, batch, compact, replay, checkpoint, backfill of old sidecars | two files written one after the other; a fold rewrites five fields together; replay and live take different paths to one memory | the chain always verifies, no session locks itself out, the head commits to everything, replay restores what was recorded | `AgentTimeline`, `CausalMemory`, `OpLog` |
| Federation | `agent_session.rs` 870-1126, 1897-1925, `main.rs` 1190-1270 | foreign logs, pinned keys | export, import, key generation, merged view | bundles arrive late, again, damaged, or from a sender that started over | an imported log is the beginning of an exported one; forks and only forks are called so; views converge | `Federation`, `OpLog` |
| Memory API | `external_memory.rs` | graph, retained sources, logs, `seen` stamp, dirty flag, caches | ingest, resolve, signal_failure, ensure_resident, recall, assertions, checkpoint, open | state that is not in a snapshot but needed after it | eager and deferred ingests agree; a reload changes nothing | `CausalMemory`, `ColdTier`, `Resolution` |
| Graph: residence | `memory.rs` 1362-2393 | resident nodes, COLD entries, husks, blobs, two on-disk indices | upsert, remove, paging, compaction, spill, deep spill, page-in, attach, flush | a link is archived in one place among four; blobs are shared; every move updates an index by hand | nothing is lost, nothing is twice, no blob leaks, the indices are exact | `ColdTier`, `VirtualGraph` |
| Spill store and codec | `memory.rs` 576-705, 1904-1987, `lzss.rs` | blobs named by hash, a shared dictionary, the compressor's tables | put, get, remove, build and load the dictionary, compress, decompress | files that are never synced nor rewritten; tables kept from blob to blob | a restored text is the right one; only a tear loses one | `SpillStore`, `Lzss` |
| Graph: links | `memory.rs` 878-891, 983-1033, 1215-1231 | the link list, its duplicate index, caches derived from it | add_edge, removals, page-in, resolve_all, cache reads | the index is trusted by size, the caches by length | a duplicate is refused, and nothing else; a reader gets the links of now | `EdgeIndex` |
| Graph: resolution | `memory.rs` 2961-3994, `parser.rs` 404-551 | pending calls, aliases, methods, data references and marks | ingest, resolve_all in three passes, prune | the order of ingests; homonyms; part of the graph COLD or forgotten | the links are a function of the sources; none is invented, lost or stale | `Resolution` |
| Graph: walks | `memory.rs` 2755-2887, 3405-3459, `causal_flash.rs`, `query.rs`, `external_memory.rs` 1307-1362 | none | do, blame, cycles, window of Causal Flash, impact and causes, hops | six loops of their own, each with its kinds of links, its stops and its horizon | what is found is what is there | `Cones` |
| Graph: beliefs | `memory.rs` 186-233, 2561-2735, `external_memory.rs` 594-639 | evidence links with weight and age | assert_evidence, qbelief, decay, propagate, converge | evidence is derived from evidence, round cycles; a link that is there is never changed | a belief goes back to assertions, hop by hop, fades and settles | `Beliefs` |
| Graph: scores | `memory.rs` 1134-1316, 2401-2443 | numbers | tick, propagate_failure | numerical | not here | - |
| Husk store | `cold_index.rs` | memtable, segment files, read cache | put, delete, get, flush, compact, open | a failed write may have happened; a compaction drops tombstones before files | a durable map | `HuskStore`, `DurableMap` |
| Incremental engine | `incremental.rs` | per-file hash and node list | process_delta, evict | a modified file's old nodes | only, and all of, the file's nodes go | `CausalMemory`, `Resolution` |
| Workspace scanner | `workspace.rs` | the index of files by path and hash | scan_workspace, update_delta, watch_changes, sync | the tree is edited while it is listed and read; a call may be refused half-way; a scan moves the index that sync compares with | the index is a reading of the tree, the graph follows the index | `WorkspaceSync`, `Runtime` |
| Durable writes | `util.rs` | one file | replace, create | failure on either side of the rename | all or nothing; a creation never overwrites | `SnapshotWriters`, `HuskStore` |
| MCP server | `mcp.rs` | a session; what the client was told | the stdio loop: read, apply, checkpoint, reply | a checkpoint can fail half-way, be refused, or be cut short, before the reply | what was acknowledged is on disk; every request is answered | `McpServer` |
| Compressed recall | `compressor.rs`, `external_memory.rs` 757-900, 1502-1589 | the store of originals; the rounds of the feedback loop | select a window, compress it, spend the savings on a larger one, evict | capacity below the size of a window; a round that is discarded has side effects; selections of two budgets are not nested | what was just handed out can be expanded; the window stays in its budget | `CcrStore`, `RecallWindow` |
| `ccos runtime` | `commands_runtime.rs`, `workspace.rs`, `persistence.rs`, `persist.rs`, `scheduler.rs`, `agents.rs`, `event_log.rs`, `distributed_event_log.rs` | a tree, three state files, two hash chains | scan, allocate, execute, save, verify, load | three writes, other runs, edits, map order | a load is one saved state; equal trees give equal logs | `Runtime` |
| Migration of bundles | `migrate.rs`, `bin/ccos-migrate.rs` | a workspace and two sidecars | assemble, extend, verify, write | bundles that refer to what others brought | what was imported stays | `Migration` |
| Regions | `region_engine.rs`, `context_region.rs` | region heat, membership | initialize, activate, cool, replay | cooling is not in the log; the graph changes below | regions are the components of the files; a replay restores what was logged | `Regions` |
| Consensus, eviction policy | `consensus.rs`, `eviction_policy.rs` | votes; a Q-table | resolve; update, act | ties; a learned bias | deterministic; untrained means unchanged | - |
| Source scanners | `parser.rs` 171-342, 966-1156 | none | nesting depth, span of an item | what looks like code and is none; state carried over a line's end | only code counts | `SourceScan` |
| Parser, retrieval, embeddings, guards, licensing, other commands, evaluation | the rest | little or none | text in, text or numbers out | numerical, not stateful | - | - |

How they interact. The MCP server and the CLI call an `AgentSession`, which owns
a `CcosMemory` (the live memory) and a timeline. `CcosMemory` owns the graph and
parses through the incremental engine. The graph owns its COLD tier, which
writes blobs itself and keeps its two indices in husk stores. A session and a
`ccos memory` command are separate processes that meet only in the workspace
files: the snapshot, which both write under a stamp check, and the sidecar,
which only sessions write and without any check. Agents meet only in the bundle
files that `ccos sync` exports and imports. `ccos runtime` and `ccos-migrate`
have state files of their own.

Nothing calls back into the state and nothing runs in the background (the workspace
watcher of `workspace.rs` polls in an async loop and reports).
The interleavings that exist are those of whole processes at file operations,
those of the workspace scanner with whoever edits the tree,
those of the graph's own operations inside a compound call (`ensure_resident`),
and those of a client that does not wait for replies with the server.

## 2. The modules

| Module | Models | Composed with |
|---|---|---|
| `CausalMemory` | what a memory knows: sources, nodes, call links, pending call sites, stubs, beliefs, weights; ingest, resolution, failure, reload, as operators on a record | used by `AgentTimeline` |
| `OpLog` | operations, links, hash chains, heads | used by `AgentTimeline` and `Federation` |
| `AgentTimeline` | processes, the two workspace files, opens, operations, compaction, the two-step checkpoint, stops | extends `CausalMemory`, `OpLog` |
| `Federation` | export, delivery and import of bundles between workspaces, with keys and pins | extends `OpLog` |
| `McpServer` | a client, the stdio server, its checkpoints and another writer | extends `CcrStore` |
| `CcrStore` | the store of originals behind a compressed window, as operators | used by `McpServer` |
| `HuskStore` | one husk store, file by file | implements `DurableMap` |
| `DurableMap` | what a husk store promises | abstract |
| `ColdTier` | residence of nodes: window, COLD tier, husks, blobs, indices, `ensure_resident`, attach, checkpoint, restart | implements `VirtualGraph`; uses its indices as `DurableMap` promises them |
| `VirtualGraph` | what a graph promises wherever its nodes are | abstract |
| `SpillStore` | the blobs and the dictionary, write by write | extends `Lzss`; the blobs that are a set of texts in `ColdTier` |
| `Lzss` | the codec, as operators | used by `SpillStore` |
| `EdgeIndex` | the link list, its duplicate index and derived caches | the operations of `ColdTier`, seen from the list |
| `Resolution` | the three passes of `resolve_all` with their lookups, among ingests, paging and reloads | details what `CausalMemory` takes as `Wants` |
| `Cones` | the walks over the links, as operators, over a graph that grows | checked beside `Resolution` |
| `Beliefs` | evidence, its age, and what sweeps derive of it along causal links | checked beside `Resolution` |
| `WorkspaceSync` | the calls of the workspace scanner, read by read, over a tree that is edited | checked beside `EdgeIndex` |
| `SnapshotWriters` | processes on one snapshot, between the stat, the publication and the second stat | splits the checkpoint that is one step in `AgentTimeline` |
| `Runtime` | runs of `ccos runtime` over a tree and three state files | - |
| `RecallWindow` | the selection of a window and the compression loop with feedback | extends `CcrStore`; checked beside `McpServer` |
| `Regions` | the region engine over a changing graph, its event log and replay | checked beside `Runtime` |
| `Machines` | `SnapshotWriters`, `Runtime` and `Regions` side by side | instantiates the last two; what is proved of one holds of it |
| `SourceScan` | the scanners that tell code from literals and comments, as operators, over sources that grow by lexemes | checked beside `SpillStore` |
| `Migration` | imports of bundles by `ccos-migrate` | - |
| `AgentTimelineProofs`, `HuskStoreProofs`, `ColdTierProofs`, `EdgeIndexProofs`, `MachinesProofs`, `McpServerProofs`, `FederationProofs`, `ResolutionProofs` | proofs | |
| `MC*` | instances for TLC (`MCLexemes`: the lexemes of two of them) | |

Operators named like the method they model hold the method's whole effect.
Operators marked *Fault* are the plausible bugs of the mutants; no action uses
them.

### AgentTimeline, CausalMemory, OpLog

`pc[p]` says where a process stands: `down`, `opening` (a session that has loaded
the snapshot and not yet the sidecar), `up`, `snapped` (between the two writes of
a checkpoint), `refused` (open returned `TimelineTampered`). `mem`, `seen` and
`tl` are the fields of `AgentSession`; `snapshot` and `sidecar` are the files.
`OpenMemory` and `OpenTimeline` are the halves of `AgentSession::open`; `Ingest`,
`IngestBatch`, `Sync`, `Failure`, `PageFault`, `Recall`, `AssertClaim` and
`AdoptTuned` are the recorded operations; `CheckpointSnapshot` is
`compact_if_needed` with the first write, `CheckpointSidecar` the second.

Abstractions:
- A hash is the history it commits to. `op_link_hash(prev, seq, op)` appends
  `[seq, op]` to the history of `prev`; SHA-256 is assumed free of collisions.
- A file's content is its number. `Wants[f]` is what the functions of `f` call;
  a call resolves when exactly one definition is there (an ingested file, or the
  stub that an assertion about it made). Pending call sites are kept apart from
  links because the first are `serde(skip)` and the second are not.
- Failure pressure spreads one hop here; only whether a memory differs matters.
- The guard of `open` compares counts of nodes, links and files only, as the code does.
- Sidecars written before timelines were chained have a fold count of zero.
- `StopInCheckpoint` is FALSE in the session run: after a stop between the two
  writes a sidecar older than the snapshot is trusted when the counts agree, and
  then replay restores what the sidecar holds. With it TRUE,
  `ReplayRestoresSources` fails for that reason. The shared run has it TRUE.

### Federation

`session[a]` and `disk[a]` are the process of workspace `a` and its sidecar (own
log, imported logs, pins), `keyFile[a]` its signing key. An import takes any
bundle of any exported log: whole or from any step, again, late, damaged.
`Judge` is the chain of refusals of `import_bundle` in its order. A signature is
what it covers with the key it was made by. A restarted sender may find that its
log does not reproduce its memory, and starts a new one.

### McpServer and CcrStore

`Serve` is the loop of `serve_session`: handle a line, write the snapshot, write
the sidecar, reply. A memory is the set of operations it includes. Each write can
fail before or after its rename; `ForeignWrite` publishes a snapshot in between,
after which checkpoints are refused; `Kill` and `Start` are anywhere.
`CompressWindow` stores the originals of a window, then evicts what the window
does not need; a near-duplicate carries no original of its own.

### RecallWindow

`order` is the ranking of the nodes, any order of a few of them, drawn with the
budget and the mode; `window` is the result so far, `round` its number, `store` the
originals. `AssembleWindow` is the loop over the ranking (quota per file, nodes
without text, budget), `Recall` makes the first compressed window, `Again` is one
more round with the grown budget, accepted or not, and `Return` the end of the loop.
A node is its file and its sizes, plain and compressed: `Cost` is what compression
of an item comes to with the overhead of its reference.

### Regions

`graph` has what clustering reads: nodes with their files, links, and one number per
node for its score and its heat. `engine` is the map of regions with the clock,
`log` the events with what a replay reads of them. `InitializeRegions`,
`ActivateRegion`, `TickCooldown` and `RecordGraph` are the calls; the graph changes
in between. The search for components is the code's, bounded by the number of files;
`ReplayFrom` is the fold over the log. A graph that is recorded again is upserted again
by the replay, and each upsert of a node counts an access: `Warm` gives the energy of a
node by the number of times it was ingested, `Times` counts them in the log. `seen` observes which graph the engine was
initialised from, how often, and whether anything cooled.

### HuskStore

A segment is the map it holds, under its number. A write can fail without a
file (`"lost"`) or with one (`"orphan"`: renamed, and then the directory sync
failed); the process can stop between any two file operations, and a compaction
is three of them at least. The cache evicts any entry instead of the least
recently used: a superset, and no property depends on which. `RemovalFails`
lets `compact` ignore a removal that failed, which the code does. It is FALSE in
the run: with it on, a deleted key answers again after the next open, because
the merge has already dropped its tombstone. With fewer than two segments `Compact`
ends where it starts, after the flush, and leaves a lone segment's tombstones.

### ColdTier

`tier` is the graph: resident nodes and links, COLD entries, husks, the
reverse-adjacency pairs, the blobs. One operator per method, from a tier to a
tier or to a set of tiers; an action picks one. Scores, byte sizes and budgets
are abstracted to *any choice*: any node may be the coldest, a budget may reach
any number of entries. So every eviction policy is covered, trained or not. Blobs
are named by what they hold, so that two entries with the same content share
one. `ensure_resident` is one step per page-in (`todo`), because a page-in may
push out what the last one brought in.

`Stops` selects what a restart may follow: nothing, a checkpoint with flushed
indices and nothing since (the run), or anything. `Kept` forgets an older
checkpoint as soon as another call is made, where it could not be restarted
from. `Restart` re-attaches the same directory if one was attached, which is what
the doc of the field `spill` asks of the caller. `IndexFails` lets the index
update of a deep spill fail; it is FALSE in the run: with it on, the entry and a
husk of it coexist, the next page-in takes the husk, and links handed to the
entry in the meantime are lost.

### SpillStore and Lzss

`Lzss` is the codec itself: hash chains, the search with its window, chain and
length limits, lazy matching, the packed two- and four-byte matches with their
widths, the choice of the shortest of three formats, the dictionary's index and
the journal that undoes what a blob did to it. Bytes are small numbers, flag
bytes are counted and not written. The constants of the code are parameters, with
the relations the code relies on as `CodecAssumption`.

`SpillStore` drives it. A call (upsert, remove, page-in, attach) is one step over
a record that goes through the writes of the call in their order; a `fault` is
chosen first: which write fails, what it leaves (nothing, or part of the file),
and whether the process stops there. Every call that is not stopped is followed by
a checkpoint; one that is stopped is undone but for its files. `TearBlob` and
`TearDict` are a machine stopping with a file not yet on disk, as `fs::write`
syncs nothing.

### EdgeIndex

`edges` is the list, as the set of its links with the number of their copy, because
it can come to hold a link twice; `edgeSet` is the index. A COLD node is its archived links. `Owned` links are those that
`resolve_all` prunes and rebuilds; which ones it rebuilds is any choice.
`bypassed` observes whether a page-in appended links since the last rebuild.
`cached` is what the in-degree and adjacency caches were computed from, and
`since` what happened after.

### Resolution

Files are numbered in path order, a path is a sequence of segments. `Graph`
gathers what the passes read: the resident nodes and, of the files parsed in this
process, calls, aliases, methods, data references and marks. `LinkModuleImports`,
`ResolveSymbolCalls` and `ResolveDataFlow` are the passes; `ResolveCall` is the
ladder of lookups: an alias is expanded, then a bare name is looked for in its own
module, among the imports and as a unique symbol, a path as `module::name` and as
`Type::method`, ambiguity being no hit. `Fresh` is
the graph of a batch in a new process.

### Cones

Each operator is one walk of the code, layer by layer as there (`FindCycles` is the
depth-first search): `Intervene`, `Blame`, `ImpactSet`, `SourceSet`, `HopDistances`,
`FindCycles` and `Window`. The properties are stated on paths of links instead. Masses
are parts of `Full`, with weights whose products are exact in the instance; how a
result is sorted is left out, but for the callers that the budget drops.

### Beliefs

`evidence` maps a link `<<source, claim, supports>>` to its weight and the tick it was
made at; `Sweep` is `propagate_beliefs`, which derives from all causes first and adds
then, `Converge` repeats it. A belief is a fraction, weights are parts of `Full`;
only the balance of the evidence is kept of a belief, not the conflict. `asserted` and `sweeps`
observe what the properties speak of.

### WorkspaceSync

A call is `Start`, a `List` of each entry in any order, a `Read` of each listed path
in order, and `Finish`; `Edit` is anyone else, before, between and after. `Refuse` is
the error path of links, limits and unreadable files. A content has one node of its
own, so that what is left of a former version can be told from the new one. `during`,
`unapplied` and `returned` are observations.

### SnapshotWriters

The checkpoint of `AgentTimeline` is atomic. Here it is not: `Check`, then
`Publish` (by link if the process saw no file, by rename otherwise), then `Record`
or `SyncFails`; an open is `Load`, then `StampOpened`. Memories and files are
modelled by the publications they include, so that *lost* can be said: a
publication that is in the file and not in what replaces it. Stamps (length and
modification time) are assumed unique.

### Runtime

A run lists the tree, reads each listed file (it may be gone or changed by then),
allocates a context under a token budget, lets three agents log what they see,
then writes graph, events and memory one after the other and reads them back.
`Orders` is what iterating a hash map may give. The graph is what the files contain,
without the nodes and links that parsing makes of it; so `Verify` has the two chains to
check and not the dangling links, of which a graph that is written whole has none
(`EdgeIndex`), and a run ends resumable more often than in the code.

### Migration

A bundle is a sequence of records. `SubGraph` is what pass 1 and pass 2 build of
it, placeholders included; `Merged` the merge of `--extend`. The command then
writes workspace, manifest and embeddings; each can be the last.

### SourceScan

A source is a sequence of lexemes, of which it is known whether they are code; the
scanners see the bytes of their concatenation. `NestingFrom` is `max_nesting_depth`,
`Parser` who parses the source by its result, `ScanFrom` is `scan_code_line` and
`SymbolSpan` the loop of `symbol_span` over the lines. The properties are stated on
the lexemes, without any scanning: how deep the delimiters nest that are code, and on
which line the brace or the semicolon is that ends an item. The lexemes have every
kind of literal and comment, with delimiters, quotes, escapes and line ends in them;
not with an escaped backslash or an escaped quote as a character literal, see section 4.

## 3. What the runs check

| Run | Bounds | Shows |
|---|---|---|
| `AgentTimeline_session` | 1 session, 3 files, 2 contents, a call with two possible callees, an assertion about each callee, a page-fault list and a batch; 3 operations, 2 checkpoints, op-log of 1; a pre-chain sidecar | replay restores contents, assertions and weights always, links where every call site is known, everything when no file calls another; a compaction moves no step at or above the floor |
| `AgentTimeline_shared` | 2 sessions, 1 writer, 1 file, batches, 2 weights; 2 operations each, 2 snapshot writes, stops inside checkpoints | the chain in use and on disk always verifies; nobody is refused; heads commit to all operations and only grow |
| `Federation_sync` | 2 agents (2 operations and 2 opens; 1 and 1), 1 key, op-log of 1, 2 logs exported by either, from any step, damaged bundles | imported chains recompute and are what was exported; only forks diverge; a pinned log grows by signed bundles; equal heads, equal views |
| `McpServer_windows` | server: 2 files, 2 contents, capacity 1, 3 lines of any form, a pipe of 2, another writer, kills. Loop: any order of up to 4 of 7 nodes of 2 files, 2 budgets, anchored or not, 3 rounds, quota of 70 % | what was acknowledged is in both files; the last window can be expanded; every request is answered; the first window is the greedy selection; no round of the loop gives up what it had |
| `HuskStore_faults` | 2 keys, 2 values, memtable of 2, cache of 1, 4 segments | the store implements `DurableMap`; a compaction leaves one file at most, and no tombstone where it merged |
| `ColdTier_paging` | 3 nodes in a chain, 1 content and its lossy summary, window of 1 or 2, restarts from a checkpoint | the tier implements `VirtualGraph`; one place per node and link; blobs exact; index exact; the anchor is delivered |
| `SpillStore_texts` | store: 2 nodes, 3 texts, 1 fault, scaled codec constants. Sources: any 4 of 24 lexemes (`2 + MaxTokens`); nesting limits 1 and 2, a signature of 2 lines | a restored text is the right one; only a torn file, a torn dictionary or an undone removal loses one; a blob depends on its content and the dictionary alone; only code counts for the nesting guard and for the end of an item |
| `EdgeIndex_paging` | links: 4 nodes, 4 links in a ring, window of 3, 2 copies. Scanner: 3 paths, 2 contents, links and unreadable files, 2 files at most, 2 edits | the index is exact while no page-in bypassed it; one call, swaps excepted, never leaves a stale cache; the index of files is a reading of the tree, and the graph follows it |
| `Resolution_walks` | resolution: 4 files of 1 or 2 versions, two of one module, homonyms, aliases, methods, a const that becomes a function, 2 pageable symbols. Walks: 4 nodes, any of 8 links of two kinds, any orphans, depths to 3. Beliefs: 5 claims, any of 5 causal links with a cycle and a loop, 4 assertions, 2 thresholds, 1 tick, 3 sweeps | links are those of a fresh batch; links of loaded files survive; none is invented; none is stale but by a page-in; every walk finds what is near, and `do` and `blame` are duals; a window of Causal Flash is complete when it says so; beliefs go back to assertions, one hop in a sweep, fade and settle |
| `SnapshotWriters_runtime` | snapshot: 3 processes, 4 publications. Runtime: 2 runs, 2 paths, 2 contents that tie, a budget for one, 2 edits. Regions: 5 nodes of 4 files, 5 links, 2 energies, 2 coolings, 4 calls | what is overwritten unknowingly was written in a window; a creation overwrites nothing; refusals have a reason; what is restored is what was made unless another run wrote; equal readings give equal logs; regions are components; a replay restores regions, members and activations, and temperatures and centers where the log gives the energies the nodes had |
| `Migration_extend` (violation) | 2 migrators, 3 bundles, 2 imports | `--extend` empties a document that a later bundle only refers to |
| `SourceScan_escapes` (violation) | the literal `'\\'`, 4 lexemes after a body opened | the scanner runs past the literal's end and an item ends on another line |

Why the bounds are enough to be of interest. Three operations with an op-log
of one force two compactions in a row and an operation on top; two callees of one
call make a resolution appear and disappear. An agent that can be stopped
once, with one save and two operations, can fork its own history. Three lines let a mutating
call fail, a second succeed, and a third ask. Two keys and a memtable of two make
one key wait while another triggers the flush, and four segments let a compaction
merge, be interrupted and be repeated. Three nodes in a chain give the middle one
neighbours on both sides; a window of one makes each page-in push something out.
The three texts reach every format, near and far matches, matches into the
dictionary that run into the text and overlap it, and one put off by lazy
matching; two nodes may share a blob. Three processes let two race while a third
is refused. A ring of four links lets sizes agree with different members.
`MaxOps`, `MaxWrites`, `MaxSeq`, `MaxCopies`, `MaxFaults`, `MaxLines`, `PipeSize`,
`MaxEdits`, `MaxRuns`, `Pageable` and the `Max*` of `Federation` cap counters and
choices in guards; no property mentions them but type invariants and the set of
lines sent.

Five runs hold machines that share nothing, two in `McpServer_windows`,
`SpillStore_texts` and `EdgeIndex_paging`, three in `Resolution_walks` and
`SnapshotWriters_runtime`
(module `Machines`): a behaviour is of one of them (`machine`), and the others stand still. So a run answers for one side of the system
(what an agent is handed; texts, stored or scanned; the files that processes share
with what is restored from them) without the product of the state spaces.

Fairness. `McpServer` assumes `WF_vars(Serve)`: a server that is not killed goes on
with its own loop, which is what `serve_session` does; nothing is assumed of the
client, the other writer or whoever starts the server. Elsewhere the code schedules
nothing (an operation happens when a user calls it), and no liveness is claimed.
Deadlock is checked but where the bounded calls, or the bounded source, come to an
end: `Federation_sync`, `SnapshotWriters_runtime`, `SpillStore_texts`, `Resolution_walks`,
`Migration_extend` and `SourceScan_escapes`.

## 4. Where the code and its documents disagree

The violation run `Migration_extend` is a loss of data. A bundle imported with
`--extend` that names a document only as parent or target creates an empty
placeholder for it, and the merge upserts the placeholder over the document that
an earlier import brought. The retained source keeps the text; the node, which is
what recall and impact read, is empty. The verification covers the records of the
new bundle only, so the import reports to be lossless, against
`docs/MIGRATION.md:204-205`. With a merge that leaves present nodes alone the
property holds.

The violation run `SourceScan_escapes` is a wrong answer. Behind a backslash
`quote_end` goes on at the escaped character, not past it (`parser.rs:221`). In
`'\\'` that character skips the closing quote, and all code up to the next quote,
or the end, counts as the literal; in `'\''` the last quote starts another literal.
An item's text then ends on another line, against `parser.rs:212` and 1099, and the
nesting guard misses what is behind. With `start + 2` the property holds.

The other disagreements met while modelling have no run. The models show them
when the named switch or restriction is lifted, and the properties are stated so
that what holds beside them is checked.

- *Replay after a reopen.* Pending call sites are not in a snapshot
  (`memory.rs:521`); a replay re-parses and has them. Live and replay then
  resolve the next ingest differently, against
  `docs/MEASUREMENT_batch_resolution.md:88-89`. An assertion about a symbol not yet
  ingested does the same without a reopen (`agent_session.rs:1851-1853`). The
  next open drops such a timeline when the counts differ.
- *The guard and the empty log.* A sidecar with an empty log keeps its old
  baseline whatever the snapshot became (`agent_session.rs:733`, against 632-634).
- *Blobs and checkpoints.* Blobs are reclaimed by what the live tier refers to,
  not by what the last checkpoint refers to (`memory.rs:2254`, against 1785-1795):
  set `Stops` to `"any"`.
- *Partial blobs.* A failed `fs::write` may leave part of a blob. The retry sees
  that the file exists, reports success and drops the text from memory
  (`memory.rs:667-676`, against 1902-1903, "spill never drops data"). Blobs and
  dictionary are not synced (against 1788-1789). A dictionary that does not verify
  is built over, although it "is never modified any more" (624-626), and blobs of
  the old one stay unreadable.
- *Stamps.* The stat comes after the read, and after the rename
  (`external_memory.rs:668`, 1076): a file published in between is taken for one's own
  and then overwritten. For creations the link closes the window.
- *The duplicate index.* A page-in appends links past the index. When the sizes
  agree again, `add_edge` refuses links that were removed, and appends ones that are
  there (`memory.rs:1003`, against 1015).
- *Caches keyed on a length.* A call that takes one link and appends another
  leaves in-degrees and adjacency stale (`memory.rs:886`, 1217);
  `weighted_lsa_cache` ignores the rank on a hit (`external_memory.rs:1437`).
- *Marks.* A symbol that was a const keeps its mark (`memory.rs:3134`, against 3166).
  A bare name counts resident homonyms only (3930). Of two files of one crate and
  module the last path wins. Links archived on a COLD target come back with it after
  their caller changed; after a reload, the ingest of a new version of a file loses
  the links into it.
- *Beliefs.* Asserting again does not reinforce: a link that is there keeps its weight
  and its age (`memory.rs:1014`, against 2605-2606 and
  `docs/MEASUREMENT_decay_crux.md:46`); so an assertion after a derived link of the same
  polarity counts for nothing. With a threshold of 0 a neutral cause derives a link of
  weight 0 (2675, against 2650). Several causes can make an effect more believed than
  each of them (against 2648-2649).
- *A scan before a sync.* `scan_workspace` moves the index (`workspace.rs:101`), and the
  next `sync` does not apply what it took note of. A removed file's COLD nodes stay
  (`incremental.rs:139`).
- *Windows and walks.* With a horizon of zero a window is complete whatever its seeds
  depend on (`causal_flash.rs:280`, against 17-19); `omitted` counts the first layer
  beyond the horizon only (against 117-118); where a link joins two nodes of one layer,
  a node hands on what it has got by its turn, so relevance depends on ids and is not the
  mass of all paths (266, against 14-17). `impact_set` follows links to what a node
  depends on and `source_set` to what depends on it (`query.rs:16-20`), while `intervene`
  takes the same links the other way round (`memory.rs:2744-2749`).
- *Exports past the end* keep their number and take the last link as anchor: a peer
  that knows more answers Diverged (`agent_session.rs:912`, against 267-269).
  `unreplayable_step` says step 0 after a compaction (`mcp.rs:376`).
- *The warning of the server* says that all is lost on exit (`mcp.rs:953`), while the
  snapshot may be in place or a later checkpoint save it.
- *Assertions on COLD evidence.* `ensure_node` looks at resident nodes only and
  replaces a COLD node by an empty block (`external_memory.rs:643`, against 590-591).
- *The loop that spends what compression freed.* Its second branch accepts a round with
  more tokens without asking for the budget (`external_memory.rs:887`, against its
  comment at 888 and `README.md:246-249`). An anchored selection of a larger budget
  may leave out what the smaller one held (1573, against 839-841). A round stores its
  originals before it is judged, in a store that evicts: references of the window
  that is returned may be gone (891, against `compressor.rs:259-261`). Each shows in
  the instance of `McpServer_windows`; with the budget tested in the second branch
  the first does not.
- *Near-duplicates* are placeholders without an original (`compressor.rs:298`, 341).
- *Logs.* Dropping the last event goes unnoticed by `EventLog::verify_integrity`, and
  an empty chain of a distributed log is valid. `tick_cooldown` logs evictions and no
  cooling: a replayed region is warmer than the live one (`region_engine.rs:267`,
  against 332-334). A graph recorded twice is rebuilt by two upserts of each node, the
  second of which counts an access (`event_log.rs:466`, `memory.rs:960`, 1176): its
  regions are warmer than the live ones and may have another center, against the same
  lines.
- *Compaction of one segment.* `compact` returns early with fewer than two segments
  (`cold_index.rs:451-453`): after a delete in an empty store it succeeds and leaves the
  tombstone, against its doc (443-445). It goes when a later compaction merges it.
- *Migration* besides: manifest and embeddings are overwritten by each import, the
  checkpoint of `--extend` is not guarded against another writer, and a second record
  with one id makes the first a hash mismatch.

## 5. What is proved

`AgentTimelineProofs`, for any sets of sessions, writers, files, contents, claims,
batches and weights, any call relation and any bounds:

- `TypeCorrect`: `Spec => []TypeOK`.
- `ChainAlwaysVerifies`, `SessionNeverRefused`, `HeadAlwaysCommits`: the
  invariants of the shared run.
- `HeadIsAppendOnly`: the action property of the shared run.
- `CompactionKeepsSteps`: `Spec => CompactionIndexStable`, the action property of the
  session run, for any sessions and writers, wherever they stop.
- `ReplayIsLive`: `Alone => (Spec => []ReplayRestoresSources)`, the invariant of the
  session run, where `Alone` says of the constants what that run takes: one session, no
  other writer, no stop between the two writes of a checkpoint. Otherwise the
  statement is false: the guard of `open` compares counts, and a sidecar of another
  history with the same counts is trusted (section 2).

The argument. `Verifies` alone is not inductive: it says nothing of a compaction's
new anchor or of how many operations a link stands for, and a sidecar on disk is
the next timeline in use. The invariant `IInv` carries `GoodTimeline` (typed,
chained, verifying, committing to its whole history) for every session and for
the sidecar, and that a sidecar from before chains existed was never compacted, so
that its backfilled chain starts at the first operation. Each way a timeline
changes has a lemma (`RecordGood`, `RecordAllGood` for batches, `CompactGood`,
`BackfilledGood`, `NewTimelineGood`, `GuardedGood`); the step theorem only
distributes them over the actions. `NeverRefused` follows because no action that
keeps `IInv` can reach `refused`; `HeadOnlyGrows` because a fold keeps the last
link, or makes it the anchor. Type correctness needs that a replay stays in the
set of memories, a statement about a recursive function, for which the module
derives induction over sets of naturals (`SetInduction`) and over the values of a
recursion (`RecursionExists`, `RunStaysIn`) from the well-foundedness of `<`.

Replay. A replay and the live memory differ in what was resolved when, so neither
theorem can be had by following equal memories. `Alike` is the relation that every
operation keeps: the same contents, stubs, assertions and weights and, where no file
calls another (`Callless`), the same pressure. Each operation has a lemma that it maps
alike memories to alike ones (`IngestAlike`, `SignalFailureAlike`, ... joined in
`ApplyOpAlike`), and so a replay of the same operations from alike baselines is alike,
step by step (`ReplaysAlike`, an induction over the log). `FoldFirstAlike` is what a
compaction does to that: it moves the baseline to a memory of the replay, resolved,
which is alike to it. What the links then are is a matter of `Coherent` (call sites and
links are those of files that are there; with nothing left to resolve and no stub, the
links are those that resolution makes), which `CInv` carries for every memory,
live, saved or the baseline of a log. `Told` is the invariant behind `ReplayIsLive`:
the sidecar tells the story of the snapshot except between the two writes, and a
running timeline that of the live memory.

`McpServerProofs`, for any files, contents, capacity and number of lines:

- `AckedStaysDurable`: `Spec => []AckedIsDurable`. The invariant adds that what
  was promised is in the memory of a running server, that a snapshot just written
  holds the whole memory until the sidecar is, and that an "ok" reply of a call that
  promises something is backed by both files. No fairness is used.
- `LastWindowIsRetrievable`: `Spec => []LatestWindowRetrievable`. What is behind it
  is `EnforceCapacityBounds`, a count: an eviction takes only what the window does not
  refer to, the oldest first, and unless it takes all of that what is left fits in
  the capacity, as whatever is older than the oldest original it spares is gone.

`MachinesProofs`, of the three machines of `Machines`:

- `TypeCorrect`, `RefusalsAreForOthers`, `DetectorIsSound`, for any set of processes
  and any bound: types and both properties about the snapshot. The invariant
  `Windows` follows the stamp through each `pc`: a loaded process has in its memory
  what the file had, unless someone wrote in its window; a checked one has the file it
  expects, with the same exception. `OwnWrites` adds that whoever wrote the file last
  knows its stamp or was told of an error.
- `RunsRestoreTheirOwn`: `RT!Spec => []RestoredIsOwn`, for any set of runs, any tree
  and any constants that `ConstantsOK` of `Runtime` allows.
- `EqualTreesEqualLogs`: `RT!Spec => []SameTreeSameLogs`, under the same.
- `RegionsAreComponents`: `R!Spec => []ClustersAreComponents`, for any nodes and links
  that `ConstantsOK` of `Regions` allows (finitely many nodes, numbers for files).
- `ReplaysRestore`: `R!Spec => []ReplayRestoresEngine`, for any energies, coolings and
  number of calls besides: regions, members and activations always, temperatures and
  centers where nothing has cooled and the log gives the energies the nodes had.
- `MachinesAreTheirOwn`: `AnySpec => Spec /\ RT!Spec /\ R!Spec`. The theorems are of
  each machine by itself; this one makes them theorems of what the run checks.

The argument. `RestoredIsOwn` speaks of one moment, when a run has read all three
files; `OwnFiles` says at which `pc` which file is the run's own (`Wrote`) and which
part it has read back (`ReadBack`), as long as no other run wrote. `SameTreeSameLogs`
is about the orders that `Orders` leaves open: by priority, then by id, is a strict
order, so a graph has one listing (`OrderIsOne`), and what is logged is a function of
it; `Logged` adds that the graph of a run stays once its logs are made.

The search of the clustering is a recursive function. What it finds is the least set
with the file that no link leaves (`ComponentIs`): a round that is not the last adds a
file, so there are rounds enough. That `Joined` goes both ways makes the components
the classes of an equivalence. The property says the same without a search: no set
of files that links do not leave tells two nodes of a region apart. It needs
that no link dangles (`GoodGraph`), which removals must keep.

A replay starts from a graph that was recorded at another time. `Restorable` is what a
log owes to a replay on any graph: an engine with the clock of the real one; after one
initialisation, on a graph with the nodes and links that the engine was initialised
from, its regions with their members and activations; on that very graph, energies
included, the engine itself if nothing has cooled. `AsRecorded` says when the graph
that the log rebuilds is that one. Before an initialisation a replay changes no engine. It
quantifies over the graphs because the log holds another one after every `RecordGraph`.
Each kind of event has a lemma that says what a replay that goes on with it does
(`ReplayIdles`, `ReplayActivates`, `ReplayEvicts`), and each action one that it keeps
`Restorable`.

`EdgeIndexProofs`, for any finite set of nodes, any links among them, any window and
bound on copies:

- `TypeCorrect`, `IndexIsExact`, `SingleCallsAreNoticed`: that no link dangles, and
  the two properties of the paging run. `Sound` adds to the types that what is archived on a node touches it,
  without which a page-in could append a dangling link. The index is compared by size
  only, so `IndexInv` says which way it can be wrong: while it is not bypassed it is
  empty or has every link of the list, and then equal sizes mean equal sets, as a list
  without second copies has as many members as links. `CacheInv` says the same of the
  caches: one call that is not a swap makes the list longer or shorter, never both.

`HuskStoreProofs`, for any finite set of keys, any values, any memtable and cache
sizes, any of the two ways a write can fail and any bound, under `~RemovalFails`
(section 2 says what fails without it):

- `StoreImplementsDurableMap`: `Spec => DM!Spec`, the refinement of the run.
- `CompactionAlwaysCollects`, its other property: both ways a compaction can end without
  an error. `TypeCorrect` and `OrphansAreNext`.

The argument. A group of lemmas says what `Newest` does, without `Max`: a file on
top goes over what was there (`NewestAdd`), a file without the key does not matter
(`NewestSame`), and removing the least of the files others already answer for
changes nothing (`NewestRemove`, why compaction removes the oldest first). The
invariant `IInv` adds to the types: every file is known, doomed or numbered
`nextSeq`; the cache agrees with the segments and yields to the memtable; while the
merged-away files go, the merged segment alone answers what all files answer. The
delicate part is `OrphanInv`: with the memtable empty, an orphan must be the merge
of the present segments, or a compaction that finds nothing to keep, and so writes
no file over it, would leave it to come back; and there are two segments at least, so a
compaction that returns early leaves no orphan. Each action has a lemma with two
conclusions, that `IInv` holds again and which step of `DurableMap` it is
(`MapStep`).

`ColdTierProofs`, for any finite set of nodes, any links between distinct nodes, any
contents, caps and budgets, under `~IndexFails` (section 2 says what fails without
it) and `Stops # "any"`, so that a restart finds the last checkpoint:

- `TiersImplementVirtualGraph`: `Spec => VG!Spec`, the refinement of the run.
- `PlacesAreOne`, `BlobsAreExact`, `IndexIsExact`: its three invariants.
- `AnchorIsDelivered`: its action property; and `TypeCorrect`.

The argument. `OnePlace` is not inductive: that a link is archived once must hold of
any two *parallel* links, in either direction, for the index entries of one to be
removable without those of the other (`OneHolder`, and `AdjacencyMinus`, the lemma
behind every removal from the index). Nor is the index exact by itself: without a
store nothing may be spilled or indexed (`Detached`), or attaching would start from
something wrong. `Sound` joins these with the types, the places, the owners of
archived links and the blobs; `Linked`, that a live link has both its ends resident,
is kept apart from it, as it fails in the middle of a removal. Each operator of the
model, from a tier to its outcomes, has a lemma that it keeps `Sound` and which of three
relations it is in: `SameShape` (budgets, fault-ins: no node enters or leaves the
window), `SameGraph` (demotion, page-in: no node, content or link of the graph changes), or
`Shrinks` (contents compacted). The order of victims is any sequence, so the
demotions of one call are an induction over it (`DemotingSound`). `RestoreNodeSound`
is the hard one: the links of the node that comes back are split between the live
list, the entries at their other ends, some just faulted in, and those with no other
end left, and the index has to lose those of the first and the last and keep the rest.
Each action then has a lemma with two conclusions, `IInv'` and the step of
`VirtualGraph` it is (`GraphStep`). The anchor of `ensure_resident` is paged in last
(`AnchorLast`), and a page-in never swaps its own node out.

`FederationProofs`, for any agents, ids, operations, builds, compaction thresholds and
bounds, with no further assumption:

- `KnownLogsArePublished`, `OnlyForksDiverge`, `SameHeadsConverge`: the three
  invariants of the run.
- `PinnedLogsAreSigned`: its action property; and `TypeCorrect`.

The argument. An own log is never judged by its retained part: `GoodLog` says that
its links, its anchor and its operations are those of one *history*, the one its head
commits to, from the step after the last folded one. Recording, compacting and
cutting a bundle out of a log each keep that (`RecordGood`, `CompactGood`,
`ExportSpans`), and damage to an operation spares the links (`DamageIs`); as a link
commits to its operation, a damaged bundle whose links verify has the operations of
the history after all (`VerifiedLists`). The invariant `IInv` then says that every
known log `Begins` the history of some exported log, of which the operations listed
by `KnownIsPublished` are a consequence: the operations alone are not inductive, as
what an import compares is links. `ExtendedIs` is the step that matters: at the last
link the known log and the bundle share, they agree, so they agree on everything
before it, and what is appended continues the history of the bundle up to its head;
or nothing is appended. Conversely a bundle never contradicts a log that begins the
same history (`NoContradiction`), which leaves only forks to be called so. That a key
is pinned only for whom a log is known is needed for `PinnedLogIsSigned`: a pin on an
unknown log would say nothing of the import that makes it known.

`ResolutionProofs`, for any files, any layout of them in crates and modules, any
versions of what the parser finds in them and any nodes that may be paged, with no
further assumption:

- `LinksComeOfSources`: `Spec => []ResolvedFromSources`.
- `StaleLinksArePagedIn`: `Spec => []OnlyPageInIsStale`.
- `ResolvedLinksAreGrounded`, `LoadedLinksStay`: the two action properties of the
  walks run about resolution. `DeclAssumption` says of a path only that it is a
  non-empty sequence of strings.

The argument. Each lookup has a lemma that says what it may find (`BareFinds`,
`QualifiedFinds`, joined in `ResolveCallFinds`): a resident symbol that bears the
last segment of the path and that `ReadsAs` accepts. `ResolveAllAdds` makes of it a
fact about what a resolution adds to the links it left alone, which is what
`ResolvedLinksAreGrounded` says, and which keeps the invariant: `Versioned` (a parsed
file has one of its versions), `Placed` (a link joins resident nodes, an archived one
touches the node it is archived on, every node is of an ingested file) and
`OnlyPageInIsStale` itself. `FromSources` is the stronger invariant behind
`LinksComeOfSources`: until something is demoted or reloaded the nodes and the facts
are those of the current sources, and no link is one that pruning would leave, for
then a resolution starts from nothing; `SameLinks` is what remains to be said, that a
resolution reads of a graph its nodes, its facts and the resident marked symbols only.
That is also why the property excepts the marks of earlier versions.

Assumptions used: the `ASSUME`s of the modules (which TLC evaluates in the runs),
and what the abstraction of hashes means.

Model-checked only: the codec, as what a fold or a recursive definition computes is by
induction over data, out of these provers' reach; `SourceScan` and `Cones`, which have
RECURSIVE operators; `AgentTimeline` beside other sessions as far as replay goes, where
it fails, and `ColdTier` and `HuskStore` where their assumptions do not hold;
`SpillStore`, `RecallWindow`, `Beliefs`, `WorkspaceSync` and `Migration`; and liveness (`EveryRequestAnswered`), which the
provers do not do.

## 6. Not modelled, and why

- Numbers: scores, recency, embeddings, centrality, recall ranking. TLC
  has no reals, and the properties are statistical. Where they decide something
  (eviction, the order of spilling), the decision is any choice.
- Text: parsing beyond the scanners, text reduction, guards, sanitising, JSON, bundle lines. Their
  results enter as constants.
- The read-only views of a timeline (`fork_at`, audit, blame, reward) and of a
  graph, which change nothing.
- Licensing, egress, the demonstrations and measurements of the CLI.
- Consensus and the eviction policy's table: no property of theirs
  reaches the state modelled here; eviction by any policy is covered.
- The metrics and the admission score of regions, which change nothing.
- The store detached while operations run (`detach_cold_spill`), which leaves blobs
  and husks behind.
- The memory ports and the runtime crate: trait definitions and adapters.

A large part of the repository's lines is of these kinds (numerical retrieval,
text analysis, wording, measurement, demonstration); the map covers the stateful
core.

## 7. Plan

Done: every component of section 1 that names a module.

Worth adding: the consensus vote as operators against definitions; `assert_evidence` on a COLD node in
`ColdTier`; a `Migration` whose merge is repaired, with the properties that then
hold (every lossless import is still there after any later one).

Worth proving: `OnlyTearsLose` of `SpillStore`.

------------------------------- MODULE Runtime -------------------------------
(***************************************************************************)
(* Runs of `ccos runtime` over one source tree and one state directory     *)
(* (run_runtime of src/commands_runtime.rs): a run lists the tree and      *)
(* reads the files one after the other, pages the graph they make with the *)
(* scheduler, lets three agents look at the HOT part, and saves graph,     *)
(* event log and distributed log as three files, one after the other,      *)
(* which it then reads back, one after the other. The tree is edited and   *)
(* other runs go on meanwhile; a write can fail, and a run can be stopped. *)
(*                                                                         *)
(* A graph is the content of its file nodes; a content is worth a priority *)
(* and costs tokens. What an agent says of a context is left out but for   *)
(* what it depends on: the context.                                        *)
(***************************************************************************)
EXTENDS Naturals, Sequences, FiniteSets, SequencesExt

CONSTANTS
  Runs,
  Paths,        \* paths of files, by their order
  Contents,
  Absent,       \* no content
  Priority,     \* Priority[c]: the score of a node with content c
  Cost,         \* Cost[c]: its tokens
  Budget,       \* --budget: tokens of the HOT tier; WARM extends it to twice that
  MaxEdits      \* bound: edits of the tree

ConstantsOK ==
  /\ Paths \subseteq Nat /\ IsFiniteSet(Paths)
  /\ Absent \notin Contents
  /\ Priority \in [Contents -> Nat] /\ Cost \in [Contents -> Nat \ {0}] /\ Budget \in Nat \ {0}
  /\ MaxEdits \in Nat

VARIABLES
  tree,      \* the source tree
  edits,     \* edits made to it
  pc,        \* pc[r]: what run r is about to do
  todo,      \* todo[r]: the listed paths that it has not read
  made,      \* made[r]: the state it made: graph, events and memory
  files,     \* the three files of the state directory
  restored,  \* restored[r]: the state it read back
  disturbed  \* observed: another run wrote since run r wrote its first file

vars == <<tree, edits, pc, todo, made, files, restored, disturbed>>

Parts == <<"graph", "events", "memory">>

-----------------------------------------------------------------------------
(* Logs *)

\* EventLog::append: an event carries the hash of the one before it.
AppendEvent(log, payload) ==
  LET prev == IF log = << >> THEN "GENESIS" ELSE Last(log).hash
  IN Append(log, [payload |-> payload, prev |-> prev, hash |-> <<prev, payload>>])

EventsVerify(log) ==
  \A i \in DOMAIN log :
    LET prev == IF i = 1 THEN "GENESIS" ELSE log[i - 1].hash IN
    log[i].prev = prev /\ log[i].hash = <<prev, log[i].payload>>

\* DistributedEventLog::append: the chain is a list beside the events.
AppendDist(log, payload) ==
  LET prev == IF log.chain = << >> THEN "GENESIS" ELSE Last(log.chain).hash IN
  [events |-> Append(log.events, payload),
   chain  |-> Append(log.chain, [prev |-> prev, hash |-> <<prev, payload>>])]

\* An empty chain is valid whatever the events, and events beyond it go unseen.
DistVerifies(log) ==
  \A i \in DOMAIN log.chain :
    /\ i \in DOMAIN log.events
    /\ log.chain[i].prev = (IF i = 1 THEN "GENESIS" ELSE log.chain[i - 1].hash)
    /\ log.chain[i].hash = <<log.chain[i].prev, log.events[i]>>

-----------------------------------------------------------------------------
(* The scheduler *)

\* Fault: nodes of the same priority come in the order of the hash map.
OrdersByPriority(g) ==
  {s \in SetToSeqs(DOMAIN g) :
     \A i, j \in DOMAIN s : i < j => Priority[g[s[i]]] >= Priority[g[s[j]]]}

\* ordered_by_priority: the highest first, and ties by id.
Orders(g) ==
  {s \in SetToSeqs(DOMAIN g) :
     \A i, j \in DOMAIN s : i < j =>
       \/ Priority[g[s[i]]] > Priority[g[s[j]]]
       \/ Priority[g[s[i]]] = Priority[g[s[j]]] /\ s[i] < s[j]}

\* allocate_context: in that order, a node is HOT, or else WARM, if that budget
\* still has room beside the nodes placed so far.
Allocate(g, order) ==
  LET placed[i \in 0..Len(order)] ==
        IF i = 0 THEN [used |-> 0, hot |-> {}, warm |-> {}]
        ELSE LET before == placed[i - 1]
                 n == order[i]
                 used == before.used + Cost[g[n]]
             IN IF used <= Budget
                THEN [before EXCEPT !.used = used, !.hot = @ \cup {n}]
                ELSE IF used <= 2 * Budget
                THEN [before EXCEPT !.used = used, !.warm = @ \cup {n}]
                ELSE before
  IN placed[Len(order)]

-----------------------------------------------------------------------------
(* Agents *)

Agents == <<"coder", "reviewer", "security">>

\* execute_all: each agent's guarded analysis of the context is logged twice.
Executed(log, context) ==
  LET after[i \in 0..Len(Agents)] ==
        IF i = 0 THEN log
        ELSE AppendEvent(AppendEvent(after[i - 1], <<"guard", Agents[i], context>>),
                         <<"action", Agents[i], context>>)
  IN after[Len(Agents)]

\* The distributed log has the scan and what each agent is confident of.
Distributed(g, context) ==
  LET after[i \in 0..Len(Agents)] ==
        IF i = 0
        THEN AppendDist([events |-> << >>, chain |-> << >>], <<"scan", Cardinality(DOMAIN g)>>)
        ELSE AppendDist(after[i - 1], <<"agent", Agents[i], context>>)
  IN after[Len(Agents)]

\* The text of the HOT nodes, in the order of their ids.
Context(g, hot) == [i \in 1..Cardinality(hot) |->
  g[CHOOSE n \in hot : Cardinality({m \in hot : m <= n}) = i]]

-----------------------------------------------------------------------------
(* The source tree *)

NoState ==
  [graph  |-> << >>,
   events |-> [session |-> "none", log |-> << >>],
   memory |-> [events |-> << >>, chain |-> << >>]]

Init ==
  /\ tree \in [Paths -> Contents \cup {Absent}]
  /\ edits = 0
  /\ pc = [r \in Runs |-> "list"]
  /\ todo = [r \in Runs |-> {}]
  /\ made = [r \in Runs |-> NoState]
  /\ files = NoState
  /\ restored = [r \in Runs |-> NoState]
  /\ disturbed = [r \in Runs |-> FALSE]

Edit(p, c) ==
  /\ edits < MaxEdits
  /\ tree[p] # c
  /\ tree' = [tree EXCEPT ![p] = c]
  /\ edits' = edits + 1
  /\ UNCHANGED <<pc, todo, made, files, restored, disturbed>>

-----------------------------------------------------------------------------
(* A run *)

\* The scan collects the paths first.
List(r) ==
  /\ pc[r] = "list"
  /\ pc' = [pc EXCEPT ![r] = "read"]
  /\ todo' = [todo EXCEPT ![r] = {p \in Paths : tree[p] # Absent}]
  /\ UNCHANGED <<tree, edits, made, files, restored, disturbed>>

\* It then reads them; a file that is gone by then is skipped.
Read(r, p) ==
  /\ pc[r] = "read" /\ p \in todo[r]
  /\ todo' = [todo EXCEPT ![r] = @ \ {p}]
  /\ made' = IF tree[p] = Absent THEN made
             ELSE [made EXCEPT ![r].graph = [q \in DOMAIN @ \cup {p} |->
                                               IF q = p THEN tree[p] ELSE @[q]]]
  /\ UNCHANGED <<tree, edits, pc, files, restored, disturbed>>

\* The scheduler and the agents run on what was read.
Execute(r) ==
  /\ pc[r] = "read" /\ todo[r] = {}
  /\ pc' = [pc EXCEPT ![r] = "graph"]
  /\ LET g == made[r].graph IN
     \E order \in Orders(g) :
       LET context == Context(g, Allocate(g, order).hot) IN
       made' = [made EXCEPT ![r] = [graph  |-> g,
                                    events |-> [session |-> r, log |-> Executed(<< >>, context)],
                                    memory |-> Distributed(g, context)]]
  /\ UNCHANGED <<tree, edits, todo, files, restored, disturbed>>

\* What a run does after the file of this part is written, or read back.
AfterWrite == [graph |-> "events", events |-> "memory", memory |-> "load graph"]
Loading == [graph |-> "load graph", events |-> "load events", memory |-> "load memory"]
AfterLoad == [graph |-> "load events", events |-> "load memory", memory |-> "verify"]

\* Fault: the failure of one write does not end the save.
WriteFailsSilently(r, part) ==
  /\ pc' = [pc EXCEPT ![r] = AfterWrite[part]]
  /\ UNCHANGED <<files, disturbed>>

\* The run ends with the files it has written in place.
WriteFails(r, part) ==
  /\ pc' = [pc EXCEPT ![r] = "failed"]
  /\ UNCHANGED <<files, disturbed>>

\* save_state: the next file, put in place as a whole.
Write(r, part) ==
  /\ pc[r] = part
  /\ \/ /\ files' = [files EXCEPT ![part] = made[r][part]]
        /\ disturbed' = [q \in Runs |-> q # r \/ (part # "graph" /\ disturbed[r])]
        /\ pc' = [pc EXCEPT ![r] = AfterWrite[part]]
     \/ WriteFails(r, part)
  /\ UNCHANGED <<tree, edits, todo, made, restored>>

Load(r, part) ==
  /\ pc[r] = Loading[part]
  /\ restored' = [restored EXCEPT ![r][part] = files[part]]
  /\ pc' = [pc EXCEPT ![r] = AfterLoad[part]]
  /\ UNCHANGED <<tree, edits, todo, made, files, disturbed>>

\* restore_runtime: both chains must be valid. That no link of the graph dangles is
\* checked besides; the graph has no links here.
Verify(r) ==
  /\ pc[r] = "verify"
  /\ pc' = [pc EXCEPT ![r] =
              IF DistVerifies(restored[r].memory) /\ EventsVerify(restored[r].events.log)
              THEN "resumable" ELSE "failed"]
  /\ UNCHANGED <<tree, edits, todo, made, files, restored, disturbed>>

Ended == {"resumable", "failed", "stopped"}

Stop(r) ==
  /\ pc[r] \notin Ended
  /\ pc' = [pc EXCEPT ![r] = "stopped"]
  /\ UNCHANGED <<tree, edits, todo, made, files, restored, disturbed>>

Next ==
  \/ \E p \in Paths, c \in Contents \cup {Absent} : Edit(p, c)
  \/ \E r \in Runs :
       \/ List(r) \/ Execute(r) \/ Verify(r) \/ Stop(r)
       \/ \E p \in Paths : Read(r, p)
       \/ \E part \in ToSet(Parts) : Write(r, part) \/ Load(r, part)

Spec == Init /\ [][Next]_vars

-----------------------------------------------------------------------------
(* Properties *)

(* What a run finds resumable is the state it made, all three parts of it,   *)
(* unless another run wrote between its first write and its last read: no    *)
(* earlier save that failed or was stopped half-way shows through. (Nothing  *)
(* in the files would tell: each part verifies by itself.)                   *)
RestoredIsOwn ==
  \A r \in Runs : pc[r] = "resumable" /\ ~disturbed[r] => restored[r] = made[r]

(* Runs that read the same files record the same: the same HOT context and   *)
(* so the same hash chains, whatever order the maps are iterated in.         *)
SameTreeSameLogs ==
  \A r, s \in Runs :
    /\ made[r].events.log # << >> /\ made[s].events.log # << >>
    /\ made[r].graph = made[s].graph
    => /\ made[r].events.log = made[s].events.log
       /\ made[r].memory = made[s].memory

=============================================================================

------------------------------ MODULE McpServer ------------------------------
(***************************************************************************)
(* The stdio JSON-RPC server of src/mcp.rs on one workspace. A client      *)
(* writes lines without waiting for replies; the server reads them one at  *)
(* a time, applies each to the session, writes a checkpoint (the snapshot, *)
(* then the op-log sidecar) if the call is a mutating one, and only then   *)
(* replies. Either write can fail, before or after the new file is in      *)
(* place; a `ccos memory` process can publish the snapshot in between, and *)
(* the server's checkpoints are refused from then on; the server can be    *)
(* killed between any two steps, and is started again on what is on disk.  *)
(*                                                                         *)
(* A memory is the set of operations it includes, and what an op-log holds *)
(* and how it is trusted is AgentTimeline's: here, a sidecar is the set of *)
(* operations its baseline and ops include. The stamps of the snapshot and *)
(* the races on them are SnapshotWriters's: here, a bit says whether the   *)
(* file still has the stamp that the server last saw.                      *)
(***************************************************************************)
EXTENDS CcrStore

CONSTANTS
  Files,
  NoFile, NoContent,  \* for calls without one
  MaxLines,  \* bound: lines the client sends
  PipeSize   \* bound: lines written and not yet read

ASSUME McpBoundsAssumption == MaxLines \in Nat /\ PipeSize \in Nat

VARIABLES
  pc,       \* "down", "idle", "snapshot", "sidecar" (its next write), "reply", "exit"
  pipe,     \* the lines written and not yet read
  closed,   \* whether the client has closed the pipe
  cur,      \* the line being served and the reply it will get
  mem,      \* the operations in the session's memory
  fresh,    \* whether the snapshot has the stamp that the session last saw
  store,    \* the originals behind compressed items
  window,   \* observed: the last compressed window the session returned
  snapshot, \* the operations in the snapshot file
  sidecar,  \* the operations in the op-log sidecar
  status,   \* observed: status[i] is what became of line i
  promised  \* observed: the operations reported durable to the client

vars == <<pc, pipe, closed, cur, mem, fresh, store, window,
          snapshot, sidecar, status, promised>>

-----------------------------------------------------------------------------
(* Lines *)

Ids == 1..MaxLines

Bare(tool) == [tool |-> tool, file |-> NoFile, content |-> NoContent]

Calls ==
  [tool : {"ingest"}, file : Files, content : Contents]
  \cup [tool : {"signal_failure", "page_fault"}, file : Files, content : {NoContent}]
  \cup [tool : {"ccos_retrieve"}, file : {NoFile}, content : Contents]
  \cup {Bare(tool) : tool \in {"sync", "context", "read", "unknown"}}

\* What a line can be: a call with an id, whose arguments are all there or not; a
\* notification; and lines without a JSON value: empty, malformed, or not UTF-8.
\* "read" stands for the calls that change nothing here, recall among them.
Lines ==
  [form : {"request"}, call : Calls]
  \cup [form : {"incomplete"}, call : {Bare("ingest"), Bare("ccos_retrieve")}]
  \cup [form : {"notification"}, call : {Bare("ingest"), Bare("read")}]
  \cup [form : {"empty", "malformed", "undecodable"}, call : {Bare("unknown")}]

\* is_mutating_call looks at the name of the tool alone.
IsMutatingCall(line) ==
  /\ line.form \in {"request", "incomplete", "notification"}
  /\ line.call.tool \in {"ingest", "signal_failure", "page_fault"}

Replies == {"ok", "isError", "notDurable", "error"}
Expected(line) == line.form \in {"request", "incomplete", "malformed"}

\* No line is being served.
Idle == [id |-> 0, line |-> [form |-> "empty", call |-> Bare("unknown")], reply |-> "none"]

-----------------------------------------------------------------------------
(* The session *)

OpOf(id, call) == [id |-> id, tool |-> call.tool, file |-> call.file, content |-> call.content]

Ingested == {o.file : o \in {p \in mem : p.tool = "ingest"}}

\* The content of file f: that of the last ingest.
Source(f) ==
  LET ingests == {o \in mem : o.tool = "ingest" /\ o.file = f}
  IN (CHOOSE o \in ingests : \A p \in ingests : p.id <= o.id).content

\* The windows a recall may select: contents of some files, in some order.
Selections ==
  {[i \in DOMAIN order |-> Source(order[i])] :
     order \in {s \in UNION {[1..n -> Ingested] : n \in 0..Cardinality(Files)} :
                  \A i, j \in DOMAIN s : i # j => s[i] # s[j]}}

\* Where a file is known, signal_failure and page_fault raise its pressure.
Applies(call) ==
  \/ call.tool = "ingest"
  \/ call.tool \in {"signal_failure", "page_fault"} /\ call.file \in Ingested

\* The reply of a call whose arguments are there, before any checkpoint.
ReplyOf(call) ==
  CASE call.tool = "unknown" -> "error"
    [] call.tool = "signal_failure" /\ call.file \notin Ingested -> "isError"
    [] call.tool = "ccos_retrieve" /\ call.content \notin store -> "isError"
    [] OTHER -> "ok"

-----------------------------------------------------------------------------
(* The client, and the other writer *)

Init ==
  /\ pc = "down"
  /\ pipe = << >>
  /\ closed = FALSE
  /\ cur = Idle
  /\ mem = {}
  /\ fresh = TRUE
  /\ store = {}
  /\ window = << >>
  /\ snapshot = {}
  /\ sidecar = {}
  /\ status = [i \in Ids |-> "unsent"]
  /\ promised = {}

Unsent == {i \in Ids : status[i] = "unsent"}

Send(line) ==
  /\ pc # "down" /\ ~closed
  /\ Len(pipe) < PipeSize
  /\ Unsent # {}
  /\ LET id == CHOOSE i \in Unsent : \A j \in Unsent : i <= j IN
     /\ pipe' = Append(pipe, [id |-> id, line |-> line])
     /\ status' = [status EXCEPT ![id] = IF Expected(line) THEN "waiting" ELSE "silent"]
  /\ UNCHANGED <<pc, closed, cur, mem, fresh, store, window, snapshot, sidecar, promised>>

Close ==
  /\ pc # "down" /\ ~closed
  /\ closed' = TRUE
  /\ UNCHANGED <<pc, pipe, cur, mem, fresh, store, window, snapshot, sidecar, status, promised>>

\* Another process publishes the snapshot, with what is in it and more.
ForeignWrite ==
  /\ pc # "down"
  /\ fresh' = FALSE
  /\ UNCHANGED <<pc, pipe, closed, cur, mem, store, window, snapshot, sidecar, status, promised>>

-----------------------------------------------------------------------------
(* The server *)

\* AgentSession::open: the snapshot, and a session with an empty store.
Start ==
  /\ pc = "down"
  /\ pc' = "idle"
  /\ closed' = FALSE
  /\ mem' = snapshot
  /\ fresh' = TRUE
  /\ store' = {}
  /\ window' = << >>
  /\ UNCHANGED <<pipe, cur, snapshot, sidecar, status, promised>>

\* A session that is not there.
Forgotten ==
  /\ closed' = FALSE
  /\ mem' = {}
  /\ fresh' = TRUE
  /\ store' = {}
  /\ window' = << >>

\* The process is gone, and with it the lines in the pipe and the one served.
Down ==
  /\ pc' = "down"
  /\ pipe' = << >>
  /\ cur' = Idle
  /\ Forgotten
  /\ status' = [i \in Ids |-> IF status[i] = "waiting" THEN "lost" ELSE status[i]]
  /\ UNCHANGED <<snapshot, sidecar, promised>>

Kill == pc # "down" /\ Down

\* A line is answered after a checkpoint if it names a mutating tool, whatever
\* became of the call, or is a sync, which is a checkpoint.
NextWrite(line) ==
  IF IsMutatingCall(line) \/ (line.form = "request" /\ line.call.tool = "sync")
  THEN "snapshot" ELSE "reply"

\* A request is dispatched and its call applied to the session.
Apply(id, line) ==
  /\ line.form = "request"
  /\ cur' = [id |-> id, line |-> line, reply |-> ReplyOf(line.call)]
  /\ mem' = IF Applies(line.call) THEN mem \cup {OpOf(id, line.call)} ELSE mem
  /\ IF line.call.tool = "context"
     THEN \E items \in Selections :
            /\ store' = CompressWindow(store, items).store
            /\ window' = CompressWindow(store, items).window
     ELSE UNCHANGED <<store, window>>

\* A required argument is missing, or there is no JSON: nothing is applied, and
\* the reply is an error. A notification and an empty line get no reply at all.
Refuse(id, line) ==
  /\ line.form \in {"incomplete", "malformed", "notification", "empty"}
  /\ cur' = [id |-> id, line |-> line, reply |-> IF Expected(line) THEN "error" ELSE "none"]
  /\ UNCHANGED <<mem, store, window>>

Handle ==
  /\ pc = "idle" /\ pipe # << >>
  /\ LET id == Head(pipe).id
         line == Head(pipe).line IN
     /\ Apply(id, line) \/ Refuse(id, line)
     /\ pc' = NextWrite(line)
  /\ pipe' = Tail(pipe)
  /\ UNCHANGED <<closed, fresh, snapshot, sidecar, status, promised>>

\* The end of the pipe, or a line that is not UTF-8, ends the loop; the session is
\* checkpointed once more, nobody is told how, and the process exits.
EndLoop ==
  /\ pc = "idle"
  /\ IF pipe = << >> THEN closed ELSE Head(pipe).line.form = "undecodable"
  /\ pc' = "snapshot"
  /\ UNCHANGED <<pipe, closed, cur, mem, fresh, store, window, snapshot, sidecar,
                 status, promised>>

Exit == pc = "exit" /\ Down

AfterCheckpoint == IF cur = Idle THEN "exit" ELSE "reply"

\* Fault: the reply is dropped when the checkpoint fails.
FailedSilently ==
  /\ pc' = AfterCheckpoint
  /\ cur' = IF cur = Idle THEN Idle ELSE [cur EXCEPT !.reply = "none"]

\* Fault: the result of the checkpoint is not looked at.
FailedUnnoticed ==
  /\ pc' = AfterCheckpoint
  /\ UNCHANGED cur

\* A checkpoint has failed. mark_not_durable turns a result into a warning and
\* leaves a JSON-RPC error alone; for sync the failure is the answer.
Failed ==
  /\ pc' = AfterCheckpoint
  /\ cur' = IF cur.reply \in {"ok", "isError"}
            THEN [cur EXCEPT !.reply = IF cur.line.call.tool = "sync"
                                       THEN "error" ELSE "notDurable"]
            ELSE cur

\* The snapshot is written, unless its stamp is another's. A failure of the last
\* directory sync leaves the new file in place and its stamp unknown.
WriteSnapshot ==
  /\ pc = "snapshot"
  /\ \/ fresh /\ snapshot' = mem /\ pc' = "sidecar" /\ UNCHANGED <<cur, fresh>>
     \/ Failed /\ UNCHANGED <<snapshot, fresh>>
     \/ fresh /\ Failed /\ snapshot' = mem /\ fresh' = FALSE
  /\ UNCHANGED <<pipe, closed, mem, store, window, sidecar, status, promised>>

WriteSidecar ==
  /\ pc = "sidecar"
  /\ \/ sidecar' = mem /\ pc' = AfterCheckpoint /\ UNCHANGED cur
     \/ Failed /\ sidecar' \in {sidecar, mem}
  /\ UNCHANGED <<pipe, closed, mem, fresh, store, window, snapshot, status, promised>>

\* What a reply promises of durability: a mutating call's own operation, and
\* for sync the whole session.
Promises ==
  IF cur.reply # "ok" THEN {}
  ELSE IF cur.line.call.tool = "sync" THEN mem
  ELSE IF IsMutatingCall(cur.line) THEN {o \in mem : o.id = cur.id} ELSE {}

Reply ==
  /\ pc = "reply"
  /\ pc' = "idle"
  /\ cur' = Idle
  /\ status' = IF cur.reply = "none" THEN status
               ELSE [status EXCEPT ![cur.id] = cur.reply]
  /\ promised' = promised \cup Promises
  /\ UNCHANGED <<pipe, closed, mem, fresh, store, window, snapshot, sidecar>>

Serve == Handle \/ WriteSnapshot \/ WriteSidecar \/ Reply \/ EndLoop \/ Exit

Next ==
  \/ \E line \in Lines : Send(line)
  \/ Close \/ ForeignWrite
  \/ Start \/ Kill
  \/ Serve

Spec == Init /\ [][Next]_vars

\* A server that is not killed goes on with its loop; nothing is assumed of the
\* client, of the other writer, or of whoever starts the server.
FairSpec == Spec /\ WF_vars(Serve)

-----------------------------------------------------------------------------
(* Properties *)

Ops == [id : Ids, tool : {"ingest"}, file : Files, content : Contents]
       \cup [id : Ids, tool : {"signal_failure", "page_fault"},
             file : Files, content : {NoContent}]

(* What a client was told of without a warning is on disk, in the snapshot   *)
(* and in the sidecar, and stays there: through failed and torn checkpoints, *)
(* writes of another process, kills and restarts at any point.               *)
AckedIsDurable == promised \subseteq snapshot /\ promised \subseteq sidecar

(* Every reference of the last window handed out has its original, whatever  *)
(* was stored before and however small the capacity is; beyond that window,  *)
(* the store is within its capacity.                                         *)
LatestWindowRetrievable ==
  LET refs == {window[i].content : i \in {j \in DOMAIN window : window[j].ref}} IN
  /\ refs \subseteq store
  /\ CcrCapacity > 0 /\ Cardinality(store) > CcrCapacity => store = refs

(* Every line that asks for a reply gets one, unless the server dies or its  *)
(* loop ends first: no failure of a checkpoint, refusal or malformed line in *)
(* front of it can swallow it.                                               *)
EveryRequestAnswered ==
  \A i \in Ids : status[i] = "waiting" ~> status[i] \in Replies \cup {"lost"}

=============================================================================

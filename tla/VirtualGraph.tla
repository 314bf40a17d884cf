---------------------------- MODULE VirtualGraph ----------------------------
(***************************************************************************)
(* What a MemoryGraph promises, wherever it keeps its nodes: a graph whose *)
(* nodes and links nothing but a re-ingest, a removal or a lossy compaction*)
(* can take away. Paging and spilling do not show at all.                  *)
(***************************************************************************)
CONSTANTS
  Nodes,
  Links,    \* the links that can exist, pairs of distinct nodes
  Contents, \* what a node can be ingested with
  Summary,  \* what is left of a content after compaction
  NoText,   \* the content of a node that is not in the graph
  Lossy     \* whether contents may be compacted

VARIABLES
  text,     \* text[n]: the content of node n
  links,    \* the links between nodes
  updated   \* the node the last step re-ingested or removed, if it did

vars == <<text, links, updated>>

Init ==
  /\ updated = {}
  /\ text = [n \in Nodes |-> NoText]
  /\ links = {}

Incident(n) == {e \in Links : n \in {e[1], e[2]}}

\* t, some of its contents compacted.
Shrunk(t) ==
  IF Lossy
  THEN {[n \in Nodes |-> IF n \in K THEN Summary ELSE t[n]] :
          K \in SUBSET {n \in Nodes : t[n] \in Contents}}
  ELSE {t}

\* A re-ingest or a removal may take links of the node with it, or bring back
\* links that lead to it, and no other.
Update(n, c) ==
  /\ updated' = {n}
  /\ text' \in Shrunk([text EXCEPT ![n] = c])
  /\ \E own \in SUBSET Incident(n) : links' = (links \ Incident(n)) \cup own

AddLink(e) ==
  /\ links' = links \cup {e}
  /\ updated' = {}
  /\ UNCHANGED text

\* Any other step changes nothing, but that contents may be compacted.
Keep ==
  /\ text' \in Shrunk(text)
  /\ updated' = {}
  /\ UNCHANGED links

Next ==
  \/ \E n \in Nodes, c \in Contents \cup {NoText} : Update(n, c)
  \/ \E e \in Links : AddLink(e)
  \/ Keep

Spec == Init /\ [][Next]_vars

=============================================================================

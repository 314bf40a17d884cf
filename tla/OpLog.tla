------------------------------- MODULE OpLog --------------------------------
(***************************************************************************)
(* The hash-chained log of src/agent_session.rs, shared by the timeline of *)
(* a session and by what agents exchange of it.                            *)
(*                                                                         *)
(* A log is a record with the retained ops, the chain of their links, how  *)
(* many operations were folded away before them and the anchor, the link   *)
(* before the first retained one. A link is modelled by the history it     *)
(* commits to: the hash is assumed collision free, so hashing              *)
(* (prev, seq, op) is appending [seq, op] to the history prev stands for,  *)
(* and GENESIS is the empty history.                                       *)
(***************************************************************************)
EXTENDS Integers, Sequences

Genesis == << >>

LinkHash(prev, seq, op) == Append(prev, [seq |-> seq, op |-> op])

\* The chain over ops from an anchor at a compaction floor.
ChainOver(anchor, floor, ops) ==
  [i \in 1..Len(ops) |->
     anchor \o [j \in 1..i |-> [seq |-> floor + j - 1, op |-> ops[j]]]]

Total(t) == t.folded + Len(t.ops)

TimelineHead(t) == IF t.chain = << >> THEN t.anchor ELSE t.chain[Len(t.chain)]

\* Fault: each link hashed against the anchor instead of the link before it.
RecordUnlinked(t, op) ==
  [t EXCEPT !.chain = Append(@, LinkHash(t.anchor, Total(t), op)),
            !.ops   = Append(@, op)]

Record(t, op) ==
  [t EXCEPT !.chain = Append(@, LinkHash(TimelineHead(t), Total(t), op)),
            !.ops   = Append(@, op)]

=============================================================================

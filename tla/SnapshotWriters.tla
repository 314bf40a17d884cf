--------------------------- MODULE SnapshotWriters ---------------------------
(***************************************************************************)
(* Processes that share one workspace snapshot (CcosMemory::open and       *)
(* write_to of src/external_memory.rs, write_durable of src/util.rs), down *)
(* to the file operations another process can come between: the read and   *)
(* the stat of an open; the stat, the publication and the second stat of a *)
(* checkpoint.                                                             *)
(*                                                                         *)
(* A stamp (length and modification time) is a number no two publications  *)
(* share. A snapshot is modelled by the publications its content includes: *)
(* those of the snapshot its writer loaded, and the writer's own.          *)
(***************************************************************************)
EXTENDS Naturals

CONSTANTS
  Procs,
  MaxWrites  \* bound: publications

ASSUME MaxWritesAssumption == MaxWrites \in Nat

VARIABLES
  pc,      \* "down", "loaded", "up", or inside a checkpoint: "checked", "published"
  file,    \* the snapshot file: its stamp, what it includes, who wrote it
  holds,   \* holds[p]: the publications the memory of p includes
  seen,    \* seen[p]: the stamp p believes the file has
  racing,  \* observed: publications made by others in the windows of p
  unsure   \* observed: p was told of an error though its write is in place

vars == <<pc, file, holds, seen, racing, unsure>>

NoFile == 0

Init ==
  /\ pc = [p \in Procs |-> "down"]
  /\ file = [stamp |-> NoFile, holds |-> {}, by |-> {}]
  /\ holds = [p \in Procs |-> {}]
  /\ seen = [p \in Procs |-> NoFile]
  /\ racing = [p \in Procs |-> {}]
  /\ unsure = [p \in Procs |-> FALSE]

-----------------------------------------------------------------------------
(* Opening *)

\* The snapshot is read, if there is one.
Load(p) ==
  /\ pc[p] = "down"
  /\ pc' = [pc EXCEPT ![p] = "loaded"]
  /\ holds' = [holds EXCEPT ![p] = file.holds]
  /\ UNCHANGED <<file, seen, racing, unsure>>

\* Its stamp is taken.
StampOpened(p) ==
  /\ pc[p] = "loaded"
  /\ pc' = [pc EXCEPT ![p] = "up"]
  /\ seen' = [seen EXCEPT ![p] = file.stamp]
  /\ UNCHANGED <<file, holds, racing, unsure>>

-----------------------------------------------------------------------------
(* Checkpoints *)

\* A file with another stamp is someone else's: the checkpoint is refused, and
\* nothing changes.
Check(p) ==
  /\ pc[p] = "up"
  /\ file.stamp = seen[p]
  /\ pc' = [pc EXCEPT ![p] = "checked"]
  /\ UNCHANGED <<file, holds, seen, racing, unsure>>

\* The windows of p in which another process can write unnoticed.
InWindow(p) == pc[p] \in {"loaded", "checked", "published"}

\* The memory of p becomes the file.
Place(p) ==
  LET new == file.stamp + 1 IN
  /\ file' = [stamp |-> new, holds |-> holds[p] \cup {new}, by |-> {p}]
  /\ holds' = [holds EXCEPT ![p] = @ \cup {new}]
  /\ racing' = [q \in Procs |->
                  IF q # p /\ InWindow(q) THEN racing[q] \cup {new} ELSE racing[q]]

\* Fault: a new file is renamed into place like any other.
PublishRenamed(p) ==
  /\ pc[p] = "checked"
  /\ file.stamp < MaxWrites
  /\ Place(p)
  /\ pc' = [pc EXCEPT ![p] = "published"]
  /\ UNCHANGED <<seen, unsure>>

\* A process that saw no file links its own into place, which fails if there is
\* one by now; the others rename theirs over what is there.
Publish(p) ==
  /\ pc[p] = "checked"
  /\ \/ /\ seen[p] = NoFile => file.stamp = NoFile
        /\ file.stamp < MaxWrites
        /\ Place(p)
        /\ pc' = [pc EXCEPT ![p] = "published"]
     \/ /\ seen[p] = NoFile /\ file.stamp # NoFile
        /\ pc' = [pc EXCEPT ![p] = "up"]
        /\ UNCHANGED <<file, holds, racing>>
  /\ UNCHANGED <<seen, unsure>>

\* The new content cannot be written or put in place.
WriteFails(p) ==
  /\ pc[p] = "checked"
  /\ pc' = [pc EXCEPT ![p] = "up"]
  /\ UNCHANGED <<file, holds, seen, racing, unsure>>

\* Fault: the stamp from before the publication is kept.
RecordNothing(p) ==
  /\ pc[p] = "published"
  /\ pc' = [pc EXCEPT ![p] = "up"]
  /\ UNCHANGED <<file, holds, seen, racing, unsure>>

\* The directories are synced and the new stamp is taken.
Record(p) ==
  /\ pc[p] = "published"
  /\ pc' = [pc EXCEPT ![p] = "up"]
  /\ seen' = [seen EXCEPT ![p] = file.stamp]
  /\ unsure' = [unsure EXCEPT ![p] = FALSE]
  /\ UNCHANGED <<file, holds, racing>>

\* A directory cannot be synced: the call fails with the new file in place, and
\* the stamp is not taken.
SyncFails(p) ==
  /\ pc[p] = "published"
  /\ pc' = [pc EXCEPT ![p] = "up"]
  /\ unsure' = [unsure EXCEPT ![p] = TRUE]
  /\ UNCHANGED <<file, holds, seen, racing>>

Stop(p) ==
  /\ pc[p] # "down"
  /\ pc' = [pc EXCEPT ![p] = "down"]
  /\ holds' = [holds EXCEPT ![p] = {}]
  /\ seen' = [seen EXCEPT ![p] = NoFile]
  /\ racing' = [racing EXCEPT ![p] = {}]
  /\ unsure' = [unsure EXCEPT ![p] = FALSE]
  /\ UNCHANGED file

Next ==
  \E p \in Procs :
    \/ Load(p) \/ StampOpened(p)
    \/ Check(p) \/ Publish(p) \/ WriteFails(p) \/ Record(p) \/ SyncFails(p)
    \/ Stop(p)

Spec == Init /\ [][Next]_vars

-----------------------------------------------------------------------------
(* Properties *)

Stamps == 0..MaxWrites

(* Every variable has its type, and a file includes its own publication.     *)
TypeOK ==
  /\ pc \in [Procs -> {"down", "loaded", "up", "checked", "published"}]
  /\ file \in [stamp : Stamps, holds : SUBSET Stamps, by : SUBSET Procs]
  /\ file.stamp # NoFile => file.stamp \in file.holds
  /\ holds \in [Procs -> SUBSET Stamps]
  /\ seen \in [Procs -> Stamps]
  /\ racing \in [Procs -> SUBSET Stamps]
  /\ unsure \in [Procs -> BOOLEAN]

(* The collision detector: a publication that is overwritten by a process    *)
(* whose memory does not include it was made in one of the windows of that   *)
(* process; and a process that saw no file overwrites nothing at all.        *)
OnlyRacesSlipBy ==
  [][\A p \in Procs : pc[p] = "checked" /\ pc'[p] = "published" =>
       /\ file.stamp \in holds[p] \cup racing[p] \cup {NoFile}
       /\ seen[p] = NoFile => file.stamp = NoFile]_vars

(* A process is refused for a write of its own only if it was told that this *)
(* write went wrong; otherwise someone else did write.                       *)
RefusedForOthers ==
  \A p \in Procs :
    pc[p] = "up" /\ file.stamp # seen[p] /\ p \in file.by => unsure[p]

=============================================================================

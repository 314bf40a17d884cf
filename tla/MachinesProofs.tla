--------------------------- MODULE MachinesProofs ---------------------------
(***************************************************************************)
(* Proofs about the three machines of Machines, for all values of their    *)
(* constants. Of SnapshotWriters: its types, which writes a checkpoint can *)
(* overwrite unknowingly, and whom a refusal is due to. Of Runtime: what a *)
(* run restores is its own, and equal readings give equal logs. Of Regions:*)
(* the search of the clustering finds the connected components, and a      *)
(* replay of the event log restores the engine as far as the log has it.   *)
(***************************************************************************)
EXTENDS Machines, FiniteSetTheorems, FunctionTheorems, SequenceTheorems,
        WellFoundedInduction, TLAPS

-----------------------------------------------------------------------------
(* Processes that share a snapshot *)

Known(p) == holds[p] \cup racing[p] \cup {NoFile}

\* What p believes the file to be is known to it, and the file is what p
\* believes unless it was replaced in a window of p.
Windows ==
  \A p \in Procs :
    /\ pc[p] = "loaded" => file.stamp \in Known(p)
    /\ pc[p] \in {"up", "checked", "published"} => seen[p] \in Known(p)
    /\ pc[p] = "checked" => file.stamp = seen[p] \/ file.stamp \in racing[p]
    /\ pc[p] = "published" => file.stamp \in holds[p] \cup racing[p]

\* A process that wrote the file has its stamp, unless it was told of an error.
OwnWrites ==
  \A p \in Procs :
    pc[p] \in {"up", "checked"} /\ p \in file.by => file.stamp = seen[p] \/ unsure[p]

IInv == TypeOK /\ Windows /\ OwnWrites

(* The invariant holds before anything was written or opened.                *)
LEMMA InitInv == Init => IInv
BY MaxWritesAssumption DEF Init, IInv, TypeOK, Windows, OwnWrites, Known, Stamps, NoFile

(* A publication by p keeps the invariant of every process: p has the new    *)
(* stamp in its memory, and those it comes between note it as a race.        *)
LEMMA PublishInv ==
  ASSUME IInv, NEW p \in Procs, Publish(p)
  PROVE  IInv'
<1> DEFINE new == file.stamp + 1
<1>1. CASE Place(p) /\ pc[p] = "checked" /\ file.stamp < MaxWrites
           /\ pc' = [pc EXCEPT ![p] = "published"] /\ UNCHANGED <<seen, unsure>>
  <2>1. new \in Stamps /\ new # NoFile
    BY <1>1, MaxWritesAssumption DEF IInv, TypeOK, Stamps, NoFile
  <2>2. /\ file' = [stamp |-> new, holds |-> holds[p] \cup {new}, by |-> {p}]
        /\ holds' = [holds EXCEPT ![p] = @ \cup {new}]
        /\ racing' = [q \in Procs |->
             IF q # p /\ InWindow(q) THEN racing[q] \cup {new} ELSE racing[q]]
    BY <1>1 DEF Place
  <2> HIDE DEF new
  <2>3. TypeOK'
    BY <1>1, <2>1, <2>2 DEF IInv, TypeOK
  <2>4. Windows'
    <3> SUFFICES ASSUME NEW q \in Procs
                 PROVE  /\ pc'[q] = "loaded" => file'.stamp \in Known(q)'
                        /\ pc'[q] \in {"up", "checked", "published"} => seen'[q] \in Known(q)'
                        /\ pc'[q] = "checked" => file'.stamp = seen'[q] \/ file'.stamp \in racing'[q]
                        /\ pc'[q] = "published" => file'.stamp \in holds'[q] \cup racing'[q]
      BY DEF Windows
    <3>1. CASE q = p
      BY <1>1, <2>2, <3>1 DEF IInv, TypeOK, Windows, Known
    <3>2. CASE q # p
      BY <1>1, <2>2, <3>2 DEF IInv, TypeOK, Windows, Known, InWindow
    <3>3. QED
      BY <3>1, <3>2
  <2>5. OwnWrites'
    BY <1>1, <2>2 DEF IInv, TypeOK, OwnWrites
  <2>6. QED
    BY <2>3, <2>4, <2>5 DEF IInv
<1>2. CASE pc[p] = "checked" /\ pc' = [pc EXCEPT ![p] = "up"]
           /\ UNCHANGED <<file, holds, racing, seen, unsure>>
  BY <1>2 DEF IInv, TypeOK, Windows, OwnWrites, Known
<1>3. QED
  BY <1>1, <1>2 DEF Publish

(* Every step keeps the invariant.                                           *)
LEMMA NextInv == IInv /\ [Next]_vars => IInv'
<1> SUFFICES ASSUME IInv, [Next]_vars PROVE IInv'
  OBVIOUS
<1>1. CASE UNCHANGED vars
  BY <1>1 DEF vars, IInv, TypeOK, Windows, OwnWrites, Known
<1>2. ASSUME NEW p \in Procs, Load(p) PROVE IInv'
  BY <1>2 DEF Load, IInv, TypeOK, Windows, OwnWrites, Known
<1>3. ASSUME NEW p \in Procs, StampOpened(p) PROVE IInv'
  BY <1>3 DEF StampOpened, IInv, TypeOK, Windows, OwnWrites, Known
<1>4. ASSUME NEW p \in Procs, Check(p) PROVE IInv'
  BY <1>4 DEF Check, IInv, TypeOK, Windows, OwnWrites, Known
<1>5. ASSUME NEW p \in Procs, WriteFails(p) PROVE IInv'
  BY <1>5 DEF WriteFails, IInv, TypeOK, Windows, OwnWrites, Known
<1>6. ASSUME NEW p \in Procs, Record(p) PROVE IInv'
  BY <1>6 DEF Record, IInv, TypeOK, Windows, OwnWrites, Known
<1>7. ASSUME NEW p \in Procs, SyncFails(p) PROVE IInv'
  BY <1>7 DEF SyncFails, IInv, TypeOK, Windows, OwnWrites, Known
<1>8. ASSUME NEW p \in Procs, Stop(p) PROVE IInv'
  BY <1>8, MaxWritesAssumption
     DEF Stop, IInv, TypeOK, Windows, OwnWrites, Known, Stamps, NoFile
<1>9. QED
  BY <1>1, <1>2, <1>3, <1>4, <1>5, <1>6, <1>7, <1>8, PublishInv DEF Next

(* The invariant holds in every reachable state.                             *)
LEMMA Invariance == Spec => []IInv
BY InitInv, NextInv, PTL DEF Spec

(* Every reachable state is well typed.                                      *)
THEOREM TypeCorrect == Spec => []TypeOK
<1>1. IInv => TypeOK
  BY DEF IInv
<1>2. QED
  BY <1>1, Invariance, PTL

(* A refusal is due to someone else's write, or to an error p was told of.   *)
THEOREM RefusalsAreForOthers == Spec => []RefusedForOthers
<1>1. IInv => RefusedForOthers
  BY DEF IInv, OwnWrites, RefusedForOthers
<1>2. QED
  BY <1>1, Invariance, PTL

(* The collision detector: what a checkpoint overwrites is in the memory     *)
(* that replaces it, or was written in a window of the process, and a process*)
(* that saw no file overwrites nothing.                                      *)
THEOREM DetectorIsSound == Spec => OnlyRacesSlipBy
<1> DEFINE A == \A p \in Procs : pc[p] = "checked" /\ pc'[p] = "published" =>
                  /\ file.stamp \in holds[p] \cup racing[p] \cup {NoFile}
                  /\ seen[p] = NoFile => file.stamp = NoFile
<1>1. IInv /\ [Next]_vars => [A]_vars
  <2> SUFFICES ASSUME IInv, Next, NEW p \in Procs,
                      pc[p] = "checked", pc'[p] = "published"
               PROVE  /\ file.stamp \in holds[p] \cup racing[p] \cup {NoFile}
                      /\ seen[p] = NoFile => file.stamp = NoFile
    OBVIOUS
  <2>1. PICK q \in Procs : \/ Load(q) \/ StampOpened(q) \/ Check(q) \/ Publish(q)
                           \/ WriteFails(q) \/ Record(q) \/ SyncFails(q) \/ Stop(q)
    BY DEF Next
  <2>2. Publish(p)
    BY <2>1 DEF IInv, TypeOK, Load, StampOpened, Check, Publish, WriteFails, Record,
                SyncFails, Stop
  <2>3. file.stamp \in Known(p)
    BY DEF IInv, Windows, Known
  <2>4. QED
    BY <2>2, <2>3 DEF Publish, Known, IInv, TypeOK
<1>2. QED
  BY <1>1, Invariance, PTL DEF Spec, OnlyRacesSlipBy

-----------------------------------------------------------------------------
(* Naturals, recursion over them, and the instances *)

(* The instances have their own copy of finiteness and cardinality.          *)
LEMMA SameCardinality ==
  \A S : RT!Cardinality(S) = Cardinality(S) /\ R!Cardinality(S) = Cardinality(S)
BY Zenon DEF RT!Cardinality, R!Cardinality, Cardinality

(* The same for finiteness.                                                  *)
LEMMA SameFinite ==
  \A S : (RT!IsFiniteSet(S) <=> IsFiniteSet(S)) /\ (R!IsFiniteSet(S) <=> IsFiniteSet(S))
BY Zenon DEF RT!IsFiniteSet, R!IsFiniteSet, IsFiniteSet

(* Every non-empty set of naturals has a least element.                      *)
LEMMA LeastElement ==
  ASSUME NEW T \in SUBSET Nat, T # {}
  PROVE  \E x \in T : \A y \in T : x <= y
<1> DEFINE Less == OpToRel(<, Nat)
<1>1. IsWellFoundedOn(Less, Nat)
  BY NatLessThanWellFounded
<1>2. \A y, x \in Nat : y < x => <<y, x>> \in Less
  BY DEF OpToRel
<1> HIDE DEF Less
<1>3. PICK x \in T : \A y \in T : ~(<<y, x>> \in Less)
  BY <1>1, WFMin
<1>4. ASSUME NEW y \in T PROVE x <= y
  <2>1. ~(y < x)
    BY <1>2, <1>3
  <2>2. x \in Nat /\ y \in Nat
    OBVIOUS
  <2>3. QED
    BY <2>1, <2>2
<1>5. QED
  BY <1>4

(* A set of naturals that holds 0 and the successor of each of its members   *)
(* holds every natural: induction, stated with a set so that the first-order *)
(* provers can instantiate it.                                               *)
LEMMA SetInduction ==
  ASSUME NEW T, T \subseteq Nat, 0 \in T, \A n \in T : n + 1 \in T
  PROVE  T = Nat
<1> SUFFICES ASSUME T # Nat PROVE FALSE
  OBVIOUS
<1> DEFINE Less == OpToRel(<, Nat)
<1>1. IsWellFoundedOn(Less, Nat)
  BY NatLessThanWellFounded
<1>2. \A y, x \in Nat : y < x => <<y, x>> \in Less
  BY DEF OpToRel
<1> HIDE DEF Less
<1>3. PICK x \in Nat \ T : \A y \in Nat \ T : ~(<<y, x>> \in Less)
  BY <1>1, WFMin
<1>4. x # 0 /\ x - 1 \in Nat /\ x - 1 < x
  OBVIOUS
<1>5. x - 1 \in T
  BY <1>2, <1>3, <1>4
<1> QED
  BY <1>3, <1>4, <1>5

\* f runs through 0..n from b, each value being A of its index and the one before.
IsRun(f, n, S, b, A) ==
  /\ f \in [0..n -> S]
  /\ f[0] = b
  /\ \A i \in 1..n : f[i] = A[i][f[i - 1]]

(* A function on 0..n given by its value b at 0 and, from then on, by a step *)
(* function applied to the index and the previous value exists, and has its  *)
(* values in the set S those live in: the form of every replay of a log.     *)
LEMMA RecursionExists ==
  ASSUME NEW n \in Nat, NEW S, NEW b \in S, NEW A \in [1..n -> [S -> S]]
  PROVE  \E f : IsRun(f, n, S, b, A)
<1> DEFINE Partial(k) == \E f \in [0..k -> S] :
                           /\ f[0] = b
                           /\ \A i \in 1..k : f[i] = A[i][f[i - 1]]
           T == {k \in Nat : k <= n => Partial(k)}
<1>1. 0 \in T
  <2> DEFINE f == [i \in 0..0 |-> b]
  <2>1. f \in [0..0 -> S] /\ f[0] = b /\ \A i \in 1..0 : f[i] = A[i][f[i - 1]]
    OBVIOUS
  <2>2. QED
    BY <2>1
<1>2. ASSUME NEW k \in T PROVE k + 1 \in T
  <2>0. k \in Nat /\ (k <= n => Partial(k))
    OBVIOUS
  <2> HIDE DEF Partial
  <2> SUFFICES ASSUME k + 1 <= n PROVE Partial(k + 1)
    BY <2>0
  <2>1. k \in Nat /\ Partial(k)
    BY <2>0
  <2>2. PICK f \in [0..k -> S] : /\ f[0] = b
                                 /\ \A i \in 1..k : f[i] = A[i][f[i - 1]]
    BY <2>1 DEF Partial
  <2> DEFINE g == [i \in 0..(k + 1) |-> IF i = k + 1 THEN A[k + 1][f[k]] ELSE f[i]]
  <2>3. f[k] \in S /\ k + 1 \in 1..n
    BY <2>1
  <2>4. A[k + 1][f[k]] \in S
    BY <2>3
  <2>5. g \in [0..(k + 1) -> S]
    BY <2>1, <2>4
  <2>6. g[0] = b
    BY <2>1, <2>2
  <2>7. ASSUME NEW i \in 1..(k + 1) PROVE g[i] = A[i][g[i - 1]]
    <3>1. i - 1 \in 0..k /\ g[i - 1] = f[i - 1]
      BY <2>1
    <3>2. CASE i = k + 1
      BY <3>1, <3>2, <2>1
    <3>3. CASE i # k + 1
      BY <3>1, <3>3, <2>1, <2>2
    <3>4. QED
      BY <3>2, <3>3
  <2>8. QED
    BY <2>5, <2>6, <2>7 DEF Partial
<1> HIDE DEF T
<1>3. T = Nat
  <2>1. T \subseteq Nat
    BY DEF T
  <2>2. QED
    BY <1>1, <1>2, <2>1, SetInduction
<1>4. Partial(n)
  BY <1>3 DEF T
<1>5. QED
  BY <1>4 DEF IsRun

-----------------------------------------------------------------------------
(* Runs of `ccos runtime` *)

PartNames == {"graph", "events", "memory"}
\* s has the three parts of a state and nothing else.
IsState(s) == s = [graph |-> s.graph, events |-> s.events, memory |-> s.memory]

\* The phases from the write of a part, or its reading back, on.
LoadPhases == {"load graph", "load events", "load memory", "verify", "resumable"}
Wrote(part) ==
  CASE part = "graph" -> {"events", "memory"} \cup LoadPhases
    [] part = "events" -> {"memory"} \cup LoadPhases
    [] part = "memory" -> LoadPhases
ReadBack(part) ==
  CASE part = "graph" -> LoadPhases \ {"load graph"}
    [] part = "events" -> {"load memory", "verify", "resumable"}
    [] part = "memory" -> {"verify", "resumable"}

\* What an undisturbed run has written is in the files, and what it has read back
\* is what it made.
OwnFiles ==
  /\ DOMAIN phase = Runs /\ DOMAIN disturbed = Runs
  /\ DOMAIN made = Runs /\ DOMAIN restored = Runs
  /\ \A r \in Runs : IsState(made[r]) /\ IsState(restored[r])
  /\ IsState(files)
  /\ \A r \in Runs : ~disturbed[r] =>
       /\ \A part \in PartNames : phase[r] \in Wrote(part) => files[part] = made[r][part]
       /\ \A part \in PartNames : phase[r] \in ReadBack(part) => restored[r][part] = made[r][part]

(* Nothing is written or read back at first.                                 *)
LEMMA InitOwnFiles == RT!Init => OwnFiles
<1> SUFFICES ASSUME RT!Init PROVE OwnFiles
  OBVIOUS
<1>1. IsState(RT!NoState)
  BY DEF RT!NoState, IsState
<1>2. /\ phase = [r \in Runs |-> "list"] /\ disturbed = [r \in Runs |-> FALSE]
      /\ made = [r \in Runs |-> RT!NoState] /\ restored = [r \in Runs |-> RT!NoState]
      /\ files = RT!NoState
  BY DEF RT!Init
<1>3. DOMAIN phase = Runs /\ DOMAIN disturbed = Runs
  BY <1>2
<1>4. \A r \in Runs : \A part \in PartNames :
        phase[r] \notin Wrote(part) /\ phase[r] \notin ReadBack(part)
  BY <1>2 DEF Wrote, ReadBack, LoadPhases, PartNames
<1> QED
  BY <1>1, <1>2, <1>3, <1>4 DEF OwnFiles

(* A state is its three parts.                                               *)
LEMMA StateIs ==
  ASSUME NEW s, NEW t, IsState(s), IsState(t), \A part \in PartNames : s[part] = t[part]
  PROVE  s = t
<1>1. s.graph = t.graph /\ s.events = t.events /\ s.memory = t.memory
  BY DEF PartNames
<1> QED
  BY <1>1 DEF IsState

(* The replacement of one part of a state leaves the others.                 *)
LEMMA StatePart ==
  ASSUME NEW s, NEW t, NEW part \in PartNames, NEW v, IsState(s), t = [s EXCEPT ![part] = v]
  PROVE  /\ IsState(t) /\ t[part] = v
         /\ \A other \in PartNames \ {part} : t[other] = s[other]
<1>1. DOMAIN s = PartNames /\ s = [x \in PartNames |-> s[x]]
  BY DEF IsState, PartNames
<1>2. /\ t = [x \in PartNames |-> IF x = part THEN v ELSE s[x]]
      /\ t[part] = v /\ \A other \in PartNames \ {part} : t[other] = s[other]
  BY <1>1
<1>3. IsState(t)
  BY <1>2 DEF IsState, PartNames
<1> QED
  BY <1>2, <1>3

(* A step of a run and the parts: which it has written and read back.        *)
LEMMA PhasesAre ==
  ASSUME NEW part \in PartNames
  PROVE  /\ \A x \in {"list", "read", "graph", "failed", "stopped"} :
              x \notin Wrote(part) /\ x \notin ReadBack(part)
         /\ part \notin Wrote(part) /\ part \notin ReadBack(part)
         /\ \A other \in PartNames \ {part} :
              RT!AfterWrite[part] \in Wrote(other) => part \in Wrote(other)
         /\ \A other \in PartNames : RT!AfterWrite[part] \notin ReadBack(other)
         /\ RT!Loading[part] \in Wrote(part)
         /\ \A other \in PartNames :
              /\ RT!AfterLoad[part] \in Wrote(other) => RT!Loading[part] \in Wrote(other)
              /\ RT!AfterLoad[part] \in ReadBack(other) =>
                   other = part \/ RT!Loading[part] \in ReadBack(other)
         /\ "resumable" \in Wrote(part) \cap ReadBack(part)
         /\ "verify" \in ReadBack(part) /\ "verify" \in Wrote(part)
<1>1. /\ Wrote("graph") = {"events", "memory"} \cup LoadPhases
      /\ Wrote("events") = {"memory"} \cup LoadPhases
      /\ Wrote("memory") = LoadPhases
  BY DEF Wrote
<1>2. /\ ReadBack("graph") = LoadPhases \ {"load graph"}
      /\ ReadBack("events") = {"load memory", "verify", "resumable"}
      /\ ReadBack("memory") = {"verify", "resumable"}
  BY DEF ReadBack
<1>3. /\ RT!AfterWrite["graph"] = "events" /\ RT!AfterWrite["events"] = "memory"
      /\ RT!AfterWrite["memory"] = "load graph"
      /\ RT!Loading["graph"] = "load graph" /\ RT!Loading["events"] = "load events"
      /\ RT!Loading["memory"] = "load memory"
      /\ RT!AfterLoad["graph"] = "load events" /\ RT!AfterLoad["events"] = "load memory"
      /\ RT!AfterLoad["memory"] = "verify"
  BY DEF RT!AfterWrite, RT!Loading, RT!AfterLoad
<1>4. \A x \in PartNames : x = "graph" \/ x = "events" \/ x = "memory"
  BY DEF PartNames
<1>5. ASSUME NEW x \in {"list", "read", "graph", "failed", "stopped"}
      PROVE  x \notin Wrote(part) /\ x \notin ReadBack(part)
  BY <1>1, <1>2, <1>4 DEF LoadPhases
<1>6. part \notin Wrote(part) /\ part \notin ReadBack(part)
  BY <1>1, <1>2, <1>4 DEF LoadPhases
<1>7. ASSUME NEW other \in PartNames \ {part}, RT!AfterWrite[part] \in Wrote(other)
      PROVE  part \in Wrote(other)
  BY <1>1, <1>3, <1>4, <1>7 DEF LoadPhases
<1>8. ASSUME NEW other \in PartNames PROVE RT!AfterWrite[part] \notin ReadBack(other)
  BY <1>2, <1>3, <1>4 DEF LoadPhases
<1>9. RT!Loading[part] \in Wrote(part)
  BY <1>1, <1>3, <1>4 DEF LoadPhases
<1>10. ASSUME NEW other \in PartNames
       PROVE  /\ RT!AfterLoad[part] \in Wrote(other) => RT!Loading[part] \in Wrote(other)
              /\ RT!AfterLoad[part] \in ReadBack(other) =>
                   other = part \/ RT!Loading[part] \in ReadBack(other)
  BY <1>1, <1>2, <1>3, <1>4 DEF LoadPhases
<1>11. /\ "resumable" \in Wrote(part) \cap ReadBack(part)
       /\ "verify" \in ReadBack(part) /\ "verify" \in Wrote(part)
  BY <1>1, <1>2, <1>4 DEF LoadPhases
<1> QED
  BY <1>5, <1>6, <1>7, <1>8, <1>9, <1>10, <1>11

(* Every step keeps it: a write by another run disturbs this one.            *)
LEMMA NextOwnFiles == OwnFiles /\ [RT!Next]_runtimeVars => OwnFiles'
<1> SUFFICES ASSUME OwnFiles, [RT!Next]_runtimeVars PROVE OwnFiles'
  OBVIOUS
<1>0. /\ DOMAIN phase = Runs /\ DOMAIN disturbed = Runs
      /\ DOMAIN made = Runs /\ DOMAIN restored = Runs
      /\ \A r \in Runs : IsState(made[r]) /\ IsState(restored[r])
      /\ IsState(files)
  BY DEF OwnFiles
<1>own. ASSUME NEW r \in Runs, ~disturbed[r], NEW part \in PartNames
        PROVE  /\ phase[r] \in Wrote(part) => files[part] = made[r][part]
               /\ phase[r] \in ReadBack(part) => restored[r][part] = made[r][part]
  BY <1>own DEF OwnFiles
<1>q. ASSUME DOMAIN phase' = Runs, DOMAIN disturbed' = Runs,
             DOMAIN made' = Runs, DOMAIN restored' = Runs, IsState(files'),
             \A r \in Runs : IsState(made'[r]) /\ IsState(restored'[r]),
             \A r \in Runs : ~disturbed'[r] => \A part \in PartNames :
               /\ phase'[r] \in Wrote(part) => files'[part] = made'[r][part]
               /\ phase'[r] \in ReadBack(part) => restored'[r][part] = made'[r][part]
      PROVE  OwnFiles'
  BY <1>q DEF OwnFiles
\* A step of run r that leaves the files alone, to a phase without claims of its own
<1>s. ASSUME NEW r \in Runs, NEW x, DOMAIN phase' = Runs, phase'[r] = x,
             \A q \in Runs \ {r} : phase'[q] = phase[q],
             UNCHANGED <<files, disturbed, restored>>, DOMAIN made' = Runs, IsState(made'[r]),
             \A q \in Runs \ {r} : made'[q] = made[q],
             \A part \in PartNames :
               /\ x \in Wrote(part) => phase[r] \in Wrote(part) /\ made'[r][part] = made[r][part]
               /\ x \in ReadBack(part) => phase[r] \in ReadBack(part) /\ made'[r][part] = made[r][part]
      PROVE  OwnFiles'
  <2>2. \A q \in Runs : IsState(made'[q]) /\ IsState(restored'[q])
    BY <1>0, <1>s
  <2>3. ASSUME NEW q \in Runs, ~disturbed'[q], NEW part \in PartNames
        PROVE  /\ phase'[q] \in Wrote(part) => files'[part] = made'[q][part]
               /\ phase'[q] \in ReadBack(part) => restored'[q][part] = made'[q][part]
    <3>1. CASE q = r
      BY <1>own, <1>s, <2>3, <3>1
    <3>2. CASE q # r
      BY <1>own, <1>s, <2>3, <3>2
    <3> QED
      BY <3>1, <3>2
  <2> QED
    BY <1>0, <1>q, <1>s, <2>2, <2>3
<1>1. ASSUME NEW p, NEW c, RT!Edit(p, c) PROVE OwnFiles'
  BY <1>0, <1>1, <1>own, <1>q DEF RT!Edit
<1>2. ASSUME NEW r \in Runs, RT!List(r) PROVE OwnFiles'
  <2>1. \A part \in PartNames : "read" \notin Wrote(part) /\ "read" \notin ReadBack(part)
    BY PhasesAre
  <2> QED
    BY <1>0, <1>2, <1>s, <2>1 DEF RT!List
<1>3. ASSUME NEW r \in Runs, NEW p, RT!Read(r, p) PROVE OwnFiles'
  <2>1. \A part \in PartNames : "read" \notin Wrote(part) /\ "read" \notin ReadBack(part)
    BY PhasesAre
  <2>2. /\ phase[r] = "read" /\ UNCHANGED <<phase, files, disturbed, restored>>
    BY <1>3 DEF RT!Read
  <2>3. DOMAIN made' = Runs /\ IsState(made'[r]) /\ \A q \in Runs \ {r} : made'[q] = made[q]
    <3>1. CASE made' = made
      BY <1>0, <3>1
    <3>2. CASE made' # made
      <4>1. PICK g : made' = [made EXCEPT ![r].graph = g]
        BY <1>3, <3>2 DEF RT!Read
      <4>2. made'[r] = [made[r] EXCEPT !["graph"] = g]
        BY <1>0, <4>1
      <4>3. IsState(made'[r])
        BY <1>0, <4>2, StatePart DEF PartNames
      <4> QED
        BY <1>0, <4>1, <4>3
    <3> QED
      BY <3>1, <3>2
  <2> QED
    BY <1>0, <1>s, <2>1, <2>2, <2>3
<1>4. ASSUME NEW r \in Runs, RT!Execute(r) PROVE OwnFiles'
  <2>1. \A part \in PartNames : "graph" \notin Wrote(part) /\ "graph" \notin ReadBack(part)
    BY PhasesAre
  <2>2. /\ phase' = [phase EXCEPT ![r] = "graph"] /\ UNCHANGED <<files, disturbed, restored>>
    BY <1>4 DEF RT!Execute
  <2>3. \E g, e, m : made' = [made EXCEPT ![r] = [graph |-> g, events |-> e, memory |-> m]]
    BY <1>4 DEF RT!Execute
  <2>4. DOMAIN made' = Runs /\ IsState(made'[r]) /\ \A q \in Runs \ {r} : made'[q] = made[q]
    BY <1>0, <2>3 DEF IsState
  <2> QED
    BY <1>0, <1>s, <2>1, <2>2, <2>4
<1>5. ASSUME NEW r \in Runs, RT!Verify(r) PROVE OwnFiles'
  <2>1. PICK x \in {"resumable", "failed"} :
          phase' = [phase EXCEPT ![r] = x] /\ phase[r] = "verify"
    BY <1>5 DEF RT!Verify
  <2>2. \A part \in PartNames : "failed" \notin Wrote(part) /\ "failed" \notin ReadBack(part)
    BY PhasesAre
  <2>3. \A part \in PartNames : "verify" \in Wrote(part) /\ "verify" \in ReadBack(part)
    BY PhasesAre
  <2>4. UNCHANGED <<files, disturbed, restored, made>>
    BY <1>5 DEF RT!Verify
  <2> QED
    BY <1>0, <1>s, <2>1, <2>2, <2>3, <2>4
<1>6. ASSUME NEW r \in Runs, RT!Stop(r) PROVE OwnFiles'
  <2>2. \A part \in PartNames : "stopped" \notin Wrote(part) /\ "stopped" \notin ReadBack(part)
    BY PhasesAre
  <2> QED
    BY <1>0, <1>6, <1>s, <2>2 DEF RT!Stop
<1>7. ASSUME NEW r \in Runs, NEW part \in PartNames, RT!Write(r, part) PROVE OwnFiles'
  <2>1. /\ phase[r] = part /\ UNCHANGED <<made, restored>>
    BY <1>7 DEF RT!Write
  <2>2. CASE RT!WriteFails(r, part)
    <3>1. \A other \in PartNames : "failed" \notin Wrote(other) /\ "failed" \notin ReadBack(other)
      BY PhasesAre
    <3> QED
      BY <1>0, <1>s, <2>1, <2>2, <3>1 DEF RT!WriteFails
  <2>3. CASE ~RT!WriteFails(r, part)
    <3>1. /\ files' = [files EXCEPT ![part] = made[r][part]]
          /\ disturbed' = [q \in Runs |-> q # r \/ (part # "graph" /\ disturbed[r])]
          /\ phase' = [phase EXCEPT ![r] = RT!AfterWrite[part]]
      BY <1>7, <2>3 DEF RT!Write
    <3>2. /\ IsState(files') /\ files'[part] = made[r][part]
          /\ \A other \in PartNames \ {part} : files'[other] = files[other]
      <4>1. PICK v : v = made[r][part]
        OBVIOUS
      <4>2. files' = [files EXCEPT ![part] = v]
        BY <3>1, <4>1
      <4>3. /\ IsState(files') /\ files'[part] = v
            /\ \A other \in PartNames \ {part} : files'[other] = files[other]
        <5>1. IsState(files')
          BY <1>0, <4>2, StatePart
        <5>2. DOMAIN files = PartNames
          BY <1>0 DEF IsState, PartNames
        <5>3. files'[part] = v /\ \A other \in PartNames \ {part} : files'[other] = files[other]
          BY <4>2, <5>2
        <5> QED
          BY <5>1, <5>3
      <4> QED
        BY <4>1, <4>3
    <3>3. ASSUME NEW q \in Runs, ~disturbed'[q], NEW other \in PartNames
          PROVE  /\ phase'[q] \in Wrote(other) => files'[other] = made'[q][other]
                 /\ phase'[q] \in ReadBack(other) => restored'[q][other] = made'[q][other]
      <4>1. q = r /\ (part = "graph" \/ ~disturbed[r])
        BY <3>1, <3>3
      <4>2. phase'[r] = RT!AfterWrite[part]
        BY <1>0, <3>1
      <4>3. phase'[r] \notin ReadBack(other)
        BY <4>2, PhasesAre
      <4>4. CASE other = part
        BY <2>1, <3>2, <4>1, <4>3, <4>4
      <4>5. CASE other # part
        <5>1. phase'[r] \in Wrote(other) => phase[r] \in Wrote(other)
          BY <2>1, <4>2, <4>5, PhasesAre
        <5>2. part = "graph" => phase[r] \notin Wrote(other)
          BY <2>1, PhasesAre
        <5> QED
          BY <1>own, <2>1, <3>2, <4>1, <4>3, <4>5, <5>1, <5>2
      <4> QED
        BY <4>4, <4>5
    <3> QED
      BY <1>0, <1>q, <2>1, <3>1, <3>2, <3>3
  <2> QED
    BY <2>2, <2>3
<1>8. ASSUME NEW r \in Runs, NEW part \in PartNames, RT!Load(r, part) PROVE OwnFiles'
  <2>1. /\ phase[r] = RT!Loading[part] /\ UNCHANGED <<made, files, disturbed>>
        /\ restored' = [restored EXCEPT ![r][part] = files[part]]
        /\ phase' = [phase EXCEPT ![r] = RT!AfterLoad[part]]
    BY <1>8 DEF RT!Load
  <2>2. restored'[r] = [restored[r] EXCEPT ![part] = files[part]]
    BY <1>0, <2>1
  <2>3. /\ IsState(restored'[r]) /\ restored'[r][part] = files[part]
        /\ \A other \in PartNames \ {part} : restored'[r][other] = restored[r][other]
    <3>1. IsState(restored'[r])
      BY <1>0, <2>2, StatePart
    <3>2. DOMAIN restored[r] = PartNames
      BY <1>0 DEF IsState, PartNames
    <3> QED
      BY <2>2, <3>1, <3>2
  <2>4. /\ DOMAIN restored' = Runs /\ DOMAIN phase' = Runs /\ phase'[r] = RT!AfterLoad[part]
        /\ \A q \in Runs \ {r} : restored'[q] = restored[q] /\ phase'[q] = phase[q]
    BY <1>0, <2>1
  <2>5. ASSUME NEW q \in Runs, ~disturbed'[q], NEW other \in PartNames
        PROVE  /\ phase'[q] \in Wrote(other) => files'[other] = made'[q][other]
               /\ phase'[q] \in ReadBack(other) => restored'[q][other] = made'[q][other]
    <3>1. CASE q # r
      BY <1>own, <2>1, <2>4, <2>5, <3>1
    <3>2. CASE q = r
      <4>1. RT!AfterLoad[part] \in Wrote(other) => RT!Loading[part] \in Wrote(other)
        BY PhasesAre
      <4>2. RT!Loading[part] \in Wrote(part)
        BY PhasesAre
      <4>3. RT!AfterLoad[part] \in ReadBack(other) =>
              other = part \/ RT!Loading[part] \in ReadBack(other)
        BY PhasesAre
      <4>4. files[part] = made[r][part]
        BY <1>own, <2>1, <2>5, <3>2, <4>2
      <4> QED
        BY <1>own, <2>1, <2>3, <2>4, <2>5, <3>2, <4>1, <4>3, <4>4
    <3> QED
      BY <3>1, <3>2
  <2>6. \A q \in Runs : IsState(restored'[q])
    BY <1>0, <2>3, <2>4
  <2> QED
    BY <1>0, <1>q, <2>1, <2>4, <2>5, <2>6
<1>9. CASE UNCHANGED runtimeVars
  BY <1>0, <1>9, <1>own, <1>q DEF runtimeVars
<1>10. RT!ToSet(RT!Parts) = PartNames
  BY DEF RT!ToSet, RT!Parts, PartNames
<1> QED
  BY <1>1, <1>2, <1>3, <1>4, <1>5, <1>6, <1>7, <1>8, <1>9, <1>10 DEF RT!Next

(* What a run finds resumable is the state it made, all three parts of it,   *)
(* unless another run wrote in between.                                      *)
THEOREM RunsRestoreTheirOwn == RT!Spec => []RestoredIsOwn
<1>1. ASSUME OwnFiles PROVE RestoredIsOwn
  <2> SUFFICES ASSUME NEW r \in Runs, phase[r] = "resumable", ~disturbed[r]
               PROVE  restored[r] = made[r]
    BY DEF RestoredIsOwn, RT!RestoredIsOwn
  <2>1. \A part \in PartNames : restored[r][part] = made[r][part]
    BY <1>1, PhasesAre DEF OwnFiles
  <2> QED
    BY <1>1, <2>1, StateIs DEF OwnFiles
<1>2. RT!Spec => []OwnFiles
  BY InitOwnFiles, NextOwnFiles, PTL DEF RT!Spec, RT!vars, runtimeVars
<1> QED
  BY <1>1, <1>2, PTL

(* What the constants of Runtime are.                                        *)
LEMMA RuntimeConstants ==
  /\ IsFiniteSet(Paths) /\ Paths \in SUBSET Nat
  /\ Priority \in [Contents -> Nat]
  BY RuntimeAssumption, SameFinite DEF RT!ConstantsOK

\* A graph of files of the tree.
IsTree(g) == DOMAIN g \in SUBSET Paths /\ \A n \in DOMAIN g : g[n] \in Contents

\* m comes before n in ordered_by_priority.
Precedes(g, m, n) ==
  Priority[g[m]] > Priority[g[n]] \/ (Priority[g[m]] = Priority[g[n]] /\ m < n)

(* An order of a graph lists each of its nodes once, by precedence.          *)
LEMMA OrderIs ==
  ASSUME NEW g, IsTree(g), NEW s \in RT!Orders(g)
  PROVE  LET n == Cardinality(DOMAIN g) IN
         /\ n \in Nat /\ s \in [1..n -> DOMAIN g]
         /\ \A i, j \in 1..n : i # j => s[i] # s[j]
         /\ \A x \in DOMAIN g : \E i \in 1..n : s[i] = x
         /\ \A i, j \in 1..n : i < j => Precedes(g, s[i], s[j])
<1> DEFINE D == DOMAIN g
           n == Cardinality(D)
<1>1. IsFiniteSet(D) /\ n \in Nat
  BY RuntimeConstants, FS_Subset, FS_CardinalityType DEF IsTree
<1>2. s \in RT!SetToSeqs(D)
  BY DEF RT!Orders
<1>3. s \in [1..n -> D] /\ \A i, j \in 1..n : i # j => s[i] # s[j]
  BY <1>2, SameCardinality DEF RT!SetToSeqs
<1>4. s \in Injection(1..n, D)
  BY <1>3, Fun_IsInj
<1>5. IsFiniteSet(1..n) /\ Cardinality(1..n) = n
  BY <1>1, FS_Interval
<1>6. s \in Surjection(1..n, D)
  BY <1>1, <1>4, <1>5, FS_Injection
<1>7. \A x \in D : \E i \in 1..n : s[i] = x
  <2> HIDE DEF n, D
  <2> QED
    BY <1>6 DEF Surjection
<1>8. \A i, j \in DOMAIN s : i < j => Precedes(g, s[i], s[j])
  BY DEF RT!Orders, Precedes
<1> QED
  BY <1>1, <1>3, <1>7, <1>8

(* Nodes of the same priority come by id, so there is one order.             *)
LEMMA OrderIsOne ==
  ASSUME NEW g, IsTree(g), NEW s \in RT!Orders(g), NEW t \in RT!Orders(g)
  PROVE  s = t
<1> DEFINE n == Cardinality(DOMAIN g)
           D == DOMAIN g
<1>1. /\ n \in Nat /\ s \in [1..n -> D] /\ t \in [1..n -> D]
      /\ \A i, j \in 1..n : i # j => s[i] # s[j] /\ t[i] # t[j]
      /\ \A x \in D : (\E i \in 1..n : s[i] = x) /\ (\E i \in 1..n : t[i] = x)
      /\ \A i, j \in 1..n : i < j => Precedes(g, s[i], s[j]) /\ Precedes(g, t[i], t[j])
  BY OrderIs
<1>2. \A x, y \in D : ~(Precedes(g, x, y) /\ Precedes(g, y, x))
  <2> SUFFICES ASSUME NEW x \in D, NEW y \in D PROVE ~(Precedes(g, x, y) /\ Precedes(g, y, x))
    OBVIOUS
  <2>1. x \in Nat /\ y \in Nat /\ Priority[g[x]] \in Nat /\ Priority[g[y]] \in Nat
    BY RuntimeConstants DEF IsTree
  <2> QED
    BY <2>1 DEF Precedes
<1> HIDE DEF n, D
<1> DEFINE Differ == {i \in 1..n : s[i] # t[i]}
<1>3. ASSUME Differ # {} PROVE FALSE
  <2>1. Differ \in SUBSET Nat
    BY <1>1
  <2>2. PICK i \in Differ : \A j \in Differ : i <= j
    <3> HIDE DEF Differ
    <3> QED
      BY <1>3, <2>1, LeastElement
  <2>3. i \in 1..n /\ s[i] # t[i] /\ \A j \in 1..n : j < i => s[j] = t[j]
    BY <1>1, <2>1, <2>2
  <2>4. s[i] \in D /\ t[i] \in D
    BY <1>1, <2>3
  <2>5. PICK j \in 1..n : t[j] = s[i]
    BY <1>1, <2>4
  <2>6. PICK k \in 1..n : s[k] = t[i]
    BY <1>1, <2>4
  <2>7. j > i
    <3>1. j # i
      BY <2>3, <2>5
    <3>2. ~(j < i)
      BY <1>1, <2>3, <2>5
    <3> QED
      BY <1>1, <2>3, <3>1, <3>2
  <2>8. k > i
    <3>1. k # i
      BY <2>3, <2>6
    <3>2. k < i => t[k] = t[i]
      BY <2>3, <2>6
    <3>3. ~(k < i)
      BY <1>1, <2>3, <3>1, <3>2
    <3> QED
      BY <1>1, <2>3, <3>1, <3>3
  <2>9. Precedes(g, t[i], s[i]) /\ Precedes(g, s[i], t[i])
    BY <1>1, <2>3, <2>5, <2>6, <2>7, <2>8
  <2> QED
    BY <1>2, <2>4, <2>9
<1>4. \A i \in 1..n : s[i] = t[i]
  BY <1>3
<1> QED
  BY <1>1, <1>4

\* What the agents leave of a run, given the context they saw.
Records(m, context) ==
  /\ m.events.log = RT!Executed(<< >>, context)
  /\ m.memory = RT!Distributed(m.graph, context)

\* The graph of a run is of files of the tree, and its logs are those of the context
\* that some order of its nodes gives.
Logged ==
  /\ tree \in [Paths -> Contents \cup {Absent}]
  /\ \A r \in Runs :
       /\ IsTree(made[r].graph)
       /\ phase[r] \in {"list", "read"} => made[r].events.log = << >>
       /\ made[r].events.log # << >> =>
            \E order \in RT!Orders(made[r].graph) :
              Records(made[r], RT!Context(made[r].graph, RT!Allocate(made[r].graph, order).hot))

(* No run has read or logged anything at first.                              *)
LEMMA InitLogged == RT!Init => Logged
<1> SUFFICES ASSUME RT!Init PROVE Logged
  OBVIOUS
<1>1. /\ tree \in [Paths -> Contents \cup {Absent}]
      /\ \A r \in Runs : made[r] = RT!NoState
  BY DEF RT!Init
<1>2. RT!NoState.graph = << >> /\ RT!NoState.events.log = << >>
  BY DEF RT!NoState
<1>3. IsTree(<< >>)
  BY DEF IsTree
<1> QED
  BY <1>1, <1>2, <1>3 DEF Logged

(* Every step keeps it: the graph of a run stays once its logs are made.     *)
LEMMA NextLogged == OwnFiles /\ Logged /\ [RT!Next]_runtimeVars => Logged'
<1> SUFFICES ASSUME OwnFiles, Logged, [RT!Next]_runtimeVars PROVE Logged'
  OBVIOUS
<1> DEFINE Good(ph, m) ==
             /\ IsTree(m.graph)
             /\ ph \in {"list", "read"} => m.events.log = << >>
             /\ m.events.log # << >> =>
                  \E order \in RT!Orders(m.graph) :
                    Records(m, RT!Context(m.graph, RT!Allocate(m.graph, order).hot))
<1>0. /\ DOMAIN phase = Runs /\ DOMAIN made = Runs /\ \A r \in Runs : IsState(made[r])
      /\ tree \in [Paths -> Contents \cup {Absent}]
      /\ \A r \in Runs : Good(phase[r], made[r])
  BY DEF OwnFiles, Logged
<1>q. ASSUME tree' \in [Paths -> Contents \cup {Absent}], \A r \in Runs : Good(phase'[r], made'[r])
      PROVE  Logged'
  BY <1>q DEF Logged
<1>a. \A ph, m : Good(ph, m) => IsTree(m.graph) /\ (ph \in {"list", "read"} => m.events.log = << >>)
  OBVIOUS
<1>b. \A ph, m, x : Good(ph, m) /\ x \notin {"list", "read"} => Good(x, m)
  OBVIOUS
<1>c. \A m, x : IsTree(m.graph) /\ m.events.log = << >> => Good(x, m)
  OBVIOUS
<1>d. ASSUME NEW m, IsTree(m.graph), NEW order \in RT!Orders(m.graph),
             Records(m, RT!Context(m.graph, RT!Allocate(m.graph, order).hot))
      PROVE  Good("graph", m)
  BY <1>d
<1> HIDE DEF Good
\* A step of run r to a phase behind the reading, with what it made
<1>s. ASSUME NEW r \in Runs, NEW x, phase' = [phase EXCEPT ![r] = x], x \notin {"list", "read"},
             UNCHANGED <<tree, made>>
      PROVE  Logged'
  BY <1>0, <1>b, <1>q, <1>s
<1>1. ASSUME NEW p \in Paths, NEW c \in Contents \cup {Absent}, RT!Edit(p, c) PROVE Logged'
  BY <1>0, <1>1, <1>q DEF RT!Edit
<1>2. ASSUME NEW r \in Runs, RT!List(r) PROVE Logged'
  <2>1. /\ phase[r] = "list" /\ phase' = [phase EXCEPT ![r] = "read"] /\ UNCHANGED <<tree, made>>
    BY <1>2 DEF RT!List
  <2>2. Good("read", made[r])
    BY <1>0, <1>a, <1>c, <2>1
  <2> QED
    BY <1>0, <1>q, <2>1, <2>2
<1>3. ASSUME NEW r \in Runs, NEW p \in Paths, RT!Read(r, p) PROVE Logged'
  <2>1. phase[r] = "read" /\ UNCHANGED <<phase, tree>>
    BY <1>3 DEF RT!Read
  <2>2. CASE made' = made
    BY <1>0, <1>q, <2>1, <2>2
  <2>3. CASE made' # made
    <3> DEFINE g == [q \in DOMAIN made[r].graph \cup {p} |->
                       IF q = p THEN tree[p] ELSE made[r].graph[q]]
    <3>1. /\ tree[p] # Absent /\ made' = [made EXCEPT ![r].graph = g]
      BY <1>3, <2>3 DEF RT!Read
    <3>2. IsTree(made[r].graph) /\ made[r].events.log = << >>
      BY <1>0, <1>a, <2>1
    <3>3. IsTree(g)
      <4>1. tree[p] \in Contents
        BY <1>0, <3>1
      <4> QED
        BY <3>2, <4>1 DEF IsTree
    <3> HIDE DEF g
    <3>4. made'[r].graph = g /\ made'[r].events = made[r].events
      <4>1. made'[r] = [made[r] EXCEPT !.graph = g] /\ IsState(made[r])
        BY <1>0, <3>1
      <4> QED
        BY <4>1 DEF IsState
    <3>5. Good(phase'[r], made'[r])
      BY <1>c, <3>2, <3>3, <3>4
    <3>6. \A q \in Runs \ {r} : made'[q] = made[q]
      BY <1>0, <3>1
    <3> QED
      BY <1>0, <1>q, <2>1, <3>5, <3>6
  <2> QED
    BY <2>2, <2>3
<1>4. ASSUME NEW r \in Runs, RT!Execute(r) PROVE Logged'
  <2> DEFINE g == made[r].graph
  <2>1. PICK order \in RT!Orders(g) :
          made' = [made EXCEPT ![r] =
            [graph |-> g,
             events |-> [session |-> r,
                         log |-> RT!Executed(<< >>, RT!Context(g, RT!Allocate(g, order).hot))],
             memory |-> RT!Distributed(g, RT!Context(g, RT!Allocate(g, order).hot))]]
    BY <1>4 DEF RT!Execute
  <2> DEFINE context == RT!Context(g, RT!Allocate(g, order).hot)
             m == [graph |-> g, events |-> [session |-> r, log |-> RT!Executed(<< >>, context)],
                   memory |-> RT!Distributed(g, context)]
  <2>2. made'[r] = m /\ \A q \in Runs \ {r} : made'[q] = made[q]
    BY <1>0, <2>1
  <2>3. m.graph = g /\ Records(m, context)
    BY DEF Records
  <2>4. phase'[r] = "graph" /\ (\A q \in Runs \ {r} : phase'[q] = phase[q]) /\ tree' = tree
    BY <1>0, <1>4 DEF RT!Execute
  <2>5. IsTree(g)
    BY <1>0, <1>a
  <2> HIDE DEF m
  <2>6. Good("graph", m)
    BY <1>d, <2>3, <2>5
  <2> HIDE DEF g, context
  <2>7. \A q \in Runs : Good(phase'[q], made'[q])
    BY <1>0, <2>2, <2>4, <2>6
  <2> QED
    BY <1>0, <1>q, <2>4, <2>7
<1>5. ASSUME NEW r \in Runs, RT!Verify(r) PROVE Logged'
  <2>1. PICK x \in {"resumable", "failed"} : phase' = [phase EXCEPT ![r] = x]
    BY <1>5 DEF RT!Verify
  <2>2. UNCHANGED <<tree, made>>
    BY <1>5 DEF RT!Verify
  <2> QED
    BY <1>s, <2>1, <2>2
<1>6. ASSUME NEW r \in Runs, RT!Stop(r) PROVE Logged'
  BY <1>6, <1>s DEF RT!Stop
<1>7. ASSUME NEW r \in Runs, NEW part \in PartNames, RT!Write(r, part) \/ RT!Load(r, part)
      PROVE  Logged'
  <2>1. /\ RT!AfterWrite[part] \notin {"list", "read"} /\ RT!AfterLoad[part] \notin {"list", "read"}
    <3>1. part = "graph" \/ part = "events" \/ part = "memory"
      BY DEF PartNames
    <3>2. /\ RT!AfterWrite["graph"] = "events" /\ RT!AfterWrite["events"] = "memory"
          /\ RT!AfterWrite["memory"] = "load graph"
      BY DEF RT!AfterWrite
    <3>3. /\ RT!AfterLoad["graph"] = "load events" /\ RT!AfterLoad["events"] = "load memory"
          /\ RT!AfterLoad["memory"] = "verify"
      BY DEF RT!AfterLoad
    <3> QED
      BY <3>1, <3>2, <3>3
  <2>2. UNCHANGED <<tree, made>>
    BY <1>7 DEF RT!Write, RT!Load
  <2>3. PICK x \in {"failed", RT!AfterWrite[part], RT!AfterLoad[part]} :
          phase' = [phase EXCEPT ![r] = x]
    BY <1>7 DEF RT!Write, RT!WriteFails, RT!Load
  <2> QED
    BY <1>s, <2>1, <2>2, <2>3
<1>8. CASE UNCHANGED runtimeVars
  BY <1>0, <1>8, <1>q DEF runtimeVars
<1>9. RT!ToSet(RT!Parts) = PartNames
  BY DEF RT!ToSet, RT!Parts, PartNames
<1> QED
  BY <1>1, <1>2, <1>3, <1>4, <1>5, <1>6, <1>7, <1>8, <1>9 DEF RT!Next

(* Runs that read the same files record the same: the same HOT context and   *)
(* so the same hash chains, whatever order the maps are iterated in.         *)
THEOREM EqualTreesEqualLogs == RT!Spec => []SameTreeSameLogs
<1>1. ASSUME Logged PROVE SameTreeSameLogs
  <2> SUFFICES ASSUME NEW r \in Runs, NEW s \in Runs,
                      made[r].events.log # << >>, made[s].events.log # << >>,
                      made[r].graph = made[s].graph
               PROVE  /\ made[r].events.log = made[s].events.log
                      /\ made[r].memory = made[s].memory
    BY DEF SameTreeSameLogs, RT!SameTreeSameLogs
  <2> DEFINE g == made[r].graph
             context(order) == RT!Context(g, RT!Allocate(g, order).hot)
  <2>1. IsTree(g)
    BY <1>1 DEF Logged
  <2>2. PICK o \in RT!Orders(g) : Records(made[r], context(o))
    BY <1>1 DEF Logged
  <2>3. PICK p \in RT!Orders(g) : Records(made[s], context(p))
    BY <1>1 DEF Logged
  <2>4. o = p
    BY <2>1, OrderIsOne
  <2> HIDE DEF context
  <2> QED
    BY <2>2, <2>3, <2>4 DEF Records
<1>2. RT!Spec => [](OwnFiles /\ Logged)
  BY InitOwnFiles, NextOwnFiles, InitLogged, NextLogged, PTL DEF RT!Spec, RT!vars, runtimeVars
<1> QED
  BY <1>1, <1>2, PTL

-----------------------------------------------------------------------------
(* The region engine *)

\* No link of adj leads out of C.
Shut(adj, C) == \A x \in adj : x[1] \in C => x[2] \in C

(* The search finds what is reached of f: the least set with f that no link  *)
(* leaves. Each round that is not the last adds a file, so as many rounds as *)
(* there are files are enough.                                               *)
LEMMA ComponentIs ==
  ASSUME NEW F, IsFiniteSet(F), NEW adj, \A x \in adj : x[2] \in F, NEW f \in F
  PROVE  /\ f \in R!Component(adj, f, F)
         /\ R!Component(adj, f, F) \subseteq F
         /\ Shut(adj, R!Component(adj, f, F))
         /\ \A C : f \in C /\ Shut(adj, C) => R!Component(adj, f, F) \subseteq C
<1> DEFINE N == R!Cardinality(F)
           Body(h) == [i \in 0..N |-> IF i = 0 THEN {f} ELSE R!Grow(adj, h[i - 1])]
           s == CHOOSE h : h = Body(h)
<1>1. R!Component(adj, f, F) = s[N]
  BY DEF R!Component
<1>2. N = Cardinality(F) /\ N \in Nat
  BY SameCardinality, FS_CardinalityType
<1> HIDE DEF N
<1>3. \A S \in SUBSET F : R!Grow(adj, S) \in SUBSET F
  BY DEF R!Grow
<1>4. \E h : h = Body(h)
  <2> DEFINE A == [i \in 1..N |-> [S \in SUBSET F |-> R!Grow(adj, S)]]
  <2>1. A \in [1..N -> [SUBSET F -> SUBSET F]] /\ {f} \in SUBSET F
    BY <1>3
  <2>2. \A i \in 1..N : \A S \in SUBSET F : A[i][S] = R!Grow(adj, S)
    OBVIOUS
  <2> HIDE DEF A
  <2>3. PICK h : IsRun(h, N, SUBSET F, {f}, A)
    BY <1>2, <2>1, RecursionExists
  <2>4. /\ h \in [0..N -> SUBSET F] /\ h[0] = {f}
        /\ \A i \in 1..N : h[i] = A[i][h[i - 1]]
    BY <2>3 DEF IsRun
  <2>5. \A i \in 0..N : h[i] = IF i = 0 THEN {f} ELSE R!Grow(adj, h[i - 1])
    <3> SUFFICES ASSUME NEW i \in 0..N, i # 0 PROVE h[i] = R!Grow(adj, h[i - 1])
      BY <2>4
    <3>1. i \in 1..N /\ i - 1 \in 0..N
      BY <1>2
    <3> QED
      BY <2>2, <2>4, <3>1
  <2>6. h = Body(h)
    BY <2>4, <2>5
  <2> QED
    BY <2>6
<1>5. s = Body(s)
  BY <1>4
<1> HIDE DEF s
<1>6. s[0] = {f} /\ \A i \in 1..N : s[i] = R!Grow(adj, s[i - 1])
  <2>1. \A i \in 0..N : s[i] = IF i = 0 THEN {f} ELSE R!Grow(adj, s[i - 1])
    <3> DEFINE b == [i \in 0..N |-> IF i = 0 THEN {f} ELSE R!Grow(adj, s[i - 1])]
    <3>1. s = b
      BY <1>5
    <3>2. \A i \in 0..N : b[i] = IF i = 0 THEN {f} ELSE R!Grow(adj, s[i - 1])
      OBVIOUS
    <3> HIDE DEF b
    <3> QED
      BY <3>1, <3>2
  <2>2. 0 \in 0..N /\ \A i \in 1..N : i \in 0..N /\ i # 0
    BY <1>2
  <2> QED
    BY <2>1, <2>2
<1> HIDE DEF Body
<1> DEFINE Reached(i) ==
             /\ s[i] \in SUBSET F /\ f \in s[i]
             /\ Shut(adj, s[i]) \/ Cardinality(s[i]) > i
             /\ \A C : f \in C /\ Shut(adj, C) => s[i] \subseteq C
           T == {i \in Nat : i <= N => Reached(i)}
<1>7. 0 \in T
  <2>1. Cardinality({f}) = 1
    BY FS_Singleton
  <2> QED
    BY <1>6, <2>1
<1>8. ASSUME NEW i \in T PROVE i + 1 \in T
  <2> SUFFICES ASSUME i + 1 <= N PROVE Reached(i + 1)
    OBVIOUS
  <2>1. i \in Nat /\ Reached(i) /\ i + 1 \in 1..N /\ (i + 1) - 1 = i
    BY <1>2
  <2>2. s[i + 1] = R!Grow(adj, s[i])
    BY <1>6, <2>1
  <2>3. s[i + 1] = s[i] \cup {fg[2] : fg \in {x \in adj : x[1] \in s[i]}}
    BY <2>2 DEF R!Grow
  <2>4. s[i + 1] \in SUBSET F /\ s[i] \subseteq s[i + 1]
    BY <1>3, <2>1, <2>2, <2>3
  <2>5. \A C : f \in C /\ Shut(adj, C) => s[i + 1] \subseteq C
    BY <2>1, <2>3 DEF Shut
  <2>6. Shut(adj, s[i + 1]) \/ Cardinality(s[i + 1]) > i + 1
    <3>1. CASE Shut(adj, s[i])
      <4>1. s[i + 1] = s[i]
        BY <2>3, <3>1 DEF Shut
      <4> QED
        BY <3>1, <4>1
    <3>2. CASE ~Shut(adj, s[i])
      <4>1. s[i + 1] # s[i]
        BY <2>3, <3>2 DEF Shut
      <4>2. IsFiniteSet(s[i + 1]) /\ Cardinality(s[i + 1]) \in Nat
        BY <2>4, FS_Subset, FS_CardinalityType
      <4>3. /\ Cardinality(s[i]) <= Cardinality(s[i + 1])
            /\ Cardinality(s[i]) # Cardinality(s[i + 1])
        BY <2>4, <4>1, <4>2, FS_Subset
      <4>4. Cardinality(s[i]) > i /\ Cardinality(s[i]) \in Nat
        BY <2>1, <3>2, FS_Subset, FS_CardinalityType
      <4> QED
        BY <2>1, <4>2, <4>3, <4>4
    <3> QED
      BY <3>1, <3>2
  <2> QED
    BY <2>1, <2>4, <2>5, <2>6
<1>9. T = Nat
  <2> HIDE DEF Reached
  <2>1. T \subseteq Nat
    OBVIOUS
  <2> HIDE DEF T
  <2> QED
    BY <1>7, <1>8, <2>1, SetInduction
<1>10. Reached(N)
  BY <1>2, <1>9
<1>11. Shut(adj, s[N])
  <2>1. Cardinality(s[N]) <= N
    BY <1>2, <1>10, FS_Subset
  <2>2. Cardinality(s[N]) \in Nat
    BY <1>10, FS_Subset, FS_CardinalityType
  <2> QED
    BY <1>2, <1>10, <2>1, <2>2
<1> QED
  BY <1>1, <1>10, <1>11

\* The files of a graph, and those that links join.
FilesIn(g) == {R!File(n) : n \in g.nodes}
Inner(g) == FilesIn(g) \ {External}
\* The nodes are those of the constants, and no link dangles.
GoodGraph(g) == g.nodes \in SUBSET Nodes /\ g.links \in SUBSET (g.nodes \X g.nodes)

(* What the constants of Regions are.                                        *)
LEMMA RegionConstants ==
  /\ IsFiniteSet(Nodes) /\ Nodes \in SUBSET (Nat \X Nat) /\ Links \in SUBSET (Nodes \X Nodes)
  /\ External \in Nat
  BY RegionsAssumption, SameFinite DEF R!ConstantsOK

(* The files of a graph are finitely many.                                   *)
LEMMA FilesAre ==
  ASSUME NEW g, GoodGraph(g)
  PROVE  /\ FilesIn(g) \in SUBSET Nat /\ IsFiniteSet(FilesIn(g))
         /\ Inner(g) \in SUBSET Nat /\ IsFiniteSet(Inner(g))
<1>1. IsFiniteSet(g.nodes)
  BY RegionConstants, FS_Subset DEF GoodGraph
<1>2. FilesIn(g) \in SUBSET Nat
  BY RegionConstants DEF GoodGraph, FilesIn, R!File
<1>3. IsFiniteSet(FilesIn(g))
  <2> DEFINE image == [n \in g.nodes |-> R!File(n)]
  <2>1. image \in Surjection(g.nodes, FilesIn(g))
    BY DEF FilesIn, Surjection
  <2> QED
    BY <1>1, <2>1, FS_Surjection
<1> QED
  BY <1>2, <1>3, FS_Subset DEF Inner

(* Joined is symmetric, joins inner files, and only by links.                *)
LEMMA JoinedIs ==
  ASSUME NEW g, GoodGraph(g)
  PROVE  /\ \A x \in R!Joined(g) : x[1] \in Inner(g) /\ x[2] \in Inner(g)
         /\ \A x \in R!Joined(g) : <<x[2], x[1]>> \in R!Joined(g)
         /\ \A x \in R!Joined(g) : \E e \in g.links :
              \/ x[1] = R!File(e[1]) /\ x[2] = R!File(e[2])
              \/ x[1] = R!File(e[2]) /\ x[2] = R!File(e[1])
         /\ \A e \in g.links :
              \/ External \in {R!File(e[1]), R!File(e[2])} \/ R!File(e[1]) = R!File(e[2])
              \/ /\ <<R!File(e[1]), R!File(e[2])>> \in R!Joined(g)
                 /\ <<R!File(e[2]), R!File(e[1])>> \in R!Joined(g)
<1> DEFINE cross == {<<R!File(e[1]), R!File(e[2])>> : e \in g.links}
           both == cross \cup {<<x[2], x[1]>> : x \in cross}
<1>1. R!Joined(g) = {x \in both : x[1] # x[2] /\ External \notin {x[1], x[2]}}
  BY DEF R!Joined
<1>2. ASSUME NEW x \in both
      PROVE  \E e \in g.links :
               \/ x = <<R!File(e[1]), R!File(e[2])>>
               \/ x = <<R!File(e[2]), R!File(e[1])>>
  OBVIOUS
<1>3. ASSUME NEW e \in g.links
      PROVE  <<R!File(e[1]), R!File(e[2])>> \in both /\ <<R!File(e[2]), R!File(e[1])>> \in both
  <2> DEFINE x == <<R!File(e[1]), R!File(e[2])>>
  <2>1. x \in cross
    OBVIOUS
  <2>2. x \in both
    BY <2>1
  <2>3. <<x[2], x[1]>> \in both
    <3> HIDE DEF x, cross
    <3> QED
      BY <2>1
  <2>4. x[1] = R!File(e[1]) /\ x[2] = R!File(e[2])
    OBVIOUS
  <2> HIDE DEF both
  <2> QED
    BY <2>2, <2>3, <2>4
<1>4. \A e \in g.links : R!File(e[1]) \in FilesIn(g) /\ R!File(e[2]) \in FilesIn(g)
  BY DEF GoodGraph, FilesIn
<1> HIDE DEF both
<1>5. ASSUME NEW x \in R!Joined(g)
      PROVE  /\ x[1] \in Inner(g) /\ x[2] \in Inner(g)
             /\ <<x[2], x[1]>> \in R!Joined(g)
             /\ \E e \in g.links :
                  \/ x[1] = R!File(e[1]) /\ x[2] = R!File(e[2])
                  \/ x[1] = R!File(e[2]) /\ x[2] = R!File(e[1])
  <2>1. x \in both /\ x[1] # x[2] /\ External \notin {x[1], x[2]}
    BY <1>1
  <2>2. PICK e \in g.links : \/ x = <<R!File(e[1]), R!File(e[2])>>
                             \/ x = <<R!File(e[2]), R!File(e[1])>>
    BY <1>2, <2>1
  <2>3. x[1] \in Inner(g) /\ x[2] \in Inner(g)
    BY <1>4, <2>1, <2>2 DEF Inner
  <2>4. <<x[2], x[1]>> \in both
    BY <1>3, <2>2
  <2>5. <<x[2], x[1]>> \in R!Joined(g)
    BY <1>1, <2>1, <2>4
  <2> QED
    BY <2>2, <2>3, <2>5
<1>6. ASSUME NEW e \in g.links, External \notin {R!File(e[1]), R!File(e[2])},
             R!File(e[1]) # R!File(e[2])
      PROVE  /\ <<R!File(e[1]), R!File(e[2])>> \in R!Joined(g)
             /\ <<R!File(e[2]), R!File(e[1])>> \in R!Joined(g)
  BY <1>1, <1>3, <1>6
<1> QED
  BY <1>5, <1>6

\* The component of a file.
Comp(g, f) == R!Component(R!Joined(g), f, Inner(g))

(* The component of a file is the least set with it that no link leaves.     *)
LEMMA CompIs ==
  ASSUME NEW g, GoodGraph(g), NEW f \in Inner(g)
  PROVE  /\ f \in Comp(g, f) /\ Comp(g, f) \subseteq Inner(g)
         /\ Shut(R!Joined(g), Comp(g, f))
         /\ \A C : f \in C /\ Shut(R!Joined(g), C) => Comp(g, f) \subseteq C
  BY FilesAre, JoinedIs, ComponentIs DEF Comp

(* Components are the classes of an equivalence: links go both ways.         *)
LEMMA CompIsClass ==
  ASSUME NEW g, GoodGraph(g), NEW f \in Inner(g), NEW h \in Comp(g, f)
  PROVE  Comp(g, h) = Comp(g, f)
<1>1. h \in Inner(g)
  BY CompIs
<1>2. Comp(g, h) \subseteq Comp(g, f)
  BY <1>1, CompIs
<1>3. f \in Comp(g, h)
  <2> SUFFICES ASSUME f \notin Comp(g, h) PROVE FALSE
    OBVIOUS
  <2> DEFINE rest == Comp(g, f) \ Comp(g, h)
  <2>1. Shut(R!Joined(g), rest)
    <3> SUFFICES ASSUME NEW x \in R!Joined(g), x[1] \in rest PROVE x[2] \in rest
      BY DEF Shut
    <3>1. x[2] \in Comp(g, f)
      BY CompIs DEF Shut
    <3>2. x[2] \notin Comp(g, h)
      <4> SUFFICES ASSUME x[2] \in Comp(g, h) PROVE FALSE
        OBVIOUS
      <4> DEFINE y == <<x[2], x[1]>>
      <4>1. y \in R!Joined(g) /\ y[1] \in Comp(g, h) /\ y[2] = x[1]
        BY JoinedIs
      <4>2. y[2] \in Comp(g, h)
        BY <1>1, <4>1, CompIs DEF Shut
      <4> QED
        BY <4>1, <4>2
    <3> QED
      BY <3>1, <3>2
  <2>2. f \in rest
    BY CompIs
  <2>3. Comp(g, f) \subseteq rest
    BY <2>1, <2>2, CompIs
  <2>4. h \in Comp(g, h)
    BY <1>1, CompIs
  <2> QED
    BY <2>3, <2>4
<1>4. Comp(g, f) \subseteq Comp(g, h)
  BY <1>1, <1>3, CompIs
<1> QED
  BY <1>2, <1>4

(* A non-empty set of naturals has its minimum.                              *)
LEMMA MinIs ==
  ASSUME NEW S \in SUBSET Nat, S # {}
  PROVE  R!Min(S) \in S
<1>1. PICK x \in S : \A y \in S : x <= y
  BY LeastElement
<1> QED
  BY <1>1 DEF R!Min

(* A region has the nodes of its cluster of files.                           *)
LEMMA ClustersAre ==
  ASSUME NEW g, GoodGraph(g)
  PROVE  LET F == R!FileClusters(FilesIn(g), R!Joined(g))
             c == R!ClusterNodes(g)
         IN  /\ DOMAIN c = DOMAIN F
             /\ \A r \in DOMAIN F : c[r] = {n \in g.nodes : R!File(n) \in F[r]}
  BY DEF R!ClusterNodes, FilesIn

(* A cluster of files is a component named for its least file, or the        *)
(* external file alone.                                                      *)
LEMMA FileClustersAre ==
  ASSUME NEW g, GoodGraph(g)
  PROVE  LET F == R!FileClusters(FilesIn(g), R!Joined(g))
         IN  /\ \A r \in DOMAIN F \ {External} :
                  r \in Inner(g) /\ r = R!Min(Comp(g, r)) /\ F[r] = Comp(g, r)
             /\ \A f \in Inner(g) : \E r \in DOMAIN F \ {External} : F[r] = Comp(g, f)
             /\ External \in FilesIn(g) => External \in DOMAIN F
             /\ External \in DOMAIN F => External \in FilesIn(g) /\ F[External] = {External}
<1> DEFINE F == R!FileClusters(FilesIn(g), R!Joined(g))
           comp == [f \in Inner(g) |-> Comp(g, f)]
           reps == {R!Min(comp[f]) : f \in Inner(g)}
           D == reps \cup (FilesIn(g) \cap {External})
           comp2 == [f \in Inner(g) |-> R!Component(R!Joined(g), f, FilesIn(g))]
<1>1. \A f \in Inner(g) : R!Component(R!Joined(g), f, FilesIn(g)) = Comp(g, f)
  <2> SUFFICES ASSUME NEW f \in Inner(g)
               PROVE  R!Component(R!Joined(g), f, FilesIn(g)) = Comp(g, f)
    OBVIOUS
  <2> DEFINE K == R!Component(R!Joined(g), f, FilesIn(g))
  <2>1. f \in FilesIn(g) /\ \A x \in R!Joined(g) : x[2] \in FilesIn(g)
    BY JoinedIs DEF Inner
  <2>2. /\ f \in K /\ Shut(R!Joined(g), K)
        /\ \A C : f \in C /\ Shut(R!Joined(g), C) => K \subseteq C
    BY <2>1, FilesAre, ComponentIs
  <2>3. /\ f \in Comp(g, f) /\ Shut(R!Joined(g), Comp(g, f))
        /\ \A C : f \in C /\ Shut(R!Joined(g), C) => Comp(g, f) \subseteq C
    BY CompIs
  <2> HIDE DEF K
  <2> QED
    BY <2>2, <2>3 DEF K
<1>2. comp2 = comp
  BY <1>1
<1>3. F = [r \in D |-> IF r = External THEN {External} ELSE comp[r]]
  BY <1>2 DEF R!FileClusters, Inner
<1>4. \A f \in Inner(g) : Comp(g, f) # {} /\ Comp(g, f) \in SUBSET Nat
  BY CompIs, FilesAre
<1>5. \A f \in Inner(g) :
        LET r == R!Min(Comp(g, f))
        IN  r \in Inner(g) /\ Comp(g, r) = Comp(g, f)
  BY <1>4, MinIs, CompIs, CompIsClass
<1>6. \A f \in Inner(g) : f # External
  BY DEF Inner
<1>7. DOMAIN F = D /\ \A r \in D : F[r] = IF r = External THEN {External} ELSE comp[r]
  BY <1>3
<1>8. \A r \in reps : \E f \in Inner(g) : r = R!Min(Comp(g, f))
  OBVIOUS
<1>9. \A f \in Inner(g) : R!Min(Comp(g, f)) \in reps
  <2> TAKE f \in Inner(g)
  <2>1. comp[f] = Comp(g, f)
    OBVIOUS
  <2> HIDE DEF comp
  <2> QED
    BY <2>1
<1>10. \A f \in Inner(g) : comp[f] = Comp(g, f)
  OBVIOUS
<1> HIDE DEF F, reps, comp
<1>11. \A r \in D \ {External} :
         r \in Inner(g) /\ r = R!Min(Comp(g, r)) /\ F[r] = Comp(g, r)
  BY <1>5, <1>7, <1>8, <1>10
<1>12. \A f \in Inner(g) : \E r \in D \ {External} : F[r] = Comp(g, f)
  BY <1>5, <1>6, <1>7, <1>9, <1>10
<1>13. External \in FilesIn(g) => External \in D
  OBVIOUS
<1>14. External \in D => External \in FilesIn(g) /\ F[External] = {External}
  BY <1>5, <1>6, <1>7, <1>8
<1> QED
  BY <1>7, <1>11, <1>12, <1>13, <1>14 DEF F

(* A set no link leaves is shut, external files aside, and a component has   *)
(* none that a link leaves.                                                  *)
LEMMA ClosedIsShut ==
  ASSUME NEW g, GoodGraph(g), NEW C
  PROVE  R!Closed(g, C) <=> Shut(R!Joined(g), C)
<1>1. ASSUME R!Closed(g, C), NEW x \in R!Joined(g), x[1] \in C
      PROVE  x[2] \in C
  <2>1. PICK e \in g.links : \/ x[1] = R!File(e[1]) /\ x[2] = R!File(e[2])
                             \/ x[1] = R!File(e[2]) /\ x[2] = R!File(e[1])
    BY JoinedIs
  <2>2. External \notin {R!File(e[1]), R!File(e[2])}
    BY <2>1, JoinedIs DEF Inner
  <2> QED
    BY <1>1, <2>1, <2>2 DEF R!Closed
<1>2. ASSUME Shut(R!Joined(g), C), NEW e \in g.links,
             External \notin {R!File(e[1]), R!File(e[2])}
      PROVE  R!File(e[1]) \in C <=> R!File(e[2]) \in C
  <2>1. CASE R!File(e[1]) = R!File(e[2])
    BY <2>1
  <2>2. CASE R!File(e[1]) # R!File(e[2])
    <3> DEFINE x == <<R!File(e[1]), R!File(e[2])>>
               y == <<R!File(e[2]), R!File(e[1])>>
    <3>1. x \in R!Joined(g) /\ y \in R!Joined(g)
      BY <1>2, <2>2, JoinedIs
    <3>2. (x[1] \in C => x[2] \in C) /\ (y[1] \in C => y[2] \in C)
      BY <1>2, <3>1 DEF Shut
    <3> QED
      BY <3>2
  <2> QED
    BY <2>1, <2>2
<1> QED
  BY <1>1, <1>2 DEF R!Closed, Shut

(* In a graph without dangling links the regions are the components.         *)
LEMMA Clustering ==
  ASSUME GoodGraph(graph)
  PROVE  ClustersAreComponents
<1> DEFINE c == R!ClusterNodes(graph)
           F == R!FileClusters(FilesIn(graph), R!Joined(graph))
           closed == {C \in SUBSET FilesIn(graph) : R!Closed(graph, C)}
<1>1. /\ DOMAIN c = DOMAIN F
      /\ \A r \in DOMAIN F : c[r] = {n \in graph.nodes : R!File(n) \in F[r]}
  BY ClustersAre
<1>2. /\ \A r \in DOMAIN F \ {External} :
           r \in Inner(graph) /\ r = R!Min(Comp(graph, r)) /\ F[r] = Comp(graph, r)
      /\ \A f \in Inner(graph) : \E r \in DOMAIN F \ {External} : F[r] = Comp(graph, f)
      /\ External \in FilesIn(graph) => External \in DOMAIN F
      /\ External \in DOMAIN F => External \in FilesIn(graph) /\ F[External] = {External}
  BY FileClustersAre
<1> HIDE DEF c, F
<1>3. \A r \in DOMAIN F : F[r] # {} /\ F[r] \in SUBSET FilesIn(graph) /\ r = R!Min(F[r])
  <2> SUFFICES ASSUME NEW r \in DOMAIN F
               PROVE  F[r] # {} /\ F[r] \in SUBSET FilesIn(graph) /\ r = R!Min(F[r])
    OBVIOUS
  <2>1. CASE r = External
    <3>1. F[r] = {r} /\ r \in FilesIn(graph) /\ r \in Nat
      BY <1>2, <2>1, RegionConstants
    <3>2. R!Min({r}) = r
      <4>1. {r} \in SUBSET Nat /\ {r} # {}
        BY <3>1
      <4> QED
        BY <4>1, MinIs
    <3> QED
      BY <3>1, <3>2
  <2>2. CASE r # External
    BY <1>2, <2>2, CompIs DEF Inner
  <2> QED
    BY <2>1, <2>2
<1>4. ASSUME NEW r \in DOMAIN c
      PROVE  c[r] # {} /\ r = R!Min({R!File(n) : n \in c[r]})
  <2>1. {R!File(n) : n \in c[r]} = F[r]
    BY <1>1, <1>3 DEF FilesIn
  <2> QED
    BY <1>1, <1>3, <2>1
<1>5. \A n \in graph.nodes : \E r \in DOMAIN c : n \in c[r]
  <2> TAKE n \in graph.nodes
  <2>1. R!File(n) \in FilesIn(graph)
    BY DEF FilesIn
  <2>2. CASE R!File(n) = External
    BY <1>1, <1>2, <2>1, <2>2
  <2>3. CASE R!File(n) # External
    <3>1. R!File(n) \in Inner(graph)
      BY <2>1, <2>3 DEF Inner
    <3>2. PICK r \in DOMAIN F \ {External} : F[r] = Comp(graph, R!File(n))
      BY <1>2, <3>1
    <3> QED
      BY <1>1, <3>1, <3>2, CompIs
  <2> QED
    BY <2>2, <2>3
<1>6. UNION {c[r] : r \in DOMAIN c} = graph.nodes
  BY <1>1, <1>5
<1>7. ASSUME NEW m \in graph.nodes, NEW n \in graph.nodes,
             NEW r \in DOMAIN c, {m, n} \subseteq c[r], NEW C \in closed,
             R!File(m) \in C
      PROVE  R!File(n) \in C
  <2>1. r \in DOMAIN F /\ R!File(m) \in F[r] /\ R!File(n) \in F[r]
    BY <1>1, <1>7
  <2>2. CASE r = External
    BY <1>2, <1>7, <2>1, <2>2
  <2>3. CASE r # External
    <3>1. /\ r \in Inner(graph) /\ R!File(m) \in Comp(graph, r)
          /\ R!File(n) \in Comp(graph, r)
      BY <1>2, <2>1, <2>3
    <3>2. R!File(m) \in Inner(graph) /\ R!File(n) \in Comp(graph, R!File(m))
      BY <3>1, CompIs, CompIsClass
    <3>3. Shut(R!Joined(graph), C)
      BY ClosedIsShut
    <3> QED
      BY <1>7, <3>2, <3>3, CompIs
  <2> QED
    BY <2>2, <2>3
<1>8. ASSUME NEW m \in graph.nodes, NEW n \in graph.nodes,
             \A C \in closed : R!File(m) \in C <=> R!File(n) \in C
      PROVE  \E r \in DOMAIN c : {m, n} \subseteq c[r]
  <2>1. PICK r \in DOMAIN c : m \in c[r]
    BY <1>5
  <2>2. r \in DOMAIN F /\ R!File(m) \in F[r]
    BY <1>1, <2>1
  <2>3. Shut(R!Joined(graph), F[r])
    <3>1. CASE r = External
      BY <1>2, <2>2, <3>1, JoinedIs DEF Shut, Inner
    <3>2. CASE r # External
      BY <1>2, <2>2, <3>2, CompIs
    <3> QED
      BY <3>1, <3>2
  <2>4. F[r] \in closed
    BY <1>3, <2>2, <2>3, ClosedIsShut
  <2>5. R!File(n) \in F[r]
    BY <1>8, <2>2, <2>4
  <2> QED
    BY <1>1, <2>1, <2>5
<1>9. \A m, n \in graph.nodes :
        (\E r \in DOMAIN c : {m, n} \subseteq c[r])
          <=> \A C \in closed : R!File(m) \in C <=> R!File(n) \in C
  <2> SUFFICES ASSUME NEW m \in graph.nodes, NEW n \in graph.nodes
               PROVE  (\E r \in DOMAIN c : {m, n} \subseteq c[r])
                        <=> \A C \in closed : R!File(m) \in C <=> R!File(n) \in C
    OBVIOUS
  <2> HIDE DEF closed
  <2>1. ASSUME NEW r \in DOMAIN c, {m, n} \subseteq c[r], NEW C \in closed
        PROVE  R!File(m) \in C <=> R!File(n) \in C
    BY <1>7, <2>1
  <2> QED
    BY <1>8, <2>1
<1> QED
  BY <1>4, <1>6, <1>9 DEF ClustersAreComponents, R!ClustersAreComponents, c, FilesIn

(* The graph has no dangling link at first.                                  *)
LEMMA RegionsInit ==
  ASSUME R!Init
  PROVE  GoodGraph(graph)
<1>1. PICK nodes \in SUBSET Nodes :
        \E links \in SUBSET {e \in Links : {e[1], e[2]} \subseteq nodes} :
          graph = R!FreshGraph(nodes, links)
  BY DEF R!Init
<1>2. PICK links \in SUBSET {e \in Links : {e[1], e[2]} \subseteq nodes} :
        graph = R!FreshGraph(nodes, links)
  BY <1>1
<1>3. graph.nodes = nodes /\ graph.links = links
  BY <1>2 DEF R!FreshGraph
<1>4. \A e \in links : e \in nodes \X nodes
  <2> TAKE e \in links
  <2>1. e \in Nodes \X Nodes /\ {e[1], e[2]} \subseteq nodes
    BY RegionConstants
  <2> QED
    BY <2>1
<1> QED
  BY <1>3, <1>4 DEF GoodGraph

(* No step leaves a dangling link.                                           *)
LEMMA RegionsStep ==
  ASSUME GoodGraph(graph), [R!Next]_(R!vars)
  PROVE  GoodGraph(graph')
<1>1. CASE UNCHANGED graph
  BY <1>1 DEF GoodGraph
<1>2. CASE R!GraphNext
  <2>1. ASSUME NEW n \in Nodes, R!Upsert(n) PROVE GoodGraph(graph')
    <3>1. graph'.nodes = graph.nodes \cup {n} /\ graph'.links = graph.links
      BY <2>1 DEF R!Upsert
    <3> QED
      BY <3>1 DEF GoodGraph
  <2>2. ASSUME NEW n \in Nodes, R!RemoveNode(n) PROVE GoodGraph(graph')
    <3>1. /\ graph'.nodes = graph.nodes \ {n}
          /\ graph'.links = {e \in graph.links : n \notin {e[1], e[2]}}
      BY <2>2 DEF R!RemoveNode
    <3> QED
      BY <3>1 DEF GoodGraph
  <2>3. ASSUME NEW n \in Nodes, NEW x \in Energies, R!Rescore(n, x) PROVE GoodGraph(graph')
    <3>1. graph'.nodes = graph.nodes /\ graph'.links = graph.links
      BY <2>3 DEF R!Rescore
    <3> QED
      BY <3>1 DEF GoodGraph
  <2>4. ASSUME NEW e \in Links, R!AddLink(e) PROVE GoodGraph(graph')
    <3>1. graph'.nodes = graph.nodes /\ graph'.links = graph.links \cup {e}
      BY <2>4 DEF R!AddLink
    <3>2. e \in graph.nodes \X graph.nodes
      <4>1. e \in Nodes \X Nodes /\ {e[1], e[2]} \subseteq graph.nodes
        BY <2>4, RegionConstants DEF R!AddLink
      <4> QED
        BY <4>1
    <3> QED
      BY <3>1, <3>2 DEF GoodGraph
  <2> QED
    BY <1>2, <2>1, <2>2, <2>3, <2>4 DEF R!GraphNext
<1>3. CASE R!RecordGraph \/ R!InitializeRegions
  BY <1>1, <1>3 DEF R!RecordGraph, R!InitializeRegions
<1>4. ASSUME NEW r, R!ActivateRegion(r) PROVE GoodGraph(graph')
  BY <1>1, <1>4 DEF R!ActivateRegion
<1>5. ASSUME NEW d, NEW f, R!TickCooldown(d, f) PROVE GoodGraph(graph')
  BY <1>1, <1>5 DEF R!TickCooldown
<1>6. CASE UNCHANGED R!vars
  BY <1>1, <1>6 DEF R!vars
<1> QED
  BY <1>2, <1>3, <1>4, <1>5, <1>6 DEF R!Next

(* The regions that clustering makes divide the nodes, and two nodes are in  *)
(* one region if and only if no set of files that links do not leave tells   *)
(* them apart; a region is named for the least of its files.                 *)
THEOREM RegionsAreComponents == R!Spec => []ClustersAreComponents
<1>1. R!Init => GoodGraph(graph)
  BY RegionsInit
<1>2. GoodGraph(graph) /\ [R!Next]_(R!vars) => GoodGraph(graph)'
  <2> SUFFICES ASSUME GoodGraph(graph), [R!Next]_(R!vars) PROVE GoodGraph(graph)'
    OBVIOUS
  <2>1. GoodGraph(graph')
    BY RegionsStep
  <2> QED
    BY <2>1 DEF GoodGraph
<1>3. GoodGraph(graph) => ClustersAreComponents
  BY Clustering
<1> QED
  BY <1>1, <1>2, <1>3, PTL DEF R!Spec

-----------------------------------------------------------------------------
(* The replay of the log *)

\* f has what the replay of s on b has after each event.
IsReplay(f, b, s) ==
  /\ f = [i \in 0..Len(s) |-> f[i]]
  /\ f[0] = b
  /\ \A i \in 1..Len(s) : f[i] = R!ReplayEvent(f[i - 1], s[i])

(* A replay of any log exists.                                               *)
LEMMA ReplayExists ==
  ASSUME NEW b, NEW s, Len(s) \in Nat
  PROVE  \E f : IsReplay(f, b, s)
<1> DEFINE Partial(k) == \E f : /\ f = [i \in 0..k |-> f[i]] /\ f[0] = b
                                /\ \A i \in 1..k : f[i] = R!ReplayEvent(f[i - 1], s[i])
           T == {k \in Nat : Partial(k)}
<1>1. 0 \in T
  <2> DEFINE f == [i \in 0..0 |-> b]
  <2>1. /\ f = [i \in 0..0 |-> f[i]] /\ f[0] = b
        /\ \A i \in 1..0 : f[i] = R!ReplayEvent(f[i - 1], s[i])
    OBVIOUS
  <2>2. Partial(0)
    BY <2>1
  <2> QED
    BY <2>2
<1>2. ASSUME NEW k \in T PROVE k + 1 \in T
  <2>1. k \in Nat /\ Partial(k)
    OBVIOUS
  <2>2. PICK f : /\ f = [i \in 0..k |-> f[i]] /\ f[0] = b
                 /\ \A i \in 1..k : f[i] = R!ReplayEvent(f[i - 1], s[i])
    BY <2>1
  <2> DEFINE g == [i \in 0..(k + 1) |-> IF i = k + 1 THEN R!ReplayEvent(f[k], s[k + 1]) ELSE f[i]]
  <2>3. \A i \in 0..(k + 1) : g[i] = IF i = k + 1 THEN R!ReplayEvent(f[k], s[k + 1]) ELSE f[i]
    OBVIOUS
  <2>4. g = [i \in 0..(k + 1) |-> g[i]]
    OBVIOUS
  <2> HIDE DEF g
  <2>5. g[0] = b
    <3>1. 0 \in 0..(k + 1) /\ 0 # k + 1
      BY <2>1
    <3> QED
      BY <2>2, <2>3, <3>1
  <2>6. ASSUME NEW i \in 1..(k + 1) PROVE g[i] = R!ReplayEvent(g[i - 1], s[i])
    <3>1. i - 1 \in 0..k /\ g[i - 1] = f[i - 1] /\ i \in 0..(k + 1)
      BY <2>1, <2>3
    <3>2. CASE i = k + 1
      BY <2>1, <2>3, <3>1, <3>2
    <3>3. CASE i # k + 1
      <4>1. i \in 1..k
        BY <2>1, <3>3
      <4>2. f[i] = R!ReplayEvent(f[i - 1], s[i]) /\ g[i] = f[i]
        BY <2>2, <2>3, <3>1, <3>3, <4>1
      <4> QED
        BY <3>1, <4>2
    <3> QED
      BY <3>2, <3>3
  <2>7. Partial(k + 1)
    BY <2>4, <2>5, <2>6
  <2> HIDE DEF Partial
  <2> QED
    BY <2>1, <2>7
<1>3. T = Nat
  <2>1. T \subseteq Nat
    OBVIOUS
  <2> HIDE DEF T
  <2> QED
    BY <1>1, <1>2, <2>1, SetInduction
<1>4. Partial(Len(s))
  BY <1>3
<1> QED
  BY <1>4 DEF IsReplay

(* There is one replay, and it is what Regions defines.                      *)
LEMMA ReplayIs ==
  ASSUME NEW b, NEW s, Len(s) \in Nat, NEW f, IsReplay(f, b, s)
  PROVE  R!Replay(b, s) = f[Len(s)]
<1> DEFINE N == Len(s)
           Body(h) == [i \in 0..N |-> IF i = 0 THEN b ELSE R!ReplayEvent(h[i - 1], s[i])]
           a == CHOOSE h : h = Body(h)
<1>1. R!Replay(b, s) = a[N]
  BY DEF R!Replay
<1> HIDE DEF N
<1>2. N \in Nat /\ N = Len(s)
  BY DEF N
<1>3. \A i \in 0..N : f[i] = IF i = 0 THEN b ELSE R!ReplayEvent(f[i - 1], s[i])
  <2> TAKE i \in 0..N
  <2>1. i # 0 => i \in 1..N
    BY <1>2
  <2> QED
    BY <1>2, <2>1 DEF IsReplay
<1>4. f = Body(f)
  <2>1. f = [i \in 0..N |-> f[i]]
    BY <1>2 DEF IsReplay
  <2> QED
    BY <1>3, <2>1
<1>5. a = Body(a)
  BY <1>4
<1> HIDE DEF a
<1>6. \A i \in 0..N : a[i] = IF i = 0 THEN b ELSE R!ReplayEvent(a[i - 1], s[i])
  <2> DEFINE c == [i \in 0..N |-> IF i = 0 THEN b ELSE R!ReplayEvent(a[i - 1], s[i])]
  <2>1. a = c
    BY <1>5
  <2>2. \A i \in 0..N : c[i] = IF i = 0 THEN b ELSE R!ReplayEvent(a[i - 1], s[i])
    OBVIOUS
  <2> HIDE DEF c
  <2> QED
    BY <2>1, <2>2
<1> DEFINE T == {i \in Nat : i <= N => a[i] = f[i]}
<1>7. 0 \in T
  <2>1. a[0] = b /\ f[0] = b
    BY <1>2, <1>3, <1>6
  <2> QED
    BY <2>1
<1>8. ASSUME NEW i \in T PROVE i + 1 \in T
  <2> SUFFICES ASSUME i + 1 <= N PROVE a[i + 1] = f[i + 1]
    OBVIOUS
  <2>1. i \in Nat /\ i + 1 \in 0..N /\ i + 1 # 0 /\ (i + 1) - 1 = i /\ a[i] = f[i]
    BY <1>2
  <2> QED
    BY <1>3, <1>6, <2>1
<1>9. T = Nat
  <2>1. T \subseteq Nat
    OBVIOUS
  <2> HIDE DEF T
  <2> QED
    BY <1>7, <1>8, <2>1, SetInduction
<1>10. a[N] = f[N]
  BY <1>2, <1>9
<1> QED
  BY <1>1, <1>2, <1>10

(* A replay of a log that goes on goes on from the replay of what it was.    *)
LEMMA ReplayGoesOn ==
  ASSUME NEW S, NEW b, NEW s \in Seq(S), NEW t \in Seq(S)
  PROVE  \E f : /\ f[0] = R!Replay(b, s)
                /\ f[Len(t)] = R!Replay(b, s \o t)
                /\ \A i \in 1..Len(t) : f[i] = R!ReplayEvent(f[i - 1], t[i])
<1> DEFINE m == Len(s)
           n == Len(t)
           u == s \o t
<1>1. /\ m \in Nat /\ n \in Nat /\ Len(u) = m + n /\ Len(u) \in Nat
      /\ \A i \in 1..m : u[i] = s[i]
      /\ \A i \in 1..n : u[m + i] = t[i]
  OBVIOUS
<1>a. m = Len(s) /\ n = Len(t)
  OBVIOUS
<1> HIDE DEF m, n, u
<1>2. PICK h : IsReplay(h, b, u)
  BY <1>1, ReplayExists
<1>3. h[0] = b /\ \A i \in 1..(m + n) : h[i] = R!ReplayEvent(h[i - 1], u[i])
  BY <1>1, <1>2 DEF IsReplay
<1> DEFINE g == [i \in 0..m |-> h[i]]
           f == [i \in 0..n |-> h[m + i]]
<1>4. IsReplay(g, b, s)
  <2>1. g[0] = b
    BY <1>1, <1>3
  <2>2. ASSUME NEW i \in 1..m PROVE g[i] = R!ReplayEvent(g[i - 1], s[i])
    <3>1. i \in 0..m /\ i - 1 \in 0..m /\ i \in 1..(m + n)
      BY <1>1
    <3>2. g[i] = h[i] /\ g[i - 1] = h[i - 1] /\ u[i] = s[i]
      BY <1>1, <3>1
    <3> HIDE DEF g
    <3> QED
      BY <1>3, <3>1, <3>2
  <2>3. g = [i \in 0..m |-> g[i]]
    OBVIOUS
  <2> QED
    BY <1>a, <2>1, <2>2, <2>3 DEF IsReplay
<1>5. R!Replay(b, s) = h[m]
  <2>1. g[m] = h[m]
    BY <1>1
  <2> HIDE DEF g
  <2> QED
    BY <1>1, <1>4, <1>a, <2>1, ReplayIs
<1>6. R!Replay(b, u) = h[m + n]
  BY <1>1, <1>2, ReplayIs
<1>7. f[0] = h[m] /\ f[n] = h[m + n]
  BY <1>1
<1>8. ASSUME NEW i \in 1..n PROVE f[i] = R!ReplayEvent(f[i - 1], t[i])
  <2>1. i \in 0..n /\ i - 1 \in 0..n /\ m + i \in 1..(m + n) /\ m + (i - 1) = (m + i) - 1
    BY <1>1
  <2>2. f[i] = h[m + i] /\ f[i - 1] = h[(m + i) - 1] /\ u[m + i] = t[i]
    BY <1>1, <2>1
  <2> HIDE DEF f
  <2> QED
    BY <1>3, <2>1, <2>2
<1> HIDE DEF f
<1>9. f[0] = R!Replay(b, s) /\ f[Len(t)] = R!Replay(b, s \o t)
  BY <1>5, <1>6, <1>7, <1>a DEF u
<1> QED
  BY <1>8, <1>9, <1>a

(* Events that are neither activations nor evictions change nothing.         *)
LEMMA ReplayIdles ==
  ASSUME NEW S, NEW b, NEW s \in Seq(S), NEW t \in Seq(S),
         \A i \in 1..Len(t) : t[i].type \notin {"RegionActivated", "RegionEvicted"}
  PROVE  R!Replay(b, s \o t) = R!Replay(b, s)
<1>1. PICK f : /\ f[0] = R!Replay(b, s) /\ f[Len(t)] = R!Replay(b, s \o t)
               /\ \A i \in 1..Len(t) : f[i] = R!ReplayEvent(f[i - 1], t[i])
  BY ReplayGoesOn
<1>2. \A i \in 1..Len(t) : f[i] = f[i - 1]
  BY <1>1 DEF R!ReplayEvent
<1> DEFINE T == {i \in Nat : i <= Len(t) => f[i] = f[0]}
<1>3. 0 \in T
  OBVIOUS
<1>4. ASSUME NEW i \in T PROVE i + 1 \in T
  <2> SUFFICES ASSUME i + 1 <= Len(t) PROVE f[i + 1] = f[0]
    OBVIOUS
  <2>1. i \in Nat /\ Len(t) \in Nat /\ i + 1 \in 1..Len(t) /\ (i + 1) - 1 = i /\ f[i] = f[0]
    OBVIOUS
  <2> QED
    BY <1>2, <2>1
<1>5. T = Nat
  <2>1. T \subseteq Nat
    OBVIOUS
  <2> HIDE DEF T
  <2> QED
    BY <1>3, <1>4, <2>1, SetInduction
<1>6. f[Len(t)] = f[0]
  BY <1>5
<1> QED
  BY <1>1, <1>6

(* An activation raises the region, if it is there, and moves the clock.     *)
LEMMA ReplayActivates ==
  ASSUME NEW S, NEW b, NEW s \in Seq(S), NEW r, NEW k,
         R!Event("RegionActivated", r, k) \in S,
         R!Event("ContextWindowGenerated", r, 0) \in S
  PROVE  R!Replay(b, s \o <<R!Event("RegionActivated", r, k),
                            R!Event("ContextWindowGenerated", r, 0)>>)
           = R!ReplayEvent(R!Replay(b, s), R!Event("RegionActivated", r, k))
<1> DEFINE e == R!Event("RegionActivated", r, k)
           w == R!Event("ContextWindowGenerated", r, 0)
           t == <<e, w>>
<1>1. w.type = "ContextWindowGenerated"
  BY DEF R!Event
<1> HIDE DEF e, w
<1>2. t \in Seq(S) /\ Len(t) = 2 /\ t[1] = e /\ t[2] = w
  BY DEF e, w
<1> HIDE DEF t
<1>3. PICK f : /\ f[0] = R!Replay(b, s) /\ f[Len(t)] = R!Replay(b, s \o t)
               /\ \A i \in 1..Len(t) : f[i] = R!ReplayEvent(f[i - 1], t[i])
  BY <1>2, ReplayGoesOn
<1>4. f[1] = R!ReplayEvent(f[0], e) /\ f[2] = R!ReplayEvent(f[1], w)
  BY <1>2, <1>3
<1>5. f[2] = f[1]
  BY <1>1, <1>4 DEF R!ReplayEvent
<1> QED
  BY <1>2, <1>3, <1>4, <1>5 DEF t, e, w

\* x has the fields of a region, rs is a map of regions, e is an engine.
IsRegion(x) ==
  x = [members |-> x.members, center |-> x.center, temperature |-> x.temperature,
       activations |-> x.activations, last |-> x.last]
AreRegions(rs) ==
  /\ rs = [r \in DOMAIN rs |-> rs[r]]
  /\ DOMAIN rs \in SUBSET Nat /\ IsFiniteSet(DOMAIN rs)
  /\ \A r \in DOMAIN rs : IsRegion(rs[r])
IsEngine(e) ==
  /\ e = [regions |-> e.regions, clock |-> e.clock]
  /\ e.clock \in Nat
  /\ AreRegions(e.regions)

\* The events of t evict these regions.
Evicts(t, gone) ==
  /\ \A i \in 1..Len(t) : t[i].type = "RegionEvicted" /\ t[i].region \in gone
  /\ \A r \in gone : \E i \in 1..Len(t) : t[i].region = r

(* Evictions take the regions away and leave the clock.                      *)
LEMMA ReplayEvicts ==
  ASSUME NEW S, NEW b, NEW s \in Seq(S), NEW t \in Seq(S), NEW gone,
         Evicts(t, gone),
         IsEngine(R!Replay(b, s))
  PROVE  R!Replay(b, s \o t)
           = [regions |-> R!Restrict(R!Replay(b, s).regions,
                                     DOMAIN R!Replay(b, s).regions \ gone),
              clock |-> R!Replay(b, s).clock]
<1> DEFINE regions == R!Replay(b, s).regions
           clock == R!Replay(b, s).clock
<1>0. /\ R!Replay(b, s) = [regions |-> regions, clock |-> clock]
      /\ regions = [x \in DOMAIN regions |-> regions[x]]
  BY DEF IsEngine, AreRegions
<1>a. clock = R!Replay(b, s).clock /\ regions = R!Replay(b, s).regions
  OBVIOUS
<1> HIDE DEF regions, clock
<1> DEFINE n == Len(t)
           Left(i) == DOMAIN regions \ {t[j].region : j \in 1..i}
           After(i) == [regions |-> [x \in Left(i) |-> regions[x]], clock |-> clock]
<1>1. n \in Nat
  OBVIOUS
<1>2. PICK f : /\ f[0] = R!Replay(b, s) /\ f[n] = R!Replay(b, s \o t)
               /\ \A i \in 1..n : f[i] = R!ReplayEvent(f[i - 1], t[i])
  BY ReplayGoesOn
<1>3. n = Len(t)
  OBVIOUS
<1> HIDE DEF n
<1> DEFINE T == {i \in Nat : i <= n => f[i] = After(i)}
<1>4. 0 \in T
  <2>1. Left(0) = DOMAIN regions
    <3>1. 1..0 = {}
      OBVIOUS
    <3>2. {t[j].region : j \in 1..0} = {}
      BY Zenon, <3>1
    <3> QED
      BY <3>2
  <2>2. f[0] = After(0)
    BY <1>0, <1>2, <2>1
  <2> QED
    BY <2>2
<1>5. ASSUME NEW i \in T PROVE i + 1 \in T
  <2> SUFFICES ASSUME i + 1 <= n PROVE f[i + 1] = After(i + 1)
    OBVIOUS
  <2>1. i \in Nat /\ i + 1 \in 1..n /\ (i + 1) - 1 = i /\ f[i] = After(i)
    BY <1>1
  <2>2. f[i + 1] = R!ReplayEvent(f[i], t[i + 1])
    BY <1>2, <2>1
  <2> DEFINE e == f[i]
             c == t[i + 1].region
             rs == [x \in Left(i) |-> regions[x]]
             rest == R!Restrict(rs, DOMAIN rs \ {c})
  <2>3. t[i + 1].type = "RegionEvicted"
    BY <1>3, <2>1 DEF Evicts
  <2>4. f[i + 1] = [e EXCEPT !.regions = R!Restrict(@, DOMAIN @ \ {c})]
    BY <2>2, <2>3 DEF R!ReplayEvent
  <2>5. e = [regions |-> rs, clock |-> clock]
    BY <2>1
  <2>6. f[i + 1] = [regions |-> rest, clock |-> clock]
    <3> HIDE DEF e, c, rs, T
    <3> QED
      BY <2>4, <2>5
  <2>7. rest = [x \in Left(i + 1) |-> regions[x]]
    <3>1. Left(i + 1) = Left(i) \ {c}
      <4>1. 1..(i + 1) = 1..i \cup {i + 1}
        BY <2>1
      <4> QED
        BY <4>1
    <3>2. DOMAIN rs = Left(i) /\ \A x \in Left(i) : rs[x] = regions[x]
      OBVIOUS
    <3> HIDE DEF rs, Left, c
    <3> QED
      BY <3>1, <3>2 DEF R!Restrict
  <2> QED
    BY <2>6, <2>7
<1>6. T = Nat
  <2>1. T \subseteq Nat
    OBVIOUS
  <2> HIDE DEF T
  <2> QED
    BY <1>4, <1>5, <2>1, SetInduction
<1>7. f[n] = After(n)
  <2> HIDE DEF After
  <2>1. n \in T
    BY <1>1, <1>6
  <2> QED
    BY <1>1, <2>1
<1>8. {t[j].region : j \in 1..n} = gone
  BY <1>3 DEF Evicts
<1>9. Left(n) = DOMAIN regions \ gone
  BY <1>8
<1> HIDE DEF Left
<1> QED
  BY <1>2, <1>7, <1>9, <1>a DEF R!Restrict

(* InOrder lists the members of a finite set, and nothing else.              *)
LEMMA InOrderIs ==
  ASSUME NEW ids \in SUBSET Nat, IsFiniteSet(ids)
  PROVE  /\ Cardinality(ids) \in Nat /\ R!Cardinality(ids) = Cardinality(ids)
         /\ \A i \in 1..Cardinality(ids) : R!InOrder(ids)[i] \in ids
         /\ \A r \in ids : \E i \in 1..Cardinality(ids) : R!InOrder(ids)[i] = r
<1> DEFINE n == Cardinality(ids)
           upto(r) == {s \in ids : s <= r}
           rank == [r \in ids |-> Cardinality(upto(r))]
<1>1. n \in Nat
  BY FS_CardinalityType
<1>2. \A r \in ids : upto(r) \subseteq ids /\ IsFiniteSet(upto(r)) /\ r \in upto(r)
  BY FS_Subset
<1>3. \A r \in ids : Cardinality(upto(r)) \in 1..n
  <2> SUFFICES ASSUME NEW r \in ids PROVE Cardinality(upto(r)) \in 1..n
    OBVIOUS
  <2> DEFINE u == upto(r)
  <2>1. u \subseteq ids /\ IsFiniteSet(u) /\ r \in u
    BY <1>2
  <2> HIDE DEF u
  <2>2. Cardinality(u) \in Nat /\ Cardinality(u) <= n
    BY <2>1, FS_CardinalityType, FS_Subset
  <2>3. Cardinality(u) # 0
    BY <2>1, FS_EmptySet
  <2> QED
    BY <1>1, <2>2, <2>3 DEF u
<1>4. ASSUME NEW r \in ids, NEW q \in ids, r < q PROVE Cardinality(upto(r)) # Cardinality(upto(q))
  <2> DEFINE u == upto(r)
             v == upto(q)
  <2>1. u \subseteq v /\ q \in v /\ q \notin u /\ IsFiniteSet(v)
    <3>1. \A s \in ids : s <= r => s <= q
      BY <1>4
    <3>2. ~(q <= r) /\ q <= q
      BY <1>4
    <3> QED
      BY <1>2, <3>1, <3>2
  <2> HIDE DEF u, v
  <2>2. Cardinality(u) # Cardinality(v)
    BY <2>1, FS_Subset
  <2> QED
    BY <2>2 DEF u, v
<1> HIDE DEF upto
<1>5. rank \in Injection(ids, 1..n)
  <2>1. rank \in [ids -> 1..n]
    BY <1>3
  <2>2. ASSUME NEW r \in ids, NEW q \in ids, rank[r] = rank[q] PROVE r = q
    <3>1. ~(r < q) /\ ~(q < r)
      BY <1>4, <2>2
    <3> QED
      BY <3>1
  <2> QED
    BY <2>1, <2>2, Fun_IsInj
<1>6. IsFiniteSet(1..n) /\ Cardinality(1..n) = n
  BY <1>1, FS_Interval
<1>7. rank \in Surjection(ids, 1..n)
  BY <1>5, <1>6, FS_Injection
<1>8. \A i \in 1..n : \E r \in ids : rank[r] = i
  <2> HIDE DEF n, rank
  <2> QED
    BY <1>7 DEF Surjection
<1>9. \A r, q \in ids : rank[r] = rank[q] => r = q
  <2> HIDE DEF n, rank
  <2> QED
    BY <1>5 DEF Injection, IsInjective
<1>10. R!Cardinality(ids) = n /\ \A r \in ids : R!Cardinality({s \in ids : s <= r}) = rank[r]
  BY SameCardinality DEF upto
<1>11. R!InOrder(ids) = [i \in 1..n |-> CHOOSE r \in ids : rank[r] = i]
  <2>1. \A i \in 1..n : \A r \in ids :
          R!Cardinality({s \in ids : s <= r}) = i <=> rank[r] = i
    <3> HIDE DEF n, rank
    <3> QED
      BY <1>10
  <2> DEFINE K(r) == R!Cardinality({s \in ids : s <= r})
  <2>2. R!InOrder(ids) = [i \in 1..n |-> CHOOSE r \in ids : K(r) = i]
    <3> HIDE DEF n
    <3> QED
      BY <1>10 DEF R!InOrder
  <2>3. \A r \in ids : K(r) = rank[r]
    BY <1>10
  <2> HIDE DEF n, rank, K
  <2>4. \A i \in 1..n : (CHOOSE r \in ids : K(r) = i) = CHOOSE r \in ids : rank[r] = i
    <3> TAKE i \in 1..n
    <3>1. \A r : (r \in ids /\ K(r) = i) <=> (r \in ids /\ rank[r] = i)
      BY <2>3
    <3> QED
      BY <3>1
  <2> QED
    BY <2>2, <2>4
<1> HIDE DEF rank, n
<1>12. \A i \in 1..n : R!InOrder(ids)[i] \in ids /\ rank[R!InOrder(ids)[i]] = i
  BY <1>8, <1>11
<1>13. \A r \in ids : \E i \in 1..n : R!InOrder(ids)[i] = r
  <2> TAKE r \in ids
  <2>1. rank[r] \in 1..n
    BY <1>3 DEF rank
  <2> QED
    BY <1>9, <1>12, <2>1
<1> QED
  BY <1>1, <1>10, <1>12, <1>13 DEF n

(* The concatenation of sequences over a set is one.                         *)
LEMMA FlattenIs ==
  ASSUME NEW S, NEW n \in Nat, NEW seqs \in [1..n -> Seq(S)]
  PROVE  R!FlattenSeq(seqs) \in Seq(S)
<1>1. Len(seqs) = n /\ seqs \in Seq(Seq(S))
  OBVIOUS
<1>2. CASE n = 0
  <2>1. R!FlattenSeq(seqs) = seqs
    BY <1>1, <1>2 DEF R!FlattenSeq
  <2>2. seqs = << >>
    BY <1>1, <1>2
  <2> QED
    BY <2>1, <2>2
<1>3. CASE n # 0
  <2> DEFINE Body(h) == [i \in 1..n |-> IF i = 1 THEN seqs[i] ELSE h[i - 1] \o seqs[i]]
             a == CHOOSE h : h = Body(h)
  <2>1. R!FlattenSeq(seqs) = a[n]
    BY <1>1, <1>3 DEF R!FlattenSeq
  <2>2. \E h : h = Body(h)
    <3> DEFINE A == [i \in 1..n |-> [x \in Seq(S) |-> x \o seqs[i]]]
    <3>1. A \in [1..n -> [Seq(S) -> Seq(S)]] /\ << >> \in Seq(S)
      OBVIOUS
    <3>2. \A i \in 1..n : \A x \in Seq(S) : A[i][x] = x \o seqs[i]
      OBVIOUS
    <3> HIDE DEF A
    <3>3. PICK f : IsRun(f, n, Seq(S), << >>, A)
      BY <3>1, RecursionExists
    <3>4. /\ f \in [0..n -> Seq(S)] /\ f[0] = << >>
          /\ \A i \in 1..n : f[i] = A[i][f[i - 1]]
      BY <3>3 DEF IsRun
    <3> DEFINE h == [i \in 1..n |-> f[i]]
    <3>5. ASSUME NEW i \in 1..n
          PROVE  h[i] = IF i = 1 THEN seqs[i] ELSE h[i - 1] \o seqs[i]
      <4>1. i - 1 \in 0..n /\ f[i - 1] \in Seq(S) /\ f[i] = f[i - 1] \o seqs[i]
        <5>1. i - 1 \in 0..n
          OBVIOUS
        <5> QED
          BY <3>2, <3>4, <5>1
      <4>2. CASE i = 1
        <5>1. f[i - 1] = << >> /\ seqs[i] \in Seq(S)
          BY <3>4, <4>2
        <5>2. << >> \o seqs[i] = seqs[i]
          BY <5>1
        <5>3. h[i] = f[i]
          OBVIOUS
        <5> HIDE DEF h
        <5> QED
          BY <4>1, <4>2, <5>1, <5>2, <5>3
      <4>3. CASE i # 1
        BY <4>1, <4>3
      <4> QED
        BY <4>2, <4>3
    <3>6. h = Body(h)
      <4>1. h = [i \in 1..n |-> h[i]]
        OBVIOUS
      <4> HIDE DEF h
      <4> QED
        BY <3>5, <4>1
    <3> QED
      BY <3>6
  <2>3. a = Body(a)
    BY <2>2
  <2> HIDE DEF a
  <2>4. \A i \in 1..n : a[i] = IF i = 1 THEN seqs[i] ELSE a[i - 1] \o seqs[i]
    <3> DEFINE c == [i \in 1..n |-> IF i = 1 THEN seqs[i] ELSE a[i - 1] \o seqs[i]]
    <3>1. a = c
      BY <2>3
    <3>2. \A i \in 1..n : c[i] = IF i = 1 THEN seqs[i] ELSE a[i - 1] \o seqs[i]
      OBVIOUS
    <3> HIDE DEF c
    <3> QED
      BY <3>1, <3>2
  <2> DEFINE T == {i \in Nat : i + 1 <= n => a[i + 1] \in Seq(S)}
  <2>5. 0 \in T
    <3>1. a[1] \in Seq(S)
      BY <1>3, <2>4
    <3> QED
      BY <3>1
  <2>6. ASSUME NEW i \in T PROVE i + 1 \in T
    <3> SUFFICES ASSUME (i + 1) + 1 <= n PROVE a[(i + 1) + 1] \in Seq(S)
      OBVIOUS
    <3> DEFINE j == (i + 1) + 1
    <3>1. i \in Nat /\ j \in 1..n /\ j # 1 /\ j - 1 = i + 1 /\ a[i + 1] \in Seq(S)
      OBVIOUS
    <3>2. a[j] = a[j - 1] \o seqs[j]
      BY <2>4, <3>1
    <3> HIDE DEF j
    <3>3. a[j] \in Seq(S)
      BY <3>1, <3>2
    <3> QED
      BY <3>3 DEF j
  <2>7. T = Nat
    <3>1. T \subseteq Nat
      OBVIOUS
    <3> HIDE DEF T
    <3> QED
      BY <2>5, <2>6, <3>1, SetInduction
  <2>8. n - 1 \in Nat /\ (n - 1) + 1 = n
    BY <1>3
  <2>9. a[n] \in Seq(S)
    <3> DEFINE m == n - 1
    <3>1. m \in T /\ m + 1 = n
      BY <2>7, <2>8
    <3>2. m \in Nat /\ m + 1 <= n => a[m + 1] \in Seq(S)
      BY <3>1
    <3> HIDE DEF m
    <3> QED
      BY <1>3, <3>1, <3>2
  <2> QED
    BY <2>1, <2>9
<1> QED
  BY <1>2, <1>3

\* What the initialisation logs.
Announcements == [type : {"RegionMerged", "RegionCreated"}, region : Nat, tick : {0}]

(* The initialisation logs creations and mergers only.                       *)
LEMMA AnnouncedIs ==
  ASSUME NEW regions, DOMAIN regions \in SUBSET Nat, IsFiniteSet(DOMAIN regions)
  PROVE  R!Announced(regions) \in Seq(Announcements)
<1> DEFINE ids == DOMAIN regions
           n == Cardinality(ids)
           Said(r) == (IF R!Cardinality(R!FilesOf(regions[r].members)) > 1
                       THEN <<R!Event("RegionMerged", r, 0)>> ELSE << >>)
                      \o <<R!Event("RegionCreated", r, 0)>>
           seqs == [i \in 1..n |-> Said(R!InOrder(ids)[i])]
<1>1. n \in Nat /\ R!Cardinality(ids) = n /\ \A i \in 1..n : R!InOrder(ids)[i] \in ids
  BY InOrderIs
<1>2. R!Announced(regions) = R!FlattenSeq(seqs)
  BY <1>1 DEF R!Announced
<1>3. \A r \in ids : Said(r) \in Seq(Announcements)
  <2> SUFFICES ASSUME NEW r \in ids PROVE Said(r) \in Seq(Announcements)
    OBVIOUS
  <2>1. /\ R!Event("RegionMerged", r, 0) \in Announcements
        /\ R!Event("RegionCreated", r, 0) \in Announcements
    BY DEF R!Event, Announcements
  <2> QED
    BY <2>1
<1> HIDE DEF Said, ids, n
<1>4. seqs \in [1..n -> Seq(Announcements)]
  BY <1>1, <1>3
<1> QED
  BY <1>1, <1>2, <1>4, FlattenIs

\* g is a graph.
IsGraph(g) ==
  /\ g = [nodes |-> g.nodes, links |-> g.links, energy |-> g.energy]
  /\ GoodGraph(g)

\* The events of a log of the region engine.
GraphEvents ==
  {e \in [type : {"Graph"}, nodes : SUBSET Nodes, links : SUBSET (Nodes \X Nodes)] :
     e.links \subseteq e.nodes \X e.nodes}
RegionEvents ==
  [type : {"RegionActivated", "RegionEvicted", "ContextWindowGenerated"},
   region : Nat, tick : Nat]
LogEvents == GraphEvents \cup RegionEvents \cup Announcements

(* A graph is clustered by its nodes and links, whatever their energy is.    *)
LEMMA ClusteredByStructure ==
  ASSUME NEW g, NEW h, R!SameStructure(g, h)
  PROVE  R!ClusterNodes(g) = R!ClusterNodes(h)
<1>1. g.nodes = h.nodes /\ g.links = h.links
  BY DEF R!SameStructure
<1>2. R!Joined(g) = R!Joined(h)
  BY Zenon, <1>1 DEF R!Joined
<1> QED
  BY Zenon, <1>1, <1>2 DEF R!ClusterNodes

(* What is built of a graph.                                                 *)
LEMMA BuiltIs ==
  ASSUME NEW g, GoodGraph(g)
  PROVE  /\ AreRegions(R!Built(g))
         /\ DOMAIN R!Built(g) = DOMAIN R!ClusterNodes(g)
         /\ \A r \in DOMAIN R!Built(g) :
              /\ R!Built(g)[r].members = R!ClusterNodes(g)[r]
              /\ R!Built(g)[r].activations = 0
              /\ R!Built(g)[r].last = 0
<1> DEFINE c == R!ClusterNodes(g)
           F == R!FileClusters(FilesIn(g), R!Joined(g))
           B == [r \in DOMAIN c |-> R!NewRegion(g, c[r])]
<1>1. R!Built(g) = B
  BY DEF R!Built
<1>2. \A S : /\ IsRegion(R!NewRegion(g, S)) /\ R!NewRegion(g, S).members = S
             /\ R!NewRegion(g, S).activations = 0 /\ R!NewRegion(g, S).last = 0
  BY DEF R!NewRegion, IsRegion
<1>3. DOMAIN c = DOMAIN F
  BY ClustersAre
<1>4. DOMAIN F \subseteq FilesIn(g)
  <2>1. \A r \in DOMAIN F \ {External} : r \in Inner(g)
    BY FileClustersAre
  <2>2. External \in DOMAIN F => External \in FilesIn(g)
    BY FileClustersAre
  <2> HIDE DEF F
  <2> QED
    BY <2>1, <2>2 DEF Inner
<1>5. DOMAIN c \in SUBSET Nat /\ IsFiniteSet(DOMAIN c)
  BY <1>3, <1>4, FilesAre, FS_Subset
<1> HIDE DEF c, F
<1>6. DOMAIN B = DOMAIN c /\ \A r \in DOMAIN c : B[r] = R!NewRegion(g, c[r])
  OBVIOUS
<1>7. B = [r \in DOMAIN B |-> B[r]]
  OBVIOUS
<1> HIDE DEF B
<1>8. AreRegions(B)
  BY <1>2, <1>5, <1>6, <1>7 DEF AreRegions
<1> QED
  BY <1>1, <1>2, <1>6, <1>8 DEF c

(* An activation counts and stamps its region.                               *)
LEMMA RaisedIs ==
  ASSUME NEW rs, AreRegions(rs), NEW r \in DOMAIN rs, NEW k
  PROVE  LET raised == [rs EXCEPT ![r] = R!Activated(@, k)]
         IN  /\ AreRegions(raised) /\ DOMAIN raised = DOMAIN rs
             /\ \A q \in DOMAIN rs \ {r} : raised[q] = rs[q]
             /\ raised[r].members = rs[r].members
             /\ raised[r].activations = rs[r].activations + 1
             /\ raised[r].last = k
<1> DEFINE x == R!Activated(rs[r], k)
           raised == [rs EXCEPT ![r] = x]
<1>1. IsRegion(rs[r])
  BY DEF AreRegions
<1>2. /\ IsRegion(x) /\ x.members = rs[r].members
      /\ x.activations = rs[r].activations + 1 /\ x.last = k
  <2> DEFINE y == rs[r]
  <2>1. IsRegion(y)
    BY <1>1
  <2>2. PICK t : t = R!Min({y.temperature + Boost, Full})
    OBVIOUS
  <2>3. x = [y EXCEPT !.activations = y.activations + 1, !.last = k, !.temperature = t]
    BY <2>2 DEF R!Activated
  <2> HIDE DEF x, y
  <2>4. x = [members |-> y.members, center |-> y.center, temperature |-> t,
             activations |-> y.activations + 1, last |-> k]
    BY <2>1, <2>3 DEF IsRegion
  <2>5. /\ IsRegion(x) /\ x.members = y.members
        /\ x.activations = y.activations + 1 /\ x.last = k
    BY <2>4 DEF IsRegion
  <2> QED
    BY <2>5 DEF y
<1> HIDE DEF x
<1>3. /\ DOMAIN raised = DOMAIN rs /\ raised[r] = x
      /\ \A q \in DOMAIN rs \ {r} : raised[q] = rs[q]
  OBVIOUS
<1>4. raised = [q \in DOMAIN raised |-> raised[q]]
  OBVIOUS
<1>5. AreRegions(raised)
  <2> HIDE DEF raised
  <2> QED
    BY <1>2, <1>3, <1>4 DEF AreRegions
<1> HIDE DEF raised
<1>6. /\ AreRegions(raised) /\ DOMAIN raised = DOMAIN rs
      /\ \A q \in DOMAIN rs \ {r} : raised[q] = rs[q]
      /\ raised[r].members = rs[r].members
      /\ raised[r].activations = rs[r].activations + 1
      /\ raised[r].last = k
  BY <1>2, <1>3, <1>5
<1> QED
  BY <1>6 DEF raised, x

(* The replay of an activation, where the clock is where it was.             *)
LEMMA ActivationReplayed ==
  ASSUME NEW e, IsEngine(e), NEW r \in Nat
  PROVE  LET next == R!ReplayEvent(e, R!Event("RegionActivated", r, e.clock))
         IN  /\ next = [regions |-> IF r \in DOMAIN e.regions
                                    THEN [e.regions EXCEPT ![r] = R!Activated(@, e.clock)]
                                    ELSE e.regions,
                        clock |-> e.clock + 1]
             /\ IsEngine(next)
<1> DEFINE ev == R!Event("RegionActivated", r, e.clock)
           rs == IF r \in DOMAIN e.regions
                 THEN [e.regions EXCEPT ![r] = R!Activated(@, e.clock)]
                 ELSE e.regions
           next == R!ReplayEvent(e, ev)
<1>1. ev.type = "RegionActivated" /\ ev.region = r /\ ev.tick = e.clock
  BY DEF R!Event
<1>2. e.clock \in Nat /\ AreRegions(e.regions)
  BY DEF IsEngine
<1>3. R!Max({e.clock, e.clock + 1}) = e.clock + 1
  <2> DEFINE S == {e.clock, e.clock + 1}
  <2>1. \E x \in S : \A y \in S : x >= y
    BY <1>2
  <2>2. R!Max(S) \in S /\ \A y \in S : R!Max(S) >= y
    <3> HIDE DEF S
    <3> QED
      BY <2>1 DEF R!Max
  <2> QED
    BY <1>2, <2>2
<1> HIDE DEF ev
<1>4. next = [regions |-> rs, clock |-> e.clock + 1]
  BY <1>1, <1>3 DEF R!ReplayEvent
<1>5. AreRegions(rs)
  BY <1>2, RaisedIs
<1> HIDE DEF rs, next
<1>6. IsEngine(next)
  BY <1>2, <1>4, <1>5 DEF IsEngine
<1> QED
  BY <1>4, <1>6 DEF next, rs, ev

(* Some of the regions are regions.                                          *)
LEMMA RestrictedIs ==
  ASSUME NEW rs, AreRegions(rs), NEW D \in SUBSET (DOMAIN rs)
  PROVE  /\ AreRegions(R!Restrict(rs, D)) /\ DOMAIN R!Restrict(rs, D) = D
         /\ \A r \in D : R!Restrict(rs, D)[r] = rs[r]
<1> DEFINE t == R!Restrict(rs, D)
<1>1. t = [r \in D |-> rs[r]]
  BY DEF R!Restrict
<1> HIDE DEF t
<1>2. DOMAIN t = D /\ (\A r \in D : t[r] = rs[r]) /\ t = [r \in DOMAIN t |-> t[r]]
  BY <1>1
<1>3. DOMAIN t \in SUBSET Nat /\ IsFiniteSet(DOMAIN t)
  BY <1>2, FS_Subset DEF AreRegions
<1>4. AreRegions(t)
  BY <1>2, <1>3 DEF AreRegions
<1> QED
  BY <1>2, <1>4 DEF t

(* Cooling changes the temperatures only.                                    *)
LEMMA CooledIs ==
  ASSUME NEW rs, AreRegions(rs), NEW decay
  PROVE  LET cool == [r \in DOMAIN rs |-> R!Cooled(rs[r], decay)]
         IN  AreRegions(cool) /\ R!SameHistory(cool, rs)
<1> DEFINE cool == [r \in DOMAIN rs |-> R!Cooled(rs[r], decay)]
<1>1. DOMAIN cool = DOMAIN rs /\ (\A r \in DOMAIN rs : cool[r] = R!Cooled(rs[r], decay))
  OBVIOUS
<1>2. cool = [r \in DOMAIN cool |-> cool[r]]
  OBVIOUS
<1>3. ASSUME NEW y, IsRegion(y)
      PROVE  /\ IsRegion(R!Cooled(y, decay))
             /\ R!Cooled(y, decay).members = y.members
             /\ R!Cooled(y, decay).activations = y.activations
             /\ R!Cooled(y, decay).last = y.last
  <2>1. PICK t : t = (y.temperature * decay) \div Full
    OBVIOUS
  <2>2. R!Cooled(y, decay) = [y EXCEPT !.temperature = t]
    BY <2>1 DEF R!Cooled
  <2> DEFINE x == R!Cooled(y, decay)
  <2>3. x = [members |-> y.members, center |-> y.center, temperature |-> t,
             activations |-> y.activations, last |-> y.last]
    <3>1. x = [y EXCEPT !.temperature = t]
      BY <2>2
    <3> HIDE DEF x
    <3> QED
      BY <1>3, <3>1 DEF IsRegion
  <2> HIDE DEF x
  <2>4. /\ IsRegion(x) /\ x.members = y.members
        /\ x.activations = y.activations /\ x.last = y.last
    BY <2>3 DEF IsRegion
  <2> QED
    BY <2>4 DEF x
<1> HIDE DEF cool
<1>4. AreRegions(cool)
  BY <1>1, <1>2, <1>3 DEF AreRegions
<1>5. R!SameHistory(cool, rs)
  BY <1>1, <1>3 DEF AreRegions, R!SameHistory
<1> QED
  BY <1>4, <1>5 DEF cool

\* nt has the fields of what is noted.
IsNoted(nt) == nt = [inits |-> nt.inits, base |-> nt.base, cooled |-> nt.cooled]

\* What the log lg lets a replay restore of the engine eng, the calls nt having been
\* noted: always the clock; after one initialisation also, of a graph with the nodes
\* and links it had, the history; and the engine itself if nothing has cooled.
Restorable(eng, lg, nt) ==
  /\ IsEngine(eng) /\ lg \in Seq(LogEvents)
  /\ IsNoted(nt)
  /\ nt.inits \in Nat /\ nt.cooled \in BOOLEAN /\ IsGraph(nt.base)
  /\ \A g : GoodGraph(g) =>
       IsEngine(R!ReplayFrom(g, lg)) /\ R!ReplayFrom(g, lg).clock = eng.clock
  /\ nt.inits = 0 => DOMAIN eng.regions = {} /\ \A b : R!Replay(b, lg) = b
  /\ nt.inits = 1 =>
       /\ \A g : GoodGraph(g) /\ R!SameStructure(g, nt.base) =>
            R!SameHistory(eng.regions, R!ReplayFrom(g, lg).regions)
       /\ nt.cooled = FALSE => R!ReplayFrom(nt.base, lg) = eng

(* A log to which idle events are added restores the same.                   *)
LEMMA IdleRestorable ==
  ASSUME NEW eng, NEW lg, NEW nt, Restorable(eng, lg, nt), NEW t \in Seq(LogEvents),
         \A i \in 1..Len(t) : t[i].type \notin {"RegionActivated", "RegionEvicted"}
  PROVE  Restorable(eng, lg \o t, nt)
<1>1. lg \in Seq(LogEvents)
  BY DEF Restorable
<1> DEFINE u == lg \o t
<1>2. u \in Seq(LogEvents)
  BY <1>1
<1>3. \A b : R!Replay(b, u) = R!Replay(b, lg)
  BY <1>1, ReplayIdles
<1> HIDE DEF u
<1>4. \A g : R!ReplayFrom(g, u) = R!ReplayFrom(g, lg)
  BY <1>3 DEF R!ReplayFrom
<1>5. Restorable(eng, u, nt)
  BY <1>2, <1>3, <1>4 DEF Restorable
<1> QED
  BY <1>5 DEF u

(* Nothing is logged or built at first.                                      *)
LEMMA FirstRestorable ==
  Restorable([regions |-> << >>, clock |-> 0], << >>,
             [inits |-> 0, base |-> R!FreshGraph({}, {}), cooled |-> FALSE])
<1> DEFINE eng == [regions |-> << >>, clock |-> 0]
           nt == [inits |-> 0, base |-> R!FreshGraph({}, {}), cooled |-> FALSE]
<1>1. \A b : R!Replay(b, << >>) = b
  <2> TAKE b
  <2> DEFINE f == [i \in 0..0 |-> b]
  <2>1. Len(<< >>) = 0
    OBVIOUS
  <2>2. IsReplay(f, b, << >>) /\ f[0] = b
    BY <2>1 DEF IsReplay
  <2> HIDE DEF f
  <2> QED
    BY <2>1, <2>2, ReplayIs
<1>2. \A g : R!ReplayFrom(g, << >>) = [regions |-> R!Built(g), clock |-> 0]
  BY <1>1 DEF R!ReplayFrom
<1>3. \A g : GoodGraph(g) =>
        IsEngine(R!ReplayFrom(g, << >>)) /\ R!ReplayFrom(g, << >>).clock = 0
  BY <1>2, BuiltIs DEF IsEngine
<1>4. IsGraph(R!FreshGraph({}, {}))
  BY DEF IsGraph, GoodGraph, R!FreshGraph
<1>5. IsEngine(eng) /\ DOMAIN eng.regions = {} /\ eng.clock = 0
  <2>1. DOMAIN << >> = {} /\ << >> = [r \in DOMAIN << >> |-> << >>[r]]
    OBVIOUS
  <2>2. AreRegions(<< >>)
    BY <2>1, FS_EmptySet DEF AreRegions
  <2> QED
    BY <2>1, <2>2 DEF IsEngine
<1>6. << >> \in Seq(LogEvents)
  OBVIOUS
<1>7. /\ IsNoted(nt)
      /\ nt.inits = 0 /\ nt.cooled \in BOOLEAN /\ IsGraph(nt.base)
  BY <1>4 DEF IsNoted
<1> HIDE DEF eng, nt
<1> QED
  BY <1>1, <1>3, <1>5, <1>6, <1>7 DEF Restorable, eng, nt

(* An initialisation builds what a replay starts with.                       *)
LEMMA InitializedRestorable ==
  ASSUME NEW eng, NEW lg, NEW nt, Restorable(eng, lg, nt), NEW g, IsGraph(g)
  PROVE  LET eng2 == [eng EXCEPT !.regions = R!Built(g)]
         IN  Restorable(eng2, lg \o R!Announced(eng2.regions),
                        [nt EXCEPT !.inits = @ + 1, !.base = g])
<1> DEFINE eng2 == [eng EXCEPT !.regions = R!Built(g)]
           t == R!Announced(eng2.regions)
           u == lg \o t
           nt2 == [nt EXCEPT !.inits = @ + 1, !.base = g]
<1>1. /\ IsEngine(eng) /\ lg \in Seq(LogEvents)
      /\ IsNoted(nt)
      /\ nt.inits \in Nat /\ nt.cooled \in BOOLEAN
  BY DEF Restorable
<1>2. /\ GoodGraph(g) /\ AreRegions(R!Built(g))
      /\ \A r \in DOMAIN R!Built(g) :
           /\ R!Built(g)[r].members = R!ClusterNodes(g)[r]
           /\ R!Built(g)[r].activations = 0
           /\ R!Built(g)[r].last = 0
  BY BuiltIs DEF IsGraph
<1>3. eng2 = [regions |-> R!Built(g), clock |-> eng.clock]
  BY <1>1 DEF IsEngine
<1>4. nt2 = [inits |-> nt.inits + 1, base |-> g, cooled |-> nt.cooled]
  <2>1. nt2 = [nt EXCEPT !.inits = nt.inits + 1, !.base = g] /\ IsNoted(nt)
    BY <1>1
  <2> HIDE DEF nt2
  <2> QED
    BY <2>1 DEF IsNoted
<1>5. t \in Seq(Announcements)
  <2>1. eng2.regions = R!Built(g)
    BY <1>3
  <2> HIDE DEF eng2
  <2> QED
    BY <1>2, <2>1, AnnouncedIs DEF AreRegions
<1> HIDE DEF eng2, nt2, t
<1>6. /\ t \in Seq(LogEvents)
      /\ \A i \in 1..Len(t) : t[i].type \notin {"RegionActivated", "RegionEvicted"}
  <2>1. \A e \in Announcements :
          e.type \notin {"RegionActivated", "RegionEvicted"} /\ e \in LogEvents
    BY DEF Announcements, LogEvents
  <2>2. \A i \in 1..Len(t) : t[i] \in Announcements
    BY <1>5
  <2>3. t \in [1..Len(t) -> LogEvents] /\ Len(t) \in Nat
    BY <1>5, <2>1, <2>2
  <2>4. t \in Seq(LogEvents)
    BY <2>3
  <2> QED
    BY <2>1, <2>2, <2>4
<1>7. u \in Seq(LogEvents) /\ \A b : R!Replay(b, u) = R!Replay(b, lg)
  BY <1>1, <1>6, ReplayIdles
<1> HIDE DEF u
<1>8. \A h : R!ReplayFrom(h, u) = R!ReplayFrom(h, lg)
  BY <1>7 DEF R!ReplayFrom
<1>9. IsEngine(eng2)
  BY <1>1, <1>2, <1>3 DEF IsEngine
<1>10. \A h : GoodGraph(h) =>
         IsEngine(R!ReplayFrom(h, u)) /\ R!ReplayFrom(h, u).clock = eng2.clock
  BY <1>3, <1>8 DEF Restorable
<1>11. ASSUME nt2.inits = 1
       PROVE  /\ \A h : GoodGraph(h) /\ R!SameStructure(h, g) =>
                   R!SameHistory(eng2.regions, R!ReplayFrom(h, u).regions)
              /\ R!ReplayFrom(g, u) = eng2
  <2>1. nt.inits = 0
    BY <1>1, <1>4, <1>11
  <2>2. \A b : R!Replay(b, u) = b
    BY <1>7, <2>1 DEF Restorable
  <2>3. \A h : R!ReplayFrom(h, u) = [regions |-> R!Built(h), clock |-> 0]
    BY <2>2 DEF R!ReplayFrom
  <2>4. eng2.clock = 0
    BY <1>2, <1>10, <2>3
  <2>5. R!ReplayFrom(g, u) = eng2
    BY <1>3, <2>3, <2>4
  <2>6. ASSUME NEW h, GoodGraph(h), R!SameStructure(h, g)
        PROVE  R!SameHistory(R!Built(g), R!Built(h))
    <3>1. R!ClusterNodes(h) = R!ClusterNodes(g)
      BY <2>6, ClusteredByStructure
    <3>2. /\ DOMAIN R!Built(h) = DOMAIN R!ClusterNodes(h)
          /\ DOMAIN R!Built(g) = DOMAIN R!ClusterNodes(g)
          /\ \A r \in DOMAIN R!Built(h) :
               /\ R!Built(h)[r].members = R!ClusterNodes(h)[r]
               /\ R!Built(h)[r].activations = 0
               /\ R!Built(h)[r].last = 0
      BY <1>2, <2>6, BuiltIs
    <3> QED
      BY <1>2, <3>1, <3>2 DEF R!SameHistory
  <2> QED
    BY <1>3, <2>3, <2>5, <2>6
<1>12. /\ IsNoted(nt2)
       /\ nt2.inits \in Nat /\ nt2.inits # 0 /\ nt2.base = g /\ nt2.cooled \in BOOLEAN
  BY <1>1, <1>4 DEF IsNoted
<1>13. Restorable(eng2, u, nt2)
  BY <1>7, <1>9, <1>10, <1>11, <1>12 DEF Restorable
<1> QED
  BY <1>13 DEF eng2, u, nt2, t

(* An activation is replayed as it was made.                                 *)
LEMMA ActivatedRestorable ==
  ASSUME NEW eng, NEW lg, NEW nt, Restorable(eng, lg, nt), NEW r \in DOMAIN eng.regions
  PROVE  Restorable([regions |-> [eng.regions EXCEPT ![r] = R!Activated(@, eng.clock)],
                     clock |-> eng.clock + 1],
                    lg \o <<R!Event("RegionActivated", r, eng.clock),
                            R!Event("ContextWindowGenerated", r, 0)>>,
                    nt)
<1> DEFINE rs == [eng.regions EXCEPT ![r] = R!Activated(@, eng.clock)]
           eng2 == [regions |-> rs, clock |-> eng.clock + 1]
           e == R!Event("RegionActivated", r, eng.clock)
           w == R!Event("ContextWindowGenerated", r, 0)
           u == lg \o <<e, w>>
<1>1. /\ IsEngine(eng) /\ lg \in Seq(LogEvents) /\ nt.inits \in Nat /\ nt.inits # 0
      /\ r \in Nat /\ eng.clock \in Nat /\ AreRegions(eng.regions)
  BY DEF Restorable, IsEngine, AreRegions
<1>2. e \in LogEvents /\ w \in LogEvents
  BY <1>1 DEF R!Event, LogEvents, RegionEvents
<1>3. u \in Seq(LogEvents)
  <2> HIDE DEF e, w
  <2> QED
    BY <1>1, <1>2
<1>4. \A b : R!Replay(b, u) = R!ReplayEvent(R!Replay(b, lg), e)
  BY <1>1, <1>2, ReplayActivates
<1> HIDE DEF e, w, u
<1>5. \A g : R!ReplayFrom(g, u) = R!ReplayEvent(R!ReplayFrom(g, lg), e)
  BY <1>4 DEF R!ReplayFrom
<1>6. ASSUME NEW x, IsEngine(x), x.clock = eng.clock
      PROVE  /\ R!ReplayEvent(x, e)
                  = [regions |-> IF r \in DOMAIN x.regions
                                 THEN [x.regions EXCEPT ![r] = R!Activated(@, eng.clock)]
                                 ELSE x.regions,
                     clock |-> eng.clock + 1]
             /\ IsEngine(R!ReplayEvent(x, e))
  <2>1. e = R!Event("RegionActivated", r, x.clock)
    BY <1>6 DEF e
  <2> QED
    BY <1>1, <1>6, <2>1, ActivationReplayed
<1>7. AreRegions(rs) /\ DOMAIN rs = DOMAIN eng.regions
      /\ (\A q \in DOMAIN eng.regions \ {r} : rs[q] = eng.regions[q])
      /\ rs[r].members = eng.regions[r].members
      /\ rs[r].activations = eng.regions[r].activations + 1
      /\ rs[r].last = eng.clock
  BY <1>1, RaisedIs
<1> HIDE DEF rs
<1>8. IsEngine(eng2) /\ eng2.clock = eng.clock + 1 /\ eng2.regions = rs
  BY <1>1, <1>7 DEF IsEngine
<1>9. R!ReplayEvent(eng, e) = eng2
  BY <1>1, <1>6 DEF rs
<1> HIDE DEF eng2
<1>10. ASSUME NEW g, GoodGraph(g)
       PROVE  IsEngine(R!ReplayFrom(g, u)) /\ R!ReplayFrom(g, u).clock = eng2.clock
  <2> DEFINE x == R!ReplayFrom(g, lg)
             y == R!ReplayFrom(g, u)
  <2>1. IsEngine(x) /\ x.clock = eng.clock
    BY <1>10 DEF Restorable
  <2>2. y = R!ReplayEvent(x, e)
    BY <1>5
  <2> HIDE DEF x, y
  <2>3. IsEngine(y) /\ y.clock = eng.clock + 1
    BY <1>6, <2>1, <2>2
  <2> QED
    BY <1>8, <2>3 DEF y
<1>11. ASSUME nt.inits = 1, NEW g, GoodGraph(g), R!SameStructure(g, nt.base)
       PROVE  R!SameHistory(rs, R!ReplayFrom(g, u).regions)
  <2> DEFINE x == R!ReplayFrom(g, lg)
             xs == x.regions
             ys == [xs EXCEPT ![r] = R!Activated(@, eng.clock)]
             y == R!ReplayFrom(g, u)
  <2>1. IsEngine(x) /\ x.clock = eng.clock /\ R!SameHistory(eng.regions, xs)
    BY <1>11 DEF Restorable
  <2>2. y = R!ReplayEvent(x, e)
    BY <1>5
  <2>3. DOMAIN xs = DOMAIN eng.regions /\ AreRegions(xs)
    BY <2>1 DEF R!SameHistory, IsEngine
  <2> HIDE DEF x, y
  <2>4. y.regions = ys
    BY <1>6, <2>1, <2>2, <2>3
  <2>5. /\ DOMAIN ys = DOMAIN xs /\ (\A q \in DOMAIN xs \ {r} : ys[q] = xs[q])
        /\ ys[r].members = xs[r].members
        /\ ys[r].activations = xs[r].activations + 1
        /\ ys[r].last = eng.clock
    BY <2>3, RaisedIs
  <2> HIDE DEF ys, xs
  <2>6. R!SameHistory(rs, ys)
    BY <1>7, <2>1, <2>3, <2>5 DEF R!SameHistory
  <2> QED
    BY <2>4, <2>6 DEF y
<1>12. nt.inits = 1 /\ nt.cooled = FALSE => R!ReplayFrom(nt.base, u) = eng2
  BY <1>5, <1>9 DEF Restorable
<1>13. Restorable(eng2, u, nt)
  BY <1>1, <1>3, <1>8, <1>10, <1>11, <1>12 DEF Restorable
<1> QED
  BY <1>13 DEF eng2, rs, u, e, w

(* The events of a cooling evict the regions that it takes away.             *)
LEMMA EvictionsAre ==
  ASSUME NEW evicted \in SUBSET Nat, IsFiniteSet(evicted)
  PROVE  LET t == [i \in 1..R!Cardinality(evicted) |->
                     R!Event("RegionEvicted", R!InOrder(evicted)[i], 0)]
         IN  t \in Seq(LogEvents) /\ Evicts(t, evicted)
<1> DEFINE n == Cardinality(evicted)
           c == R!InOrder(evicted)
           t == [i \in 1..n |-> R!Event("RegionEvicted", c[i], 0)]
<1>1. /\ n \in Nat /\ R!Cardinality(evicted) = n
      /\ (\A i \in 1..n : c[i] \in evicted)
      /\ (\A r \in evicted : \E i \in 1..n : c[i] = r)
  BY InOrderIs
<1> HIDE DEF n, c
<1>2. /\ Len(t) = n
      /\ \A i \in 1..n : t[i].type = "RegionEvicted" /\ t[i].region = c[i]
  BY <1>1 DEF R!Event
<1>3. t \in Seq(LogEvents)
  <2>1. \A i \in 1..n : R!Event("RegionEvicted", c[i], 0) \in LogEvents
    BY <1>1 DEF R!Event, LogEvents, RegionEvents
  <2> QED
    BY <1>1, <2>1
<1>4. Evicts(t, evicted)
  <2> HIDE DEF t
  <2> QED
    BY <1>1, <1>2 DEF Evicts
<1> QED
  BY <1>1, <1>3, <1>4 DEF c

(* An eviction is replayed, cooling is not.                                  *)
LEMMA CooledRestorable ==
  ASSUME NEW eng, NEW lg, NEW nt, Restorable(eng, lg, nt),
         NEW cool, AreRegions(cool), R!SameHistory(cool, eng.regions),
         NEW evicted \in SUBSET (DOMAIN cool),
         NEW t \in Seq(LogEvents), Evicts(t, evicted)
  PROVE  Restorable([eng EXCEPT !.regions = R!Restrict(cool, DOMAIN cool \ evicted)],
                    lg \o t,
                    [nt EXCEPT !.cooled = TRUE])
<1> DEFINE D == DOMAIN eng.regions \ evicted
           cs == R!Restrict(cool, D)
           eng2 == [eng EXCEPT !.regions = R!Restrict(cool, DOMAIN cool \ evicted)]
           u == lg \o t
           nt2 == [nt EXCEPT !.cooled = TRUE]
<1>1. /\ IsEngine(eng) /\ lg \in Seq(LogEvents) /\ nt.inits \in Nat /\ IsGraph(nt.base)
      /\ IsNoted(nt)
  BY DEF Restorable
<1>7. u \in Seq(LogEvents)
  BY <1>1
<1>8. DOMAIN cool = DOMAIN eng.regions
  BY DEF R!SameHistory
<1>9. AreRegions(cs) /\ DOMAIN cs = D /\ \A r \in D : cs[r] = cool[r]
  BY <1>8, RestrictedIs
<1> HIDE DEF cs
<1>10. eng2 = [regions |-> cs, clock |-> eng.clock]
  <2>1. eng2 = [eng EXCEPT !.regions = cs]
    BY <1>8 DEF cs
  <2> HIDE DEF eng2
  <2> QED
    BY <1>1, <2>1 DEF IsEngine
<1>11. nt2 = [inits |-> nt.inits, base |-> nt.base, cooled |-> TRUE]
  <2>1. nt2 = [nt EXCEPT !.cooled = TRUE] /\ IsNoted(nt)
    BY <1>1
  <2> HIDE DEF nt2
  <2> QED
    BY <2>1 DEF IsNoted
<1> HIDE DEF eng2, nt2
<1>12. ASSUME NEW b, IsEngine(R!Replay(b, lg))
       PROVE  R!Replay(b, u) = [regions |-> R!Restrict(R!Replay(b, lg).regions,
                                  DOMAIN R!Replay(b, lg).regions \ evicted),
                                clock |-> R!Replay(b, lg).clock]
  <2>1. lg \in Seq(LogEvents)
    BY <1>1
  <2>2. t \in Seq(LogEvents) /\ Evicts(t, evicted) /\ IsEngine(R!Replay(b, lg))
    BY <1>12
  <2> QED
    BY <2>1, <2>2, ReplayEvicts, ZenonT(30)
<1>13. nt.inits = 0 => \A b : R!Replay(b, u) = R!Replay(b, lg)
  <2> SUFFICES ASSUME nt.inits = 0, NEW b PROVE R!Replay(b, u) = R!Replay(b, lg)
    OBVIOUS
  <2>1. evicted = {}
    BY <1>8 DEF Restorable
  <2>2. \A i \in 1..Len(t) : t[i].type \notin {"RegionActivated", "RegionEvicted"}
    BY <2>1 DEF Evicts
  <2> QED
    BY <1>1, <2>2, ReplayIdles
<1> HIDE DEF u
<1>14. IsEngine(eng2)
  BY <1>1, <1>9, <1>10 DEF IsEngine
<1>15. ASSUME NEW g, GoodGraph(g)
       PROVE  IsEngine(R!ReplayFrom(g, u)) /\ R!ReplayFrom(g, u).clock = eng2.clock
  <2> DEFINE x == R!ReplayFrom(g, lg)
             xs == x.regions
             y == R!ReplayFrom(g, u)
  <2>1. IsEngine(x) /\ x.clock = eng.clock
    BY <1>15 DEF Restorable
  <2>2. y = [regions |-> R!Restrict(xs, DOMAIN xs \ evicted), clock |-> x.clock]
    BY <1>12, <2>1 DEF R!ReplayFrom
  <2> HIDE DEF x, y
  <2>3. AreRegions(R!Restrict(xs, DOMAIN xs \ evicted)) /\ eng.clock \in Nat
    BY <1>1, <2>1, RestrictedIs DEF IsEngine
  <2>4. IsEngine(y) /\ y.clock = eng.clock
    BY <2>1, <2>2, <2>3 DEF IsEngine
  <2> QED
    BY <1>10, <2>4 DEF y
<1>16. ASSUME nt.inits = 1, NEW g, GoodGraph(g), R!SameStructure(g, nt.base)
       PROVE  R!SameHistory(cs, R!ReplayFrom(g, u).regions)
  <2> DEFINE x == R!ReplayFrom(g, lg)
             xs == x.regions
             ys == R!Restrict(xs, DOMAIN xs \ evicted)
             y == R!ReplayFrom(g, u)
  <2>1. IsEngine(x) /\ R!SameHistory(eng.regions, xs)
    BY <1>16 DEF Restorable
  <2>2. y = [regions |-> ys, clock |-> x.clock]
    BY <1>12, <2>1 DEF R!ReplayFrom
  <2> HIDE DEF x, y
  <2>3. AreRegions(xs)
    BY <2>1 DEF IsEngine
  <2>4. DOMAIN ys = DOMAIN xs \ evicted /\ \A r \in DOMAIN ys : ys[r] = xs[r]
    BY <2>3, RestrictedIs
  <2>5. y.regions = ys
    BY <2>2
  <2> HIDE DEF xs, ys
  <2>6. R!SameHistory(cs, ys)
    BY <1>8, <1>9, <2>1, <2>4 DEF R!SameHistory
  <2> QED
    BY <2>5, <2>6 DEF y
<1>17. nt.inits = 0 => DOMAIN cs = {}
  BY <1>9 DEF Restorable
<1>18. Restorable(eng2, u, nt2)
  <2>1. nt2.inits = 0 => DOMAIN eng2.regions = {} /\ \A b : R!Replay(b, u) = b
    BY <1>10, <1>11, <1>13, <1>17 DEF Restorable
  <2>2. /\ IsNoted(nt2)
        /\ nt2.inits = nt.inits /\ nt2.base = nt.base /\ nt2.cooled = TRUE
    BY <1>11 DEF IsNoted
  <2>3. eng2.regions = cs
    BY <1>10
  <2> QED
    BY <1>1, <1>7, <1>14, <1>15, <1>16, <2>1, <2>2, <2>3 DEF Restorable
<1> QED
  BY <1>18 DEF eng2, u, nt2

\* The graph is one, and the log restores the engine.
Recorded == IsGraph(graph) /\ Restorable(engine, log, noted)

(* The log is empty and restores an engine without regions.                  *)
LEMMA InitRecorded == R!Init => Recorded
<1> SUFFICES ASSUME R!Init PROVE Recorded
  OBVIOUS
<1>1. GoodGraph(graph)
  BY RegionsInit
<1>2. IsGraph(graph)
  <2>1. PICK nodes, links : graph = R!FreshGraph(nodes, links)
    BY DEF R!Init
  <2>2. graph = [nodes |-> nodes, links |-> links, energy |-> [n \in nodes |-> R!Fresh]]
    BY <2>1 DEF R!FreshGraph
  <2>3. graph = [nodes |-> graph.nodes, links |-> graph.links, energy |-> graph.energy]
    BY <2>2
  <2> QED
    BY <1>1, <2>3 DEF IsGraph
<1>3. /\ engine = [regions |-> << >>, clock |-> 0] /\ log = << >>
      /\ noted = [inits |-> 0, base |-> R!FreshGraph({}, {}), cooled |-> FALSE]
  BY DEF R!Init
<1> QED
  BY Zenon, <1>2, <1>3, FirstRestorable DEF Recorded

(* Whatever the engine does, or the graph below it, the log keeps up.        *)
LEMMA NextRecorded == Recorded /\ [R!Next]_(R!vars) => Recorded'
<1> SUFFICES ASSUME Recorded, [R!Next]_(R!vars) PROVE Recorded'
  OBVIOUS
<1>0. IsGraph(graph) /\ GoodGraph(graph) /\ Restorable(engine, log, noted)
  BY DEF Recorded, IsGraph
<1>a. GoodGraph(graph')
  BY <1>0, RegionsStep
<1>b. ASSUME graph' = [nodes |-> graph'.nodes, links |-> graph'.links, energy |-> graph'.energy]
      PROVE  IsGraph(graph')
  BY <1>a, <1>b DEF IsGraph
<1>c. ASSUME IsGraph(graph'), Restorable(engine', log', noted') PROVE Recorded'
  BY <1>c DEF Recorded, IsGraph
<1>1. CASE R!GraphNext
  <2>1. UNCHANGED <<engine, log, noted>>
    BY <1>1 DEF R!GraphNext, R!Upsert, R!RemoveNode, R!Rescore, R!AddLink
  <2>2. \E x, y, z : graph' = [nodes |-> x, links |-> y, energy |-> z]
    <3>0. graph = [nodes |-> graph.nodes, links |-> graph.links, energy |-> graph.energy]
      BY <1>0 DEF IsGraph
    <3>1. ASSUME NEW n \in Nodes, R!Upsert(n)
          PROVE  \E x, y, z : graph' = [nodes |-> x, links |-> y, energy |-> z]
      <4>1. PICK x, z : graph' = [graph EXCEPT !.nodes = x, !.energy = z]
        BY Zenon, <3>1 DEF R!Upsert
      <4>2. graph' = [nodes |-> x, links |-> graph.links, energy |-> z]
        BY <1>0, <4>1 DEF IsGraph
      <4> QED
        BY <4>2
    <3>2. ASSUME NEW n \in Nodes, R!RemoveNode(n)
          PROVE  \E x, y, z : graph' = [nodes |-> x, links |-> y, energy |-> z]
      BY Zenon, <3>2 DEF R!RemoveNode
    <3>3. ASSUME NEW n \in Nodes, NEW e \in Energies, R!Rescore(n, e)
          PROVE  \E x, y, z : graph' = [nodes |-> x, links |-> y, energy |-> z]
      <4>1. PICK z : graph' = [graph EXCEPT !.energy = z]
        BY Zenon, <3>3 DEF R!Rescore
      <4>2. graph' = [nodes |-> graph.nodes, links |-> graph.links, energy |-> z]
        BY <1>0, <4>1 DEF IsGraph
      <4> QED
        BY <4>2
    <3>4. ASSUME NEW e \in Links, R!AddLink(e)
          PROVE  \E x, y, z : graph' = [nodes |-> x, links |-> y, energy |-> z]
      <4>1. PICK y : graph' = [graph EXCEPT !.links = y]
        BY Zenon, <3>4 DEF R!AddLink
      <4>2. graph' = [nodes |-> graph.nodes, links |-> y, energy |-> graph.energy]
        BY <1>0, <4>1 DEF IsGraph
      <4> QED
        BY <4>2
    <3> QED
      BY <1>1, <3>1, <3>2, <3>3, <3>4 DEF R!GraphNext
  <2>3. graph' = [nodes |-> graph'.nodes, links |-> graph'.links, energy |-> graph'.energy]
    <3>1. PICK x, y, z : graph' = [nodes |-> x, links |-> y, energy |-> z]
      BY <2>2
    <3> QED
      BY <3>1
  <2> QED
    BY Zenon, <1>0, <1>b, <1>c, <2>1, <2>3
<1>2. CASE R!RecordGraph
  <2> DEFINE e == R!GraphEvent(graph)
             t == <<e>>
  <2>1. UNCHANGED <<graph, engine, noted>> /\ log' = Append(log, e)
    BY <1>2 DEF R!RecordGraph
  <2>2. e \in LogEvents /\ e.type = "Graph"
    <3>1. graph.nodes \in SUBSET Nodes /\ graph.links \in SUBSET (graph.nodes \X graph.nodes)
      BY <1>0 DEF GoodGraph
    <3>2. graph.links \in SUBSET (Nodes \X Nodes)
      BY <3>1
    <3>3. e = [type |-> "Graph", nodes |-> graph.nodes, links |-> graph.links]
      BY DEF R!GraphEvent
    <3> HIDE DEF e
    <3>4. e \in [type : {"Graph"}, nodes : SUBSET Nodes, links : SUBSET (Nodes \X Nodes)]
      BY <3>1, <3>2, <3>3
    <3>5. e.links \subseteq e.nodes \X e.nodes /\ e.type = "Graph"
      BY <3>1, <3>3
    <3> QED
      BY <3>4, <3>5 DEF LogEvents, GraphEvents
  <2> HIDE DEF e
  <2>3. /\ t \in Seq(LogEvents)
        /\ \A i \in 1..Len(t) : t[i].type \notin {"RegionActivated", "RegionEvicted"}
    BY <2>2
  <2>4. log' = log \o t
    <3>1. log \in Seq(LogEvents)
      BY <1>0 DEF Restorable
    <3> QED
      BY <2>1, <2>2, <3>1
  <2> HIDE DEF t
  <2>5. Restorable(engine, log \o t, noted)
    BY <1>0, <2>3, IdleRestorable
  <2> QED
    BY Zenon, <1>0, <1>c, <2>1, <2>4, <2>5
<1>3. CASE R!InitializeRegions
  <2>1. /\ graph' = graph
        /\ engine' = [engine EXCEPT !.regions = R!Built(graph)]
        /\ log' = log \o R!Announced(engine'.regions)
        /\ noted' = [noted EXCEPT !.inits = @ + 1, !.base = graph]
    BY <1>3 DEF R!InitializeRegions
  <2>2. LET eng2 == [engine EXCEPT !.regions = R!Built(graph)]
        IN  Restorable(eng2, log \o R!Announced(eng2.regions),
                       [noted EXCEPT !.inits = @ + 1, !.base = graph])
    BY <1>0, InitializedRestorable
  <2> QED
    BY Zenon, <1>0, <1>c, <2>1, <2>2
<1>4. ASSUME NEW r \in R!HottestRegion \cup UNION {R!RegionOf(n) : n \in Nodes},
             R!ActivateRegion(r)
      PROVE  Recorded'
  <2>1. r \in DOMAIN engine.regions
    BY DEF R!HottestRegion, R!RegionOf
  <2>2. /\ engine' = [regions |-> [engine.regions EXCEPT ![r] = R!Activated(@, engine.clock)],
                      clock |-> engine.clock + 1]
        /\ log' = log \o <<R!Event("RegionActivated", r, engine.clock),
                           R!Event("ContextWindowGenerated", r, 0)>>
        /\ UNCHANGED <<graph, noted>>
    BY <1>4 DEF R!ActivateRegion
  <2>3. Restorable([regions |-> [engine.regions EXCEPT ![r] = R!Activated(@, engine.clock)],
                    clock |-> engine.clock + 1],
                   log \o <<R!Event("RegionActivated", r, engine.clock),
                            R!Event("ContextWindowGenerated", r, 0)>>,
                   noted)
    BY <1>0, <2>1, ActivatedRestorable
  <2> QED
    BY Zenon, <1>0, <1>c, <2>2, <2>3
<1>5. ASSUME NEW decay, NEW floor, R!TickCooldown(decay, floor) PROVE Recorded'
  <2> DEFINE cool == [r \in DOMAIN engine.regions |-> R!Cooled(engine.regions[r], decay)]
             evicted == {r \in DOMAIN cool : cool[r].temperature < floor}
  <2>1. /\ engine' = [engine EXCEPT !.regions = R!Restrict(cool, DOMAIN cool \ evicted)]
        /\ log' = log \o [i \in 1..R!Cardinality(evicted) |->
                            R!Event("RegionEvicted", R!InOrder(evicted)[i], 0)]
        /\ noted' = [noted EXCEPT !.cooled = TRUE]
        /\ graph' = graph
    BY Zenon, <1>5 DEF R!TickCooldown
  <2> DEFINE t == [i \in 1..R!Cardinality(evicted) |->
                          R!Event("RegionEvicted", R!InOrder(evicted)[i], 0)]
  <2>2. AreRegions(engine.regions)
    BY <1>0 DEF Restorable, IsEngine
  <2>3. AreRegions(cool) /\ R!SameHistory(cool, engine.regions)
    BY <2>2, CooledIs
  <2>4. evicted \in SUBSET (DOMAIN cool)
    OBVIOUS
  <2> HIDE DEF cool, evicted
  <2>5. evicted \in SUBSET Nat /\ IsFiniteSet(evicted)
    BY <2>3, <2>4, FS_Subset DEF AreRegions
  <2>6. t \in Seq(LogEvents) /\ Evicts(t, evicted)
    BY <2>5, EvictionsAre
  <2> HIDE DEF t
  <2>7. Restorable([engine EXCEPT !.regions = R!Restrict(cool, DOMAIN cool \ evicted)],
                   log \o t,
                   [noted EXCEPT !.cooled = TRUE])
    BY <1>0, <2>3, <2>4, <2>6, CooledRestorable
  <2> QED
    BY Zenon, <1>0, <1>c, <2>1, <2>7 DEF t
<1>6. CASE UNCHANGED R!vars
  BY Zenon, <1>0, <1>6, <1>c DEF R!vars
<1> QED
  BY <1>1, <1>2, <1>3, <1>4, <1>5, <1>6 DEF R!Next

(* The graph that a log records.                                             *)
LEMMA RebuiltIs ==
  ASSUME NEW lg \in Seq(LogEvents)
  PROVE  /\ IsGraph(R!Rebuilt(lg))
         /\ R!Rebuilt(lg).energy = [n \in R!Rebuilt(lg).nodes |-> R!Warmth(R!Times(lg, n))]
<1> DEFINE recorded == {lg[i] : i \in {j \in DOMAIN lg : lg[j].type = "Graph"}}
           N == UNION {e.nodes : e \in recorded}
           L == UNION {e.links : e \in recorded}
           en == [n \in N |-> R!Warmth(R!Times(lg, n))]
           h == [nodes |-> N, links |-> L, energy |-> en]
<1>1. R!Rebuilt(lg) = h
  BY DEF R!Rebuilt
<1>2. \A e \in recorded : e \in LogEvents /\ e.type = "Graph"
  OBVIOUS
<1>3. \A e \in LogEvents : e.type = "Graph" => e \in GraphEvents
  BY DEF LogEvents, RegionEvents, Announcements
<1>4. \A e \in GraphEvents : e.nodes \in SUBSET Nodes /\ e.links \subseteq e.nodes \X e.nodes
  BY DEF GraphEvents
<1> HIDE DEF recorded
<1>5. N \in SUBSET Nodes
  BY <1>2, <1>3, <1>4
<1>6. L \in SUBSET (N \X N)
  <2> SUFFICES ASSUME NEW x \in L PROVE x \in N \X N
    OBVIOUS
  <2>1. PICK e \in recorded : x \in e.links
    OBVIOUS
  <2>2. x \in e.nodes \X e.nodes
    BY <1>2, <1>3, <1>4, <2>1
  <2>3. e.nodes \subseteq N
    OBVIOUS
  <2> HIDE DEF N
  <2> QED
    BY <2>2, <2>3
<1>7. h.nodes = N /\ h.links = L /\ h.energy = en
  OBVIOUS
<1> HIDE DEF N, L
<1>8. h = [nodes |-> h.nodes, links |-> h.links, energy |-> h.energy]
  OBVIOUS
<1> HIDE DEF h
<1> QED
  BY <1>1, <1>5, <1>6, <1>7, <1>8 DEF IsGraph, GoodGraph

(* A replay of the log restores the engine as far as the log has it: the     *)
(* clock always; and where the log holds the graph of the one initialisation,*)
(* members and activations of the regions that are left, or all of them if   *)
(* its nodes were rated then as the log has them and nothing has cooled.     *)
THEOREM ReplaysRestore == R!Spec => []ReplayRestoresEngine
<1>1. ASSUME Recorded PROVE ReplayRestoresEngine
  <2> DEFINE h == R!Rebuilt(log)
             base == noted.base
             replayed == R!ReplayFrom(h, log)
  <2>1. Restorable(engine, log, noted) /\ IsGraph(base) /\ noted.cooled \in BOOLEAN
    BY <1>1 DEF Recorded, Restorable
  <2>2. IsGraph(h) /\ h.energy = [n \in h.nodes |-> R!Warmth(R!Times(log, n))]
    <3>1. log \in Seq(LogEvents)
      BY <2>1 DEF Restorable
    <3> QED
      BY <3>1, RebuiltIs
  <2> HIDE DEF h, base
  <2>3. GoodGraph(h)
    BY <2>2 DEF IsGraph
  <2>4. replayed.clock = engine.clock
    BY <2>1, <2>3 DEF Restorable
  <2>5. ASSUME noted.inits = 1, R!SameStructure(base, h)
        PROVE  R!SameHistory(engine.regions, replayed.regions)
    <3>1. R!SameStructure(h, base)
      BY <2>5 DEF R!SameStructure
    <3> QED
      BY <2>1, <2>3, <2>5, <3>1 DEF Restorable, base
  <2>6. ASSUME noted.inits = 1, R!SameStructure(base, h), R!AsRecorded, ~noted.cooled
        PROVE  replayed = engine
    <3>1. /\ base.energy = [n \in base.nodes |-> R!Warmth(R!Times(log, n))]
          /\ noted.cooled = FALSE
      BY <2>1, <2>6 DEF R!AsRecorded, base
    <3>2. base.nodes = h.nodes /\ base.links = h.links
      BY <2>6 DEF R!SameStructure
    <3>3. base.energy = h.energy
      BY Zenon, <2>2, <3>1, <3>2
    <3>4. h = [nodes |-> h.nodes, links |-> h.links, energy |-> h.energy]
      BY <2>2 DEF IsGraph
    <3>5. base = [nodes |-> base.nodes, links |-> base.links, energy |-> base.energy]
      BY <2>1 DEF IsGraph
    <3>6. base = h
      BY Zenon, <3>2, <3>3, <3>4, <3>5
    <3>7. R!ReplayFrom(base, log) = engine
      BY <2>1, <2>6, <3>1 DEF Restorable, base
    <3> QED
      BY <3>6, <3>7
  <2> HIDE DEF replayed
  <2>7. R!Replayed = replayed
    BY DEF R!Replayed, replayed, h
  <2> QED
    BY <2>4, <2>5, <2>6, <2>7 DEF ReplayRestoresEngine, R!ReplayRestoresEngine, h, base
<1>2. R!Spec => []Recorded
  BY InitRecorded, NextRecorded, PTL DEF R!Spec
<1> QED
  BY <1>1, <1>2, PTL

-----------------------------------------------------------------------------
(* The three side by side *)

(* Whichever of the three a behaviour is of, it is one of each: what holds of *)
(* a machine by itself holds of the three together.                          *)
THEOREM MachinesAreTheirOwn == AnySpec => Spec /\ RT!Spec /\ R!Spec
<1>1. AnyInit => Init /\ RT!Init /\ R!Init
  BY DEF AnyInit
<1>2. [AnyNext]_<<machine, vars, runtimeVars, regionVars>> =>
        [Next]_vars /\ [RT!Next]_(RT!vars) /\ [R!Next]_(R!vars)
  BY DEF AnyNext, runtimeVars, regionVars, RT!vars, R!vars
<1> QED
  BY <1>1, <1>2, PTL DEF AnySpec, Spec, RT!Spec, R!Spec

=============================================================================

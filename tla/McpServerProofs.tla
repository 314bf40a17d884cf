-------------------------- MODULE McpServerProofs ---------------------------
(***************************************************************************)
(* Two facts of the server of McpServer, for any files, contents, store    *)
(* capacity and number of lines: what it reports without a warning is      *)
(* durable, and the originals behind the last window stay retrievable.     *)
(***************************************************************************)
EXTENDS McpServer, FiniteSetTheorems, WellFoundedInduction, TLAPS

-----------------------------------------------------------------------------
(* The least of some naturals *)

(* Every non-empty set of naturals has a least element.                      *)
LEMMA LeastElement ==
  ASSUME NEW T \in SUBSET Nat, T # {}
  PROVE  \E x \in T : \A y \in T : x <= y
<1> DEFINE R == OpToRel(<, Nat)
<1>1. IsWellFoundedOn(R, Nat)
  BY NatLessThanWellFounded
<1>2. \A y, x \in Nat : y < x => <<y, x>> \in R
  BY DEF OpToRel
<1> HIDE DEF R
<1>3. PICK x \in T : \A y \in T : ~(<<y, x>> \in R)
  BY <1>1, WFMin
<1>4. ASSUME NEW y \in T PROVE x <= y
  <2>1. ~(y < x)
    BY <1>2, <1>3
  <2>2. x \in Nat /\ y \in Nat
    OBVIOUS
  <2>3. QED
    BY <2>1, <2>2
<1>5. QED
  BY <1>4


\* The calls whose reply says that something is durable.
Promising(line) == IsMutatingCall(line) \/ line.call.tool = "sync"

\* The reply of a promising call is "ok" only between the checkpoint that wrote
\* the whole memory to both files and the next line.
ReplyIsBacked ==
  pc = "reply" /\ cur.reply = "ok" /\ Promising(cur.line)
    => mem \subseteq snapshot /\ mem \subseteq sidecar

IInv ==
  /\ cur = [id |-> cur.id, line |-> cur.line, reply |-> cur.reply]
  /\ AckedIsDurable
  /\ pc # "down" => promised \subseteq mem
  /\ pc = "sidecar" => mem \subseteq snapshot
  /\ ReplyIsBacked

LEMMA InitIInv == Init => IInv
  BY DEF Init, IInv, Idle, AckedIsDurable, ReplyIsBacked

(* The end of a process leaves the files as they are.                        *)
LEMMA DownKeeps == IInv /\ Down => IInv'
  BY DEF IInv, Down, Forgotten, Idle, AckedIsDurable, ReplyIsBacked

(* A line that is applied or refused never shrinks the memory, and a reply   *)
(* that follows it at once promises nothing.                                 *)
LEMMA HandleKeeps == IInv /\ Handle => IInv'
<1> SUFFICES ASSUME IInv, Handle PROVE IInv'
  OBVIOUS
<1> DEFINE id == Head(pipe).id
           line == Head(pipe).line
<1>1. /\ pc = "idle"
      /\ Apply(id, line) \/ Refuse(id, line)
      /\ pc' = NextWrite(line)
      /\ UNCHANGED <<snapshot, sidecar, promised>>
  BY DEF Handle
<1>2. mem \subseteq mem'
  BY <1>1 DEF Apply, Refuse
<1>3. /\ cur' = [id |-> cur'.id, line |-> cur'.line, reply |-> cur'.reply]
      /\ cur'.line = line
      /\ cur'.reply = "ok" => line.form = "request"
  <2>1. CASE Apply(id, line)
    BY <2>1 DEF Apply
  <2>2. CASE Refuse(id, line)
    BY <2>2 DEF Refuse
  <2> QED
    BY <1>1, <2>1, <2>2
<1>4. pc' \in {"snapshot", "reply"} /\ ReplyIsBacked'
  BY <1>1, <1>3 DEF NextWrite, ReplyIsBacked, Promising
<1>5. AckedIsDurable' /\ promised' \subseteq mem'
  BY <1>1, <1>2 DEF IInv, AckedIsDurable
<1>6. pc' # "sidecar"
  BY <1>4
<1> HIDE DEF id, line
<1> QED
  BY <1>3, <1>4, <1>5, <1>6 DEF IInv

(* A failed checkpoint leaves no reply that is still "ok".                   *)
LEMMA FailedIsTold ==
  ASSUME IInv, Failed
  PROVE  /\ pc' \in {"reply", "exit"}
         /\ cur' = [id |-> cur'.id, line |-> cur'.line, reply |-> cur'.reply]
         /\ cur'.reply # "ok"
<1>1. pc' \in {"reply", "exit"}
  BY DEF Failed, AfterCheckpoint
<1>2. CASE cur.reply \in {"ok", "isError"}
  BY <1>1, <1>2 DEF Failed, IInv
<1>3. CASE cur.reply \notin {"ok", "isError"}
  BY <1>1, <1>3 DEF Failed, IInv
<1> QED
  BY <1>2, <1>3

LEMMA WriteSnapshotKeeps == IInv /\ WriteSnapshot => IInv'
<1> SUFFICES ASSUME IInv, WriteSnapshot PROVE IInv'
  OBVIOUS
<1>1. pc = "snapshot" /\ UNCHANGED <<mem, sidecar, promised>>
  BY DEF WriteSnapshot
<1>2. snapshot' \in {snapshot, mem}
  BY DEF WriteSnapshot
<1>3. AckedIsDurable' /\ promised' \subseteq mem'
  BY <1>1, <1>2 DEF IInv, AckedIsDurable
<1>4. CASE snapshot' = mem /\ pc' = "sidecar" /\ UNCHANGED cur
  BY <1>1, <1>3, <1>4 DEF IInv, ReplyIsBacked
<1>5. CASE Failed
  BY <1>1, <1>3, <1>5, FailedIsTold DEF IInv, ReplyIsBacked
<1> QED
  BY <1>4, <1>5 DEF WriteSnapshot

LEMMA WriteSidecarKeeps == IInv /\ WriteSidecar => IInv'
<1> SUFFICES ASSUME IInv, WriteSidecar PROVE IInv'
  OBVIOUS
<1>1. pc = "sidecar" /\ UNCHANGED <<mem, snapshot, promised>>
  BY DEF WriteSidecar
<1>2. sidecar' \in {sidecar, mem}
  BY DEF WriteSidecar
<1>3. AckedIsDurable' /\ promised' \subseteq mem'
  BY <1>1, <1>2 DEF IInv, AckedIsDurable
<1>4. CASE sidecar' = mem /\ pc' = AfterCheckpoint /\ UNCHANGED cur
  BY <1>1, <1>3, <1>4 DEF IInv, ReplyIsBacked, AfterCheckpoint
<1>5. CASE Failed
  BY <1>1, <1>3, <1>5, FailedIsTold DEF IInv, ReplyIsBacked
<1> QED
  BY <1>4, <1>5 DEF WriteSidecar

LEMMA ReplyKeeps == IInv /\ Reply => IInv'
<1> SUFFICES ASSUME IInv, Reply PROVE IInv'
  OBVIOUS
<1>1. /\ pc = "reply" /\ pc' = "idle" /\ cur' = Idle
      /\ promised' = promised \cup Promises
      /\ UNCHANGED <<mem, snapshot, sidecar>>
  BY DEF Reply
<1>2. Promises \subseteq mem /\ Promises \subseteq snapshot /\ Promises \subseteq sidecar
  <2>1. CASE cur.reply = "ok" /\ Promising(cur.line)
    BY <1>1, <2>1 DEF Promises, IInv, ReplyIsBacked
  <2>2. CASE ~(cur.reply = "ok" /\ Promising(cur.line))
    BY <2>2 DEF Promises, Promising
  <2> QED
    BY <2>1, <2>2
<1> QED
  BY <1>1, <1>2 DEF IInv, AckedIsDurable, ReplyIsBacked, Idle

LEMMA NextIInv == IInv /\ [Next]_vars => IInv'
<1> SUFFICES ASSUME IInv, [Next]_vars PROVE IInv'
  OBVIOUS
<1>1. ASSUME NEW line \in Lines, Send(line) PROVE IInv'
  BY <1>1 DEF IInv, Send, AckedIsDurable, ReplyIsBacked
<1>2. CASE Close
  BY <1>2 DEF IInv, Close, AckedIsDurable, ReplyIsBacked
<1>3. CASE ForeignWrite
  BY <1>3 DEF IInv, ForeignWrite, AckedIsDurable, ReplyIsBacked
<1>4. CASE Start
  BY <1>4 DEF IInv, Start, AckedIsDurable, ReplyIsBacked
<1>5. CASE Kill
  BY <1>5, DownKeeps DEF Kill
<1>6. CASE Handle
  BY <1>6, HandleKeeps
<1>7. CASE WriteSnapshot
  BY <1>7, WriteSnapshotKeeps
<1>8. CASE WriteSidecar
  BY <1>8, WriteSidecarKeeps
<1>9. CASE Reply
  BY <1>9, ReplyKeeps
<1>10. CASE EndLoop
  BY <1>10 DEF IInv, EndLoop, AckedIsDurable, ReplyIsBacked
<1>11. CASE Exit
  BY <1>11, DownKeeps DEF Exit
<1>12. CASE UNCHANGED vars
  BY <1>12 DEF vars, IInv, AckedIsDurable, ReplyIsBacked
<1> QED
  BY <1>1, <1>2, <1>3, <1>4, <1>5, <1>6, <1>7, <1>8, <1>9, <1>10, <1>11, <1>12
  DEF Next, Serve

(* Whatever the client was told of without a warning is in the snapshot and  *)
(* in the sidecar from then on.                                              *)
THEOREM AckedStaysDurable == Spec => []AckedIsDurable
<1>1. IInv => AckedIsDurable
  BY DEF IInv
<1> QED
  BY InitIInv, NextIInv, <1>1, PTL DEF Spec

-----------------------------------------------------------------------------
(* The store of originals *)

(* Enforcing the capacity drops nothing of keep, adds nothing, and ends at   *)
(* the capacity or, where keep alone is above it, at keep: an entry outside  *)
(* keep is never left while the store is too large.                          *)
LEMMA EnforceCapacityBounds ==
  ASSUME NEW S, S \in SUBSET Nat, IsFiniteSet(S), NEW keep, keep \subseteq S
  PROVE  LET T == EnforceCapacity(S, keep)
         IN /\ keep \subseteq T /\ T \subseteq S
            /\ CcrCapacity > 0 /\ Cardinality(T) > CcrCapacity => T = keep
<1> DEFINE old == S \ keep
           excess == Cardinality(S) - CcrCapacity
           rank(c) == Cardinality({d \in old : d < c})
           T == EnforceCapacity(S, keep)
<1>0. Cardinality(S) \in Nat /\ CcrCapacity \in Nat
  BY FS_CardinalityType, CapacityAssumption
<1>1. CASE CcrCapacity = 0 \/ Cardinality(S) <= CcrCapacity
  <2>1. T = S
    BY <1>1 DEF EnforceCapacity
  <2> QED
    BY <1>0, <1>1, <2>1
<1>2. CASE ~(CcrCapacity = 0 \/ Cardinality(S) <= CcrCapacity)
  <2>1. T = {c \in S : c \in keep \/ rank(c) >= excess}
    BY <1>2 DEF EnforceCapacity
  <2>2. keep \subseteq T /\ T \subseteq S
    BY <2>1
  <2>3. ASSUME T # keep PROVE Cardinality(T) <= CcrCapacity
    <3> DEFINE Left == {c \in old : rank(c) >= excess}
               Gone == {c \in old : rank(c) < excess}
    <3>1. Left # {} /\ Left \in SUBSET Nat
      BY <2>1, <2>3
    <3> HIDE DEF T, excess, rank
    <3>2. PICK x \in Left : \A y \in Left : x <= y
      BY <3>1, LeastElement
    <3>3. \A c \in old : rank(c) \in Nat
      <4> TAKE c \in old
      <4>1. {d \in old : d < c} \in SUBSET S
        OBVIOUS
      <4>2. IsFiniteSet({d \in old : d < c})
        BY <4>1, FS_Subset
      <4> QED
        BY <4>2, FS_CardinalityType DEF rank
    <3>4. excess \in Int
      BY <1>0 DEF excess
    <3>5. {d \in old : d < x} \subseteq Gone
      <4> SUFFICES ASSUME NEW d \in old, d < x PROVE rank(d) < excess
        OBVIOUS
      <4>1. ~(x <= d)
        BY <3>1, <3>2
      <4>2. d \notin Left
        BY <3>2, <4>1
      <4> QED
        BY <4>2, <3>3, <3>4
    <3>6. IsFiniteSet(Gone) /\ Gone \in SUBSET S
      <4>1. Gone \in SUBSET S
        OBVIOUS
      <4> QED
        BY <4>1, FS_Subset
    <3>7. rank(x) <= Cardinality(Gone)
      BY <3>5, <3>6, FS_Subset DEF rank
    <3>8. rank(x) >= excess /\ rank(x) \in Nat /\ Cardinality(Gone) \in Nat
      BY <3>2, <3>3, <3>6, FS_CardinalityType
    <3>9. T = S \ Gone
      <4>1. ASSUME NEW c \in S PROVE c \in T <=> c \notin Gone
        BY <2>1, <3>3, <3>4
      <4> HIDE DEF Gone
      <4> QED
        BY <2>2, <4>1
    <3>10. S \cap Gone = Gone
      BY <3>6
    <3>11. Cardinality(T) = Cardinality(S) - Cardinality(Gone)
      BY <3>9, <3>10, FS_Difference
    <3> QED
      BY <3>7, <3>8, <3>11, <1>0 DEF excess
  <2>4. IsFiniteSet(T)
    BY <2>2, FS_Subset
  <2>5. Cardinality(T) \in Nat
    BY <2>4, FS_CardinalityType
  <2> HIDE DEF T
  <2>6. Cardinality(T) > CcrCapacity => T = keep
    BY <2>3, <2>5, <1>0
  <2> QED
    BY <2>2, <2>6 DEF T
<1> QED
  BY <1>1, <1>2

\* The property, and that the store holds contents only, of which there are
\* finitely many.
StoreInv == store \subseteq Contents /\ LatestWindowRetrievable

LEMMA EmptyWindow ==
  ASSUME store = {}, window = << >>
  PROVE  StoreInv
<1>1. Cardinality(store) = 0
  BY FS_EmptySet
<1>2. {window[i].content : i \in {j \in DOMAIN window : window[j].ref}} = {}
  OBVIOUS
<1> QED
  BY <1>1, <1>2, CapacityAssumption DEF StoreInv, LatestWindowRetrievable

\* The fields of a window's item, whatever they are: one of them is a Boolean,
\* which the solvers do not see in a record unless it is a name.
LEMMA ItemFields ==
  ASSUME NEW c, NEW p, NEW r
  PROVE  LET item == [content |-> c, placeholder |-> p, ref |-> r]
         IN item.content = c /\ item.ref = r
  OBVIOUS

(* A recall hands out exactly the references it asks the store to keep.      *)
LEMMA ContextKeepsStore ==
  ASSUME StoreInv, NEW items,
         store' = CompressWindow(store, items).store,
         window' = CompressWindow(store, items).window
  PROVE  StoreInv'
<1> DEFINE R == Refs(items)
           S == store \cup R
<1>1. store' = EnforceCapacity(S, R)
  BY DEF CompressWindow
<1>2. window' = [i \in DOMAIN items |->
                   [content |-> items[i],
                    placeholder |-> Duplicate(items)[i],
                    ref |-> items[i] \in Shortened]]
  BY DEF CompressWindow
<1>3. {window'[i].content : i \in {j \in DOMAIN window' : window'[j].ref}} = R
  <2>1. DOMAIN window' = DOMAIN items
    BY <1>2
  <2>2. ASSUME NEW i \in DOMAIN items
        PROVE  /\ window'[i].content = items[i]
               /\ window'[i].ref = (items[i] \in Shortened)
    <3>1. window'[i] = [content |-> items[i],
                        placeholder |-> Duplicate(items)[i],
                        ref |-> items[i] \in Shortened]
      BY <1>2, Zenon
    <3>2. LET item == [content |-> items[i],
                       placeholder |-> Duplicate(items)[i],
                       ref |-> items[i] \in Shortened]
          IN item.content = items[i] /\ item.ref = (items[i] \in Shortened)
      BY ItemFields, Zenon
    <3> QED
      BY <3>1, <3>2, Zenon
  <2> DEFINE marked == {j \in DOMAIN window' : window'[j].ref}
  <2>3. marked = {j \in DOMAIN items : items[j] \in Shortened}
    BY <2>1, <2>2, Zenon
  <2>4. R = {items[j] : j \in marked}
    BY <2>3 DEF Refs
  <2> HIDE DEF marked
  <2>5. {window'[i].content : i \in marked} = {items[i] : i \in marked}
    BY <2>2, <2>3
  <2> QED
    BY <2>4, <2>5 DEF marked
<1>4. S \subseteq Contents /\ R \subseteq S
  BY ShortenedAssumption DEF StoreInv, Refs
<1>5. S \in SUBSET Nat /\ IsFiniteSet(S)
  BY <1>4, ContentsAssumption, FS_Subset
<1> HIDE DEF S, R
<1>6. /\ R \subseteq store' /\ store' \subseteq S
      /\ CcrCapacity > 0 /\ Cardinality(store') > CcrCapacity => store' = R
  BY <1>1, <1>4, <1>5, EnforceCapacityBounds
<1> QED
  BY <1>3, <1>4, <1>6 DEF StoreInv, LatestWindowRetrievable

LEMMA NextStoreInv == StoreInv /\ [Next]_vars => StoreInv'
<1> SUFFICES ASSUME StoreInv, [Next]_vars PROVE StoreInv'
  OBVIOUS
<1>1. ASSUME UNCHANGED <<store, window>> PROVE StoreInv'
  BY <1>1 DEF StoreInv, LatestWindowRetrievable
<1>2. ASSUME store' = {}, window' = << >> PROVE StoreInv'
  <2>1. Cardinality(store') = 0
    BY <1>2, FS_EmptySet
  <2> QED
    BY <1>2, <2>1, CapacityAssumption DEF StoreInv, LatestWindowRetrievable
<1>3. ASSUME NEW line \in Lines, Send(line) PROVE StoreInv'
  BY <1>1, <1>3 DEF Send
<1>4. CASE Close \/ ForeignWrite \/ WriteSnapshot \/ WriteSidecar \/ Reply \/ EndLoop
  BY <1>1, <1>4 DEF Close, ForeignWrite, WriteSnapshot, WriteSidecar, Reply, EndLoop
<1>5. CASE Start
  BY <1>2, <1>5 DEF Start
<1>6. CASE Kill \/ Exit
  BY <1>2, <1>6 DEF Kill, Exit, Down, Forgotten
<1>7. CASE Handle
  <2> DEFINE id == Head(pipe).id
             line == Head(pipe).line
  <2>1. Apply(id, line) \/ Refuse(id, line)
    BY <1>7 DEF Handle
  <2> HIDE DEF id, line
  <2>2. CASE Refuse(id, line)
    BY <1>1, <2>2 DEF Refuse
  <2>3. CASE Apply(id, line) /\ line.call.tool # "context"
    BY <1>1, <2>3 DEF Apply
  <2>4. CASE Apply(id, line) /\ line.call.tool = "context"
    BY <2>4, ContextKeepsStore DEF Apply
  <2> QED
    BY <2>1, <2>2, <2>3, <2>4
<1>8. CASE UNCHANGED vars
  BY <1>1, <1>8 DEF vars
<1> QED
  BY <1>3, <1>4, <1>5, <1>6, <1>7, <1>8 DEF Next, Serve

(* The references of the last compressed window have their originals in the  *)
(* store until the session ends, and what is stored beyond them fits in the  *)
(* capacity: the next recall's eviction never reaches what that recall hands *)
(* out.                                                                      *)
THEOREM LastWindowIsRetrievable == Spec => []LatestWindowRetrievable
<1>1. Init => StoreInv
  BY EmptyWindow DEF Init
<1>2. StoreInv => LatestWindowRetrievable
  BY DEF StoreInv
<1> QED
  BY <1>1, NextStoreInv, <1>2, PTL DEF Spec

=============================================================================

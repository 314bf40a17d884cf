------------------------------ MODULE Beliefs -------------------------------
(***************************************************************************)
(* What is believed of a claim (qbelief of memory.rs): evidence links for  *)
(* and against it are asserted (assert_evidence of external_memory.rs),    *)
(* age with the clock, and are derived along the links of kind Causes, one *)
(* hop in a sweep (propagate_beliefs), or until a sweep derives nothing    *)
(* (propagate_beliefs_converge). Nothing tells a derived link from an      *)
(* asserted one, nothing takes one back when its cause is no longer        *)
(* believed, and a link that is there already is left as it is.            *)
(*                                                                         *)
(* Authorities, thresholds and damping are parts of Full, products rounded *)
(* down; a half-life is a number of ticks, and age counts in whole ones.   *)
(* Nodes are numbers; an endpoint that is missing is created (EnsureNode   *)
(* of CausalMemory), so only links are kept.                               *)
(***************************************************************************)
EXTENDS Integers, FiniteSetsExt, SequencesExt, Functions

CONSTANTS
  Ids,         \* claims and what is evidence of them
  Causal,      \* the links <<cause, effect>> of kind Causes there may be
  Strength,    \* Strength[l]: the weight of such a link
  Assertions,  \* what agents assert: <<evidence, claim, whether it supports>>
  Authorities, \* with which authority
  Thresholds, Dampings, HalfLife,
  Full,        \* 1.0, and the prior BELIEF_EPS
  MaxClock, MaxSweeps  \* bounds

ConstantsOK ==
  /\ Ids \subseteq Nat /\ IsFiniteSet(Ids)
  /\ Causal \subseteq Ids \X Ids
  /\ Strength \in [Causal -> 0..Full]
  /\ Assertions \subseteq Ids \X Ids \X BOOLEAN
  /\ Authorities \cup Thresholds \cup Dampings \subseteq 0..Full
  /\ HalfLife \in Nat \ {0}

VARIABLES
  causes,    \* the links of kind Causes
  evidence,  \* evidence[<<source, claim, supports>>]: the weight, and when it was made
  clock,
  asserted,  \* observed: what was asserted and not removed since
  sweeps     \* observed: how many sweeps there were

vars == <<causes, evidence, clock, asserted, sweeps>>

-----------------------------------------------------------------------------
(* Beliefs *)

Surface(ev, c, supports) == {l \in DOMAIN ev : l[2] = c /\ l[3] = supports}
WeightOf(ev, L) == MapThenSumSet(LAMBDA l : ev[l].weight, L)

\* The signed belief as a fraction.
FromSums(s, c) == [num |-> s - c, den |-> s + c + Full]
QBelief(ev, c) == FromSums(WeightOf(ev, Surface(ev, c, TRUE)), WeightOf(ev, Surface(ev, c, FALSE)))

\* qbelief_decayed looks at what is left of each weight.
Decayed(ev, now) ==
  [l \in DOMAIN ev |->
     [ev[l] EXCEPT !.weight = @ \div 2 ^ ((now - ev[l].at) \div HalfLife)]]

Size(n) == IF n < 0 THEN -n ELSE n
Weaker(q, r) == Size(q.num) * r.den < Size(r.num) * q.den
Sign(q) == IF q.num > 0 THEN 1 ELSE IF q.num < 0 THEN -1 ELSE 0

\* claim_beliefs: the claims with evidence, for which alone qbeliefs has an entry.
ClaimBeliefs(ev) == [c \in {l[2] : l \in DOMAIN ev} |-> QBelief(ev, c)]

-----------------------------------------------------------------------------
(* Evidence *)

\* add_edge: a link that is there keeps its weight and its age.
AddEvidence(ev, l, w) ==
  IF l \in DOMAIN ev THEN ev ELSE ev @@ (l :> [weight |-> w, at |-> clock])

\* What a cause that is resolved hands to its effect.
Derived(ev, l, threshold, damping) ==
  LET q == QBelief(ev, l[1]) IN
  IF l[1] = l[2] \/ Size(q.num) * Full < threshold * q.den THEN << >>
  ELSE << <<l[1], l[2], q.num > 0>>,
          (Strength[l] * damping * Size(q.num)) \div (Full * q.den) >>

Before(l, m) == l[1] < m[1] \/ (l[1] = m[1] /\ l[2] < m[2])

\* Fault: a link is added as soon as it is derived, and a cause further on in the
\* order sees it in the same sweep.
SweepInPlace(ev, threshold, damping) ==
  FoldLeft(LAMBDA e, l :
             LET d == Derived(e, l, threshold, damping)
             IN  IF d = << >> THEN e ELSE AddEvidence(e, d[1], d[2]),
           ev, SetToSortSeq(causes, Before))

\* propagate_beliefs: all are derived before the first is added.
Sweep(ev, threshold, damping) ==
  LET all == {Derived(ev, l, threshold, damping) : l \in causes} \ {<< >>}
  IN  FoldSet(LAMBDA d, e : AddEvidence(e, d[1], d[2]), ev, all)

\* propagate_beliefs_converge, and the number of its sweeps.
Converge(ev, threshold, damping, rounds) ==
  LET run[i \in 0..rounds] ==
        IF i = 0 THEN [ev |-> ev, done |-> FALSE, n |-> 0]
        ELSE LET before == run[i - 1]
                 next == Sweep(before.ev, threshold, damping)
             IN  IF before.done THEN before
                 ELSE [ev |-> next, done |-> next = before.ev, n |-> before.n + 1]
  IN  run[rounds]

-----------------------------------------------------------------------------
(* Actions *)

Init ==
  /\ causes \in SUBSET Causal
  /\ evidence = << >>
  /\ clock = 0
  /\ asserted = {}
  /\ sweeps = 0

\* assert_support and assert_contradiction.
AssertEvidence(l, w) ==
  /\ evidence' = AddEvidence(evidence, l, w)
  /\ asserted' = asserted \cup {l}
  /\ UNCHANGED <<causes, clock, sweeps>>

Tick ==
  /\ clock < MaxClock
  /\ clock' = clock + 1
  /\ UNCHANGED <<causes, evidence, asserted, sweeps>>

PropagateBeliefs(threshold, damping) ==
  /\ sweeps < MaxSweeps
  /\ evidence' = Sweep(evidence, threshold, damping)
  /\ sweeps' = sweeps + 1
  /\ UNCHANGED <<causes, clock, asserted>>

PropagateBeliefsConverge(threshold, damping, rounds) ==
  LET end == Converge(evidence, threshold, damping, rounds) IN
  /\ sweeps + end.n <= MaxSweeps
  /\ evidence' = end.ev
  /\ sweeps' = sweeps + end.n
  /\ UNCHANGED <<causes, clock, asserted>>

Next ==
  \/ \E l \in Assertions, w \in Authorities : AssertEvidence(l, w)
  \/ Tick
  \/ \E t \in Thresholds, d \in Dampings :
       \/ PropagateBeliefs(t, d)
       \/ \E rounds \in 2..MaxSweeps : PropagateBeliefsConverge(t, d, rounds)

Spec == Init /\ [][Next]_vars

-----------------------------------------------------------------------------
(* Properties *)

\* The nodes that at most n causal hops lead to from one of S.
Within(S, n) ==
  LET at[i \in 0..n] ==
        IF i = 0 THEN S ELSE at[i - 1] \cup {l[2] : l \in {m \in causes : m[1] \in at[i - 1]}}
  IN  at[n]

Weighty(ev) == {l \in DOMAIN ev : ev[l].weight > 0}

\* No belief comes of nothing: it is at most one hop per sweep away from a claim that
\* something was asserted of, and nothing is refuted, or supported, where every
\* assertion was to the contrary.
BeliefsAreGrounded ==
  /\ {l[2] : l \in Weighty(evidence)} \subseteq Within({l[2] : l \in asserted}, sweeps)
  /\ \A s \in BOOLEAN :
       (\A l \in asserted : l[3] = s) => \A l \in Weighty(evidence) : l[3] = s

\* A sweep goes one hop: what the next one adds comes from a claim that this one gave
\* evidence. A claim with one cause and no evidence comes to be believed as its
\* cause is, and less.
SweepsGoOneHop ==
  \A t \in Thresholds, d \in Dampings :
    LET once == Sweep(evidence, t, d)
        twice == Sweep(once, t, d)
        new == DOMAIN once \ DOMAIN evidence
    IN  /\ \A l \in DOMAIN twice \ DOMAIN once : \E m \in new : m[2] = l[1]
        /\ \A l \in new :
             LET effect == l[2]
                 cause == QBelief(evidence, l[1])
             IN  /\ effect \notin DOMAIN ClaimBeliefs(evidence)
                 /\ {m \in causes : m[2] = effect /\ m[1] # effect} = {<<l[1], effect>>}
                 => \/ QBelief(once, effect).num = 0
                    \/ /\ Sign(QBelief(once, effect)) = Sign(cause)
                       /\ Weaker(QBelief(once, effect), cause)

\* Sweeps settle, round a causal cycle too: within two for each link and one more.
SweepsSettle ==
  \A t \in Thresholds, d \in Dampings :
    Converge(evidence, t, d, 2 * Cardinality(causes) + 1).done

\* Age takes from both surfaces and gives to none; what is left of one that is all
\* for, or all against, stays so.
AgeOnlyFades ==
  \A c \in Ids, s \in BOOLEAN :
    LET left(now) == WeightOf(Decayed(evidence, now), Surface(evidence, c, s)) IN
    /\ left(clock) <= WeightOf(evidence, Surface(evidence, c, s))
    /\ left(clock + 1) <= left(clock)

(* What is believed goes back to what was asserted: beliefs spread hop by    *)
(* hop, fade as they go and with age, and settle, also round a cycle where   *)
(* what is derived of a claim comes back to it as evidence.                  *)
BeliefsComeOfAssertions ==
  /\ BeliefsAreGrounded
  /\ SweepsGoOneHop
  /\ SweepsSettle
  /\ AgeOnlyFades

=============================================================================

-------------------------- MODULE MCAgentTimeline --------------------------
(* Instances of AgentTimeline for TLC. *)
EXTENDS AgentTimeline, TLC

CONSTANTS a, b, c   \* three files

\* No file calls another; or a calls what b and c both define,
\* which is ambiguous while both are there.
NoCalls == [f \in Files |-> {}]
ACallsBoth == [f \in Files |-> IF f = a THEN {b, c} ELSE {}]

\* A claim about a callee, which may not be there yet.
StubClaims == {<<a, g, FALSE>> : g \in {b, c}}
NoClaim == {}

\* Both callees at once, in either order; one file twice.
CalleeBatch == {<< <<b, 1>>, <<c, 1>> >>, << <<c, 1>>, <<b, 1>> >>}
TwiceBatch == {<< <<a, 1>>, <<a, 1>> >>}
NoBatch == {}

\* A pre-chain workspace in which one callee was ingested and then failed.
OneLegacyLog == {<<IngestOp(f, 1), FailureOp(f)>> : f \in {b, c}}
NoLegacyLog == {}

\* Sessions are interchangeable: nothing orders or names them.
SessionSymmetry == Permutations(Sessions)
CalleeSymmetry == Permutations({b, c})

=============================================================================

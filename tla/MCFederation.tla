---------------------------- MODULE MCFederation ----------------------------
(* Instances of Federation for TLC. *)
EXTENDS Federation

CONSTANTS x, y   \* two operations

\* Two workspaces that both record, export and import; the first records more,
\* may be stopped and reopened, and may lose or get a key in between.
Both == {"wa", "wb"}
Names == [a \in Both |-> IF a = "wa" THEN "a" ELSE "b"]
Order == <<"a", "b", "local">>
OpsOf == [a \in Both |-> IF a = "wa" THEN 2 ELSE 1]
KeysOf == [a \in Both |-> IF a = "wa" THEN 1 ELSE 0]
BuildsOf == [a \in Both |-> {TRUE}]
OpensOf == [a \in Both |-> IF a = "wa" THEN 2 ELSE 1]
SavesOf == [a \in Both |-> IF a = "wa" THEN 1 ELSE 0]
Swaps == Permutations({x, y})

=============================================================================

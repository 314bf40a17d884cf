------------------------- MODULE MCSnapshotWriters --------------------------
(* An instance of Machines for TLC. *)
EXTENDS Machines, TLC

CONSTANTS p1, p2, p3, run1, run2, a, b, absent

\* The two contents tie, and only one node of the two is HOT.
Tied == a :> 1 @@ b :> 1

\* Three files, the first with two nodes, and one external node. Cooling halves,
\* with a floor that evicts the cool ones, or is slight. A second ingest warms a
\* node, more of them do not.
RegionNodes == {<<0, 1>>, <<1, 1>>, <<1, 2>>, <<2, 1>>, <<3, 1>>}
RegionLinks == {<<<<1, 1>>, <<1, 2>>>>, <<<<2, 1>>, <<1, 2>>>>, <<<<3, 1>>, <<2, 1>>>>,
                <<<<1, 1>>, <<0, 1>>>>, <<<<3, 1>>, <<0, 1>>>>}
Warming == <<4, 5>>
CoolingArguments == {<<4, 2>>, <<7, 0>>}

RunSymmetry == Permutations(Runs)

=============================================================================

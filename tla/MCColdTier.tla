----------------------------- MODULE MCColdTier -----------------------------
(* Instances of ColdTier for TLC. *)
EXTENDS ColdTier

CONSTANTS x, y, z   \* three nodes

\* A chain, so that a node has neighbours on both sides.
Chain == {<<x, y>>, <<y, z>>}

=============================================================================

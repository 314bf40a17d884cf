---------------------------- MODULE MCSourceScan ----------------------------
(* An instance of SourceScan for TLC. *)
EXTENDS SourceScan, MCLexemes

=============================================================================

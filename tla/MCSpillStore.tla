---------------------------- MODULE MCSpillStore ----------------------------
(***************************************************************************)
(* Two things that are about texts and share nothing, checked in one run:  *)
(* the store of spilled texts (SpillStore) and the scanners of source      *)
(* texts (SourceScan). A behaviour is of one of them, and the other does   *)
(* nothing. The codec's constants are scaled down with the texts, so that  *)
(* these reach every format, matches in the dictionary, near and far, that *)
(* run into the text and overlap it, and some put off by one.              *)
(***************************************************************************)
EXTENDS SpillStore, MCLexemes

CONSTANTS n1, n2   \* two nodes
CONSTANTS MaxTokens, InlineNesting, MaxNesting, SignatureLines  \* see SourceScan

VARIABLES machine,  \* which of the two it is
          source

Texts == {<<1, 2, 3, 1, 2, 3, 1, 2, 3>>, <<1, 2, 3, 1, 2>>, <<2, 1, 2, 3, 1, 3, 1>>}

S == INSTANCE SourceScan WITH
  Code <- CodeLexemes, Quoted <- LiteralsAndComments, Heads <- Beginnings, tokens <- source

EitherInit ==
  /\ machine \in {"store", "scan"} /\ Init /\ S!Init
  /\ machine = "store" => source = << >>

EitherNext ==
  \/ machine = "store" /\ Next /\ UNCHANGED <<machine, source>>
  \/ machine = "scan" /\ S!Next /\ UNCHANGED <<machine, vars>>

EitherSpec == EitherInit /\ [][EitherNext]_<<machine, vars, source>>

\* The nesting guard sees exactly the code, and symbol_span cuts out the item, see
\* SourceScan.
OnlyCodeCounts == S!OnlyCodeCounts

=============================================================================

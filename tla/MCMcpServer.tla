---------------------------- MODULE MCMcpServer -----------------------------
(***************************************************************************)
(* The two callers of compressed recall, each with a store of originals of *)
(* its own, checked in one run: the server (McpServer), and a program that *)
(* calls the recall with feedback of the library (RecallWindow). A         *)
(* behaviour is of one of them, and the other does nothing.                *)
(***************************************************************************)
EXTENDS McpServer, Functions, TLC

CONSTANTS f, g   \* two files
CONSTANTS MaxRecalls, Budgets  \* bound: recalls with feedback; their budgets

VARIABLES machine,  \* which of the two it is
          call, win, last, round, originals, first, recalls

\* Contents 1 and 2 are not alike; one that two files share is.
LikePairs == {<<c, c>> : c \in Contents}

\* For the loop: content 3 is long and not shortened, 5 long and well shortened; 1
\* is a near-duplicate of 5, 2 has a node in each file, 0 is blank. A ranking is
\* any order of up to four of seven nodes.
Sizes == (0 :> 0) @@ (1 :> 4) @@ (2 :> 3) @@ (3 :> 8) @@ (4 :> 3) @@ (5 :> 9)
Shorts == (0 :> 0) @@ (1 :> 2) @@ (2 :> 3) @@ (3 :> 8) @@ (4 :> 2) @@ (5 :> 2)
Node(file, c) == [file |-> file, content |-> c]
Pool == {Node(f, 0), Node(f, 1), Node(f, 2), Node(f, 5), Node(g, 2), Node(g, 3), Node(g, 4)}
AllRankings == UNION {{s \in [1..n -> Pool] : IsInjective(s)} : n \in 1..4}

W == INSTANCE RecallWindow WITH
  Contents <- 0..5, Shortened <- {1, 4, 5}, Alike <- {<<1, 5>>, <<5, 1>>},
  CcrCapacity <- 2, Blank <- 0, Size <- Sizes, Short <- Shorts, Placeholder <- 1,
  QuotaPercent <- 70, MaxRounds <- 3, Rankings <- AllRankings, store <- originals

EitherInit == Init /\ W!Init /\ machine \in {"server", "loop"}

EitherNext ==
  \/ machine = "server" /\ Next
     /\ UNCHANGED <<machine, call, win, last, round, originals, first, recalls>>
  \/ machine = "loop" /\ W!Next /\ UNCHANGED <<machine, vars>>
  \/ machine = "loop" /\ round = 0 /\ recalls = MaxRecalls
     /\ UNCHANGED <<machine, vars, call, win, last, round, originals, first, recalls>>

EitherSpec ==
  /\ EitherInit
  /\ [][EitherNext]_<<machine, vars, call, win, last, round, originals, first, recalls>>
  /\ WF_vars(machine = "server" /\ Serve)

\* The first window is the greedy selection, and later rounds give up nothing of it
\* for what they gain, see RecallWindow.
WindowsSelectBest == W!WindowsSelectBest

=============================================================================

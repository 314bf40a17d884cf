---------------------------- MODULE RecallWindow ----------------------------
(***************************************************************************)
(* What a recall hands out (assemble_window of src/external_memory.rs) and *)
(* the loop that spends what compression freed on further items            *)
(* (recall_compressed_with_feedback). The nodes that a strategy chose come *)
(* in the order of their scores; a node is its file and its content, and   *)
(* the graph does not change while a recall lasts, so that every round of  *)
(* the loop ranks the same nodes. Sizes are token estimates, before and    *)
(* after compression. The loop's estimate of the budget it may grow to is  *)
(* a quotient of floats in the code, of integers here.                     *)
(***************************************************************************)
EXTENDS CcrStore, SequencesExt, FiniteSetsExt

CONSTANTS
  Files,
  Blank,        \* a content of white space only
  Size,         \* Size[c]: tokens of content c
  Short,        \* Short[c]: tokens of its compressed form, Size[c] if not shortened
  Placeholder,  \* tokens of the line that stands for a near-duplicate
  QuotaPercent, \* recall_file_cap: what one file may fill of an anchored window
  MaxRounds,    \* max_rounds of the loop
  Rankings,     \* the score orders there are: sequences of nodes
  Budgets,
  MaxRecalls    \* bound: recalls

VARIABLES
  call,    \* the call in progress, or the last: ranking, budget, anchored or not
  win,     \* the window that the loop holds: selection and compressed items
  last,    \* last_tokens
  round,   \* rounds done; 0 when the call has returned
  store,   \* the originals behind the compressed items
  first,   \* observed: the window of the call's first round
  recalls  \* recalls so far

vars == <<call, win, last, round, store, first, recalls>>

-----------------------------------------------------------------------------
(* assemble_window *)

Quota(budget) == (budget * QuotaPercent) \div 100
NoSelection == [items |-> << >>, tokens |-> 0, perFile |-> [f \in Files |-> 0],
                seen |-> {}, full |-> FALSE]

\* A blank content, or that of a node with a better score, whether it got in or not.
Dropped(sel, n) == n.content = Blank \/ n.content \in sel.seen

\* The first node is taken whatever its size.
OverBudget(sel, n, budget) ==
  sel.items # << >> /\ sel.tokens + Size[n.content] > budget
OverQuota(sel, n, budget) ==
  sel.items # << >> /\ sel.perFile[n.file] + Size[n.content] > Quota(budget)

Taken(sel, n) ==
  [sel EXCEPT !.items = Append(@, n), !.tokens = @ + Size[n.content],
              !.perFile[n.file] = @ + Size[n.content], !.seen = @ \cup {n.content}]

\* Fault: every window skips what does not fit.
ConsiderAll(sel, n, budget, anchored) ==
  CASE Dropped(sel, n) -> sel
    [] OverBudget(sel, n, budget) \/ (anchored /\ OverQuota(sel, n, budget)) ->
         [sel EXCEPT !.seen = @ \cup {n.content}]
    [] OTHER -> Taken(sel, n)

\* An anchored window skips what does not fit, any other one ends there.
Consider(sel, n, budget, anchored) ==
  CASE sel.full \/ Dropped(sel, n) -> sel
    [] OverBudget(sel, n, budget) /\ ~anchored -> [sel EXCEPT !.full = TRUE]
    [] anchored /\ (OverBudget(sel, n, budget) \/ OverQuota(sel, n, budget)) ->
         [sel EXCEPT !.seen = @ \cup {n.content}]
    [] OTHER -> Taken(sel, n)

AssembleWindow(ranking, budget, anchored) ==
  FoldLeft(LAMBDA sel, n : Consider(sel, n, budget, anchored), NoSelection, ranking)

-----------------------------------------------------------------------------
(* recall_compressed *)

ContentsOf(nodes) == [i \in DOMAIN nodes |-> nodes[i].content]

Cost(item) == IF item.placeholder THEN Placeholder ELSE Short[item.content]
CompressedTokens(items) == FoldLeft(LAMBDA sum, item : sum + Cost(item), 0, items)

Packed(sel, pass) ==
  [nodes |-> sel.items, items |-> pass.window, raw |-> sel.tokens,
   tokens |-> CompressedTokens(pass.window), store |-> pass.store]

RecallCompressed(c, budget) ==
  LET sel == AssembleWindow(c.ranking, budget, c.anchored)
  IN  Packed(sel, CompressWindow(store, ContentsOf(sel.items)))

-----------------------------------------------------------------------------
(* The calls *)

Nothing == [nodes |-> << >>, items |-> << >>, raw |-> 0, tokens |-> 0]
Window(packed) == [f \in DOMAIN Nothing |-> packed[f]]

Init == /\ call = [ranking |-> << >>, budget |-> 0, anchored |-> FALSE]
        /\ win = Nothing /\ first = Nothing
        /\ last = 0 /\ round = 0 /\ recalls = 0
        /\ store = {}

\* The first round: an Around, Task, Semantic or Hybrid recall is anchored, a
\* WorkingSet or a CausalFlash one is not.
Recall(ranking, budget, anchored) ==
  /\ round = 0 /\ recalls < MaxRecalls
  /\ call' = [ranking |-> ranking, budget |-> budget, anchored |-> anchored]
  /\ LET packed == RecallCompressed(call', budget)
     IN  /\ win' = Window(packed) /\ first' = Window(packed)
         /\ last' = packed.tokens
         /\ store' = packed.store
  /\ round' = 1 /\ recalls' = recalls + 1

\* What the ratio of the window at hand lets a raw selection grow to.
Grown(budget) ==
  LET leftover == budget - win.tokens
  IN  budget + (IF win.tokens = 0 \/ win.raw = 0 THEN leftover
                ELSE (leftover * win.raw) \div win.tokens)

\* The next window has more items and fits, or is no shorter and has more tokens.
Fits(next) == Len(next.items) > Len(win.items) /\ next.tokens <= call.budget
Progress(next) == Len(next.items) >= Len(win.items) /\ next.tokens > last

\* After a window that fits, the loop goes on only if its tokens differ from those
\* of the former one; after any other one it has just made them equal, and ends.
GoOn(next) == Fits(next) /\ next.tokens # last

Again ==
  /\ round \in 1..(MaxRounds - 1) /\ win.tokens < call.budget
  /\ LET next == RecallCompressed(call, Grown(call.budget))
     IN  /\ store' = next.store
         /\ win' = IF Fits(next) \/ Progress(next) THEN Window(next) ELSE win
         /\ last' = IF Fits(next) \/ Progress(next) THEN next.tokens ELSE last
         /\ round' = IF GoOn(next) THEN round + 1 ELSE 0
  /\ UNCHANGED <<call, first, recalls>>

Return ==
  /\ round > 0 /\ (round = MaxRounds \/ win.tokens >= call.budget)
  /\ round' = 0
  /\ UNCHANGED <<call, win, last, store, first, recalls>>

Next == \/ \E r \in Rankings, b \in Budgets, a \in BOOLEAN : Recall(r, b, a)
        \/ Again
        \/ Return

Spec == Init /\ [][Next]_vars

-----------------------------------------------------------------------------
(* Properties *)

\* The places of a ranking that get in, said without the loop: a node that has
\* text, is the best-ranked with this text, and fits beside the better ones that
\* got in; where nothing is skipped, none before it was refused for its size.
BestCopy(ranking, i) ==
  /\ ranking[i].content # Blank
  /\ \A j \in 1..(i - 1) : ranking[j].content # ranking[i].content
Tokens(ranking, places) ==
  MapThenSumSet(LAMBDA i : Size[ranking[i].content], places)
FitsBeside(ranking, better, i, budget, anchored) ==
  \/ better = {}
  \/ /\ Tokens(ranking, better \cup {i}) <= budget
     /\ anchored => Tokens(ranking, {j \in better \cup {i} :
                                      ranking[j].file = ranking[i].file}) <= Quota(budget)
GetsIn(ranking, places, i, budget, anchored) ==
  /\ BestCopy(ranking, i)
  /\ FitsBeside(ranking, {j \in places : j < i}, i, budget, anchored)
  /\ anchored \/ \A j \in 1..(i - 1) : BestCopy(ranking, j) => j \in places
IsSelection(ranking, places, budget, anchored) ==
  \A i \in DOMAIN ranking : i \in places <=> GetsIn(ranking, places, i, budget, anchored)

\* The first round hands out that selection in the order of the ranking: no node
\* that fits is left out for one that ranks lower, none twice, and a window is
\* over its budget only if one node alone is.
SelectsBestThatFit ==
  recalls > 0 =>
    \E places \in SUBSET DOMAIN call.ranking :
      /\ IsSelection(call.ranking, places, call.budget, call.anchored)
      /\ first.nodes = [i \in 1..Cardinality(places) |->
                         call.ranking[CHOOSE p \in places :
                           Cardinality({q \in places : q < p}) = i - 1]]

\* What compression freed is never paid for with items: a later round replaces the
\* window at hand only by one with no fewer; and where a selection ends at the first
\* node that does not fit, only by one that continues it, although the budget that
\* the loop grows to may shrink from one round to the next.
LoopNeverShrinks ==
  round > 0 => /\ Len(win'.items) >= Len(win.items)
               /\ ~call.anchored => IsPrefix(win.nodes, win'.nodes)

(* The windows of the loop: the best that fit, and then only more of it.     *)
WindowsSelectBest == [][SelectsBestThatFit' /\ LoopNeverShrinks]_vars

=============================================================================

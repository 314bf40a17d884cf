----------------------------- MODULE SourceScan -----------------------------
(***************************************************************************)
(* The two scanners of src/parser.rs that tell code from what only looks   *)
(* like it. max_nesting_depth runs over a whole source, to keep from the   *)
(* recursive parser what would overflow its stack; scan_code_line runs over *)
(* one line after the other, and finds for symbol_span the line on which an *)
(* item ends, so that a node holds the item's text.                        *)
(*                                                                         *)
(* A source is made of lexemes, of which it is known whether they are code; *)
(* the scanners see its bytes only. A byte is a string: a delimiter, a     *)
(* quote, a letter, or NL. Lead and Follow are the bytes of a character    *)
(* outside ASCII. Lexemes are as in Rust before the edition 2021, where a  *)
(* word may touch a string.                                                *)
(***************************************************************************)
EXTENDS Naturals, Sequences, SequencesExt, FiniteSetsExt

CONSTANTS
  Code,            \* the lexemes that are code
  Quoted,          \* the literals and the comments
  Heads,           \* what a source starts with
  MaxTokens,       \* bound: two less than the lexemes of a source
  InlineNesting,   \* INLINE_PARSE_NESTING
  MaxNesting,      \* MAX_PARSE_NESTING
  SignatureLines   \* how many lines symbol_span looks for the brace of a body

VARIABLE tokens    \* the lexemes of the source

NL == "\n"
Lead == "lead"
Follow == "follow"
Letters == {"a", "b", "r"}   \* ASCII letters
Opens == {"(", "{"}
Closes == {")", "}"}

At(b, i) == IF i \in DOMAIN b THEN b[i] ELSE "end"

-----------------------------------------------------------------------------
(* Literals *)

RECURSIVE StringEnd(_, _), RawStringEnd(_, _, _), EscapedEnd(_, _), BlockEnd(_, _, _)

\* string_end: just past the quote that closes the string with its text at i.
StringEnd(b, i) ==
  IF i > Len(b) THEN Len(b) + 1
  ELSE IF b[i] = "\"" THEN i + 1
  ELSE StringEnd(b, IF b[i] = "\\" THEN i + 2 ELSE i + 1)

ClosesRaw(b, i, hashes) == b[i] = "\"" /\ \A k \in 1..hashes : At(b, i + k) = "#"

\* raw_string_end
RawStringEnd(b, i, hashes) ==
  IF i > Len(b) THEN Len(b) + 1
  ELSE IF ClosesRaw(b, i, hashes) THEN i + 1 + hashes
  ELSE RawStringEnd(b, i + 1, hashes)

\* The loop of quote_end behind a backslash.
EscapedEnd(b, j) ==
  IF j > Len(b) THEN Len(b) + 1
  ELSE IF b[j] = "'" THEN j + 1
  ELSE EscapedEnd(b, IF b[j] = "\\" THEN j + 2 ELSE j + 1)

Width(byte) == IF byte = Lead THEN 2 ELSE 1

\* quote_end: just past the character literal at i, or past the quote of a lifetime.
QuoteEnd(b, i) ==
  IF i = Len(b) THEN Len(b) + 1
  ELSE IF b[i + 1] = "\\" THEN EscapedEnd(b, i + 2)
  ELSE LET close == i + 1 + Width(b[i + 1])
       IN IF At(b, close) = "'" THEN close + 1 ELSE i + 1

Starts(b, i, c) == b[i] = "/" /\ At(b, i + 1) = c

\* Block comments nest.
BlockEnd(b, i, open) ==
  IF i > Len(b) \/ open = 0 THEN i
  ELSE IF Starts(b, i, "*") THEN BlockEnd(b, i + 2, open + 1)
  ELSE IF b[i] = "*" /\ At(b, i + 1) = "/" THEN BlockEnd(b, i + 2, open - 1)
  ELSE BlockEnd(b, i + 1, open)

\* The literal that a b or r at i prefixes: its kind, the hashes of a raw string,
\* and where its text (of a character, its quote) is. A letter inside a word is none.
Prefixed(b, i) ==
  LET p == IF b[i] = "b" THEN i + 1 ELSE i
      hashes == Max({n \in 0..Len(b) : \A k \in 1..n : At(b, p + k) = "#"})
  IN
  CASE i > 1 /\ b[i - 1] \in Letters -> [kind |-> "none"]
    [] At(b, p) = "r" /\ At(b, p + hashes + 1) = "\"" ->
         [kind |-> "raw", hashes |-> hashes, at |-> p + hashes + 2]
    [] p > i /\ At(b, p) = "\"" -> [kind |-> "string", at |-> p + 1]
    [] p > i /\ At(b, p) = "'" -> [kind |-> "char", at |-> p]
    [] OTHER -> [kind |-> "none"]

-----------------------------------------------------------------------------
(* max_nesting_depth *)

LineEnd(b, i) == Min({j \in i..Len(b) + 1 : At(b, j) \in {NL, "end"}})

\* Just past the comment or literal at i, or i if there is none. (A lifetime is
\* passed by its quote.)
Skipped(b, i) ==
  CASE Starts(b, i, "/") -> LineEnd(b, i)
    [] Starts(b, i, "*") -> BlockEnd(b, i + 2, 1)
    [] b[i] = "\"" -> StringEnd(b, i + 1)
    [] b[i] = "'" -> QuoteEnd(b, i)
    [] b[i] \in {"b", "r"} ->
         LET l == Prefixed(b, i) IN
         (CASE l.kind = "raw" -> RawStringEnd(b, l.at, l.hashes)
            [] l.kind = "string" -> StringEnd(b, l.at)
            [] l.kind = "char" -> QuoteEnd(b, l.at)
            [] l.kind = "none" -> i)
    [] OTHER -> i

RECURSIVE NestingFrom(_, _, _)

\* The deepest nesting from i on, where depth delimiters are open; a closer too
\* many does not count.
NestingFrom(b, i, depth) ==
  IF i > Len(b) THEN 0
  ELSE IF Skipped(b, i) # i THEN NestingFrom(b, Skipped(b, i), depth)
  ELSE CASE b[i] \in Opens -> Max({depth + 1, NestingFrom(b, i + 1, depth + 1)})
         [] b[i] \in Closes -> NestingFrom(b, i + 1, IF depth = 0 THEN 0 ELSE depth - 1)
         [] OTHER -> NestingFrom(b, i + 1, depth)

\* parse_guarded and extract_all: who parses a source.
Parser(b) ==
  LET d == NestingFrom(b, 1, 0) IN
  CASE d > MaxNesting -> "heuristic"
    [] d <= InlineNesting -> "syn"
    [] OTHER -> "syn on a thread of its own"

-----------------------------------------------------------------------------
(* scan_code_line *)

InCode == [kind |-> "code"]
InString == [kind |-> "string"]
InRaw(n) == [kind |-> "raw", hashes |-> n]
InBlock(n) == IF n = 0 THEN InCode ELSE [kind |-> "block", open |-> n]

RECURSIVE ScanFrom(_, _, _)

\* The code bytes of a line from i on and the state the next line starts in.
ScanFrom(b, i, state) ==
  LET past(j, s) == ScanFrom(b, j, s)
      code(j) == LET rest == ScanFrom(b, j, state)
                 IN [rest EXCEPT !.code = <<b[i]>> \o @]
  IN
  IF i > Len(b) THEN [code |-> <<>>, state |-> state]
  ELSE
  CASE state.kind = "block" ->
         IF Starts(b, i, "*") THEN past(i + 2, InBlock(state.open + 1))
         ELSE IF b[i] = "*" /\ At(b, i + 1) = "/" THEN past(i + 2, InBlock(state.open - 1))
         ELSE past(i + 1, state)
    [] state.kind = "string" ->
         (CASE b[i] = "\\" -> past(i + 2, state)
            [] b[i] = "\"" -> past(i + 1, InCode)
            [] OTHER -> past(i + 1, state))
    [] state.kind = "raw" ->
         IF ClosesRaw(b, i, state.hashes) THEN past(i + 1 + state.hashes, InCode)
         ELSE past(i + 1, state)
    [] state.kind = "code" ->
         CASE Starts(b, i, "/") -> [code |-> <<>>, state |-> InCode]
           [] Starts(b, i, "*") -> past(i + 2, InBlock(1))
           [] b[i] \in {"b", "r"} ->
                LET l == Prefixed(b, i) IN
                (CASE l.kind = "raw" -> past(l.at, InRaw(l.hashes))
                   [] l.kind = "string" -> past(l.at, InString)
                   [] l.kind = "char" -> past(QuoteEnd(b, l.at), InCode)
                   [] l.kind = "none" -> code(i + 1))
           [] b[i] = "\"" -> past(i + 1, InString)
           [] b[i] = "'" -> IF QuoteEnd(b, i) = i + 1 THEN code(i + 1)
                            ELSE past(QuoteEnd(b, i), InCode)
           [] b[i] = " " -> past(i + 1, InCode)
           [] OTHER -> code(i + 1)

-----------------------------------------------------------------------------
(* symbol_span *)

\* The lines of a text, without their ends.
Lines(b) ==
  LET last == IF b = <<>> \/ Last(b) = NL THEN {} ELSE {Len(b) + 1}
      ends == SetToSortSeq({i \in DOMAIN b : b[i] = NL} \cup last, <)
  IN [k \in DOMAIN ends |-> SubSeq(b, IF k = 1 THEN 1 ELSE ends[k - 1] + 1, ends[k] - 1)]

\* What the braces among the code of a line do: open and close the body.
Braces(body, code) ==
  FoldLeft(LAMBDA r, c : CASE c = "{" -> [r EXCEPT !.depth = @ + 1, !.opened = TRUE]
                           [] c = "}" /\ r.opened ->
                                [r EXCEPT !.depth = @ - 1, !.closed = @ \/ r.depth = 1]
                           [] OTHER -> r,
           body, code)

\* Fault: every line starts in code.
CarriedNothing(state) == InCode

Carried(state) == state

RECURSIVE SpanFrom(_, _, _, _, _)

SpanFrom(lines, start, i, state, body) ==
  IF i > Len(lines) THEN Len(lines)
  ELSE IF ~body.opened /\ i >= start + SignatureLines THEN start
  ELSE LET scan == ScanFrom(lines[i], 1, state)
           now == Braces(body, scan.code)
       IN IF now.closed \/ (~now.opened /\ scan.code # <<>> /\ Last(scan.code) = ";") THEN i
          ELSE SpanFrom(lines, start, i + 1, Carried(scan.state), now)

\* The last line of the item that begins on line start; a line past the end of the
\* file is an item of its own.
SymbolSpan(lines, start) ==
  IF start > Len(lines) THEN Max({Len(lines), 1})
  ELSE SpanFrom(lines, start, start, InCode, [depth |-> 0, opened |-> FALSE, closed |-> FALSE])

-----------------------------------------------------------------------------
(* Sources *)

\* A word ends where the next begins, and a lifetime is no character literal.
Fit(s, t) ==
  s # <<>> =>
    /\ Last(Last(s)) \in Letters => Head(t) \notin Letters
    /\ Head(Last(s)) = "'" /\ Last(s) \in Code => Head(t) # "'"

Init == tokens \in Heads

\* A source gets another lexeme.
Next ==
  /\ Len(tokens) < 2 + MaxTokens
  /\ \E t \in Code \cup Quoted : Fit(tokens, t) /\ tokens' = Append(tokens, t)

Spec == Init /\ [][Next]_tokens

-----------------------------------------------------------------------------
(* Properties *)

Text == FlattenSeq(tokens)

IsCode(k, bytes) == tokens[k] \in Code /\ tokens[k][1] \in bytes

\* What is open behind the lexeme k, counted from the lexeme from on.
Open(from, k, opens, closes) ==
  LET count(bytes) == Cardinality({i \in from..k : IsCode(i, bytes)})
  IN [up |-> count(opens), down |-> count(closes)]

Balanced ==
  \A k \in DOMAIN tokens :
    LET o == Open(1, k, Opens, Closes) IN o.down <= o.up

DeepestNesting ==
  Max({0} \cup {LET o == Open(1, k, Opens, Closes) IN o.up - o.down : k \in DOMAIN tokens})

(* Who parses a source depends on how deep its delimiters nest, whatever its *)
(* strings, characters, lifetimes and comments hold: nothing deeper than the *)
(* limit reaches the recursive parser, and nothing else is refused.          *)
GuardIsExact ==
  Balanced =>
    Parser(Text) =
      CASE DeepestNesting > MaxNesting -> "heuristic"
        [] DeepestNesting <= InlineNesting -> "syn"
        [] OTHER -> "syn on a thread of its own"

LineOf(k) ==
  1 + Cardinality({i \in DOMAIN FlattenSeq(SubSeq(tokens, 1, k - 1)) : Text[i] = NL})

\* The line on which the item ends that begins with lexeme s: that of the brace
\* that closes its body, or of a semicolon that ends a line before any body is
\* opened; if there is neither, its own or that of the end of the file.
ItemEnd(s) ==
  LET here == s..Len(tokens)
      opened == {k \in here : IsCode(k, {"{"})}
      closed == {k \in here : opened # {} /\ k > Min(opened)
                              /\ LET o == Open(Min(opened), k, {"{"}, {"}"}) IN o.up = o.down}
      ended == {k \in here : /\ IsCode(k, {";"})
                             /\ \A j \in here :
                                  /\ LineOf(j) <= LineOf(k) => ~IsCode(j, {"{"})
                                  /\ j > k /\ LineOf(j) = LineOf(k) =>
                                       tokens[j] \notin Code \/ tokens[j] = <<NL>>}
      limit == LineOf(s) + SignatureLines
      late(K) == K = {} \/ LineOf(Min(K)) >= limit
  IN
  CASE ~late(ended) -> LineOf(Min(ended))
    [] late(ended) /\ late(opened) /\ Len(Lines(Text)) >= limit -> LineOf(s)
    [] late(ended) /\ ~late(opened) /\ closed # {} -> LineOf(Min(closed))
    [] OTHER -> Len(Lines(Text))

(* The text of an item that begins a line is what symbol_span cuts out: from *)
(* there to the line of the brace that closes its body or of the semicolon   *)
(* that ends it, whatever its literals and comments hold and however many    *)
(* lines they span.                                                          *)
SpanIsItem ==
  \A s \in DOMAIN tokens :
    (s = 1 \/ tokens[s - 1] = <<NL>>) /\ LineOf(s) <= Len(Lines(Text)) =>
      SymbolSpan(Lines(Text), LineOf(s)) = ItemEnd(s)

(* Both scanners tell code from what only looks like it.                     *)
OnlyCodeCounts == GuardIsExact /\ SpanIsItem

=============================================================================

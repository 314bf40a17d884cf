-------------------------------- MODULE Lzss --------------------------------
(* The codec of the COLD spill store (lzss.rs): LZSS alone (format 1), LZSS
   with a dictionary shared by all blobs (format 2), and the bytes as they are
   (format 0), whichever is shortest. A text is a sequence of small numbers, a
   blob a format and its tokens; the flag byte each group of tokens costs is
   counted, not written. Positions count from 1, and 0 is "no position". *)
EXTENDS Integers, Sequences, FiniteSets, FiniteSetsExt, SequencesExt, Functions

CONSTANTS
  MinMatch,       \* a shorter match is not worth its token (3)
  Window,         \* how far back a match of format 1 may start (4096)
  MaxMatch,       \* and how long it may be (18)
  DictWindow,     \* the same for format 2 (32768), also the largest dictionary
  DictMaxMatch,   \* (258)
  NearOffset,     \* up to here, and up to NearLength, a match of format 2 ...
  NearLength,     \* ... takes two bytes, not four (2048, 10)
  LengthField,    \* the values of the length field of a two-byte match (16)
  MaxChain,       \* candidates tried for a match (64)
  HashSize        \* (8192, 32768)

ASSUME CodecAssumption ==
  /\ {MinMatch, Window, MaxMatch, DictWindow, DictMaxMatch, NearOffset, NearLength,
      LengthField, MaxChain, HashSize} \subseteq Nat \ {0}
  /\ {MaxMatch - MinMatch, NearLength - MinMatch} \subseteq 0..(LengthField - 1)

Format1 == [window |-> Window, longest |-> MaxMatch,
            nearOffset |-> Window, nearLength |-> MaxMatch, lazy |-> FALSE]

Format2 == [window |-> DictWindow, longest |-> DictMaxMatch,
            nearOffset |-> NearOffset, nearLength |-> NearLength, lazy |-> TRUE]

-----------------------------------------------------------------------------
(* Tokens *)

Literal(b) == [kind |-> "literal", byte |-> b]

\* A match, packed into two bytes when it is near and short.
Match(format, off, len) ==
  IF off <= format.nearOffset /\ len <= format.nearLength
  THEN [kind |-> "near", code |-> ((off - 1) * LengthField + (len - MinMatch))
                                    % (format.nearOffset * LengthField)]
  ELSE [kind |-> "far", off |-> off - 1, len |-> (len - MinMatch) % 256]

OffsetOf(token) ==
  IF token.kind = "near" THEN (token.code \div LengthField) + 1 ELSE token.off + 1

LengthOf(token) ==
  MinMatch + (IF token.kind = "near" THEN token.code % LengthField ELSE token.len)

Cost(token) == CASE token.kind = "literal" -> 1
                 [] token.kind = "near"    -> 2
                 [] token.kind = "far"     -> 4

\* Bytes of a stream: its tokens, and a flag byte for every eight of them.
StreamSize(tokens) ==
  FoldLeft(LAMBDA sum, token : sum + Cost(token), (Len(tokens) + 7) \div 8, tokens)

-----------------------------------------------------------------------------
(* Finding a match: chains of earlier positions with the same hash *)

\* On letters below 32 the shifts and xors of the code are this sum.
Hash3(buf, pos) == (buf[pos] * 1024 + buf[pos + 1] * 32 + buf[pos + 2]) % HashSize

Empty == [head |-> [h \in 0..(HashSize - 1) |-> 0], prev |-> << >>, journal |-> << >>]

\* pos heads its chain. The head it replaces is noted in the journal.
Insert(table, buf, pos) ==
  IF pos + MinMatch - 1 > Len(buf) THEN table
  ELSE LET h == Hash3(buf, pos) IN
       [head    |-> [table.head EXCEPT ![h] = pos],
        prev    |-> [p \in DOMAIN table.prev \cup {pos} |->
                       IF p = pos THEN table.head[h] ELSE table.prev[p]],
        journal |-> Append(table.journal, <<h, table.head[h]>>)]

InsertAll(table, buf, first, last) ==
  FoldLeft(LAMBDA t, i : Insert(t, buf, first + i - 1), table,
           [i \in 1..(last - first + 1) |-> i])

\* The candidates for pos: at most MaxChain, until one is out of the window.
Candidates(table, buf, pos, window) ==
  LET at[i \in 1..MaxChain] ==
        IF i = 1 THEN table.head[Hash3(buf, pos)]
        ELSE IF at[i - 1] \in DOMAIN table.prev THEN table.prev[at[i - 1]] ELSE 0
      inWindow == {i \in 1..MaxChain : \A j \in 1..i : at[j] >= Max({1, pos - window})}
  IN  [i \in 1..Cardinality(inWindow) |-> at[i]]

\* How much of what follows pos also follows c, up to limit.
Common(buf, c, pos, limit) ==
  Max({l \in 0..limit : \A k \in 0..(l - 1) : c + k <= Len(buf) /\ buf[c + k] = buf[pos + k]})

NoMatch == [len |-> 0, off |-> 0]

Longer(best, match) == IF match.len > best.len THEN match ELSE best

\* The longest match, the nearest of several.
Find(format, table, buf, pos) ==
  LET limit == Min({Len(buf) - pos + 1, format.longest}) IN
  IF limit < MinMatch THEN NoMatch
  ELSE FoldLeft(LAMBDA best, c :
                  Longer(best, [len |-> Common(buf, c, pos, limit), off |-> pos - c]),
                NoMatch, Candidates(table, buf, pos, format.window))

-----------------------------------------------------------------------------
(* Compression *)

\* Format 2 puts a match off when the next position has a longer one.
Better(format, buf, s, found) ==
  format.lazy /\ s.pos < Len(buf) /\ Find(format, s.table, buf, s.pos + 1).len > found.len

\* One token for what is at s.pos, where found is the longest match.
Emit(format, buf, s, found) ==
  IF found.len >= MinMatch /\ ~Better(format, buf, s, found)
  THEN [pos    |-> s.pos + found.len,
        tokens |-> Append(s.tokens, Match(format, found.off, found.len)),
        table  |-> InsertAll(s.table, buf, s.pos, s.pos + found.len - 1)]
  ELSE [pos    |-> s.pos + 1,
        tokens |-> Append(s.tokens, Literal(buf[s.pos])),
        table  |-> Insert(s.table, buf, s.pos)]

NextToken(format, buf, s) == Emit(format, buf, s, Find(format, s.table, buf, s.pos))

\* The tokens of buf from start on, and the table they leave.
Stream(format, table, buf, start) ==
  FoldLeft(LAMBDA s, i : IF s.pos > Len(buf) THEN s ELSE NextToken(format, buf, s),
           [pos |-> start, tokens |-> << >>, table |-> [table EXCEPT !.journal = << >>]],
           [i \in 1..(Len(buf) - start + 1) |-> i])

Verbatim(data) == [format |-> 0, tokens |-> [i \in DOMAIN data |-> Literal(data[i])]]

BlobSize(blob) == 1 + (IF blob.format = 0 THEN Len(blob.tokens) ELSE StreamSize(blob.tokens))

Plain(data, packed) ==
  IF StreamSize(packed) < Len(data) THEN [format |-> 1, tokens |-> packed] ELSE Verbatim(data)

Compress(data) == Plain(data, Stream(Format1, Empty, data, 1).tokens)

\* The table of a dictionary: all its positions but the last three.
DictTable(dict) == [InsertAll(Empty, dict, 1, Len(dict) - MinMatch) EXCEPT !.journal = << >>]

\* Fault: the heads are put back in the order in which they were replaced.
AsReplaced(journal) == journal

\* The order in which the heads a blob replaced are put back: the last first.
LastFirst(journal) == Reverse(journal)

\* The table for the next blob. Links of chains past the dictionary need not be
\* kept: a position there gets its link when it becomes a head.
Restored(table, dict) ==
  [head    |-> FoldLeft(LAMBDA head, old : [head EXCEPT ![old[1]] = old[2]],
                        table.head, LastFirst(table.journal)),
   prev    |-> Restrict(table.prev, DOMAIN table.prev \cap DOMAIN dict),
   journal |-> << >>]

\* Format 2, if it is shorter than v1, and the compressor's table after it.
Shorter(s, v1, dict) ==
  [blob  |-> IF StreamSize(s.tokens) + 1 < BlobSize(v1)
             THEN [format |-> 2, tokens |-> s.tokens] ELSE v1,
   table |-> Restored(s.table, dict)]

CompressWith(dict, table, data) ==
  Shorter(Stream(Format2, table, dict \o data, Len(dict) + 1), Compress(data), dict)

-----------------------------------------------------------------------------
(* Decompression *)

\* No text: letters are natural numbers.
Malformed == << -1 >>

\* One token more of text. A match may overlap what it produces.
Expand(text, token) ==
  IF text = Malformed THEN Malformed
  ELSE IF token.kind = "literal" THEN Append(text, token.byte)
  ELSE LET off == OffsetOf(token) IN
       IF off > Len(text) THEN Malformed
       ELSE text \o [k \in 1..LengthOf(token) |->
                       text[Len(text) - off + ((k - 1) % off) + 1]]

Decode(dict, tokens) == FoldLeft(Expand, dict, tokens)

\* decompress_with; the empty sequence is no dictionary.
Decompress(blob, dict) ==
  IF blob.format < 2 THEN Decode(<< >>, blob.tokens)
  ELSE IF dict = << >> THEN Malformed
  ELSE LET text == Decode(dict, blob.tokens) IN
       IF text = Malformed THEN Malformed ELSE SubSeq(text, Len(dict) + 1, Len(text))

=============================================================================

----------------------------- MODULE MCLexemes ------------------------------
(* Lexemes for the instances of SourceScan. *)

NewLine == "\n"
FirstByte == "lead"
SecondByte == "follow"

Q == "\""     \* a quote
B == "\\"     \* a backslash

CodeLexemes == {<<"{">>, <<"}">>, <<"(">>, <<";">>, <<"a">>, <<"a", "r">>, <<NewLine>>,
                <<"r", "#", "a">>, <<"'", "a">>}

Literals == {
  <<Q, "{", Q>>, <<Q, B, Q, "}", Q>>, <<Q, "}", NewLine, Q>>, <<Q, B, NewLine, "{", Q>>,
  <<"b", Q, "(", Q>>, <<"r", Q, "{", B, Q>>, <<"b", "r", "#", Q, "}", Q, NewLine, "{", Q, "#">>,
  <<"'", "{", "'">>, <<"'", Q, "'">>, <<"'", B, "a", "'">>, <<"b", "'", "}", "'">>,
  <<"'", FirstByte, SecondByte, "'">>}

Comments == {
  <<"/", "/", Q, "{", NewLine>>, <<"/", "*", "}", "*", "/">>,
  <<"/", "*", "{", "/", "*", NewLine, "*", "/", Q, "*", "/">>}

LiteralsAndComments == Literals \cup Comments

\* A source starts with anything, or with a body that opens on its first line.
Beginnings == {<<>>, <<<<"{">>, <<NewLine>>>>}

\* The literal '\\', in a body.
Backslash == {<<"'", B, B, "'">>}
Bodies == {<<<<"{">>, <<NewLine>>>>}

=============================================================================

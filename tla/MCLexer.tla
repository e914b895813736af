------------------------------ MODULE MCLexer ------------------------------
(* Lexer on every template of three pieces of source, and on every longer  *)
(* one of MaxPieces pieces of layout: the heads, closes, text, blanks,     *)
(* newlines and escapes that meet on one line.                             *)
EXTENDS Lexer

CONSTANT MaxPieces

If == <<"@", "if", " ", "x">>
Layout == {If \o <<" ", "{">>, <<"@", "}">>, <<"@", "}", " ", "else", "{", NL>>, <<"{", "#", "x", "#", "}">>,
  <<"{", "{", "-", "x", "}", "}">>, <<"{">>, <<"x">>, <<" ">>, <<NL>>, <<Esc>>}
Pieces == Layout \cup {If \o <<NL>>, If \o <<"{", "-", NL>>, <<"@", "}", "+">>, <<"@", "verbatim", " ", "{", NL>>,
  <<"@", "verbatim", " ", "x", NL>>, <<"{", "#", "#", "}", "+">>, <<"{", "{", "dq", "#", "{", "dq">>,
  <<"x", "~", "}", "}", NL>>, <<"?[", "{", ":">>}

Templates ==
  {FlattenSeq(s) : s \in [1..MaxPieces -> Layout] \cup UNION {[1..n -> Pieces] : n \in 0..3}}
=============================================================================

----------------------------- MODULE MCSqlText -----------------------------
(* Model-checking instance of SqlText alone, for what a document says of a *)
(* text and the code does otherwise: for each of the two, every short text *)
(* over the characters that it turns on.                                   *)
EXTENDS SqlText

BracketAlphabets == {{"[", ";", "]"}}
LiteralAlphabets == {{"'", "-", "\n"}}
=============================================================================

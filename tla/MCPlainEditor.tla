--------------------------- MODULE MCPlainEditor ---------------------------
(***************************************************************************)
(* The small instance of PlainEditor: an ASCII character x and a character *)
(* e of two UTF-8 bytes, whose Latin-1 byte stands for NUL and newline as  *)
(* well.  Scripts pass x, the empty text, or x and a newline.              *)
(***************************************************************************)
EXTENDS PlainEditor

MCByte == {"a", "l", "k"}
MCContinuation == {"k"}
MCChars == {"x", "e"}
MCUtf8 == [ch \in MCChars |-> IF ch = "x" THEN <<"a">> ELSE <<"l", "k">>]
MCLatin1 == [ch \in MCChars |-> IF ch = "x" THEN "a" ELSE "l"]
MCStrings == {<< <<"x">> >>, << << >> >>, << <<"x">>, << >> >>}
MCKeyText == <<"x">>

=============================================================================

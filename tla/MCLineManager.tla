--------------------------- MODULE MCLineManager ---------------------------
(***************************************************************************)
(* The small instance of LineManager that TLC checks: an ASCII byte and a  *)
(* continuation byte, so that a string may be longer than its characters   *)
(* (<<"a", "k">> stands for one two-byte character).  UIntMod leaves room  *)
(* above the columns for an unsigned column that wraps below 0.            *)
(***************************************************************************)
EXTENDS LineManager

MCByte == {"a", "k"}
MCContinuation == {"k"}
MCStrings == {<<"a">>, <<"a", "k">>}
MCColumns == 0..4
MCLineNos == {0}

=============================================================================

-------------------------- MODULE MCScriptInstall --------------------------
(***************************************************************************)
(* The small instance of ScriptInstall: two windows, two script files.     *)
(***************************************************************************)
EXTENDS ScriptInstall, TLC

MCData == {NoData, Truncated} \cup (Names \ {NoName}) \X Versions

WindowSymmetry == Permutations(Clients)

=============================================================================

------------------------- MODULE MCDatabaseManager -------------------------
(***************************************************************************)
(* The small instance of DatabaseManager: two processes, which are         *)
(* interchangeable, the empty name and another, the empty data and others. *)
(***************************************************************************)
EXTENDS DatabaseManager, TLC

ProcessSymmetry == Permutations(Clients)

=============================================================================

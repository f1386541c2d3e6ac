------------------------------- MODULE MCEngine -------------------------------
(***************************************************************************)
(* Small instances of the engine.                                          *)
(***************************************************************************)
EXTENDS Engine, TLC

(* Submitted commands that leave the auction open are interchangeable. *)
CommandSymmetry == Permutations(Commands \ (Ticks \cup Ending))
=============================================================================

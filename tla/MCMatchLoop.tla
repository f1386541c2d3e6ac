---------------------------- MODULE MCMatchLoop ----------------------------
(***************************************************************************)
(* Every window of up to four bids of one to three units at two price      *)
(* levels, against every supply from nothing to a little over one level.   *)
(***************************************************************************)
EXTENDS MatchLoop

MCKeys == 1..4
=============================================================================

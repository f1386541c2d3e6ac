------------------------------ MODULE MCAuction ------------------------------
(***************************************************************************)
(* Small instances of the auction.  The clock starts at 3, falls by 1      *)
(* every 2 nanoseconds and is at its floor of 1 from instant 4 on.         *)
(***************************************************************************)
EXTENDS Deadlines, TLC

MCSchedule ==
  [start_price |-> 3, floor_price |-> 1, kind |-> Stepped(2, 1)]

(* Limits the clock reaches, and one it never does: below zero. *)
MCLimits == {-1, 2, 3}
FarBelowZero == {-2}

(* No definition tells two keys apart except by what was done with them. *)
KeySymmetry == Permutations(Keys)
=============================================================================

--------------------------- MODULE MCAuctionLadder ---------------------------
(***************************************************************************)
(* A small instance of the auction with its ladder, on the clock of        *)
(* MCAuction: it starts at 3, falls by 1 every 2 nanoseconds and is at its *)
(* floor of 1 from instant 4 on.                                           *)
(***************************************************************************)
EXTENDS AuctionLadder, TLC

MCSchedule ==
  [start_price |-> 3, floor_price |-> 1, kind |-> Stepped(2, 1)]

(* Limits the clock reaches, and one it never does: below zero. *)
MCLimits == {-2, 1, 3}

(* No definition tells two keys apart except by what was done with them,   *)
(* nor two participants.                                                   *)
KeyAndParticipantSymmetry == Permutations(Keys) \cup Permutations(Participants)
=============================================================================

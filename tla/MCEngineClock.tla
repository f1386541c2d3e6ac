---------------------------- MODULE MCEngineClock ----------------------------
(***************************************************************************)
(* A small instance of the engine and its clock: prices 3, 2 and the floor *)
(* 1 from instant 4 on, windows of 3 nanoseconds, two participants.        *)
(***************************************************************************)
EXTENDS EngineClock

CONSTANTS k1, k2, p1, p2

MCSchedule ==
  [start_price |-> 3, floor_price |-> 1, kind |-> Stepped(2, 1)]

Fund(s, p) == OnSetCollateral(s, p, 6)

(* A log of two deposits, both applied at instant zero. *)
Funded == Fund(Fund(NewAuction, p1), p2)

MCSubmissions ==
  {[cmd |-> "Open"],
   [cmd |-> "SubmitTake", participant |-> p1, key |-> k1, qty |-> 2, expected_price |-> 3],
   [cmd |-> "SubmitResting", participant |-> p2, key |-> k2, qty |-> 2, limit |-> 2],
   [cmd |-> "CancelResting", participant |-> p2, key |-> k2],
   [cmd |-> "SetCollateral", participant |-> p2, limit |-> 2],
   [cmd |-> "Cancel"]}

(* The operator takes a deposit and opens the auction. *)
DepositAndOpen ==
  {[cmd |-> "Open"], [cmd |-> "SetCollateral", participant |-> p1, limit |-> 6]}
=============================================================================

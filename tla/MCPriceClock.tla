---------------------------- MODULE MCPriceClock ----------------------------
(***************************************************************************)
(* Small instances of the price clock: every stepped and linear schedule   *)
(* with prices 0..4, on a clock whose u64 ends at U64Max.                  *)
(***************************************************************************)
EXTENDS PriceClock

Prices == 0..4

SchedulesOf(kinds) ==
  {s \in [start_price : Prices, floor_price : Prices, kind : kinds] :
     s.floor_price <= s.start_price}

(* Steps that take time, and linear rates from a standstill to I64Max. *)
MCSchedules ==
  SchedulesOf({Stepped(d, z) : d \in 1..3, z \in 0..3}
                \cup {Linear(r) : r \in 0..4})

MCTargets == -1..5
=============================================================================

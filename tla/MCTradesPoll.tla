---------------------------- MODULE MCTradesPoll ----------------------------
(* Small instances of TradesPoll for TLC. *)
EXTENDS TradesPoll

CONSTANTS hot, quiet

\* A contract with two trades on successive days, and one that never trades.
MCTrades == {[ticker |-> hot, at |-> d, day |-> d] : d \in 1..2}
=============================================================================

------------------------------ MODULE MCBacktest ------------------------------
(***************************************************************************)
(* Small instances of Backtest for TLC: bars that rise and bars that fall, *)
(* in units of 36 so that every pro-rata share of up to four orders of     *)
(* sizes 1 and 2 is exact.  The tickets open, add to, close in part, close *)
(* and reverse a position; the limit order fills at its limit on a rising  *)
(* bar and at the better open of a falling one.                            *)
(***************************************************************************)
EXTENDS Backtest, TLC

RisingAndFalling == {<<36, 72>>, <<72, 36>>}
MarketAndLimit ==
    {[side |-> "long", size |-> 2, limit |-> NoLimit],
     [side |-> "short", size |-> 1, limit |-> NoLimit],
     [side |-> "short", size |-> 2, limit |-> 72]}
SymbolSymmetry == Permutations(Symbols)
=============================================================================

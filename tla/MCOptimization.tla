--------------------------- MODULE MCOptimization ---------------------------
(***************************************************************************)
(* A small instance of Optimization: two folds, parameters on two or three *)
(* positions.  Each method has its own bound on runs of the experiment:    *)
(* random search, with one candidate a fold, is the one run again over the *)
(* files of an earlier run; the others are searched once, in more detail.  *)
(***************************************************************************)
EXTENDS Optimization

Rejected == [m |-> 0, acc |-> FALSE]
Accepted(score) == [m |-> score, acc |-> TRUE]
MCVerdicts(m, slice) ==
    CASE m = "random" -> {Rejected, Accepted(1)}
      [] m \in {"recursive_grid", "lhs_polish"} /\ slice = "oos" -> {Rejected, Accepted(1)}
      [] OTHER -> {Rejected, Accepted(1), Accepted(3)}
MCMaxRuns == [m \in SearchMethods |-> IF m = "random" THEN 2 ELSE 1]
MCMaxPicks == [m \in SearchMethods |-> IF m = "random" THEN 1 ELSE 0]
MCNegInf == -1000
MCClamped == -900
=============================================================================

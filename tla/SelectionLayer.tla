--------------------------- MODULE SelectionLayer ---------------------------
(***************************************************************************)
(* The overfitting-aware selection layer (python/strategy_gpt/selection):  *)
(* from the cross-validated candidates and the history of training trials  *)
(* to a decision.  Pure operators, used by Optimization for the run's own  *)
(* selection and for a later reselection over its artifacts.               *)
(*                                                                         *)
(* Parameter sets are positions on one searched dimension, so the distance *)
(* of two of them in min-max-normalized space orders like the distance of  *)
(* the positions.  Scores are integers; -inf is NegInf and the -1e308 that *)
(* _safe_float writes in its place is Clamped.  A candidate is             *)
(*   [params, score, acc, oos]: its mean score, whether it was accepted on *)
(*   every fold, its primary metric on each fold;                          *)
(* a point of the history is [params, score].                              *)
(***************************************************************************)
EXTENDS Integers, Sequences, FiniteSets, FiniteSetsExt

CONSTANTS
    NegInf, Clamped,    \* -inf and -1e308: below every score, in this order
    TopK,               \* selection.pbo.top_k
    NeighborhoodK,      \* selection.sensitivity.neighborhood_k (penalty is 0)
    ThresholdPercent    \* selection.pbo.threshold

ASSUME ClampAssumption == NegInf \in Int /\ Clamped \in Int /\ NegInf < Clamped
ASSUME KnobsAssumption ==
    TopK \in Nat \ {0} /\ NeighborhoodK \in Nat \ {0} /\ ThresholdPercent \in 0..100

Finite(x) == x # NegInf
SafeFloat(x) == IF x = NegInf THEN Clamped ELSE x

\* The members of S in their order: the k-th has k - 1 before it.
Ordered(S, before) ==
    [k \in 1..Cardinality(S) |->
        CHOOSE i \in S : Cardinality({j \in S : <<j, i>> \in before}) = k - 1]

\* Indices, the ones Above the others first; sorted(..., reverse=True) is stable,
\* so equal ones keep their order.
Ranked(S, Above(_, _)) ==
    Ordered(S, {p \in S \X S : \/ Above(p[1], p[2])
                               \/ (~Above(p[2], p[1]) /\ p[1] < p[2])})

Prefix(s, n) == [i \in 1..Min({n, Len(s)}) |-> s[i]]

SumOver(S, f) ==
    LET sum[T \in SUBSET S] ==
            IF T = {} THEN 0 ELSE LET x == CHOOSE x \in T : TRUE IN f[x] + sum[T \ {x}]
    IN  sum[S]

TopCandidates(cands) ==
    LET order == Ranked(DOMAIN cands,
                    LAMBDA i, k : \/ (cands[i].acc /\ ~cands[k].acc)
                                  \/ (cands[i].acc = cands[k].acc /\ cands[i].score > cands[k].score))
        top == Prefix(order, TopK)
    IN  [k \in DOMAIN top |-> cands[top[k]]]

(***************************************************************************)
(* Probability of backtest overfitting, by symmetric cross-validation      *)
(***************************************************************************)
\* Every split of an even number of folds into two halves, the last fold of an
\* odd number dropped (at most 16 folds: the splits are enumerated).
Splits(folds) ==
    LET half == folds \div 2 IN
    {<<A, (1..(2 * half)) \ A>> : A \in {X \in SUBSET (1..(2 * half)) : Cardinality(X) = half}}

\* The first trial with the best total on A lands, on B, in the bottom half:
\* its average rank is below (N + 1) / 2.
LandsLow(matrix, A, B) ==
    LET Total(i, S) == SumOver(S, matrix[i])
        N     == DOMAIN matrix
        star  == CHOOSE i \in N : /\ \A k \in N : Total(i, A) >= Total(k, A)
                                  /\ \A k \in N : k < i => Total(k, A) < Total(i, A)
        less  == Cardinality({i \in N : Total(i, B) < Total(star, B)})
        equal == Cardinality({i \in N : Total(i, B) = Total(star, B)})
    IN  2 * less + equal + 1 < Len(matrix) + 1

\* PBO > threshold.  Fewer than two trials or folds give a PBO of zero.
Overfit(cands) ==
    LET matrix == [i \in DOMAIN cands |-> cands[i].oos]
        splits == Splits(Len(matrix[1]))
    IN  /\ Len(matrix) >= 2 /\ Len(matrix[1]) >= 2
        /\ 100 * Cardinality({s \in splits : LandsLow(matrix, s[1], s[2])})
                > ThresholdPercent * Cardinality(splits)

(***************************************************************************)
(* Parameter sensitivity                                                   *)
(***************************************************************************)
Away(p, q) == IF p > q THEN p - q ELSE q - p

\* The scores of the candidate's nearest finite points, itself (as point 0) among
\* them; the history is a function from trials to points.
Neighborhood(c, history) ==
    LET pool == [i \in DOMAIN history \cup {0} |->
                    IF i = 0 THEN [params |-> c.params, score |-> c.score] ELSE history[i]]
        finite == {i \in DOMAIN pool : Finite(pool[i].score)}
        Distance(i) == Away(pool[i].params, c.params)
        nearer(i) == {k \in finite : \/ Distance(k) < Distance(i)
                                    \/ (Distance(k) = Distance(i) /\ k < i)}
    IN  [i \in {k \in finite : Cardinality(nearer(k)) < NeighborhoodK} |-> pool[i].score]

\* statistics.fmean of two -1e308 raises OverflowError.
Overflows(scores) == Cardinality({i \in DOMAIN scores : scores[i] = Clamped}) >= 2

\* The robust score, as the total over a neighborhood whose size is the same for
\* every candidate with a finite score.
Robust(c, history) ==
    LET scores == Neighborhood(c, history)
    IN  IF DOMAIN scores = {} THEN c.score ELSE SumOver(DOMAIN scores, scores)

(***************************************************************************)
(* The decision                                                            *)
(***************************************************************************)
\* The layer raises when a neighborhood does.
Raises(cands, history) ==
    \E i \in DOMAIN TopCandidates(cands) : Overflows(Neighborhood(TopCandidates(cands)[i], history))

\* The ranking key after acceptance: the robust score, or the deflated Sharpe
\* ratio, which depends on data the model leaves out: any function of the
\* candidates (dsr, by params).  Then the score, then the lower variance of the
\* metric over the folds.
Spread(c) ==
    LET folds == DOMAIN c.oos
        total == SumOver(folds, c.oos)
    IN  Cardinality(folds) * SumOver(folds, [f \in folds |-> c.oos[f] * c.oos[f]]) - total * total

Ratios(cands) == [{cands[i].params : i \in DOMAIN cands} -> 0..1]

BestOf(cands, history, robust, dsr) ==
    LET top == TopCandidates(cands)
        Key(c) == IF robust THEN Robust(c, history) ELSE dsr[c.params]
        Above(c, d) ==
            \/ c.acc /\ ~d.acc
            \/ /\ c.acc = d.acc
               /\ LET key == <<Key(c), Key(d)>>
                  IN  \/ key[1] > key[2]
                      \/ /\ key[1] = key[2]
                         /\ \/ c.score > d.score
                            \/ c.score = d.score /\ Spread(c) < Spread(d)
    IN  top[Ranked(DOMAIN top, LAMBDA i, k : Above(top[i], top[k]))[1]]

\* run_selection: [status, pick], pick a candidate or << >>.
RunSelection(cands, history, robust, dsr, force) ==
    IF cands = << >> THEN [status |-> "rejected_constraint", pick |-> << >>]
    ELSE LET best == BestOf(cands, history, robust, dsr) IN
         IF ~force /\ Overfit(TopCandidates(cands))
         THEN [status |-> "rejected_pbo", pick |-> << >>]
         ELSE IF ~best.acc THEN [status |-> "rejected_constraint", pick |-> << >>]
         ELSE [status |-> "accepted", pick |-> << best >>]
=============================================================================

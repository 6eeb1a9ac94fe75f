---------------------------- MODULE TesterRules ----------------------------
(***************************************************************************)
(* The computations of the Tester (tester.py): how a proposed change is    *)
(* translated and how one that is not reaches the ledger, how a slice is   *)
(* cut into folds, and how a mini-optimize turns the metrics of its trials *)
(* into a comparative verdict.                                             *)
(*                                                                         *)
(* Metrics are integers.  A mean over folds is kept as its sum, with every *)
(* other side of a comparison multiplied by the number of folds.           *)
(***************************************************************************)
EXTENDS Integers, Sequences, FiniteSets, Functions, FiniteSetsExt

NoRun == [artifact |-> "none"]

(***************************************************************************)
(* Translation of proposed_change: a record with the keys of the mapping,  *)
(* of which `diffs` is a sequence of mappings.                             *)
(***************************************************************************)
LogicKeys == {"source", "code", "rewrite", "diff", "patch", "new_strategy"}

DiffsOf(change) ==
    IF "diffs" \in DOMAIN change THEN change.diffs ELSE <<change>>

\* parse_param_only_change: does not raise
IsParamChange(change) ==
    /\ DOMAIN change \cap LogicKeys = {}
    /\ DOMAIN change \cap {"param", "diffs"} # {}
    /\ \A d \in Range(DiffsOf(change)) : {"param", "to"} \subseteq DOMAIN d

\* apply_param_diffs: the last diff of a parameter wins.
ApplyDiffs(base, diffs) ==
    LET Of(p) == {j \in DOMAIN diffs : diffs[j].param = p}
    IN  [p \in DOMAIN base \cup {diffs[j].param : j \in DOMAIN diffs} |->
            IF Of(p) = {} THEN base[p] ELSE diffs[Max(Of(p))].to]

\* parse_logic_change: does not raise; `params` is optional
IsLogicChange(change) ==
    {"source", "manifest"} \subseteq DOMAIN change /\ change.manifest # "malformed"
ParamsOf(change) == IF "params" \in DOMAIN change THEN change.params ELSE <<>>

Overridden(base, params) ==
    [p \in DOMAIN base \cup DOMAIN params |->
        IF p \in DOMAIN params THEN params[p] ELSE base[p]]

\* record_tester_rejection: the hypothesis first, then the decision about it.
Rejection(kind) ==
    <<[table |-> "hypotheses"], [table |-> "decisions", kind |-> "rejected", rationale |-> kind]>>

\* reject_build_failure
BuildRejection(failure) == Rejection("build_failed: " \o failure)

\* attempt_logic_change over a build that gives a library or a failure: the
\* run, and what is appended to the ledger.
Attempt(change, base, build) ==
    IF ~IsLogicChange(change)
    THEN [run |-> NoRun, ledger |-> BuildRejection("logic_change_parse")]
    ELSE IF build.library = "none"
    THEN [run |-> NoRun, ledger |-> BuildRejection(build.failure)]
    ELSE [run |-> [artifact |-> build.library, params |-> Overridden(base, ParamsOf(change))],
          ledger |-> <<>>]

\* translate_param_only; what it refuses goes to attempt_logic_change.
Translate(change, artifact, base, build) ==
    IF IsParamChange(change)
    THEN [run |-> [artifact |-> artifact, params |-> ApplyDiffs(base, DiffsOf(change))],
          ledger |-> <<>>]
    ELSE Attempt(change, base, build)

(***************************************************************************)
(* walk_forward_slices, build_full_batch_spec                              *)
(***************************************************************************)
\* timedelta rounds a float of seconds to the microsecond, half to even.
Rounded(n, d) ==
    LET down == n \div d  rest == 2 * (n % d)
    IN  IF rest > d \/ (rest = d /\ down % 2 = 1) THEN down + 1 ELSE down

WalkForwardSlices(start, end, folds) ==
    LET Cut(i) == IF i = folds THEN end ELSE start + Rounded((end - start) * i, folds)
    IN  [i \in 1..folds |->
            [start |-> start + Rounded((end - start) * (i - 1), folds), end |-> Cut(i)]]

FullBatchSpec(slices, modes, seed) ==
    [i \in DOMAIN slices |->
        [slice |-> slices[i], seed |-> seed + i - 1, modes |-> <<"plain">> \o modes]]

(***************************************************************************)
(* Falsification criterion and verdict                                     *)
(***************************************************************************)
Ops == {">=", ">", "<=", "<", "==", "!="}

\* parse_falsification: does not raise; an absent metric is the target
IsCriterion(raw) == raw.op \in Ops /\ raw.numeric /\ raw.metric # ""
MetricOf(raw, target) == IF raw.metric = "absent" THEN target ELSE raw.metric

Compare(op, observed, threshold) ==
    CASE op = ">=" -> observed >= threshold
      [] op = ">"  -> observed > threshold
      [] op = "<=" -> observed <= threshold
      [] op = "<"  -> observed < threshold
      [] op = "==" -> observed = threshold
      [] op = "!=" -> observed # threshold

EvaluateVerdict(raw, target, metrics) ==
    IF ~IsCriterion(raw) \/ MetricOf(raw, target) \notin DOMAIN metrics THEN "error"
    ELSE IF Compare(raw.op, metrics[MetricOf(raw, target)], raw.threshold)
    THEN "passed" ELSE "failed"

(***************************************************************************)
(* attempt_with_optimize                                                   *)
(***************************************************************************)
\* _build_search_space: does not raise; intent is [added |-> name :> bounds,
\* kept, removed], where the bounds may be missing or of a kind not supported
IsSearchable(intent, keptBounds) ==
    /\ (DOMAIN intent.added \cup intent.kept) \cap intent.removed = {}
    /\ \A p \in DOMAIN intent.added : intent.added[p] \notin {"no_bounds", "unsupported"}
    /\ intent.kept \subseteq DOMAIN keptBounds
SearchSpace(intent, keptBounds) ==
    [p \in DOMAIN intent.added \cup intent.kept |->
        IF p \in intent.kept THEN keptBounds[p] ELSE intent.added[p]]

Total(scores) == FoldFunction(+, 0, scores)

\* The scores of a trial: its metrics of every fold, read for one metric.
Scores(trial, metric) == [i \in DOMAIN trial |-> trial[i][metric]]

\* The loop over proposals, of which the first with the best mean is kept.
BestTrial(trials, metric) ==
    LET Best[n \in 0..Len(trials)] ==
            IF n = 0 THEN 0
            ELSE IF \/ Best[n - 1] = 0
                    \/ Total(Scores(trials[n], metric)) > Total(Scores(trials[Best[n - 1]], metric))
                 THEN n ELSE Best[n - 1]
    IN  Best[Len(trials)]

PerFoldBest(trials, metric) ==
    [i \in DOMAIN trials[1] |-> Max({trials[n][i][metric] : n \in DOMAIN trials})]

Up == {"gt", "gte"}
Down == {"lt", "lte"}

\* _evaluate_guard: does not raise, and its verdict; candidate is a sum over
\* the folds, baseline a value.
IsGuard(guard) == guard.kind \in {"delta", "factor"} /\ guard.direction \in Up \cup Down
GuardHeld(guard, candidate, baseline, folds) ==
    LET value == IF guard.kind = "delta" THEN candidate - folds * baseline ELSE candidate
        bound == folds * guard.bound * (IF guard.kind = "delta" THEN 1 ELSE baseline)
    IN  IF guard.direction \in Up THEN value >= bound ELSE value <= bound

Metric(metrics, name) == IF name \in DOMAIN metrics THEN metrics[name] ELSE 0

\* _classify_falsification
PrimaryMet(primary, delta, folds) ==
    IF primary.direction \in Up THEN delta >= folds * primary.target
    ELSE delta <= 0 - folds * (IF primary.target < 0 THEN 0 - primary.target ELSE primary.target)

Classify(met, guards) ==
    IF \E j \in DOMAIN guards : ~guards[j] THEN "regression"
    ELSE IF met THEN "accepted" ELSE "falsified"

\* _side_effect_flags, with the tolerance of 0.5 of every default metric
SideEffect(candidate, baseline, folds) ==
    LET b == folds * baseline
    IN  IF b = 0 THEN IF candidate # 0 THEN "changed_from_zero" ELSE "none"
        ELSE LET sign == IF b > 0 THEN 1 ELSE -1
             IN  IF sign * 2 * candidate >= sign * 3 * b THEN "up"
                 ELSE IF sign * 2 * candidate <= sign * b THEN "down" ELSE "none"

\* trials: per proposal, per fold, the metrics; baseline: the scores of the
\* folds and the metrics; the objective is the metric that is searched.
IsAttempt(trials, primary, guards, baseline) ==
    /\ Len(trials[1]) = Len(baseline.scores)
    /\ primary.direction \in Up \cup Down
    /\ \A g \in Range(guards) : IsGuard(g)

AttemptWithOptimize(trials, objective, primary, guards, baseline) ==
    LET folds == Len(baseline.scores)
        best == BestTrial(trials, objective)
        candidate == [m \in DOMAIN trials[best][1] |-> Total(Scores(trials[best], m))]
        delta == Total(Scores(trials[best], objective)) - Total(baseline.scores)
    IN  [best |-> best, delta |-> delta, perFold |-> PerFoldBest(trials, objective),
         flags |-> [m \in DOMAIN candidate \cap DOMAIN baseline.metrics |->
                       SideEffect(candidate[m], baseline.metrics[m], folds)],
         classification |->
            Classify(PrimaryMet(primary, delta, folds),
                     [j \in DOMAIN guards |->
                        GuardHeld(guards[j], Metric(candidate, guards[j].metric),
                                  Metric(baseline.metrics, guards[j].metric), folds)])]

----------------------------------------------------------------------------
\* The slices of a walk-forward batch tile the range they were cut from, none
\* runs backwards, and each has a seed of its own (walk_forward_slices).
SlicesTile(start, end, folds) ==
    LET runs == FullBatchSpec(WalkForwardSlices(start, end, folds), <<>>, 0)
    IN  /\ runs[1].slice.start = start /\ runs[folds].slice.end = end
        /\ \A i \in 1..folds : runs[i].slice.start <= runs[i].slice.end
        /\ \A i \in 1..folds - 1 : runs[i].slice.end = runs[i + 1].slice.start
        /\ IsInjective([i \in 1..folds |-> runs[i].seed])

\* A criterion that can be read of a metric that is there decides: it or its
\* opposite passes, never both; what cannot be read or is not measured passes
\* neither way (parse_falsification, evaluate_verdict).
Opposite ==
    LET pairs == {<<">=", "<">>, <<">", "<=">>, <<"==", "!=">>}
    IN  [op \in Ops |-> CHOOSE o \in Ops : <<op, o>> \in pairs \/ <<o, op>> \in pairs]
CriterionDecides(raw, target, metrics) ==
    raw.op \in DOMAIN Opposite =>
        {EvaluateVerdict(raw, target, metrics),
         EvaluateVerdict([raw EXCEPT !.op = Opposite[@]], target, metrics)}
            = IF raw.numeric /\ MetricOf(raw, target) \in DOMAIN metrics
              THEN {"passed", "failed"} ELSE {"error"}

\* A candidate is accepted only on the folds of one proposal, the one whose
\* parameters are reported: no other proposal has a better mean, the change of
\* the objective meets the target of the claim, and over those same folds no
\* guard is broken, a metric nobody reports counting as zero
\* (attempt_with_optimize).
VerdictIsEarned(trials, objective, primary, guards, baseline) ==
    LET r == AttemptWithOptimize(trials, objective, primary, guards, baseline)
        folds == Len(baseline.scores)
        Mean(n, m) == IF m \in DOMAIN trials[n][1]
                      THEN Total([i \in 1..folds |-> trials[n][i][m]]) ELSE 0
        Base(m) == folds * Metric(baseline.metrics, m)
        delta == Mean(r.best, objective) - Total(baseline.scores)
    IN  IsAttempt(trials, primary, guards, baseline) =>
        /\ \A n \in DOMAIN trials : Mean(n, objective) <= Mean(r.best, objective)
        /\ \A i \in 1..folds : r.perFold[i] >= trials[r.best][i][objective]
        /\ r.classification = "accepted" =>
            /\ primary.direction \in Up => delta >= folds * primary.target
            /\ primary.direction \in Down => delta <= 0 /\ delta <= folds * primary.target
            /\ \A g \in Range(guards) :
                /\ g.kind = "delta" /\ g.direction \in Down =>
                    Mean(r.best, g.metric) <= Base(g.metric) + folds * g.bound
                /\ g.kind = "delta" /\ g.direction \in Up =>
                    Mean(r.best, g.metric) >= Base(g.metric) + folds * g.bound
                /\ g.kind = "factor" /\ g.direction \in Up =>
                    Mean(r.best, g.metric) >= g.bound * Base(g.metric)

\* A change is either run or on record as rejected, never both and never lost:
\* new parameters run on the artifact there is, new code on the library built
\* from it, and every parameter the change does not name keeps its value
\* (translate_param_only, attempt_logic_change).
OneRoute(change, artifact, base, build) ==
    LET t == Translate(change, artifact, base, build)
    IN  /\ (t.run = NoRun) # (t.ledger = <<>>)
        /\ t.ledger # <<>> => [i \in DOMAIN t.ledger |-> t.ledger[i].table]
                                = <<"hypotheses", "decisions">>
        /\ t.run # NoRun =>
            /\ t.run.artifact = (IF DOMAIN change \cap LogicKeys = {} THEN artifact
                                 ELSE build.library)
            /\ \A p \in DOMAIN base :
                \/ t.run.params[p] = base[p]
                \/ DOMAIN change \cap LogicKeys = {} /\ \E d \in Range(DiffsOf(change)) : d.param = p
                \/ p \in DOMAIN ParamsOf(change)
=============================================================================

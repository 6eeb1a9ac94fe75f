------------------------------ MODULE SpecRules ------------------------------
(***************************************************************************)
(* The experiment file (experiment_spec.py) from the mapping that is read  *)
(* to the batches the commands run from it: `run` submits the runs of the  *)
(* file, `optimize` one run for each point of the search space on each     *)
(* fold, and --benchmark a sample of those (cli.py, optimization_runner.py,*)
(* search/grid.py, benchmark.py).                                          *)
(*                                                                         *)
(* The mapping is a record with the keys the file has; `bars`, `engine`    *)
(* and the parameters of a run are the sets of their keys.  A slice is     *)
(* <<start, end>>, a seed or a parallelism <<n>>; null and auto are <<>>.  *)
(***************************************************************************)
EXTENDS Integers, Sequences, FiniteSets, Functions, FiniteSetsExt

CONSTANT Unit

P == INSTANCE ParamSpace

Has(record, key) == key \in DOMAIN record

(***************************************************************************)
(* load                                                                    *)
(***************************************************************************)
\* _reject_legacy
IsLegacy(payload) ==
    /\ DOMAIN payload \cap {"strategy", "dataset"} # {}
    /\ DOMAIN payload \cap {"bars", "artifact"} = {}

\* _inherit_run_defaults: a run that has a slice or a seed keeps it.
InheritOver(payload) ==
    LET shared == {k \in {"slice", "seed"} \cap DOMAIN payload : payload[k] # <<>>}
        Fill(run) == [k \in DOMAIN run \cup shared |-> IF k \in shared THEN payload[k] ELSE run[k]]
    IN  [k \in DOMAIN payload \ {"slice", "seed"} |->
            IF k = "runs" THEN [i \in DOMAIN payload.runs |-> Fill(payload.runs[i])]
            ELSE payload[k]]
Inherit(payload) ==
    LET shared == {k \in {"slice", "seed"} \cap DOMAIN payload : payload[k] # <<>>}
        Fill(run) == [k \in DOMAIN run \cup shared |->
                        IF k \in DOMAIN run THEN run[k] ELSE payload[k]]
    IN  [k \in DOMAIN payload \ {"slice", "seed"} |->
            IF k = "runs" THEN [i \in DOMAIN payload.runs |-> Fill(payload.runs[i])]
            ELSE payload[k]]

\* FloatParam, IntParam, ChoiceParam
IsParam(p) ==
    IF p.type = "choice" THEN p.choices # <<>>
    ELSE /\ p.high > p.low
         /\ Has(p, "step") => p.step > 0
         /\ Has(p, "resolution") => p.resolution >= 2

\* The knobs of a method with the least value of each; those without a default
\* have to be there.
LeastKnob ==
    [grid |-> [resolution |-> 2],
     random |-> [n_samples |-> 1],
     bayesian |-> [n_init |-> 1, n_iter |-> 1],
     recursive_grid |-> [resolution |-> 2, top_k |-> 1, depth |-> 1],
     sobol |-> [n_points |-> 2],
     differential_evolution |-> [n_generations |-> 1, mutation_low |-> 0, mutation_high |-> 0],
     cma_es |-> [n_generations |-> 1],
     successive_halving |-> [initial_candidates |-> 2, eta |-> 2, initial_folds |-> 1],
     lhs_polish |-> [lhs_n |-> 2, top_k_polish |-> 1, max_polish_iters |-> 1]]
Methods == DOMAIN LeastKnob
Mandatory == [random |-> "n_samples", bayesian |-> "n_iter"]

IsKnobs(method, knobs) ==
    /\ DOMAIN knobs \subseteq DOMAIN LeastKnob[method]
    /\ \A k \in DOMAIN knobs : knobs[k] >= LeastKnob[method][k]
    /\ Has(Mandatory, method) => Has(knobs, Mandatory[method])
    /\ {"mutation_low", "mutation_high"} \subseteq DOMAIN knobs =>
        knobs.mutation_low <= knobs.mutation_high

\* OptimizeBlock; every knob block is checked, whatever the method
IsOptimize(o) ==
    /\ o.method \in Methods
    /\ DOMAIN o.space # {} /\ \A p \in DOMAIN o.space : IsParam(o.space[p])
    /\ \A m \in DOMAIN o.knobs : m \in Methods /\ IsKnobs(m, o.knobs[m])
    /\ Has(Mandatory, o.method) => Has(o.knobs, o.method)

\* FoldsBlock
IsFoldsBlock(f) == f.count >= 2 /\ f.gap >= 0

Allowed == {"artifact", "bars", "engine", "runs", "optimize", "folds", "parallelism", "caps",
            "strategy_label"}

\* ExperimentSpec: its fields and their cross checks
IsSpec(spec) ==
    /\ {"artifact", "bars", "runs"} \subseteq DOMAIN spec /\ DOMAIN spec \subseteq Allowed
    /\ Cardinality(spec.bars \cap {"dataset", "request"}) = 1 /\ Cardinality(spec.bars) = 1
    /\ Has(spec, "engine") => "slippage_bps" \notin spec.engine
    /\ spec.runs # <<>>
    /\ \A i \in DOMAIN spec.runs :
        Has(spec.runs[i], "slice") /\ DOMAIN spec.runs[i] \subseteq {"params", "seed", "slice"}
    /\ Has(spec, "parallelism") => spec.parallelism = <<>> \/ spec.parallelism[1] >= 1
    /\ Has(spec, "folds") => IsFoldsBlock(spec.folds)
    /\ Has(spec, "optimize") =>
        /\ IsOptimize(spec.optimize)
        /\ Has(spec, "folds")
        /\ \A i \in DOMAIN spec.runs : DOMAIN spec.optimize.space \cap spec.runs[i].params = {}

IsLoadable(payload) == ~IsLegacy(payload) /\ IsSpec(Inherit(payload))
Load(payload) == Inherit(payload)

\* resolve_parallelism: auto leaves one of the usable processors free.
Parallelism(spec, cpus) ==
    IF ~Has(spec, "parallelism") THEN 1
    ELSE IF spec.parallelism = <<>> THEN Max({1, cpus - 1}) ELSE spec.parallelism[1]

\* to_batch_spec: the runs as they are, with the defaults of RunConfig
BatchSpec(spec, cpus) ==
    [runs |-> [i \in DOMAIN spec.runs |->
        [slice |-> spec.runs[i].slice, params |-> spec.runs[i].params,
         seed |-> IF Has(spec.runs[i], "seed") THEN spec.runs[i].seed ELSE <<0>>]],
     parallelism |-> Parallelism(spec, cpus)]

(***************************************************************************)
(* optimize                                                                *)
(***************************************************************************)
\* What run_optimization refuses before the first batch: more than one run,
\* and folds that derive_folds cannot cut.
IsOptimizable(spec) ==
    /\ Has(spec, "optimize") /\ Len(spec.runs) = 1
    /\ P!IsFolds(spec.runs[1].slice[1], spec.runs[1].slice[2], spec.folds.count, spec.folds.gap)

\* translate_space: the step is dropped, only the grid reads it.
Translated(p) ==
    CASE p.type = "int" -> P!Integer(p.low, p.high)
      [] p.type = "float" -> P!Continuous(p.low * Unit, p.high * Unit)
      [] p.type = "choice" -> P!Choice(p.choices)

\* _grid_values_for
GridValues(p, resolution) ==
    IF p.type = "choice" THEN Range(p.choices)
    ELSE IF Has(p, "step")
    THEN {v \in Unit * p.low..Unit * p.high : (v - Unit * p.low) % (Unit * p.step) = 0}
            \cup {Unit * p.high}
    ELSE P!GridPoints(Translated(p), [low |-> Unit * p.low, high |-> Unit * p.high], resolution)

\* GridSearch.planned_run_count, for one parameter
PlannedPoints(p, resolution) ==
    IF p.type = "choice" THEN Len(p.choices)
    ELSE IF Has(p, "step") THEN (p.high - p.low) \div p.step + 1 ELSE resolution

\* _build_run: the template overridden by the point
TrialParams(template, point) ==
    [p \in template.params \cup DOMAIN point |-> IF Has(point, p) THEN point[p] ELSE "fixed"]

\* run_benchmark over the time of each sampled run that did not fail: the time
\* of `total` runs and the overhead, times the parallelism; the median is
\* doubled.
TwiceMedian(walls) ==
    LET n == Len(walls)
        Rank(i) == Cardinality({j \in 1..n : walls[j] < walls[i] \/ (walls[j] = walls[i] /\ j < i)})
        At(r) == walls[CHOOSE i \in 1..n : Rank(i) = r]
    IN  IF n % 2 = 1 THEN 2 * At(n \div 2) ELSE At(n \div 2 - 1) + At(n \div 2)
Spinup(walls, runs, elapsed, parallelism) ==
    LET twice == IF walls = <<>> THEN 2 * elapsed ELSE TwiceMedian(walls)
    IN  Max({0, 2 * elapsed * parallelism - runs * twice})
Predicted(walls, runs, elapsed, parallelism, total) ==
    (IF walls = <<>> THEN 2 * elapsed ELSE TwiceMedian(walls)) * total
        + Spinup(walls, runs, elapsed, parallelism)

----------------------------------------------------------------------------
\* A file that loads can be run: each run has a window and a seed, those it
\* was given itself or the shared ones, so that writing the shared window and
\* seed into every run says the same; a searched parameter is fixed nowhere,
\* so no trial runs with another value than its template or its point says;
\* and a search without a gap has folds (load, _inherit_run_defaults).
LoadedIsRunnable(payload, cpus) ==
    LET spec == Load(payload)
        Own(i, key) == IF Has(payload.runs[i], key) THEN payload.runs[i][key]
                       ELSE IF Has(payload, key) /\ payload[key] # <<>> THEN payload[key] ELSE <<0>>
    IN  IsLoadable(payload) =>
        /\ ~Has(payload, "strategy") /\ ~Has(payload, "dataset")
        /\ BatchSpec(spec, cpus).parallelism >= 1
        /\ \A i \in DOMAIN payload.runs :
            LET run == BatchSpec(spec, cpus).runs[i]
            IN  run.slice = Own(i, "slice") /\ run.seed = Own(i, "seed")
        /\ Has(spec, "optimize") =>
            /\ \A i \in DOMAIN spec.runs :
                LET point == [p \in DOMAIN spec.optimize.space |-> "searched"]
                    trial == TrialParams(spec.runs[i], point)
                IN  /\ \A p \in DOMAIN point : trial[p] = "searched"
                    /\ \A p \in spec.runs[i].params : trial[p] = "fixed"
            /\ Len(spec.runs) = 1 /\ spec.folds.gap = 0 => IsOptimizable(spec)
            /\ Has(Mandatory, spec.optimize.method) =>
                Has(spec.optimize.knobs[spec.optimize.method], Mandatory[spec.optimize.method])

\* A grid tries both ends of every range, stays inside it, has no gap wider
\* than its step, and is no more than one point per parameter away from what
\* the benchmark tells the user it will cost (_grid_values_for,
\* GridSearch.planned_run_count).
GridSpansRange(p, resolution) ==
    p.type # "choice" /\ IsParam(p) =>
        LET values == GridValues(p, resolution)
        IN  /\ {Unit * p.low, Unit * p.high} \subseteq values
            /\ \A v \in values : Unit * p.low <= v /\ v <= Unit * p.high
            /\ \A v \in values \ {Unit * p.high} :
                Has(p, "step") => \E w \in values : v < w /\ w <= v + Unit * p.step
            /\ Cardinality(values) <= PlannedPoints(p, resolution) + 1
            /\ ~Has(p, "step") => Cardinality(values) <= resolution

\* The benchmark's prediction for the very runs it sampled is not below the
\* time they took, however many of them failed (run_benchmark).
PredictionCoversSample(walls, runs, elapsed, parallelism) ==
    Predicted(walls, runs, elapsed, parallelism, runs) >= 2 * elapsed * parallelism
=============================================================================

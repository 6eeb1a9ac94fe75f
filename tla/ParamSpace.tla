------------------------------ MODULE ParamSpace ------------------------------
(***************************************************************************)
(* The computations of the optimizer on a search space (optimizer.py) and  *)
(* the folds a search is scored on (folds.py): how a point of the unit     *)
(* cube, an individual of a population or a draw of a density becomes a    *)
(* parameter set, how the recursive grid narrows its box round by round,   *)
(* and which trial a search returns.                                       *)
(*                                                                         *)
(* Numbers are multiples of 1/Unit: an integer parameter takes multiples   *)
(* of Unit, the unit interval is 0..Unit.  The bounds of a parameter that  *)
(* is sampled on a log scale stand for their logarithms.                   *)
(***************************************************************************)
EXTENDS Integers, Sequences, FiniteSets, Functions, FiniteSetsExt

CONSTANT Unit

\* ContinuousParam, IntParam, ChoiceParam
Continuous(low, high) == [kind |-> "continuous", low |-> low, high |-> high]
Integer(low, high) == [kind |-> "int", low |-> low * Unit, high |-> high * Unit]
Choice(choices) == [kind |-> "choice", choices |-> choices]

\* n / d to the nearest integer, half to even (round, timedelta)
HalfEven(n, d) ==
    LET down == n \div d  rest == 2 * (n % d)
    IN  IF rest > d \/ (rest = d /\ down % 2 = 1) THEN down + 1 ELSE down
Round(v) == Unit * HalfEven(v, Unit)
Clip(v, low, high) == Max({low, Min({v, high})})

(***************************************************************************)
(* One value of one parameter                                              *)
(***************************************************************************)
\* _project_unit, with the mutant that forgets the inclusive upper bound
ProjectUnitOpen(u, p) ==
    CASE p.kind = "continuous" -> p.low + (u * (p.high - p.low)) \div Unit
      [] p.kind = "int" ->
            LET span == (p.high - p.low) \div Unit
            IN  p.low + Unit * Min({(u * span) \div Unit, span - 1})
      [] p.kind = "choice" ->
            p.choices[1 + Min({(u * Len(p.choices)) \div Unit, Len(p.choices) - 1})]
ProjectUnit(u, p) ==
    CASE p.kind = "continuous" -> p.low + (u * (p.high - p.low)) \div Unit
      [] p.kind = "int" ->
            LET span == (p.high - p.low) \div Unit + 1
            IN  p.low + Unit * Min({(u * span) \div Unit, span - 1})
      [] p.kind = "choice" ->
            p.choices[1 + Min({(u * Len(p.choices)) \div Unit, Len(p.choices) - 1})]

\* _sample: what a uniform draw may give
Samples(p) ==
    CASE p.kind = "continuous" -> p.low..p.high
      [] p.kind = "int" -> {v \in p.low..p.high : v % Unit = 0}
      [] p.kind = "choice" -> Range(p.choices)

\* de_project_individual
DeProject(v, p) == IF p.kind = "int" THEN Round(v) ELSE v

\* cma_unit_to_params, for one coordinate
CmaProject(u, p, mode) ==
    LET inside == IF mode = "clip" THEN Clip(u, 0, Unit) ELSE u
    IN  DeProject(p.low + (inside * (p.high - p.low)) \div Unit, p)

\* _sample_parzen, where `noise` is the Gaussian step from the observation
Parzen(p, observation, noise) ==
    CASE p.kind = "choice" -> Range(p.choices)
      [] p.kind = "int" ->
            {Clip(Round(Clip(observation + noise, p.low, p.high)), p.low, p.high)}
      [] p.kind = "continuous" -> {Clip(observation + noise, p.low, p.high)}

(***************************************************************************)
(* The points a search starts from                                         *)
(***************************************************************************)
\* _next_power_of_two, SobolSearcher.count
NextPowerOfTwo(n) == 2 ^ Min({k \in 0..n : 2 ^ k >= n})

\* GridSearcher.candidates, RecursiveGridDriver.candidates: one value of each
Product(points) == {f \in [DOMAIN points -> UNION Range(points)] :
                        \A p \in DOMAIN points : f[p] \in points[p]}

\* SobolSearcher.candidates and LhsSearcher.candidates over the rows of the
\* sequence the library draws: a row has a coordinate for each parameter.
Quasi(space, rows) ==
    [i \in DOMAIN rows |-> [p \in DOMAIN space |-> ProjectUnit(rows[i][p], space[p])]]

\* de_resolve_popsize, 0 for "auto"
DePopsize(popsize, dims) == Max({5, IF popsize = 0 THEN 15 * dims ELSE popsize})
\* de_sobol_init: the power of two Sobol rounds up to is cut to the population.
DeInit(space, rows, popsize) ==
    SubSeq(Quasi(space, SubSeq(rows, 1, NextPowerOfTwo(popsize))), 1, popsize)

\* hooke_jeeves_propose: +step and -step of each coordinate, clamped
HookeJeeves(base, step) ==
    {[base EXCEPT ![d] = Min({Unit, @ + step[d]})] : d \in DOMAIN base}
        \cup {[base EXCEPT ![d] = Max({0, @ - step[d]})] : d \in DOMAIN base}

(***************************************************************************)
(* RecursiveGridDriver: the box of a numeric parameter is [low, high], the *)
(* box of a choice is the parameter itself and never narrows.              *)
(***************************************************************************)
InitialBox(space) ==
    [p \in DOMAIN space |->
        IF space[p].kind = "choice" THEN space[p]
        ELSE [low |-> space[p].low, high |-> space[p].high]]

Width(box) == box.high - box.low

\* _dim_grid_points: an int parameter in a cell narrower than one is frozen.
GridPoints(p, box, resolution) ==
    LET at(i) == box.low + (Width(box) * i) \div (resolution - 1)
    IN  CASE p.kind = "choice" -> Range(p.choices)
          [] p.kind = "int" ->
                IF Width(box) < Unit THEN {Unit * HalfEven(box.low + box.high, 2 * Unit)}
                ELSE {Round(at(i)) : i \in 0..resolution - 1}
          [] p.kind = "continuous" ->
                IF Width(box) <= 0 THEN {box.low} ELSE {at(i) : i \in 0..resolution - 1}

Candidates(space, boxes, resolution) ==
    Product([p \in DOMAIN space |-> GridPoints(space[p], boxes[p], resolution[p])])

\* _select_top and the ranking in observe: equal scores are shuffled first, so
\* any of the equals may make the cut.
Tops(candidates, score, k) ==
    {T \in kSubset(Min({k, Cardinality(candidates)}), candidates) :
        \A t \in T, c \in candidates \ T : score[t] >= score[c]}

\* _shrink_box for one parameter; the mutant forgets the half step.
ShrinkToHull(p, box, resolution, values) ==
    IF p.kind = "choice" THEN box
    ELSE LET low == Max({box.low, Min(values)})
             high == Min({box.high, Max(values)})
             centre == Unit * HalfEven(low + high, 2 * Unit)
         IN  IF p.kind = "int" /\ high - low < Unit THEN [low |-> centre, high |-> centre]
             ELSE [low |-> low, high |-> high]
Shrink(p, box, resolution, values) ==
    IF p.kind = "choice" THEN box
    ELSE LET half == Width(box) \div (2 * (resolution - 1))
             low == Max({box.low, Min(values) - half})
             high == Min({box.high, Max(values) + half})
             centre == Unit * HalfEven(low + high, 2 * Unit)
         IN  IF p.kind = "int" /\ high - low < Unit THEN [low |-> centre, high |-> centre]
             ELSE [low |-> low, high |-> high]

\* _all_converged, for a plateau_epsilon of 1/epsilon
Converged(space, boxes, epsilon) ==
    \A p \in DOMAIN space :
        \/ space[p].kind = "choice"
        \/ space[p].kind = "int" /\ Width(boxes[p]) < Unit
        \/ space[p].high <= space[p].low
        \/ Width(boxes[p]) * epsilon < space[p].high - space[p].low

Driver(space) == [boxes |-> InitialBox(space), round |-> 0, done |-> FALSE]

\* observe, on the best of the candidates of a round
Observe(driver, space, resolution, depth, epsilon, top) ==
    LET boxes == [p \in DOMAIN space |->
                    Shrink(space[p], driver.boxes[p], resolution[p], {t[p] : t \in top})]
    IN  [boxes |-> boxes, round |-> driver.round + 1,
         done |-> driver.round + 1 >= depth \/ Converged(space, boxes, epsilon)]

(***************************************************************************)
(* optimize and TPESearcher                                                *)
(***************************************************************************)
\* optimize: trials are [score, accepted]; the gate is a set of at most one score.
Accepted(trials, gate) ==
    {i \in DOMAIN trials : trials[i].accepted /\ \A g \in gate : trials[i].score >= g}
Optimize(trials, gate) ==
    LET ok == Accepted(trials, gate)
        best == {i \in ok : \A j \in ok : trials[j].score <= trials[i].score}
    IN  [best |-> IF ok = {} THEN 0 ELSE Min(best),
         rejected |-> Len(trials) - Cardinality(ok)]

\* _tpe_sample: the first `split` of the history, best first and the earlier
\* of two equals first, are good; with gamma = part / whole.
TpeGood(scores, part, whole) ==
    LET n == Len(scores)
        wanted == Max({1, HalfEven(part * n, whole)})
        split == IF n > 1 THEN Min({wanted, n - 1}) ELSE 1
        Better(j, i) == scores[j] > scores[i] \/ (scores[j] = scores[i] /\ j < i)
    IN  {i \in 1..n : Cardinality({j \in 1..n : Better(j, i)}) < split}

(***************************************************************************)
(* derive_folds: 2 * count segments, trained on the one before each window *)
(***************************************************************************)
IsFolds(start, end, count, gap) == end > start /\ count >= 2 /\ gap < count

DeriveFoldsFlush(start, end, count, scheme, gap) ==
    LET at(units) == start + HalfEven((end - start) * units, 2 * count)
    IN  [i \in 1..count |->
            [train |-> [start |-> at(IF scheme = "anchored" THEN 0 ELSE 2 * (i - 1)),
                        end |-> at(2 * i - 1 + gap)],
             oos |-> [start |-> at(2 * i - 1), end |-> at(2 * i)]]]
DeriveFolds(start, end, count, scheme, gap) ==
    LET at(units) == start + HalfEven((end - start) * units, 2 * count)
    IN  [i \in 1..count |->
            [train |-> [start |-> at(IF scheme = "anchored" THEN 0 ELSE 2 * (i - 1)),
                        end |-> at(2 * i - 1 - gap)],
             oos |-> [start |-> at(2 * i - 1), end |-> at(2 * i)]]]

----------------------------------------------------------------------------
Distance(v, w) == Max({v - w, w - v})

InSpace(v, p) ==
    CASE p.kind = "choice" -> v \in Range(p.choices)
      [] p.kind = "int" -> v % Unit = 0 /\ p.low <= v /\ v <= p.high
      [] p.kind = "continuous" -> p.low <= v /\ v <= p.high

\* Whatever proposes a value - a point of the unit interval, an individual of
\* a population, a clipped CMA coordinate, a Gaussian step - the value is one
\* the parameter allows, also where a float is rounded to an integer.
ProposalsInSpace(p, u, noise) ==
    /\ u \in 0..Unit => InSpace(ProjectUnit(u, p), p)
    /\ \A obs \in Samples(p) : \A v \in Parzen(p, obs, noise) : InSpace(v, p)
    /\ p.kind # "choice" =>
        /\ InSpace(CmaProject(u, p, "clip"), p)
        /\ \A v \in p.low..p.high : InSpace(DeProject(v, p), p)

\* A sequence that fills the unit interval evenly tries every integer and
\* every choice equally often, the two ends included (_project_unit).
NoValueStarved(p) ==
    p.kind # "continuous" =>
        \A v, w \in Samples(p) :
            LET Hits(x) == Cardinality({u \in 0..Unit - 1 : ProjectUnit(u, p) = x})
            IN  Hits(v) > 0 /\ Hits(v) - Hits(w) <= 1

\* A population starts with as many individuals as it has members, whatever
\* Sobol rounds its draw up to, and each of them is a point of the space
\* (de_sobol_init).
PopulationFills(space, rows, popsize) ==
    LET size == DePopsize(popsize, Cardinality(DOMAIN space))
        drawn == [i \in 1..NextPowerOfTwo(size) |-> rows[1 + (i % Len(rows))]]
        first == DeInit(space, drawn, size)
    IN  /\ Len(first) = size
        /\ \A i \in 1..size, p \in DOMAIN space : InSpace(first[i][p], space[p])

\* A polishing search probes both directions of every coordinate without
\* leaving the unit cube or going further than its step, and is stuck at its
\* base only where a step is zero (hooke_jeeves_propose).
ProbesSurround(base, step) ==
    LET probes == HookeJeeves(base, step)
    IN  /\ \A q \in probes : \E d \in DOMAIN base :
            /\ q[d] \in 0..Unit /\ Distance(q[d], base[d]) <= step[d]
            /\ \A e \in DOMAIN base \ {d} : q[e] = base[e]
        /\ \A d \in DOMAIN base : step[d] > 0 => \E q \in probes : q[d] # base[d]

\* A search answers with a trial that no accepted trial beats and that its gate
\* lets through, and counts every other outcome as rejected; without one it
\* answers with none (optimize).
SearchReturnsBest(trials, gate) ==
    LET r == Optimize(trials, gate)
        good == {i \in DOMAIN trials : trials[i].accepted /\ \A g \in gate : trials[i].score >= g}
    IN  /\ (r.best = 0) = (good = {})
        /\ r.best # 0 => r.best \in good /\ \A i \in good : trials[i].score <= trials[r.best].score
        /\ r.rejected + Cardinality(good) = Len(trials)

\* The box of the next round lies in the space and, for a continuous
\* parameter, in the box before, and of that box nothing is lost that is nearer
\* to one of the best points than to every other point of the round's grid.
\* An integer's box may miss a best value, by one at most: the value is rounded
\* out of its cell, the box is clipped to the cell (_shrink_box,
\* _dim_grid_points).
BoxFollowsBest(before, after, space, resolution, top) ==
    \A p \in DOMAIN space :
        LET b == before.boxes[p]  a == after.boxes[p]
            best == {t[p] : t \in top}
        IN  CASE space[p].kind = "choice" -> a = b
              [] space[p].kind = "continuous" ->
                    /\ b.low <= a.low /\ a.low <= a.high /\ a.high <= b.high
                    /\ \A v \in best : a.low <= v /\ v <= a.high
                    /\ \A v \in best, w \in b.low..b.high :
                        (\A g \in GridPoints(space[p], b, resolution[p]) \ {v} :
                            Distance(w, v) < Distance(w, g)) => a.low <= w /\ w <= a.high
              [] space[p].kind = "int" ->
                    /\ space[p].low <= a.low /\ a.low <= a.high /\ a.high <= space[p].high
                    /\ \A v \in best : a.low - Unit <= v /\ v <= a.high + Unit

\* Every round proposes points of the space.
RoundInSpace(driver, space, resolution) ==
    \A f \in Candidates(space, driver.boxes, resolution) :
        \A p \in DOMAIN space : InSpace(f[p], space[p])

\* What the density of the next proposal is fitted to is the better part of
\* the history, and once there are two observations the worse part is not
\* empty either, however gamma rounds (_tpe_sample).
TpeSplits(scores, part, whole) ==
    LET good == TpeGood(scores, part, whole)
        bad == DOMAIN scores \ good
    IN  /\ good # {}
        /\ Len(scores) > 1 => bad # {}
        /\ \A g \in good, b \in bad : scores[g] >= scores[b]

\* No fold is trained on what it is scored on or on anything later, the
\* windows follow each other without overlap up to the end of the range, and
\* without a gap every fold has something to train on (derive_folds).
FoldsAreOutOfSample(start, end, count, scheme, gap) ==
    LET folds == DeriveFolds(start, end, count, scheme, gap)
    IN  IsFolds(start, end, count, gap) =>
        /\ \A i \in 1..count :
            /\ folds[i].train.end <= folds[i].oos.start
            /\ folds[i].oos.start <= folds[i].oos.end
            /\ gap = 0 /\ end - start >= 2 * count => folds[i].train.start < folds[i].train.end
        /\ \A i \in 1..count - 1 : folds[i].oos.end <= folds[i + 1].oos.start
        /\ folds[count].oos.end = end
=============================================================================

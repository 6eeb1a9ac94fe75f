---------------------------- MODULE Optimization ----------------------------
(***************************************************************************)
(* An optimization run (optimization_runner.run_optimization with the      *)
(* methods of search/ and the ledger of optimization_ledger.py) and what   *)
(* it leaves on disk, over several runs of the same experiment.            *)
(*                                                                         *)
(* The id of an optimization is a hash of the experiment's specification   *)
(* (cli._opt_id), so a second run of the experiment writes into the same   *)
(* directory and the same row of the index.  The process may raise or die  *)
(* anywhere; a file that is being written is then left torn.  A later      *)
(* `optimize reselect` reads what is there.                                *)
(*                                                                         *)
(* The engine is deterministic: a run's metric and verdict depend on its   *)
(* parameters and slice, except that a whole batch may fail.  A verdict is *)
(* [m, acc]: the primary metric, and whether the constraints held; an      *)
(* engine failure is [m |-> 0, acc |-> FALSE].  The objective is           *)
(* lexicographic: the score is the metric, or -inf when not accepted.      *)
(***************************************************************************)
EXTENDS SelectionLayer, SequencesExt

CONSTANTS
    NParams,            \* the searched dimension has the positions 1..NParams
    NFolds,             \* folds of the experiment
    Verdicts(_, _),     \* what an evaluation may return, by method and slice
    Methods,            \* search methods used
    ChunkSize,          \* rows the ledger buffers before it writes them
    Width,              \* candidates of a sampled batch
    MaxRounds,          \* recursive_grid depth, generations of CMA-ES and DE
    TopKPolish, InitialStep, MaxPolishIters,    \* lhs_polish
    InitialCandidates, Eta, InitialFolds,       \* successive_halving
    MaxRuns,            \* bound: runs of the experiment, by method
    MaxPicks            \* bound: reselections, by method

Params == 1..NParams
Folds == 1..NFolds
Slices == {"train", "oos"}
Failed == [m |-> 0, acc |-> FALSE]

\* What stands for a file that is not there, or was left half written.
NoManifest == [run |-> 0, status |-> "none"]
NoTrials == [run |-> 0, rows |-> << >>, footer |-> FALSE]
NoBest == [run |-> 0, cross |-> << >>, final |-> << >>]
NoIndex == [run |-> 0, status |-> "none", count |-> 0]
NoPick == [run |-> 0, trials |-> 0, final |-> << >>, nth |-> 0]
TornManifest == [NoManifest EXCEPT !.status = "torn"]
TornBest == [NoBest EXCEPT !.run = -1]

\* grid and random (also sobol) evaluate one batch; recursive_grid (also cma_es)
\* a batch a round; the others have rules of their own.
SearchMethods == {"grid", "random", "recursive_grid", "lhs_polish", "successive_halving"}

ASSUME MethodsAssumption == Methods \subseteq SearchMethods
ASSUME SizesAssumption ==
    /\ NParams \in Nat \ {0} /\ NFolds \in Nat \ {0, 1}
    /\ ChunkSize \in Nat \ {0} /\ Width \in Nat \ {0} /\ MaxRounds \in Nat \ {0}
    /\ TopKPolish \in Nat \ {0} /\ InitialStep \in Nat \ {0} /\ MaxPolishIters \in Nat \ {0}
    /\ InitialCandidates \in Nat \ {0, 1} /\ Eta \in Nat \ {0, 1} /\ InitialFolds \in Nat \ {0}
ASSUME VerdictsAssumption ==
    \A m \in Methods, s \in Slices :
        /\ Verdicts(m, s) \subseteq [m : Int, acc : BOOLEAN]
        /\ \A v \in Verdicts(m, s) : v.m > Clamped

VARIABLES
    method, robust,     \* optimize.method and optimize.robust_objective
    run,                \* runs begun; the last one is the process at pc
    pc,                 \* "idle" or the step the process is at
    loop,               \* the search loop: see Fresh
    rows,               \* trial_rows
    winners,            \* fold_winners
    decision,           \* what the selection layer decided
    buffer, writer,     \* OptimizationLedger._buffer; is _writer open?
    manifest,           \* manifest.json: [run, status]
    trials,             \* trials.parquet: [run, rows, footer]
    best,               \* best.json: [run, cross, final]
    index,              \* the row of the SQLite index: [run, status, count]
    pick                \* the last best_<timestamp>.json: [run, trials, final, nth]

process == <<pc, loop, rows, winners, decision, buffer, writer>>
disk == <<manifest, trials, best, index, pick>>
vars == <<method, robust, run, process, disk>>

\* fold and round of the search, the evaluations of the current batch not yet
\* recorded, the fold's best accepted trial, the trajectories (lhs_polish) or
\* the survivors (successive_halving).
Fresh(fold) == [fold |-> fold, round |-> 0, todo |-> << >>, top |-> << >>, trail |-> << >>]

Score(v) == IF v.acc THEN v.m ELSE NegInf

(***************************************************************************)
(* Successive halving: the cascade of folds and survivors                  *)
(***************************************************************************)
Ceiling(a, b) == (a + b - 1) \div b

\* _rung_budgets: eta times as many folds in each rung as in the one before,
\* until they are all the folds.
Uncapped[rung \in Nat] == IF rung = 0 THEN InitialFolds ELSE Uncapped[rung - 1] * Eta
RungCount == CHOOSE n \in 1..(NFolds + 1) :
                /\ Uncapped[n - 1] >= NFolds
                /\ \A k \in 1..(n - 1) : Uncapped[k - 1] < NFolds
Budget(rung) == IF Uncapped[rung] < NFolds THEN Uncapped[rung] ELSE NFolds

\* _rung_survivor_counts, and the survivors of the last rung.
Survivors[rung \in 0..RungCount] ==
    IF rung = 0 THEN InitialCandidates ELSE Max({1, Ceiling(Survivors[rung - 1], Eta)})

\* The evaluations of the rungs before one.
PlannedBefore[rung \in 0..RungCount] ==
    IF rung = 0 THEN 0 ELSE PlannedBefore[rung - 1] + Survivors[rung - 1] * Budget(rung - 1)

(***************************************************************************)
(* planned_run_count, the promise of every method                          *)
(***************************************************************************)
\* Mutant: every candidate is counted on every fold, as for the other methods.
PlannedWithoutCascade == (IF method = "successive_halving" THEN InitialCandidates ELSE NParams) * NFolds

PlannedTrain ==
    CASE method = "grid" -> NParams * NFolds
      [] method = "random" -> Width * NFolds
      [] method = "recursive_grid" -> Width * MaxRounds * NFolds
      [] method = "lhs_polish" -> (Width + TopKPolish * 2 * MaxPolishIters) * NFolds
      [] OTHER -> PlannedBefore[RungCount]

(***************************************************************************)
(* The batches a method asks for                                           *)
(***************************************************************************)
\* A planned evaluation: the parameters, the fold whose slice is run, the slice.
Planned(p, f, slice) == [params |-> p, fold |-> f, slice |-> slice]

Sample == [1..Width -> Params]
OnFold(ps) == [i \in DOMAIN ps |-> Planned(ps[i], loop.fold, "train")]

\* hooke_jeeves_propose: plus and minus a step, clipped to the bounds.
Probes(t) == << Min({NParams, t.at + t.step}), Max({1, t.at - t.step}) >>
Active == Ranked({i \in DOMAIN loop.trail : loop.trail[i].active}, LAMBDA i, k : i < k)

\* Every pair of a list of parameters and the first folds, candidate by candidate.
Grid(ps, folds, slice) ==
    [i \in 1..(Len(ps) * folds) |->
        Planned(ps[((i - 1) \div folds) + 1], ((i - 1) % folds) + 1, slice)]

TrailParams == [i \in DOMAIN loop.trail |-> loop.trail[i].params]

TrainBatches ==
    CASE method = "grid" -> {OnFold([p \in Params |-> p])}
      [] method = "lhs_polish" /\ loop.round > 0 ->
            {OnFold([i \in 1..(2 * Len(Active)) |->
                        Probes(loop.trail[Active[(i + 1) \div 2]])[((i - 1) % 2) + 1]])}
      [] method = "successive_halving" -> {Grid(TrailParams, Budget(loop.round), "train")}
      [] OTHER -> {OnFold(ps) : ps \in Sample}

\* Every fold winner on every fold's out-of-sample slice.
CrossBatch == Grid([w \in DOMAIN winners |-> winners[w].params], NFolds, "oos")

Entry(p, v) == [params |-> p.params, fold |-> p.fold, slice |-> p.slice, m |-> v.m, acc |-> v.acc]
Of(batch, v) == [i \in DOMAIN batch |-> Entry(batch[i], v[i])]
Same(a, b) == a.params = b.params /\ a.fold = b.fold /\ a.slice = b.slice

\* What the engine may answer: the batch fails as a whole (N failed entries), or
\* each entry is what its parameters and slice determine.
Answers(batch) ==
    {Of(batch, [i \in DOMAIN batch |-> Failed])}
        \cup {Of(batch, v) : v \in
                {u \in [DOMAIN batch -> Verdicts(method, batch[1].slice)] :
                    /\ \A i, j \in DOMAIN batch : Same(batch[i], batch[j]) => u[i] = u[j]
                    /\ \A i \in DOMAIN batch : \A k \in DOMAIN rows :
                        Same(batch[i], rows[k]) /\ rows[k].acc => u[i] = [m |-> rows[k].m, acc |-> TRUE]}}
(***************************************************************************)
(* Initial state and the helpers of the actions                            *)
(***************************************************************************)
Forgotten ==    \* the memory of a process that is gone
    /\ pc' = "idle" /\ loop' = Fresh(0) /\ rows' = << >> /\ winners' = << >>
    /\ decision' = << >> /\ buffer' = << >> /\ writer' = FALSE

Init ==
    /\ method \in Methods /\ robust \in BOOLEAN
    /\ run = 0 /\ pc = "idle" /\ loop = Fresh(0) /\ rows = << >> /\ winners = << >>
    /\ decision = << >> /\ buffer = << >> /\ writer = FALSE
    /\ manifest = NoManifest /\ trials = NoTrials /\ best = NoBest
    /\ index = NoIndex /\ pick = NoPick

\* Mutant: every flush opens the file anew.
WrittenAlone(rs) == [run |-> run, rows |-> rs, footer |-> FALSE]

\* OptimizationLedger._flush of rs: the first write of a run opens the file anew.
Written(rs) == [run |-> run, rows |-> (IF writer THEN trials.rows ELSE << >>) \o rs, footer |-> FALSE]
Flush(rs) ==
    /\ buffer' = << >>
    /\ writer' = (writer \/ rs # << >>)
    /\ trials' = IF rs = << >> THEN trials ELSE Written(rs)

\* The training trials of a fold, by their place in rows.
RowsOf(fold) == {i \in DOMAIN rows : rows[i].fold = fold /\ rows[i].slice = "train"}

NextTrialId == Len(rows)    \* next(trial_counter)
TrialRow(e) ==
    [id |-> NextTrialId, round |-> loop.round, params |-> e.params, fold |-> e.fold,
     slice |-> e.slice, m |-> e.m, acc |-> e.acc]
Recent(n, i) == rows[Len(rows) - n + i]     \* the i-th of the last n trials
ByScore(i, k) == Score(rows[i]) > Score(rows[k])

\* The fold winner: the best accepted trial, or (_fallback_winner) the first of
\* the best-scoring ones.
Winner(top) ==
    LET r == IF top # << >> THEN top[1] ELSE rows[Ranked(RowsOf(loop.fold), ByScore)[1]]
    IN  [fold |-> loop.fold, params |-> r.params]

\* Mutant: the best trial is not reset for the next fold.
ConcludeKeeping(winner) ==
    /\ winners' = Append(winners, winner)
    /\ IF loop.fold < NFolds
       THEN pc' = "ask" /\ loop' = [Fresh(loop.fold + 1) EXCEPT !.top = loop.top]
       ELSE pc' = "cross" /\ loop' = Fresh(0)

Conclude(winner) ==
    /\ winners' = Append(winners, winner)
    /\ IF loop.fold < NFolds
       THEN pc' = "ask" /\ loop' = Fresh(loop.fold + 1)
       ELSE pc' = "cross" /\ loop' = Fresh(0)

NextRound(trail) ==
    /\ pc' = "ask"
    /\ loop' = [loop EXCEPT !.round = @ + 1, !.trail = trail]
    /\ UNCHANGED winners

BatchDone == pc = "emit" /\ loop.todo = << >>

(***************************************************************************)
(* The run                                                                 *)
(***************************************************************************)
\* OptimizationLedger.start, its two writes.
Begin ==
    /\ pc = "idle" /\ run < MaxRuns[method]
    /\ run' = run + 1
    /\ manifest' = [run |-> run + 1, status |-> "running"]
    /\ pc' = "index"
    /\ UNCHANGED <<method, robust, loop, rows, winners, decision, buffer, writer,
                   trials, best, index, pick>>

\* Mutant: INSERT OR IGNORE in place of the upsert.
FirstRegistration == IF index.run > 0 THEN index ELSE [run |-> run, status |-> "running", count |-> 0]

Registration == [run |-> run, status |-> "running", count |-> 0]

\* The upsert; then the search of the first fold, or of all folds at once.
Register ==
    /\ pc = "index"
    /\ index' = Registration
    /\ pc' = "ask"
    /\ IF method = "successive_halving"
       THEN \E ps \in [1..InitialCandidates -> Params] :
                loop' = [Fresh(1) EXCEPT !.trail = [i \in DOMAIN ps |-> [params |-> ps[i]]]]
       ELSE loop' = Fresh(1)
    /\ UNCHANGED <<method, robust, run, rows, winners, decision, buffer, writer,
                   manifest, trials, best, pick>>

\* _submit_and_collect: a batch is packed, run and read back.
Evaluate(batch) ==
    /\ \E answer \in Answers(batch) : loop' = [loop EXCEPT !.todo = answer]
    /\ pc' = "emit"
    /\ UNCHANGED <<method, robust, run, rows, winners, decision, buffer, writer, disk>>

SearchBatch == pc = "ask" /\ \E batch \in TrainBatches : Evaluate(batch)
CrossValidate == pc = "cross" /\ Evaluate(CrossBatch)

\* The best accepted trial so far; polish rounds keep theirs in the trajectories.
Leads(row) ==
    /\ row.acc /\ row.slice = "train" /\ ~(method = "lhs_polish" /\ row.round > 0)
    /\ \A i \in DOMAIN loop.top : Score(row) > Score(loop.top[i])

\* One evaluation becomes a trial row; emit_row writes a full buffer out.
EmitRow ==
    /\ pc = "emit" /\ loop.todo # << >>
    /\ LET row == TrialRow(Head(loop.todo))
       IN  /\ rows' = Append(rows, row)
           /\ loop' = [loop EXCEPT !.todo = Tail(@), !.top = IF Leads(row) THEN << row >> ELSE @]
           /\ IF Len(buffer) + 1 >= ChunkSize
              THEN Flush(Append(buffer, row))
              ELSE buffer' = Append(buffer, row) /\ UNCHANGED <<writer, trials>>
    /\ UNCHANGED <<method, robust, run, pc, winners, decision, manifest, best, index, pick>>

\* The end of a batch: flush, and what the method makes of it.
EndOneShot ==
    /\ BatchDone /\ loop.fold > 0 /\ method \in {"grid", "random"}
    /\ Flush(buffer) /\ Conclude(Winner(loop.top))
    /\ UNCHANGED <<method, robust, run, rows, decision, manifest, best, index, pick>>

\* Rounds may end early: the box has converged, or es.stop().
EndRound ==
    /\ BatchDone /\ loop.fold > 0 /\ method = "recursive_grid"
    /\ Flush(buffer)
    /\ \/ loop.round + 1 < MaxRounds /\ NextRound(loop.trail)
       \/ Conclude(Winner(loop.top))
    /\ UNCHANGED <<method, robust, run, rows, decision, manifest, best, index, pick>>

\* The trajectories start at the best accepted rows of the first batch.
Trajectory(row) == [at |-> row.params, step |-> InitialStep, row |-> row, active |-> TRUE]
EndSeeding ==
    /\ BatchDone /\ loop.fold > 0 /\ method = "lhs_polish" /\ loop.round = 0
    /\ Flush(buffer)
    /\ LET accepted == {i \in RowsOf(loop.fold) : rows[i].acc}
           starts == Prefix(Ranked(accepted, ByScore), TopKPolish)
       IN  IF accepted = {} THEN Conclude(Winner(loop.top))
           ELSE NextRound([k \in DOMAIN starts |-> Trajectory(rows[starts[k]])])
    /\ UNCHANGED <<method, robust, run, rows, decision, manifest, best, index, pick>>

\* A trajectory moves to its better probe (the first of equals) if that is accepted
\* and improves on it, else halves its step and, below step_min (here 1), stops.
Polished ==
    LET probe(k, i) == Recent(2 * Len(Active), 2 * k - 2 + i)
        better(k) == IF Score(probe(k, 2)) > Score(probe(k, 1)) THEN probe(k, 2) ELSE probe(k, 1)
        Moved(t, r) ==
            IF r.acc /\ Score(r) > Score(t.row) THEN [t EXCEPT !.at = r.params, !.row = r]
            ELSE [t EXCEPT !.step = @ \div 2, !.active = (@ /\ t.step \div 2 >= 1)]
    IN  [i \in DOMAIN loop.trail |->
            IF loop.trail[i].active
            THEN Moved(loop.trail[i], better(CHOOSE k \in DOMAIN Active : Active[k] = i))
            ELSE loop.trail[i]]

\* The best of the seeds and the trajectories, the first of equals.
PolishedBest ==
    LET last == loop.top \o [i \in DOMAIN Polished |-> Polished[i].row]
    IN  last[Ranked(DOMAIN last, LAMBDA i, k : Score(last[i]) > Score(last[k]))[1]]

EndPolish ==
    /\ BatchDone /\ loop.fold > 0 /\ method = "lhs_polish" /\ loop.round > 0
    /\ Flush(buffer)
    /\ IF loop.round < MaxPolishIters /\ \E i \in DOMAIN Polished : Polished[i].active
       THEN NextRound(Polished)
       ELSE Conclude(Winner(<< PolishedBest >>))
    /\ UNCHANGED <<method, robust, run, rows, decision, manifest, best, index, pick>>

\* A rung: the mean over the accepted folds of each survivor, none the last; the
\* best go on, or after the last rung become the winners.
Surviving ==
    LET folds == Budget(loop.round)
        trial(i, f) == Recent(Len(loop.trail) * folds, (i - 1) * folds + f)
        accepted(i) == {f \in 1..folds : trial(i, f).acc}
        Total(i) == SumOver(accepted(i), [f \in accepted(i) |-> trial(i, f).m])
        Count(i) == Cardinality(accepted(i))
        Above(i, k) == Count(i) > 0 /\ (Count(k) = 0 \/ Total(i) * Count(k) > Total(k) * Count(i))
        kept == Prefix(Ranked(DOMAIN loop.trail, Above), Survivors[loop.round + 1])
    IN  [k \in DOMAIN kept |-> loop.trail[kept[k]]]
EndRung ==
    /\ BatchDone /\ loop.fold > 0 /\ method = "successive_halving"
    /\ Flush(buffer)
    /\ IF loop.round + 1 < RungCount THEN NextRound(Surviving)
       ELSE /\ winners' = [k \in DOMAIN Surviving |-> [fold |-> k, params |-> Surviving[k].params]]
            /\ pc' = "cross" /\ loop' = Fresh(0)
    /\ UNCHANGED <<method, robust, run, rows, decision, manifest, best, index, pick>>

EndCross ==
    /\ BatchDone /\ loop.fold = 0
    /\ Flush(buffer) /\ pc' = "select"
    /\ UNCHANGED <<method, robust, run, loop, rows, winners, decision, manifest, best, index, pick>>

\* Mutant: one fold that accepts it is enough.
OutcomeSomewhere(params, rs) ==
    LET all == \E i \in DOMAIN rs : rs[i].acc
    IN  [params |-> params, acc |-> all, oos |-> [i \in DOMAIN rs |-> rs[i].m],
         score |-> IF all THEN SumOver(DOMAIN rs, [i \in DOMAIN rs |-> rs[i].m]) ELSE NegInf]

\* One candidate per fold winner, accepted when every fold accepted it.  Scores
\* are totals over the folds, so those of single trials are scaled.
Outcome(params, rs) ==
    LET all == \A i \in DOMAIN rs : rs[i].acc
    IN  [params |-> params, acc |-> all, oos |-> [i \in DOMAIN rs |-> rs[i].m],
         score |-> IF all THEN SumOver(DOMAIN rs, [i \in DOMAIN rs |-> rs[i].m]) ELSE NegInf]
CrossOutcomes ==
    [w \in DOMAIN winners |->
        Outcome(winners[w].params,
                [f \in Folds |-> Recent(Len(winners) * NFolds, (w - 1) * NFolds + f)])]

\* The training trials as points, by their place in rs.
Point(r) == [params |-> r.params, score |-> IF r.acc THEN NFolds * r.m ELSE NegInf]
History(rs) ==
    [i \in {k \in DOMAIN rs : rs[k].slice = "train"} |-> Point(rs[i])]

\* _run_selection_layer and _reconcile_final_with_selection.
Select ==
    /\ pc = "select"
    /\ \E dsr \in Ratios(CrossOutcomes), force \in BOOLEAN :
            decision' = RunSelection(CrossOutcomes, History(rows), robust, dsr, force).pick
    /\ pc' = "close"
    /\ UNCHANGED <<method, robust, run, loop, rows, winners, buffer, writer, disk>>

\* OptimizationLedger.finish, write by write.
CloseTrials ==
    /\ pc = "close" /\ pc' = "best"
    /\ trials' = [trials EXCEPT !.footer = TRUE]
    /\ writer' = FALSE
    /\ UNCHANGED <<method, robust, run, loop, rows, winners, decision, buffer, manifest, best, index, pick>>

WriteBest ==
    /\ pc = "best" /\ pc' = "manifest"
    /\ best' = [run |-> run, cross |-> CrossOutcomes, final |-> decision]
    /\ UNCHANGED <<method, robust, run, loop, rows, winners, decision, buffer, writer,
                   manifest, trials, index, pick>>

WriteManifest ==
    /\ pc = "manifest" /\ pc' = "complete"
    /\ manifest' = [manifest EXCEPT !.status = "completed"]
    /\ UNCHANGED <<method, robust, run, loop, rows, winners, decision, buffer, writer,
                   trials, best, index, pick>>

CompleteIndex ==
    /\ pc = "complete"
    /\ index' = [run |-> index.run, status |-> "completed", count |-> Len(rows)]
    /\ Forgotten
    /\ UNCHANGED <<method, robust, run, manifest, trials, best, pick>>

(***************************************************************************)
(* Failures                                                                *)
(***************************************************************************)
\* The process raises or dies between two writes.  There is no handler.  If it
\* raises, the parquet writer is closed when it is collected.
Die ==
    /\ pc # "idle"
    /\ Forgotten
    /\ \/ UNCHANGED trials
       \/ writer /\ trials' = [trials EXCEPT !.footer = TRUE]
    /\ UNCHANGED <<method, robust, run, manifest, best, index, pick>>

\* It dies while it writes a file in place.
DieWriting ==
    /\ \/ /\ pc = "idle" /\ run < MaxRuns[method]
          /\ run' = run + 1 /\ manifest' = TornManifest /\ UNCHANGED best
       \/ pc = "best" /\ best' = TornBest /\ UNCHANGED <<run, manifest>>
       \/ pc = "manifest" /\ manifest' = TornManifest /\ UNCHANGED <<run, best>>
    /\ Forgotten
    /\ UNCHANGED <<method, robust, trials, index, pick>>

(***************************************************************************)
(* Reselection                                                             *)
(***************************************************************************)
\* What comes back from the files: every -inf was written as -1e308.
Clamp(s) == [i \in DOMAIN s |-> [s[i] EXCEPT !.score = SafeFloat(@)]]
StoredCross == Clamp(best.cross)
StoredHistory == Clamp(History(trials.rows))

Readable ==     \* trials.parquet may be missing, but not without its footer
    /\ manifest.run > 0 /\ best.run > 0
    /\ trials.run > 0 => trials.footer

\* reselect, with any overrides; the last write, to manifest.json, may be torn.
Reselect ==
    /\ pc = "idle" /\ pick.nth < MaxPicks[method]
    /\ Readable /\ ~Raises(StoredCross, StoredHistory)
    /\ \E dsr \in Ratios(best.cross), r, force \in BOOLEAN :
            pick' = [run |-> best.run, trials |-> trials.run, nth |-> pick.nth + 1,
                     final |-> RunSelection(StoredCross, StoredHistory, r, dsr, force).pick]
    /\ manifest' \in {manifest, TornManifest}
    /\ UNCHANGED <<method, robust, run, process, trials, best, index>>

Stopped == pc = "idle" /\ run = MaxRuns[method] /\ UNCHANGED vars

Next ==
    \/ Begin \/ Register \/ SearchBatch \/ CrossValidate \/ EmitRow
    \/ EndOneShot \/ EndRound \/ EndSeeding \/ EndPolish \/ EndRung
    \/ EndCross \/ Select \/ CloseTrials \/ WriteBest \/ WriteManifest \/ CompleteIndex
    \/ Die \/ DieWriting \/ Reselect \/ Stopped

Spec == Init /\ [][Next]_vars

(***************************************************************************)
(* Properties                                                              *)
(***************************************************************************)
\* No trial is lost or written twice: what the run's file and buffer hold, in
\* this order, is what the run has evaluated (emit_row, _flush, finish), numbered
\* from zero without gaps over folds and phases (trial_counter).
NoRowLost ==
    /\ \A i \in DOMAIN rows : rows[i].id = i - 1
    /\ pc = "idle" => rows = << >> /\ buffer = << >>
    /\ pc \in {"best", "manifest", "complete"} => trials.run = run /\ trials.rows = rows
    /\ pc \notin {"idle", "best", "manifest", "complete"} =>
          IF writer THEN trials.run = run /\ trials.rows \o buffer = rows ELSE buffer = rows

\* Whatever says that a run is completed, the index or the manifest, the files
\* are whole and all of that run: its candidates, its trials, their count.  The
\* order of the writes in start and finish must keep this across crashes and
\* reruns under the same id.
Whole(r) == best.run = r /\ trials.run = r /\ trials.footer
CompletedIsWhole ==
    /\ index.status = "completed" => Whole(index.run) /\ Len(trials.rows) = index.count
    /\ manifest.status = "completed" => Whole(manifest.run)

\* A fold's winner is its best accepted trial whatever the method and its rounds,
\* and some trial of the fold when none was accepted.
WinnersAreBest ==
    method # "successive_halving" =>
        \A w \in DOMAIN winners :
            \E i \in RowsOf(winners[w].fold) :
                /\ rows[i].params = winners[w].params
                /\ \A k \in RowsOf(winners[w].fold) : Score(rows[k]) <= Score(rows[i])

\* A published final, by the run or by a reselection over its artifacts, was
\* accepted out of sample on every fold: trials.parquet shows it.
Shown(c) ==
    c # << >> => \A f \in Folds : \E i \in DOMAIN trials.rows :
        LET r == trials.rows[i] IN r.slice = "oos" /\ r.fold = f /\ r.params = c[1].params /\ r.acc
FinalHeldEverywhere ==
    /\ best.run > 0 /\ trials.run = best.run => Shown(best.final)
    /\ pick.run > 0 /\ pick.run = pick.trials /\ trials.run = pick.run => Shown(pick.final)

\* The search commissions the runs its planned_run_count announces to the
\* benchmark, and never more: exactly those for the methods that cannot stop
\* early, rung by rung for successive halving.
SearchIsAsPlanned ==
    LET trained == Cardinality({i \in DOMAIN rows : rows[i].slice = "train"})
    IN  /\ trained <= PlannedTrain
        /\ pc \in {"cross", "select", "close"} /\ method \notin {"recursive_grid", "lhs_polish"}
                => trained = PlannedTrain
=============================================================================

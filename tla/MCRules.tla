------------------------------- MODULE MCRules -------------------------------
(***************************************************************************)
(* The pure rules over bounded inputs.  A step draws one input of one rule *)
(* as the `case` at hand; the laws of the rule modules are the invariants. *)
(* The recursive grid is driven for MaxRounds rounds, its box kept in the  *)
(* case, whatever the candidates of a round score.                         *)
(***************************************************************************)
EXTENDS Integers, Sequences, FiniteSets, TLC

CONSTANTS Unit, MaxRounds

ASSUME BoundsAssumption == Unit \in Nat \ {0} /\ MaxRounds \in Nat

VARIABLE case

T == INSTANCE TesterRules
P == INSTANCE ParamSpace
S == INSTANCE StageRules
E == INSTANCE SpecRules
L == INSTANCE LoopRules
D == INSTANCE DiagnoseRules

Init == case = [kind |-> "none"]

Fresh == case.kind = "none"

(***************************************************************************)
(* Tester                                                                  *)
(***************************************************************************)
CutSlices ==
    /\ Fresh
    /\ \E start \in 0..2, length \in 1..7, folds \in 1..4 :
        case' = [kind |-> "slices", start |-> start, end |-> start + length, folds |-> folds]

Diffs == [param : {"fast", "slow"}, to : {1, 2}]
Changes ==
    Diffs \cup {[param |-> "fast"]}
    \cup {[diffs |-> <<d, e>>] : d \in Diffs, e \in Diffs \cup {[to |-> 1]}}
    \cup {[source |-> "code"], [other |-> "text"], [code |-> "text", param |-> "fast", to |-> 2]}
    \cup [source : {"code"}, manifest : {"crate", "malformed"}]
    \cup [source : {"code"}, manifest : {"crate"}, params : {[fast |-> 2], [new |-> 1]}]
Builds == {[library |-> "built"], [library |-> "none", failure |-> "compile"]}
Base == [fast |-> 0, slow |-> 0]

TranslateChange ==
    /\ Fresh
    /\ \E change \in Changes, build \in Builds :
        case' = [kind |-> "change", change |-> change, build |-> build]

Claims == [metric : {"sharpe", "trades"}, direction : {"gt", "lte"}, target : {0, 1}]
Guards ==
    {<<>>} \cup {<<g>> : g \in [metric : {"trades", "unknown"}, kind : {"delta"},
                                direction : {"lte", "gt"}, bound : {0, 1}]
                               \cup [metric : {"trades"}, kind : {"factor"},
                                     direction : {"gte", "up"}, bound : {1, 2}]}
FoldMetrics == [sharpe : {0, 2}, trades : {0, 2}]
\* A baseline whose metrics are those of its folds.
Baselines == {[scores |-> <<1, 1>>, metrics |-> [sharpe |-> 1, trades |-> 1]],
              [scores |-> <<0, 2>>, metrics |-> [sharpe |-> 1, trades |-> 0]],
              [scores |-> <<1>>, metrics |-> [sharpe |-> 1, trades |-> 1]]}
Trials == [1..2 -> [1..2 -> FoldMetrics]]
          \cup [1..3 -> [1..1 -> [sharpe : 0..2, trades : {0, 2}]]]

JudgeCandidate ==
    /\ Fresh
    /\ \E trials \in Trials, claim \in Claims, guards \in Guards :
       \E baseline \in {b \in Baselines : Len(b.scores) = Len(trials[1])} :
        case' = [kind |-> "claim", trials |-> trials, claim |-> claim, guards |-> guards,
                 baseline |-> baseline]

DecideCriterion ==
    /\ Fresh
    /\ \E op \in {">=", ">", "<=", "<", "==", "!=", "about"}, threshold \in {0, 1}, numeric \in BOOLEAN,
          metric \in {"sharpe", "absent", "unknown"}, observed \in 0..2 :
        case' = [kind |-> "criterion",
                 raw |-> [op |-> op, threshold |-> threshold, numeric |-> numeric, metric |-> metric],
                 metrics |-> [sharpe |-> observed]]

(***************************************************************************)
(* Search space and folds                                                  *)
(***************************************************************************)
Params == {P!Integer(0, 2), P!Integer(3, 3), P!Integer(1, 5), P!Continuous(0, 2 * Unit),
           P!Continuous(Unit, Unit), P!Choice(<<7, 8, 9>>)}

ProjectValue ==
    /\ Fresh
    /\ \E p \in Params, u \in (0 - 2)..(Unit + 2), noise \in (0 - 3)..3 :
        case' = [kind |-> "value", p |-> p, u |-> u, noise |-> noise]

Spaces == [x : {P!Integer(0, 2), P!Integer(0, 3), P!Continuous(0, 4 * Unit)},
           y : {P!Integer(1, 1), P!Integer(0, 5), P!Choice(<<7, 8>>)}]

StartGrid ==
    /\ Fresh
    /\ \E space \in Spaces, resolution \in [x : {2, 3}, y : {2}], k \in {1, 2} :
        case' = [kind |-> "grid", space |-> space, resolution |-> resolution, k |-> k,
                 before |-> P!Driver(space), driver |-> P!Driver(space), top |-> {}]

NextRound ==
    /\ case.kind = "grid"
    /\ ~case.driver.done
    /\ LET candidates == P!Candidates(case.space, case.driver.boxes, case.resolution)
       IN  \E score \in [candidates -> {0, 1}] : \E top \in P!Tops(candidates, score, case.k) :
            case' = [case EXCEPT !.before = case.driver, !.top = top,
                        !.driver = P!Observe(case.driver, case.space, case.resolution,
                                             MaxRounds, 4, top)]

SeedPopulation ==
    /\ Fresh
    /\ \E space \in Spaces, popsize \in {0, 4, 5, 9} :
       \E r \in [DOMAIN space -> {0, 5, Unit}], q \in [DOMAIN space -> {1, Unit - 1}] :
        case' = [kind |-> "population", space |-> space, popsize |-> popsize, rows |-> <<r, q>>]

Polish ==
    /\ Fresh
    /\ \E base \in [1..2 -> 0..Unit], step \in [1..2 -> {0, 1, 5}] :
        case' = [kind |-> "polish", base |-> base, step |-> step]

FinishSearch ==
    /\ Fresh
    /\ \E n \in 0..3 : \E trials \in [1..n -> [score : 0..2, accepted : BOOLEAN]],
          gate \in {{}, {1}} :
        case' = [kind |-> "trials", trials |-> trials, gate |-> gate]

SplitHistory ==
    /\ Fresh
    /\ \E n \in 1..5 : \E scores \in [1..n -> 0..2], part \in 1..9 :
        case' = [kind |-> "history", scores |-> scores, part |-> part, whole |-> 10]

DeriveFolds ==
    /\ Fresh
    /\ \E length \in 0..9, count \in 1..3, gap \in 0..2, scheme \in {"anchored", "rolling"} :
        case' = [kind |-> "folds", length |-> length, count |-> count, gap |-> gap,
                 scheme |-> scheme]

(***************************************************************************)
(* Emissions                                                               *)
(***************************************************************************)
Metrics == {"sharpe"}
KeptBounds == [a |-> "bounds", b |-> "bounds"]

Primaries == [metric : {"sharpe", "other"}, direction : {"gt", "eq", "up"},
              delta_vs_baseline : {"number", "text"}]
             \cup {[metric |-> "sharpe", direction |-> "gt", delta_vs_baseline |-> "number",
                    scope |-> kind] : kind \in {"fold", "week"}}
GuardForms == [metric : {"sharpe"}, direction : {"lte", "eq"},
               delta_vs_baseline : {"number", "null", "text"}]
              \cup [metric : {"sharpe"}, direction : {"gte"}, factor : {"number", "text"}]
              \cup {[metric |-> "sharpe", direction |-> "lte"]}
Falsifications ==
    [primary : Primaries, guards : {<<>>}, nulls : {{}, {"guards"}}]
    \cup [primary : {[metric |-> "sharpe", direction |-> "gt", delta_vs_baseline |-> "number"]},
          guards : {<<g>> : g \in GuardForms}, nulls : {{}}]
    \cup {[guards |-> <<>>, nulls |-> {}]}
Added(name) ==
    [name : {name}, kind : {"f64", "bool", "map"}, min : {"number", "null", "text"},
     max : {"number"}, default : {"number"}]
    \cup [name : {name}, kind : {"i64", "bool"}, default : {"number"}]
Intents ==
    [added : {<<>>} \cup {<<e>> : e \in Added("n")}, kept : {{}, {"a"}, {"z"}},
     removed : {{}, {"a"}, {"n"}}, nulls : {{}}]
    \cup [added : {<<e, f>> : e \in Added("n"), f \in Added("n") \cup Added("m")}, kept : {{}},
          removed : {{}}, nulls : {{}}]
    \cup [added : {<<>>}, kept : {{}}, removed : {{}}, nulls : SUBSET {"added", "kept", "removed"}]

Yaml(data) == [kind |-> "yaml", data |-> data]
H1(title) == [kind |-> "h1", title |-> title]
Fenced(title, data) ==
    <<H1(title), S!Line("labelled"), Yaml(data), S!Line("bare")>>
Layouts(f, i) ==
    {Fenced("Falsification", f) \o Fenced("ParamIntent", i)}
OddLayouts(f, i) ==
    {Fenced("ParamIntent", i) \o <<S!Line("blank"), H1("Notes"), S!Line("text")>>
        \o Fenced("Falsification", f),
     Fenced("Falsification", f),
     <<S!Line("labelled")>> \o Fenced("Falsification", f) \o Fenced("ParamIntent", i),
     <<H1("Falsification"), Yaml(f)>> \o Fenced("ParamIntent", i)}

CommitToClaim ==
    /\ Fresh
    /\ \E f \in Falsifications, i \in Intents : \E lines \in Layouts(f, i) :
        case' = [kind |-> "commitment", lines |-> lines]

CommitOddly ==
    /\ Fresh
    /\ \E f \in Falsifications : \E i \in [added : {<<>>}, kept : {{"a"}}, removed : {{}}, nulls : {{}}] :
        \E lines \in OddLayouts(f, i) : case' = [kind |-> "commitment", lines |-> lines]

Bodies == UNION {[1..n -> {S!Line("text"), S!Line("labelled"), S!Line("bare"), S!Line("blank"),
                           [kind |-> "h2", path |-> "src/lib.rs"]}] : n \in 0..2}
WriteFiles ==
    /\ Fresh
    /\ \E order \in {<<>>, <<"src/lib.rs">>, <<"Cargo.toml", "src/lib.rs">>},
          deleted \in {<<>>, <<"old.rs">>} :
        \E files \in [{order[i] : i \in DOMAIN order} -> Bodies] :
            case' = [kind |-> "files", files |-> files, order |-> order, deleted |-> deleted]

Manifests == {[table |-> TRUE, name |-> "text", version |-> "text"],
              [table |-> TRUE, name |-> "text", version |-> "number"], [table |-> FALSE]}
IdeaLines ==
    {S!Line("bare"), S!Line("labelled"), H1("Idea"), H1("Notes"),
     Yaml([candidate_name |-> "idea", rationale |-> "text", expected_lift_confidence |-> "number"])}
ReadIdea ==
    /\ Fresh
    /\ \E lines \in UNION {[1..n -> IdeaLines] : n \in 0..5} :
        case' = [kind |-> "stage1", lines |-> lines]

Contents == [manifest : Manifests, schema : {"names", "no_json", "no_mapping"},
             declared : SUBSET {"a", "n"}]
Pipelines == [linted : BOOLEAN, build : {"built", "whitelist", "cargo", "source_lint"}]
Emitted == S!SerializeStage3([p \in S!Required |-> <<S!Line("text")>>],
                             <<"Cargo.toml", "src/lib.rs", "params_schema.json">>, <<>>)
BuildCandidate ==
    /\ Fresh
    /\ \E content \in Contents, pipeline \in Pipelines, lines \in {Emitted, Tail(Emitted)},
          intent \in [added : {<<>>} \cup {<<e>> : e \in Added("n")}, kept : {{}, {"a"}},
                     removed : {{}, {"a"}, {"n"}}, nulls : {{}}] :
        case' = [kind |-> "candidate", lines |-> lines, content |-> content, intent |-> intent,
                 pipeline |-> pipeline]

(***************************************************************************)
(* Experiment files                                                        *)
(***************************************************************************)
Year == <<0, 8>>
Template == [params |-> {"fast"}]
Search == [method |-> "grid", space |-> [slow |-> [type |-> "int", low |-> 1, high |-> 3]],
           knobs |-> <<>>]
File == [artifact |-> "crate", bars |-> {"request"}, slice |-> Year, runs |-> <<Template>>]
Edits ==
    {<<>>, [bars |-> {}], [bars |-> {"request", "dataset"}], [seed |-> <<7>>], [seed |-> <<>>],
     [slice |-> <<>>], [runs |-> <<>>], [parallelism |-> <<>>], [parallelism |-> <<0>>],
     [strategy |-> "old"], [engine |-> {"slippage_bps"}],
     [runs |-> <<Template, Template @@ [seed |-> <<1>>]>>],
     [runs |-> <<Template @@ [slice |-> <<2, 4>>]>>, seed |-> <<3>>]}
Searches ==
    {<<>>, [optimize |-> Search]}
    \cup {[optimize |-> Search, folds |-> [count |-> c, gap |-> g]] : c \in 1..3, g \in {0, 2}}
    \cup {[folds |-> [count |-> 2, gap |-> 0], optimize |-> o @@ Search] :
            o \in {[method |-> "random"], [method |-> "other"],
                   [method |-> "random", knobs |-> [random |-> [n_samples |-> 4]]],
                   [knobs |-> [random |-> <<>>]], [knobs |-> [sobol |-> [n_points |-> 1]]],
                   [knobs |-> [differential_evolution |->
                                [mutation_low |-> 2, mutation_high |-> 1]]],
                   [space |-> [fast |-> [type |-> "float", low |-> 0, high |-> 1]]],
                   [space |-> [slow |-> [type |-> "int", low |-> 2, high |-> 2]]],
                   [space |-> <<>>]}}
Legacy == {[strategy |-> "old", dataset |-> "old", runs |-> <<Template>>], <<>>}

ReadFile ==
    /\ Fresh
    /\ \E payload \in {e @@ s @@ File : e \in Edits, s \in Searches} \cup Legacy :
        case' = [kind |-> "spec", payload |-> payload]

CostGrid ==
    /\ Fresh
    /\ \E p \in [type : {"int", "float"}, low : {0, 1}, high : 1..7]
               \cup [type : {"int", "float"}, low : {0, 1}, high : 1..7, step : 1..4],
          resolution \in 2..4, elapsed \in 1..3, failed \in BOOLEAN :
        case' = [kind |-> "grid_file", p |-> p, resolution |-> resolution, elapsed |-> elapsed,
                 walls |-> IF failed THEN <<>> ELSE <<1, elapsed, 2>>]

(***************************************************************************)
(* The rules between the LLM calls                                         *)
(***************************************************************************)
Cites == {[source |-> "book", locator |-> {"p1"}], [source |-> "book", locator |-> {"c2"}]}
Priors == [kind : {"accepted", "rejected", "deferred"}, cites : {{}} \cup {{c} : c \in Cites},
           name : {{"hedge"}, {"stop"}}, rationale : {{"leg"}, {"leg", "stop"}}]
Ideas == [name : {{}, {"hedge"}}, rationale : {{"leg"}, {"leg", "stop"}}, bounded : {TRUE},
          wantsMoreTrades : BOOLEAN, removes : BOOLEAN]
Diagnoses == {<<>>, <<[regimes |-> {"chop"}, signals |-> {}, used |-> 1, firedNoTrade |-> 2]>>}
Retrieved == {<<>>, <<[source |-> "book", place |-> {"p1"}, chunk |-> "c1"],
                      [source |-> "book", place |-> {}, chunk |-> "c2"]>>}

CritiqueIdea ==
    /\ Fresh
    /\ \E idea \in Ideas, diagnosis \in Diagnoses, items \in Retrieved,
          priors \in UNION {[1..n -> Priors] : n \in 0..2} :
        case' = [kind |-> "idea", idea |-> idea, diagnosis |-> diagnosis, priors |-> priors,
                 cites |-> L!KbQuery(<<>>, L!DeriveQuery(diagnosis), items)]

Gates == [k : {1, 2}, cv : {5}, borderline : {2}]
GateScores ==
    /\ Fresh
    /\ \E candidate \in [1..2 -> (0 - 2)..4], baseline \in [1..2 -> 0..2], gain \in 1..3,
          config \in Gates, params \in 0..2 :
        case' = [kind |-> "gate", candidate |-> candidate, baseline |-> baseline, gain |-> gain,
                 config |-> config, params |-> params]

Trades == [entry : {0, 20}, exit : {20, 300}, pnl : {-1, 0, 2}, reason : {"", "stop"},
           signals : {{}, {"rsi"}}]
Tags == {<<>>, <<[label |-> "low", start |-> 0, end |-> 10], [label |-> "high", start |-> 10, end |-> 21]>>,
         <<[label |-> "low", start |-> 0, end |-> 10], [label |-> "low", start |-> 10, end |-> 20]>>}
Signals == [name : {"rsi"}, ts : {0, 59}, fired : {TRUE}, suppressed : {FALSE}]
           \cup [name : {"rsi"}, ts : {20, 70}, fired : {FALSE}, suppressed : {TRUE}]
DiagnoseRun ==
    /\ Fresh
    /\ \E trades \in UNION {[1..n -> Trades] : n \in 0..2}, tags \in Tags,
          signals \in {<<>>} \cup [1..2 -> Signals], equity \in {<<>>, <<100, 90>>, <<110, 110, 109>>} :
        case' = [kind |-> "run", trades |-> trades, tags |-> tags, signals |-> signals,
                 equity |-> equity]

Next ==
    \/ CutSlices
    \/ TranslateChange
    \/ JudgeCandidate
    \/ DecideCriterion
    \/ ProjectValue
    \/ StartGrid
    \/ NextRound
    \/ SeedPopulation
    \/ Polish
    \/ FinishSearch
    \/ SplitHistory
    \/ DeriveFolds
    \/ CommitToClaim
    \/ CommitOddly
    \/ WriteFiles
    \/ ReadIdea
    \/ BuildCandidate
    \/ ReadFile
    \/ CostGrid
    \/ CritiqueIdea
    \/ GateScores
    \/ DiagnoseRun

Spec == Init /\ [][Next]_case

----------------------------------------------------------------------------
\* No window is scored on what came with its training: the folds of a search
\* are out of sample (P!FoldsAreOutOfSample), those of a full batch tile the
\* range they are cut from (T!SlicesTile).
WindowsAreOutOfSample ==
    /\ case.kind = "slices" => T!SlicesTile(case.start, case.end, case.folds)
    /\ case.kind = "folds" =>
        P!FoldsAreOutOfSample(0, case.length, case.count, case.scheme, case.gap)

\* Whatever proposes a value proposes one of the space, none of them never and
\* no end of a range left out (P!ProposalsInSpace, P!RoundInSpace,
\* P!NoValueStarved, P!PopulationFills, E!GridSpansRange), at the cost that was
\* announced (E!PredictionCoversSample).
ProposalsCoverSpace ==
    /\ case.kind = "value" =>
        P!ProposalsInSpace(case.p, case.u, case.noise) /\ P!NoValueStarved(case.p)
    /\ case.kind = "population" => P!PopulationFills(case.space, case.rows, case.popsize)
    /\ case.kind = "grid" => P!RoundInSpace(case.driver, case.space, case.resolution)
    /\ case.kind = "grid_file" =>
        /\ E!GridSpansRange(case.p, case.resolution)
        /\ E!PredictionCoversSample(case.walls, 4, case.elapsed, 2)

\* A search goes where the best was and answers with it: the box of the
\* recursive grid nests around the best points of the round (P!BoxFollowsBest),
\* the Parzen sampler has something good to follow and something bad to leave
\* (P!TpeSplits), a polish looks to all sides of its base (P!ProbesSurround),
\* and no accepted trial beats the answer (P!SearchReturnsBest).
SearchFollowsBest ==
    /\ case.kind = "grid" /\ case.top # {} =>
        P!BoxFollowsBest(case.before, case.driver, case.space, case.resolution, case.top)
    /\ case.kind = "polish" => P!ProbesSurround(case.base, case.step)
    /\ case.kind = "trials" => P!SearchReturnsBest(case.trials, case.gate)
    /\ case.kind = "history" => P!TpeSplits(case.scores, case.part, case.whole)

\* What an emission says is what is acted on: an idea is the section that
\* stands alone (S!IdeaStandsAlone), files read back as they were
\* written (S!FilesReadBack), what stage 2 accepts and the tester can read is
\* judged (S!StageTwoIsJudged), what is searched the candidate declares
\* (S!SearchedIsDeclared).
EmissionsAreUnderstood ==
    /\ case.kind = "stage1" => S!IdeaStandsAlone(case.lines)
    /\ case.kind = "files" => S!FilesReadBack(case.files, case.order, case.deleted)
    /\ case.kind = "commitment" => S!StageTwoIsJudged(case.lines, Metrics, KeptBounds)
    /\ case.kind = "candidate" =>
        S!SearchedIsDeclared(case.lines, case.content, case.intent, case.pipeline, KeptBounds)

\* Every run is traceable to what was asked for: an experiment file that loads
\* says the window, the seed and the parameters of each of its runs
\* (E!LoadedIsRunnable), a proposed change is run or rejected on record
\* (T!OneRoute).
RunsAreAsked ==
    /\ case.kind = "spec" => E!LoadedIsRunnable(case.payload, 3)
    /\ case.kind = "change" => T!OneRoute(case.change, "artifact", Base, case.build)

\* An accepted candidate has the evidence for it (T!VerdictIsEarned), a
\* criterion decides one way (T!CriterionDecides), more evidence never hurts
\* (L!ImprovementIsRewarded), and only verdicts count for or against the next
\* idea (L!OnlyVerdictsBias).
VerdictIsEarned ==
    /\ case.kind = "claim" =>
        T!VerdictIsEarned(case.trials, "sharpe", case.claim, case.guards, case.baseline)
    /\ case.kind = "criterion" => T!CriterionDecides(case.raw, "sharpe", case.metrics)
    /\ case.kind = "gate" =>
        L!ImprovementIsRewarded(case.candidate, case.baseline, case.gain, case.config, case.params)
    /\ case.kind = "idea" =>
        L!OnlyVerdictsBias(case.cites, case.priors, case.idea, case.diagnosis)

\* The views of a diagnosis agree with each other (D!DiagnosisAddsUp).
DiagnosisAddsUp ==
    case.kind = "run" => D!DiagnosisAddsUp(case.trades, case.equity, case.tags, case.signals)

\* The loop is told of the drawdowns of a run (D!DrawdownsAreSeen,
\* diagnose.py:110).
DrawdownsAreSeen ==
    case.kind = "run" => D!DrawdownsAreSeen(case.trades, case.equity, case.tags, case.signals)
=============================================================================

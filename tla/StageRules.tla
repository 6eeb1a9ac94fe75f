------------------------------ MODULE StageRules ------------------------------
(***************************************************************************)
(* What the hypothesis workflow makes of the three emissions of a          *)
(* candidate: the markdown grammar (markdown_io.py), the validators        *)
(* (validation.py) and the models the commitments are turned into for the  *)
(* mini-optimize (workflow.py).                                            *)
(*                                                                         *)
(* An emission is a sequence of lines, [kind |-> "h1", title],             *)
(* [kind |-> "h2", path], [kind |-> "delete", path], a bare fence, a       *)
(* labelled fence, blank, text, or [kind |-> "yaml", data]: the lines of   *)
(* one YAML mapping.  A number is known by how it is written: "number",    *)
(* "null" or "text"; a list of a mapping that is written as null is empty  *)
(* and named in the `nulls` of the mapping.                                *)
(***************************************************************************)
EXTENDS Integers, Sequences, FiniteSets, Functions, SequencesExt

Judge == INSTANCE TesterRules

Fence == {"bare", "labelled"}
Line(kind) == [kind |-> kind]

(***************************************************************************)
(* Markdown                                                                *)
(***************************************************************************)
\* _split_h1_sections: inside a fence nothing is a header; of two sections
\* with one title the later counts.  The text before the first title is lost.
SplitH1(lines) ==
    LET Put(acc) == IF acc.title = "" THEN acc.sections
                    ELSE [t \in DOMAIN acc.sections \cup {acc.title} |->
                            IF t = acc.title THEN acc.body ELSE acc.sections[t]]
        Step(acc, line) ==
            IF line.kind = "h1" /\ ~acc.fenced
            THEN [sections |-> Put(acc), title |-> line.title, body |-> <<>>, fenced |-> FALSE]
            ELSE [acc EXCEPT !.fenced = @ # (line.kind \in Fence),
                             !.body = IF acc.title = "" THEN @ ELSE Append(@, line)]
    IN  Put(FoldLeft(Step, [sections |-> <<>>, title |-> "", body |-> <<>>, fenced |-> FALSE],
                     lines))

Stripped(body) == SelectSeq(body, LAMBDA l : l.kind # "blank")

\* _load_yaml_block, with the lines up to the first bare fence
IsBlock(body) ==
    LET s == Stripped(body)
    IN  s # <<>> /\ s[1].kind \in Fence /\ \E j \in 2..Len(s) : s[j].kind = "bare"
Block(body) ==
    LET s == Stripped(body)
        close == CHOOSE j \in 2..Len(s) :
                    s[j].kind = "bare" /\ \A i \in 2..j - 1 : s[i].kind # "bare"
    IN  SubSeq(s, 2, close - 1)

IsMapping(yaml) == Len(yaml) = 1 /\ yaml[1].kind = "yaml"

\* _load_yaml: a fence is optional
Loaded(body) ==
    LET s == Stripped(body)
    IN  IF s = <<>> \/ s[1].kind \notin Fence THEN s
        ELSE IF IsBlock(body) THEN Block(body) ELSE <<>>

\* _require_str, _require_float
HasText(data, keys) == \A k \in keys : k \in DOMAIN data /\ data[k] \notin {"", "blank"}
HasNumber(data, key) == key \in DOMAIN data /\ data[key] = "number"

\* parse_stage1; the confidence is "number" within its bounds
IsStage1(lines) ==
    LET sections == SplitH1(lines)
    IN  /\ DOMAIN sections = {"Idea"}
        /\ IsMapping(Loaded(sections["Idea"]))
        /\ LET data == Loaded(sections["Idea"])[1].data
           IN  /\ HasText(data, {"candidate_name", "rationale"})
               /\ HasNumber(data, "expected_lift_confidence")

(***************************************************************************)
(* Stage 2                                                                 *)
(***************************************************************************)
Directions == {"gt", "gte", "lt", "lte", "eq"}
ScopeKinds == {"aggregate", "regime", "fold", "window"}
ParamKinds == {"f64", "i64", "bool", "string"}

\* _validate_falsification
IsGuard(guard, metrics) ==
    /\ HasText(guard, {"metric", "direction"})
    /\ guard.metric \in metrics
    /\ guard.direction \in Directions
    /\ {"delta_vs_baseline", "factor"} \cap DOMAIN guard # {}
IsFalsification(body, metrics) ==
    /\ "primary" \in DOMAIN body
    /\ HasText(body.primary, {"metric", "direction"})
    /\ body.primary.metric \in metrics
    /\ body.primary.direction \in Directions
    /\ HasNumber(body.primary, "delta_vs_baseline")
    /\ "scope" \in DOMAIN body.primary => body.primary.scope \in ScopeKinds
    /\ \A g \in Range(body.guards) : IsGuard(g, metrics)

\* _validate_param_intent
IsAdded(entry) ==
    /\ HasText(entry, {"name", "kind"})
    /\ entry.kind \in ParamKinds
    /\ entry.kind \in {"f64", "i64"} => {"min", "max"} \subseteq DOMAIN entry
    /\ "default" \in DOMAIN entry
IsParamIntent(body) ==
    /\ \A e \in Range(body.added) : IsAdded(e)
    /\ IsInjective([i \in DOMAIN body.added |-> body.added[i].name])

\* parse_stage2: other sections are ignored
IsStage2(lines, metrics) ==
    LET sections == SplitH1(lines)
    IN  /\ {"Falsification", "ParamIntent"} \subseteq DOMAIN sections
        /\ \A t \in {"Falsification", "ParamIntent"} :
            IsBlock(sections[t]) /\ IsMapping(Block(sections[t]))
        /\ IsFalsification(Block(sections["Falsification"])[1].data, metrics)
        /\ IsParamIntent(Block(sections["ParamIntent"])[1].data)
Stage2(lines) ==
    [falsification |-> Block(SplitH1(lines)["Falsification"])[1].data,
     intent |-> Block(SplitH1(lines)["ParamIntent"])[1].data]

\* validate_stage2; a kept list that is null is iterated, and raises
ValidateStage2(lines, metrics, kept) ==
    IF ~IsStage2(lines, metrics) THEN "reject_format"
    ELSE IF "kept" \in Stage2(lines).intent.nulls THEN "raises"
    ELSE IF ~(Stage2(lines).intent.kept \subseteq kept) THEN "reject_schema"
    ELSE "ok"

\* GuardConstraint, AddedParam: a number or null
Numeric(data, keys) == \A k \in keys \cap DOMAIN data : data[k] \in {"number", "null"}

\* _build_falsification and _build_param_intent do not raise
IsBuildable(c) ==
    /\ c.falsification.nulls = {} /\ c.intent.nulls = {}
    /\ \A g \in Range(c.falsification.guards) : Numeric(g, {"delta_vs_baseline", "factor"})
    /\ \A e \in Range(c.intent.added) : Numeric(e, {"min", "max"})

Given(data, key) == key \in DOMAIN data /\ data[key] = "number"
GuardOf(g) ==
    [metric |-> g.metric, direction |-> g.direction,
     kind |-> IF Given(g, "delta_vs_baseline") THEN "delta"
              ELSE IF Given(g, "factor") THEN "factor" ELSE "none"]
IntentOf(intent) ==
    LET entry(p) == CHOOSE e \in Range(intent.added) : e.name = p
        bounds(e) == IF e.kind \notin {"f64", "i64"} THEN "unsupported"
                     ELSE IF Given(e, "min") /\ Given(e, "max") THEN "bounds" ELSE "no_bounds"
    IN  [added |-> [p \in {e.name : e \in Range(intent.added)} |-> bounds(entry(p))],
         kept |-> intent.kept, removed |-> intent.removed]

\* mini_optimize_step: building the commitments is not guarded, trying them is.
MiniOptimize(c, keptBounds) ==
    IF ~IsBuildable(c) THEN "torn_down"
    ELSE IF /\ Judge!IsSearchable(IntentOf(c.intent), keptBounds)
            /\ c.falsification.primary.direction \in Judge!Up \cup Judge!Down
            /\ \A g \in Range(c.falsification.guards) : Judge!IsGuard(GuardOf(g))
         THEN "judged" ELSE "reject_schema"

\* generate_stage2_step, then mini_optimize_step
Commit(lines, metrics, keptBounds) ==
    CASE ValidateStage2(lines, metrics, DOMAIN keptBounds) = "raises" -> "torn_down"
      [] ValidateStage2(lines, metrics, DOMAIN keptBounds) = "ok" ->
            MiniOptimize(Stage2(lines), keptBounds)
      [] OTHER -> "repaired"

(***************************************************************************)
(* Stage 3                                                                 *)
(***************************************************************************)
Scan == [mode |-> "outside", path |-> "", body |-> <<>>, files |-> <<>>, deleted |-> {}]

\* A fence with a label opens a block and never closes one.
ClosesAny(line) == line.kind \in Fence
Closes(line) == line.kind = "bare"

\* parse_stage3, one line at a time: outside a file, between its header and
\* its fence, in its fence, or in error.
ScanLine(acc, line) ==
    CASE acc.mode = "outside" /\ line.kind = "h2" ->
            IF line.path \in {"", "bad path"} \cup DOMAIN acc.files
            THEN [acc EXCEPT !.mode = "error"]
            ELSE [acc EXCEPT !.mode = "header", !.path = line.path]
      [] acc.mode = "outside" /\ line.kind = "delete" ->
            IF line.path \in {"", "bad path"} \cup acc.deleted
            THEN [acc EXCEPT !.mode = "error"]
            ELSE [acc EXCEPT !.deleted = @ \cup {line.path}]
      [] acc.mode = "header" /\ line.kind # "blank" ->
            [acc EXCEPT !.mode = IF line.kind \in Fence THEN "body" ELSE "error", !.body = <<>>]
      [] acc.mode = "body" /\ ~Closes(line) -> [acc EXCEPT !.body = Append(@, line)]
      [] acc.mode = "body" /\ Closes(line) ->
            [acc EXCEPT !.mode = "outside",
                !.files = [p \in DOMAIN @ \cup {acc.path} |-> IF p = acc.path THEN acc.body ELSE @[p]]]
      [] OTHER -> acc
Scanned(lines) == FoldLeft(ScanLine, Scan, lines)
IsStage3(lines) ==
    /\ Scanned(lines).mode = "outside"
    /\ DOMAIN Scanned(lines).files # {} \/ Scanned(lines).deleted # {}

\* serialize_stage3: the files by name, then the deletions
SerializeStage3(files, order, deleted) ==
    LET File(p) == <<[kind |-> "h2", path |-> p], Line("blank"), Line("bare")>> \o files[p]
                       \o <<Line("bare"), Line("blank")>>
    IN  FlattenSeq([i \in DOMAIN order |-> File(order[i])])
            \o [i \in DOMAIN deleted |-> [kind |-> "delete", path |-> deleted[i]]]

Required == {"Cargo.toml", "src/lib.rs", "params_schema.json"}

\* _build_kind_to_reject_kind
BuildReject(failure) ==
    CASE failure \in {"source_lint", "manifest_lint"} -> "reject_lint"
      [] failure = "whitelist" -> "reject_deps"
      [] OTHER -> "reject_build"

\* _check_param_intent_against_schema
Agrees(intent, declared) ==
    /\ {e.name : e \in Range(intent.added)} \subseteq declared
    /\ intent.removed \cap declared = {}

\* _parse_cargo_toml: a [package] table with a name and a version
IsManifest(toml) == toml.table /\ toml.name = "text" /\ toml.version = "text"

\* validate_stage3, over what the files hold: a Cargo.toml and its [package]
\* table, a schema that is no JSON, no mapping, or declares names; and over
\* what the pipeline answers.
ValidateStage3(lines, content, intent, pipeline) ==
    IF ~IsStage3(lines) \/ ~(Required \subseteq DOMAIN Scanned(lines).files) \/ ~IsManifest(content.manifest)
    THEN "reject_format"
    ELSE IF content.schema = "no_mapping" THEN "raises"
    ELSE IF content.schema = "no_json" \/ ~Agrees(intent, content.declared) THEN "reject_schema"
    ELSE IF ~pipeline.linted THEN "reject_lint"
    ELSE IF pipeline.build # "built" THEN BuildReject(pipeline.build)
    ELSE "ok"

----------------------------------------------------------------------------
\* A commitment that passes stage 2 is judged, unless it uses one of the forms
\* that stage 2 allows and the tester does not: the direction eq, a parameter
\* that is no number, a number or a list written as null or as text, a name
\* that is kept or added and removed (validate_stage2, mini_optimize_step).
Speakable(c) ==
    /\ IsBuildable(c)
    /\ "eq" \notin {c.falsification.primary.direction}
                    \cup {g.direction : g \in Range(c.falsification.guards)}
    /\ \A g \in Range(c.falsification.guards) :
        Given(g, "delta_vs_baseline") \/ Given(g, "factor")
    /\ \A e \in Range(c.intent.added) :
        e.kind \in {"f64", "i64"} /\ Given(e, "min") /\ Given(e, "max")
        /\ e.name \notin c.intent.removed
    /\ c.intent.kept \cap c.intent.removed = {}
StageTwoIsJudged(lines, metrics, keptBounds) ==
    /\ Commit(lines, metrics, keptBounds) = "judged" =>
        /\ IsStage2(lines, metrics)
        /\ Stage2(lines).intent.kept \subseteq DOMAIN keptBounds
        /\ Stage2(lines).intent.kept \cap Stage2(lines).intent.removed = {}
    /\ ValidateStage2(lines, metrics, DOMAIN keptBounds) = "ok" /\ Speakable(Stage2(lines)) =>
        Commit(lines, metrics, keptBounds) = "judged"

\* The files a stage-3 emission stands for are those between its fences, none
\* of them cut short or run together: what is written with no bare fence in a
\* body reads back as it was (parse_stage3, serialize_stage3).
FilesReadBack(files, order, deleted) ==
    LET lines == SerializeStage3(files, order, deleted)
    IN  (\A p \in DOMAIN files : Line("bare") \notin Range(files[p])) /\ lines # <<>> =>
            /\ IsStage3(lines)
            /\ Scanned(lines).files = files
            /\ Scanned(lines).deleted = Range(deleted)

\* An idea is taken from the one section that stands alone: no header outside a
\* fence is anything but "Idea", whatever headers its fenced text quotes, and
\* what is read comes after the last of them (parse_stage1, _split_h1_sections).
IdeaStandsAlone(lines) ==
    LET Outside(i) == Cardinality({j \in 1..i - 1 : lines[j].kind \in Fence}) % 2 = 0
        headers == {i \in DOMAIN lines : lines[i].kind = "h1" /\ Outside(i)}
    IN  IsStage1(lines) =>
        /\ headers # {} /\ \A i \in headers : lines[i].title = "Idea"
        /\ \E i \in DOMAIN lines : lines[i].kind = "yaml" /\ \A h \in headers : h < i

\* What the mini-optimize searches, the candidate declares: a stage 3 that
\* passes has every added parameter in its schema and no removed one, so a
\* search space built from the intent has none of them either
\* (_check_param_intent_against_schema, _build_search_space).
SearchedIsDeclared(lines, content, intent, pipeline, keptBounds) ==
    ValidateStage3(lines, content, intent, pipeline) = "ok"
        /\ Judge!IsSearchable(IntentOf(intent), keptBounds) =>
            LET searched == DOMAIN Judge!SearchSpace(IntentOf(intent), keptBounds)
            IN  /\ searched \cap intent.removed = {}
                /\ searched \ intent.kept \subseteq content.declared
=============================================================================

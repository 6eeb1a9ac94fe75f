--------------------------- MODULE HypothesisLoop ---------------------------
(***************************************************************************)
(* Calls of hypothesize() (hypothesize.py) on one strategy, one after the  *)
(* other: the state graph of workflow.py, in which a language model        *)
(* proposes a change in three stages, gates judge it and a loop goes on    *)
(* until enough are accepted or a budget is spent; then what was judged is *)
(* written to the strategy's ledger (per_strategy_ledger.py), from which   *)
(* the next call learns what has been tried.                               *)
(*                                                                         *)
(* What the model writes, what a backtest scores and how a critic reads it *)
(* are inputs.  A value emitted in an iteration is that iteration's number *)
(* (0 is None), so that what belongs to whom can be told.                  *)
(***************************************************************************)
EXTENDS Naturals, Sequences, FiniteSets

CONSTANTS
    Failures,           \* how an emission may fail validation: <<stage, kind>>
    Checks,             \* what falsification_check may say of a sweep
    KRepair,            \* RepairConfig.k_repair
    IterationBudget,    \* HypothesisLoopConfig.iteration_budget
    Target,             \* HypothesisLoopConfig.target_candidates
    Cost,               \* backtests of one sweep: trials * folds
    Ceilings,           \* the values of --max-backtests; 0 stands for None
    PriorLimit,         \* hypothesize(prior_decision_limit)
    MaxCalls            \* bound: calls of hypothesize

Mechanical ==
    {"reject_format", "reject_build", "reject_lint", "reject_deps", "exhausted_repair_budget"}

Stages == 1..3
\* The kinds validate_stage1, 2 and 3 report.
StructuralFailures ==
    ({1} \X {"reject_format"}) \cup ({2} \X {"reject_format", "reject_schema"})
        \cup ({3} \X {"reject_format", "reject_build", "reject_lint", "reject_deps",
                      "reject_schema"})
Classifications == {"accepted", "falsified", "regression"}

ASSUME InputsAssumption ==
    Checks \subseteq Classifications /\ Failures \subseteq StructuralFailures
ASSUME BoundsAssumption ==
    /\ {KRepair, PriorLimit, MaxCalls} \subseteq Nat
    /\ {IterationBudget, Target, Cost} \subseteq Nat \ {0}
    /\ Ceilings \subseteq Nat

VARIABLES
    pc,         \* the node, or the write, that comes next
    s,          \* the graph's HypothesizeState, and how it is persisted
    tries,      \* emissions of the stage at hand that have failed
    saving,     \* the candidate _persist_candidate is writing
    hypotheses, \* hypothesis_records.parquet: ids
    decisions,  \* decision_records.parquet, in the order of decided_at
    blobs,      \* responses/: the emissions filed under each decision
    torn,       \* files whose writer died in the middle of a write
    baseline,   \* whether baseline/best.json is there
    calls,      \* calls so far, the one under way included
    spent       \* history: backtests the engine ran for this call

ledger == <<hypotheses, decisions, blobs, torn, baseline>>
vars == <<pc, s, tries, saving, ledger, calls, spent>>

None == 0
Unlimited == 0
NoAttempt == [of |-> None, library |-> None, check |-> "none", floor |-> "none"]
NoGate == [of |-> None, kind |-> "none"]
NoVerdict == [of |-> None, accept |-> FALSE]
NoMatch == <<0, 0>>

\* The slots of the candidate in hand.
EmptySlots ==
    [idea |-> None, commitments |-> None, intent |-> "none", files |-> None,
     library |-> None, attempt |-> NoAttempt, gate |-> NoGate,
     verdict |-> NoVerdict, reject |-> "none", matched |-> NoMatch]

Fresh(priors, ceiling) ==
    [slot |-> EmptySlots, accepted |-> {}, rejected |-> {}, intra |-> <<>>, iteration |-> 0,
     consumed |-> 0, responses |-> [i \in Stages |-> None], reason |-> "running",
     priors |-> priors, ceiling |-> ceiling]

Init ==
    /\ pc = "idle" /\ s = Fresh({}, Unlimited) /\ tries = 0 /\ saving = EmptySlots
    /\ hypotheses = {} /\ decisions = <<>> /\ blobs = {} /\ torn = {} /\ baseline = FALSE
    /\ calls = 0 /\ spent = 0

-----------------------------------------------------------------------------
(* Bootstrap                                                               *)

\* The most recent decisions; the limit counts the deferred ones too.
Recent ==
    LET first == IF Len(decisions) > PriorLimit THEN Len(decisions) - PriorLimit + 1 ELSE 1
    IN {decisions[i] : i \in first..Len(decisions)}

\* Mutant: deferred decisions are taken for rejections.
PriorsWithDeferred ==
    {[id |-> d.id, accepted |-> d.outcome = "accepted"] : d \in {e \in Recent : e.id \in hypotheses}}

\* What the loop is told of the past.
Priors ==
    {[id |-> d.id, accepted |-> d.outcome = "accepted"] :
        d \in {e \in Recent : e.outcome # "deferred" /\ e.id \in hypotheses}}

\* The hypotheses are read only where a decision asks for one.
Unreadable ==
    \/ "decisions" \in torn
    \/ "hypotheses" \in torn /\ \E d \in Recent : d.outcome # "deferred"
    \/ "baseline" \in torn

Begin ==
    /\ pc = "idle" /\ calls < MaxCalls /\ calls' = calls + 1
    /\ IF Unreadable
       THEN UNCHANGED <<pc, s, tries, saving, ledger, spent>>
       ELSE \/ /\ pc' = "diagnose" /\ baseline' = TRUE
               /\ \E ceiling \in Ceilings : s' = Fresh(Priors, ceiling)
               /\ UNCHANGED <<tries, saving, hypotheses, decisions, blobs, torn, spent>>
            \/ /\ ~baseline /\ baseline' = TRUE /\ torn' = torn \cup {"baseline"}
               /\ UNCHANGED <<pc, s, tries, saving, hypotheses, decisions, blobs, spent>>

-----------------------------------------------------------------------------
(* The graph                                                               *)

Order == <<"diagnose", "kb_query", "kb_filter", "stage1", "cheap_critique", "stage2", "stage3",
           "mini_optimize", "mechanical_gate", "verdict_critique", "rank">>
After(node) == Order[(CHOOSE i \in DOMAIN Order : Order[i] = node) + 1]

StageNode == <<"stage1", "stage2", "stage3">>
Gated == {"cheap_critique", "stage2", "stage3", "mini_optimize", "mechanical_gate",
          "verdict_critique"}

Current == s.iteration + 1
Rejected == s.slot.reject # "none"

Reject(kind) == [s EXCEPT !.slot.reject = kind]

Prepare ==
    /\ pc \in {"diagnose", "kb_query", "kb_filter"} /\ pc' = After(pc)
    /\ UNCHANGED <<s, tries, saving, ledger, calls, spent>>

\* A node that finds candidate_reject_kind set returns {}.
PassOver ==
    /\ pc \in Gated /\ Rejected /\ pc' = After(pc)
    /\ UNCHANGED <<s, tries, saving, ledger, calls, spent>>

Turn(node) == pc = node /\ ~(node \in Gated /\ Rejected)

\* A stage keeps its last emission, accepted or not.
Emitted(i, slot) == [s EXCEPT !.slot = slot, !.responses[i] = Current]

FailStage(i) ==
    /\ Turn(StageNode[i])
    /\ \E f \in Failures :
        /\ f[1] = i
        /\ IF tries < KRepair
           THEN tries' = tries + 1 /\ UNCHANGED <<pc, s>>
           ELSE /\ tries' = 0 /\ pc' = After(pc)
                /\ s' = Emitted(i, [s.slot EXCEPT !.reject = f[2]])
    /\ UNCHANGED <<saving, ledger, calls, spent>>

\* The slots a valid emission of stage i fills.
Filled(i) ==
    CASE i = 1 -> {[s.slot EXCEPT !.idea = Current, !.reject = "none"]}
      [] i = 2 -> {[s.slot EXCEPT !.commitments = Current, !.intent = intent] :
                       intent \in {"sound", "no_space", "eq_guard"}}
      [] i = 3 -> {[s.slot EXCEPT !.files = Current, !.library = Current]}

PassStage(i) ==
    /\ Turn(StageNode[i]) /\ tries' = 0 /\ pc' = After(pc)
    /\ \E slot \in Filled(i) : s' = Emitted(i, slot)
    /\ UNCHANGED <<saving, ledger, calls, spent>>

\* An idea may be found malformed, at odds with the diagnosis, undoing what
\* was accepted, or too close to one rejected before.
CheapCritique ==
    /\ Turn("cheap_critique") /\ pc' = After(pc)
    /\ \/ s' = s
       \/ s' = Reject("reject_verdict")
       \/ \E prior \in s.priors :
            ~prior.accepted /\ s' = [Reject("reject_verdict") EXCEPT !.slot.matched = prior.id]
    /\ UNCHANGED <<tries, saving, ledger, calls, spent>>

\* Mutant: asks what is spent, not what the sweep would spend.
OverBudgetOnceSpent == s.ceiling # Unlimited /\ s.consumed >= s.ceiling

OverBudget == s.ceiling # Unlimited /\ s.consumed + Cost > s.ceiling

Sweep ==
    /\ s.slot.intent = "sound" /\ spent' = spent + Cost
    /\ \E check \in Checks,
          floor \in {"ok", "reject_noise", "reject_variance"} :
        s' = [s EXCEPT !.consumed = @ + Cost,
                       !.slot.attempt = [of |-> s.slot.commitments, library |-> s.slot.library,
                                         check |-> check, floor |-> floor]]

\* An "eq" guard parses, is swept, and only the check of the claim refuses it.
MiniOptimize ==
    /\ Turn("mini_optimize") /\ pc' = After(pc)
    /\ \/ OverBudget /\ s' = Reject("reject_noise") /\ UNCHANGED spent
       \/ ~OverBudget /\ s.slot.intent = "no_space" /\ s' = Reject("reject_schema")
          /\ UNCHANGED spent
       \/ ~OverBudget /\ s.slot.intent = "eq_guard" /\ s' = Reject("reject_schema")
          /\ spent' = spent + Cost
       \/ ~OverBudget /\ Sweep
    /\ UNCHANGED <<tries, saving, ledger, calls>>

MechanicalGate ==
    /\ Turn("mechanical_gate") /\ pc' = After(pc)
    /\ LET attempt == s.slot.attempt
           judged == [s EXCEPT !.slot.gate = [of |-> attempt.of, kind |-> attempt.floor]]
       IN s' = IF attempt.floor = "ok" THEN judged
               ELSE [judged EXCEPT !.slot.reject = attempt.floor]
    /\ UNCHANGED <<tries, saving, ledger, calls, spent>>

VerdictCritique ==
    /\ Turn("verdict_critique") /\ pc' = After(pc)
    /\ \E accept \in BOOLEAN :
        s' = [s EXCEPT !.slot.verdict = [of |-> s.slot.attempt.of, accept |-> accept],
                       !.slot.reject = IF accept THEN @ ELSE "reject_verdict"]
    /\ UNCHANGED <<tries, saving, ledger, calls, spent>>

\* A candidate without an idea leaves no trace.
RankedTo(slots, iteration) ==
    LET slot == s.slot IN
    [s EXCEPT !.slot = slots,
              !.iteration = iteration,
              !.intra = IF slot.idea = None THEN @ ELSE Append(@, slot.idea),
              !.accepted = IF slot.idea = None \/ Rejected THEN @ ELSE @ \cup {slot},
              !.rejected = IF slot.idea # None /\ Rejected THEN @ \cup {slot} ELSE @]

\* Mutant: only the idea and the rejection are cleared.
RankedKeepingCode ==
    RankedTo([s.slot EXCEPT !.idea = None, !.reject = "none"], s.iteration + 1)

\* Mutant: an iteration that yields no idea does not count.
RankedCountingIdeas ==
    RankedTo(EmptySlots, IF s.slot.idea = None THEN s.iteration ELSE s.iteration + 1)

\* The state rank returns.
Ranked == RankedTo(EmptySlots, s.iteration + 1)

Enough(state) ==
    \/ Cardinality(state.accepted) >= Target
    \/ state.iteration >= IterationBudget
    \/ state.ceiling # Unlimited /\ state.consumed >= state.ceiling

Rank ==
    /\ pc = "rank" /\ s' = Ranked
    /\ pc' = IF Enough(s') THEN "select" ELSE "stage1"
    /\ UNCHANGED <<tries, saving, ledger, calls, spent>>

\* Which of the accepted rank first is the data's: any Target of them.
Select ==
    /\ pc = "select"
    /\ LET many == Cardinality(s.accepted) >= Target IN
       \E kept \in SUBSET s.accepted :
        /\ IF many THEN Cardinality(kept) = Target ELSE kept = s.accepted
        /\ s' = [s EXCEPT !.accepted = kept,
                          !.reason = IF many THEN "sufficient_candidates" ELSE "budget_exhausted"]
    /\ \E persist \in BOOLEAN : pc' = IF persist THEN "persist" ELSE "return"
    /\ UNCHANGED <<tries, saving, ledger, calls, spent>>

-----------------------------------------------------------------------------
(* Persistence: for each candidate the emissions, the hypothesis, the      *)
(* decision.  Source bundles, filed under their hash, are left out.        *)

Id(candidate) == <<calls, candidate.idea>>
Filed == {d.id : d \in {decisions[i] : i \in DOMAIN decisions}}
Waiting(candidates) == {c \in candidates : Id(c) \notin Filed}

\* Mutant: all candidates in the order they came.
NextToSaveInOneList ==
    LET waiting == Waiting(s.accepted \cup s.rejected)
    IN {c \in waiting : \A d \in waiting : c.idea <= d.idea}

\* The accepted in any order, then the rejected in the order they came.
NextToSave ==
    IF Waiting(s.accepted) # {} THEN Waiting(s.accepted)
    ELSE {c \in Waiting(s.rejected) : \A d \in Waiting(s.rejected) : c.idea <= d.idea}

\* The state's emissions are those of the last iteration that made any.
SaveBlobs ==
    /\ pc = "persist" /\ pc' = "hypothesis"
    /\ \E c \in NextToSave :
        /\ saving' = c
        /\ blobs' = blobs \cup {[id |-> Id(c), responses |-> s.responses]}
    /\ UNCHANGED <<s, tries, hypotheses, decisions, torn, baseline, calls, spent>>

\* _append_parquet reads the file before it writes it anew.
SaveHypothesis ==
    /\ pc = "hypothesis" /\ "hypotheses" \notin torn /\ pc' = "decision"
    /\ hypotheses' = hypotheses \cup {Id(saving)}
    /\ UNCHANGED <<s, tries, saving, decisions, blobs, torn, baseline, calls, spent>>

\* is_mechanical: the code could not be built, which says nothing of the idea.
OutcomeOf(candidate) ==
    CASE candidate.reject = "none" -> "accepted"
      [] candidate.reject \in Mechanical -> "deferred"
      [] OTHER -> "rejected"

SaveDecision ==
    /\ pc = "decision" /\ pc' = "persist" /\ saving' = EmptySlots
    /\ decisions' = Append(decisions, [id |-> Id(saving), outcome |-> OutcomeOf(saving),
                                       stage |-> saving.reject])
    /\ UNCHANGED <<s, tries, hypotheses, blobs, torn, baseline, calls, spent>>

\* What a call had in memory goes with it.
Leave ==
    /\ pc' = "idle" /\ s' = Fresh({}, Unlimited) /\ tries' = 0 /\ saving' = EmptySlots
    /\ spent' = 0

Return ==
    /\ \/ pc = "return"
       \/ pc = "persist" /\ NextToSave = {}
    /\ Leave /\ UNCHANGED <<ledger, calls>>

\* An exception of a node or of the ledger, or the end of the process.
Die ==
    /\ pc # "idle" /\ Leave /\ UNCHANGED <<ledger, calls>>

Written == [hypothesis |-> "hypotheses", decision |-> "decisions"]

DieWriting ==
    /\ pc \in DOMAIN Written /\ Leave
    /\ torn' = torn \cup {Written[pc]}
    /\ UNCHANGED <<hypotheses, decisions, blobs, baseline, calls>>

\* A hypothesis that cannot be appended ends the call.
FailToAppend ==
    /\ pc = "hypothesis" /\ "hypotheses" \in torn
    /\ Leave /\ UNCHANGED <<ledger, calls>>

Step ==
    \/ Prepare \/ PassOver
    \/ \E i \in Stages : FailStage(i) \/ PassStage(i)
    \/ CheapCritique \/ MiniOptimize \/ MechanicalGate \/ VerdictCritique \/ Rank \/ Select
    \/ SaveBlobs \/ SaveHypothesis \/ SaveDecision \/ FailToAppend \/ Return

Next == Begin \/ Step \/ Die \/ DieWriting

Spec == Init /\ [][Next]_vars

\* One thread runs the graph and the writes to their end.
FairSpec == Spec /\ WF_vars(Step)

-----------------------------------------------------------------------------
(* Properties                                                              *)

Candidates == s.accepted \cup s.rejected
Ideas(candidates) == {c.idea : c \in candidates}

\* Every idea is judged exactly once: the slots rank must clear, the entry
\* it appends and the loop's return to stage 1 never make a candidate of an
\* idea that has one already, nor lose one between the two lists.  And it is
\* judged on what is its own: commitments, files, library, scores, gate and
\* verdict come from the emission they are filed with, and an accepted one has
\* passed the gate and the critic with its own library.
JudgedOnItsOwn ==
    /\ Len(s.intra) = Cardinality(s.accepted) + Cardinality(s.rejected)
    /\ {s.intra[i] : i \in DOMAIN s.intra} = Ideas(Candidates)
    /\ s.slot.idea \in {None, Current}
    /\ \A c \in Candidates :
        /\ c.idea \in 1..s.iteration
        /\ {c.commitments, c.files, c.library, c.attempt.of, c.attempt.library, c.gate.of,
            c.verdict.of} \subseteq {None, c.idea}
    /\ \A c \in s.accepted :
        /\ c.attempt.of = c.idea /\ c.attempt.library = c.idea
        /\ c.gate = [of |-> c.idea, kind |-> "ok"]
        /\ c.verdict = [of |-> c.idea, accept |-> TRUE]

\* Sweeps the loop threw away because the check of the claim refused a guard.
Wasted ==
    {c \in s.rejected \cup {s.slot} :
        c.intent = "eq_guard" /\ c.library # None /\ c.reject = "reject_schema"}

\* The budgets hold over refusals, repairs and restarts of the loop: what is
\* counted stays below the ceiling and is all the engine ran but for the
\* wasted sweeps; and the loop stops early only for one of its two reasons.
BudgetKept ==
    /\ s.ceiling # Unlimited => s.consumed <= s.ceiling
    /\ pc # "idle" => spent = s.consumed + Cost * Cardinality(Wasted)
    /\ Cardinality(s.accepted) <= Target
    /\ s.reason = "sufficient_candidates" => Cardinality(s.accepted) = Target
    /\ s.reason = "budget_exhausted" =>
        /\ Cardinality(s.accepted) < Target
        /\ s.iteration = IterationBudget \/ s.consumed = s.ceiling

\* The decisions of the calls before this one.
Earlier == {i \in DOMAIN decisions : decisions[i].id[1] < calls}

\* The past informs a call exactly by what was judged on its merits: code
\* that did not build never blocks an idea (it is deferred), what was judged
\* is not forgotten though calls died between the writes of a candidate, and
\* an idea falls as a duplicate only of one that was rejected.
LearnsOnlyFromVerdicts ==
    pc # "idle" =>
        /\ {p.id : p \in s.priors} =
             {decisions[i].id : i \in {j \in Earlier :
                /\ Cardinality({k \in Earlier : k >= j}) <= PriorLimit
                /\ decisions[j].outcome # "deferred"}}
        /\ \A c \in s.rejected : c.matched # NoMatch =>
            \E i \in Earlier :
                decisions[i].id = c.matched /\ decisions[i].outcome = "rejected"

\* What is on file hangs together whenever a call dies: a decision has its
\* hypothesis and its emissions, no candidate has two, the accepted come
\* before the others, and a call that writes all it has leaves one for each.
DecisionsComplete ==
    /\ \A i \in DOMAIN decisions :
        /\ decisions[i].id \in hypotheses
        /\ \E b \in blobs : b.id = decisions[i].id
    /\ \A i, j \in DOMAIN decisions :
        i < j => /\ decisions[i].id # decisions[j].id
                 /\ decisions[i].id[1] = decisions[j].id[1] =>
                        ~(decisions[i].outcome # "accepted" /\ decisions[j].outcome = "accepted")
    /\ pc = "persist" /\ NextToSave = {} =>
        {<<decisions[i].id, decisions[i].outcome>> :
            i \in {j \in DOMAIN decisions : decisions[j].id[1] = calls}}
          = {<<Id(c), OutcomeOf(c)>> : c \in Candidates}

\* Every call ends, however often emissions fail, candidates are refused and
\* whatever of the ledger can no longer be read.
EveryCallEnds == pc # "idle" ~> pc = "idle"

\* openspec/specs/hypothesis-loop/spec.md, "Comparative falsification
\* verdict": what is accepted met its own claim and held its guards.
AcceptedMetTheirClaim == \A c \in s.accepted : c.attempt.check = "accepted"
=============================================================================

------------------------------ MODULE LoopRules ------------------------------
(***************************************************************************)
(* The deterministic rules of the hypothesis loop between its LLM calls:   *)
(* which citations are kept (kb_query.py), which ideas are refused before  *)
(* any code is written (cheap_critique.py), the variance-aware gate        *)
(* (mechanical_gate.py), and the critic used without an LLM                *)
(* (verdict_critique.py).                                                  *)
(*                                                                         *)
(* Scores are integers; means and variances over n folds are kept n and    *)
(* n * n times their value, so that nothing is divided.  A text is the set *)
(* of its tokens.                                                          *)
(***************************************************************************)
EXTENDS Integers, Sequences, FiniteSets, Functions, SequencesExt

(***************************************************************************)
(* kb_query.py                                                             *)
(***************************************************************************)
\* provenance_to_citation: the section and the page, or else the chunk
Citation(item) ==
    [source |-> item.source,
     locator |-> IF item.place = {} THEN {item.chunk} ELSE item.place]

\* _derive_query: regime labels and signal names; no diagnosis, no query
DeriveQuery(diagnosis) ==
    IF diagnosis = <<>> THEN {} ELSE diagnosis[1].regimes \cup diagnosis[1].signals

\* kb_query_node: citations accumulate.
KbQuery(cites, query, items) ==
    IF query = {} THEN cites ELSE cites \o [i \in DOMAIN items |-> Citation(items[i])]

\* _build_filter_keys
Keys(priors, kind) == UNION {priors[i].cites : i \in {j \in DOMAIN priors : priors[j].kind = kind}}

\* kb_filter_node, with the default factors
KbFilter(cites, priors) ==
    SelectSeq(cites, LAMBDA c :
        c \in Keys(priors, "accepted") \/ c \notin Keys(priors, "rejected"))

(***************************************************************************)
(* cheap_critique.py                                                       *)
(***************************************************************************)
\* _jaccard of two signatures is at least 7/10, the default threshold
Similar(a, b) ==
    IF a = {} \/ b = {} THEN a = b
    ELSE 10 * Cardinality(a \cap b) >= 7 * Cardinality(a \cup b)

\* _idea_signature, _prior_signature: what stands for the rationale of a prior
\* is the rationale of the decision about it.
Signature(entry) == entry.name \cup entry.rationale

\* The name is what becomes of the name in `words`: tokens without underscores.
IsMalformed(idea) == idea.name = {} \/ idea.rationale = {} \/ ~idea.bounded
RepeatsRejected(idea, priors) ==
    \E p \in Range(priors) : p.kind = "rejected" /\ Similar(Signature(idea), Signature(p))
ContradictsDiagnosis(idea, diagnosis) ==
    /\ diagnosis # <<>> /\ idea.wantsMoreTrades
    /\ diagnosis[1].used > 0 /\ diagnosis[1].firedNoTrade > diagnosis[1].used
UndoesAccepted(idea, priors) ==
    /\ idea.removes
    /\ \E p \in Range(priors) :
        p.kind = "accepted" /\ p.name # {} /\ p.name \subseteq Signature(idea)

\* cheap_critique: the first check that fires gives the reason.
CheapCritique(idea, priors, diagnosis) ==
    CASE IsMalformed(idea) -> "malformed"
      [] RepeatsRejected(idea, priors) /\ ~IsMalformed(idea) -> "duplicate_of_prior_reject"
      [] OTHER ->
            IF ContradictsDiagnosis(idea, diagnosis) THEN "contradicts_diagnosis"
            ELSE IF UndoesAccepted(idea, priors) THEN "violates_prior_accept" ELSE "ok"

(***************************************************************************)
(* mechanical_gate.py; the configuration is [k, cv, borderline], the last  *)
(* two in tenths                                                           *)
(***************************************************************************)
Total(scores) == FoldFunction(+, 0, scores)
\* _stddev, squared, times n * n
Variance(scores) ==
    IF Len(scores) < 2 THEN 0
    ELSE Len(scores) * Total([i \in DOMAIN scores |-> scores[i] * scores[i]])
            - Total(scores) * Total(scores)

\* a * a > b * b, for a delta a that may be negative
Exceeds(delta, squared) == delta > 0 /\ delta * delta > squared

FoldsVary(scores, config) ==
    \/ Total(scores) = 0
    \/ 100 * Variance(scores) > config.cv * config.cv * Total(scores) * Total(scores)

MechanicalGateOfCandidate(candidate, baseline, config) ==
    LET delta == Total(candidate) - Total(baseline)
        floor == config.k * config.k * Variance(candidate)
    IN  IF FoldsVary(candidate, config) THEN "reject_variance"
        ELSE IF delta < 0 \/ delta * delta < floor THEN "reject_noise" ELSE "ok"
MechanicalGate(candidate, baseline, config) ==
    LET delta == Total(candidate) - Total(baseline)
        floor == config.k * config.k * (Variance(candidate) + Variance(baseline))
    IN  IF FoldsVary(candidate, config) THEN "reject_variance"
        ELSE IF ~Exceeds(delta, floor) THEN "reject_noise" ELSE "ok"

IsBorderline(candidate, baseline, config) ==
    LET delta == Total(candidate) - Total(baseline)
        floor == config.k * config.k * (Variance(candidate) + Variance(baseline))
        margin == (10 + config.borderline) * (10 + config.borderline)
    IN  /\ MechanicalGate(candidate, baseline, config) = "ok" /\ floor > 0
        /\ 100 * delta * delta <= margin * floor

(***************************************************************************)
(* verdict_critique.py                                                     *)
(***************************************************************************)
\* side_effect_envelope_breach: flags are [metric, ratio], those that do not
\* carry a ratio have none; a band is <<low, high>>.
Breaches(flags, envelope) ==
    {f \in flags : /\ f.metric \in DOMAIN envelope /\ f.ratio # <<>>
                   /\ (f.ratio[1] < envelope[f.metric][1] \/ f.ratio[1] > envelope[f.metric][2])}

\* complexity_cost_asymmetry, with the floor of 1/20 for each addition
IsCostly(lift, params, components) ==
    LET Positive(n) == IF n > 0 THEN n ELSE 0
        additions == Positive(params) + Positive(components)
    IN  additions > 0 /\ (lift <= 0 \/ 20 * lift < additions)

\* DeterministicVerdictCritic, verdict_critique_node
CritiqueVerdict(gate, flags, envelope, expected, lift, params, components) ==
    IF gate # "ok" THEN "refused"
    ELSE IF Breaches(flags, envelope) # {} \/ (~expected /\ flags # {})
            \/ IsCostly(lift, params, components)
    THEN "reject_verdict" ELSE "accepted"

----------------------------------------------------------------------------
\* What has worked is kept and what has only failed is dropped, whatever order
\* the decisions are in, and a deferred decision says nothing: it neither
\* hides a citation nor has a fresh idea refused as a repeat
\* (kb_filter_node; cheap_critique, openspec/specs/hypothesis-loop/spec.md:77).
OnlyVerdictsBias(cites, priors, idea, diagnosis) ==
    LET judged == SelectSeq(priors, LAMBDA p : p.kind # "deferred")
        kept == Range(KbFilter(cites, priors))
    IN  /\ kept = Range(KbFilter(cites, Reverse(judged)))
        /\ Range(cites) \cap Keys(priors, "accepted") \subseteq kept
        /\ kept \cap Keys(priors, "rejected") \subseteq Keys(priors, "accepted")
        /\ CheapCritique(idea, priors, diagnosis) = CheapCritique(idea, judged, diagnosis)
        /\ CheapCritique(idea, priors, diagnosis) = "ok" =>
            \A p \in Range(judged) : p.kind = "rejected" => Signature(idea) # Signature(p)

\* The gate and the critic reward improvement: a candidate no better than the
\* baseline is never accepted, and once the folds of a candidate with a
\* positive mean pass, they still pass when each of them gains the same
\* (mechanical_gate, DeterministicVerdictCritic).
ImprovementIsRewarded(candidate, baseline, gain, config, params) ==
    LET better == [i \in DOMAIN candidate |-> candidate[i] + gain]
        Verdict(scores) ==
            CritiqueVerdict(MechanicalGate(scores, baseline, config), {}, <<>>, TRUE,
                            Total(scores) - Total(baseline), params, 0)
    IN  /\ Verdict(candidate) = "accepted" => Total(candidate) > Total(baseline)
        /\ Verdict(candidate) = "accepted" /\ Total(candidate) > 0 => Verdict(better) = "accepted"
        /\ IsBorderline(better, baseline, config) /\ Total(candidate) > 0
            /\ MechanicalGate(candidate, baseline, config) = "ok" =>
                IsBorderline(candidate, baseline, config)
=============================================================================

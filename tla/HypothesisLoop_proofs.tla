------------------------ MODULE HypothesisLoop_proofs ------------------------
(***************************************************************************)
(* Proofs about the hypothesis loop and what it files, for any budgets,    *)
(* ceilings and number of calls.  The inductive invariant follows the slot *)
(* of a candidate from node to node (what it holds once a node is behind   *)
(* it), and the decisions from call to call (those of a call follow those  *)
(* of the calls before).                                                   *)
(***************************************************************************)
EXTENDS HypothesisLoop, FiniteSetTheorems, SequenceTheorems, WellFoundedInduction, TLAPS

Looping == {"diagnose", "kb_query", "kb_filter", "stage1", "cheap_critique", "stage2", "stage3",
            "mini_optimize", "mechanical_gate", "verdict_critique", "rank"}
Persisting == {"persist", "hypothesis", "decision"}

\* What is behind a node that has run.
PastStage1 == {"cheap_critique", "stage2"} \cup {"stage3", "mini_optimize", "mechanical_gate",
               "verdict_critique", "rank"}
PastStage2 == {"stage3", "mini_optimize", "mechanical_gate", "verdict_critique", "rank"}
PastStage3 == {"mini_optimize", "mechanical_gate", "verdict_critique", "rank"}
PastSweep == {"mechanical_gate", "verdict_critique", "rank"}
PastGate == {"verdict_critique", "rank"}

Floors == {"none", "ok", "reject_noise", "reject_variance"}
Rejections == {"none", "reject_verdict", "reject_schema", "reject_noise", "reject_variance"}
                  \cup Mechanical
Outcomes == {"accepted", "deferred", "rejected"}
Ids == Nat \X Nat

Slots ==
    [idea : Nat, commitments : Nat, intent : {"none", "sound", "no_space", "eq_guard"},
     files : Nat, library : Nat,
     attempt : [of : Nat, library : Nat, check : Checks \cup {"none"}, floor : Floors],
     gate : [of : Nat, kind : Floors], verdict : [of : Nat, accept : BOOLEAN],
     reject : Rejections, matched : Ids]
States ==
    [slot : Slots, accepted : SUBSET Slots, rejected : SUBSET Slots, intra : Seq(Nat),
     iteration : Nat, consumed : Nat, responses : [Stages -> Nat],
     reason : {"running", "sufficient_candidates", "budget_exhausted"},
     priors : SUBSET [id : Ids, accepted : BOOLEAN], ceiling : Nat]
Decisions == [id : Ids, outcome : Outcomes, stage : Rejections]

TypeOK ==
    /\ pc \in Looping \cup Persisting \cup {"idle", "select", "return"}
    /\ s \in States /\ IsFiniteSet(s.accepted) /\ IsFiniteSet(s.rejected)
    /\ tries \in Nat /\ saving \in Slots
    /\ decisions \in Seq(Decisions)
    /\ calls \in Nat /\ spent \in Nat

\* What the slots of iteration n hold by the nodes the candidate has passed.
OwnAt(slot, node, n) ==
    /\ node \notin PastStage1 => slot = EmptySlots
    /\ {slot.idea, slot.commitments, slot.files, slot.library, slot.attempt.of,
        slot.attempt.library, slot.gate.of, slot.verdict.of} \subseteq {None, n}
    /\ slot.library # None => slot.idea # None /\ node \in PastStage3
    /\ slot.reject = "none" =>
        /\ node \in PastStage1 => slot.idea = n
        /\ node \in PastStage2 => slot.commitments = n
        /\ node \in PastStage3 => slot.library = n
        /\ node \in PastSweep => /\ slot.attempt.of = n /\ slot.attempt.library = n
                                 /\ slot.attempt.floor # "none"
        /\ node \in PastGate => slot.gate = [of |-> n, kind |-> "ok"]
        /\ node = "rank" => slot.verdict = [of |-> n, accept |-> TRUE]

SlotIsOwn == OwnAt(s.slot, pc, Current)

\* The two lists of candidates: no two share an idea.
Sorted ==
    /\ \A c, d \in Candidates : c.idea = d.idea => c = d
    /\ \A c \in s.accepted : c.reject = "none"
    /\ \A c \in s.rejected : c.reject # "none"

\* The loop goes on only while there is something left of every budget.
Goes ==
    /\ s.iteration <= IterationBudget
    /\ pc \in Looping =>
        s.iteration < IterationBudget /\ Cardinality(s.accepted) < Target /\ s.reason = "running"
    /\ pc = "select" => Enough(s) /\ s.reason = "running"
    /\ pc = "idle" => s = Fresh({}, Unlimited) /\ spent = 0

\* The decisions are in the order of their calls, and a call files its own
\* only when its loop is over.
Dated ==
    /\ \A i \in DOMAIN decisions : decisions[i].id[1] <= calls
    /\ \A i, j \in DOMAIN decisions : i < j => decisions[i].id[1] <= decisions[j].id[1]
    /\ pc \notin Persisting \cup {"idle"} =>
           \A i \in DOMAIN decisions : decisions[i].id[1] < calls

\* The last decisions of the earlier calls that are not deferred.
Known == {j \in Earlier : /\ Cardinality({k \in Earlier : k >= j}) <= PriorLimit
                          /\ decisions[j].outcome # "deferred"}

\* What the loop was told is what these decided, and what it takes a
\* candidate for a duplicate of was rejected.
Informed ==
    pc # "idle" =>
        /\ s.priors = {[id |-> decisions[i].id, accepted |-> decisions[i].outcome = "accepted"] :
                          i \in Known}
        /\ \A c \in s.rejected \cup {s.slot} : c.matched # NoMatch =>
            \E i \in Earlier :
                decisions[i].id = c.matched /\ decisions[i].outcome = "rejected"

\* What is filed, and what is being filed.
FiledInOrder ==
    /\ \A i \in DOMAIN decisions :
        decisions[i].id \in hypotheses /\ \E b \in blobs : b.id = decisions[i].id
    /\ \A i, j \in DOMAIN decisions :
        i < j => /\ decisions[i].id # decisions[j].id
                 /\ decisions[i].id[1] = decisions[j].id[1] =>
                        ~(decisions[i].outcome # "accepted" /\ decisions[j].outcome = "accepted")
    /\ pc \in {"hypothesis", "decision"} =>
        /\ saving \in Candidates /\ Id(saving) \notin Filed
        /\ \E b \in blobs : b.id = Id(saving)
        /\ saving \in s.rejected => Waiting(s.accepted) = {}
    /\ pc = "decision" => Id(saving) \in hypotheses
    /\ pc \in Persisting => \A i \in DOMAIN decisions : decisions[i].id[1] = calls =>
        /\ \E c \in Candidates : decisions[i].id = Id(c) /\ decisions[i].outcome = OutcomeOf(c)
        /\ Waiting(s.accepted) # {} => decisions[i].outcome = "accepted"

IInv == /\ TypeOK /\ SlotIsOwn /\ JudgedOnItsOwn /\ Sorted /\ BudgetKept /\ Goes
        /\ Dated /\ Informed /\ FiledInOrder

-----------------------------------------------------------------------------
(* Operators of the model                                                  *)

\* The node that follows each node.
LEMMA AfterIs ==
    /\ After("diagnose") = "kb_query" /\ After("kb_query") = "kb_filter"
    /\ After("kb_filter") = "stage1" /\ After("stage1") = "cheap_critique"
    /\ After("cheap_critique") = "stage2" /\ After("stage2") = "stage3"
    /\ After("stage3") = "mini_optimize" /\ After("mini_optimize") = "mechanical_gate"
    /\ After("mechanical_gate") = "verdict_critique" /\ After("verdict_critique") = "rank"
<1>1. DOMAIN Order = 1..11
  BY DEF Order
<1>2. \A i \in 1..10 : After(Order[i]) = Order[i + 1]
  <2> TAKE i \in 1..10
  <2>1. \A j \in DOMAIN Order : Order[j] = Order[i] => j = i
    BY DEF Order
  <2>2. (CHOOSE j \in DOMAIN Order : Order[j] = Order[i]) = i
    BY <1>1, <2>1
  <2> QED
    BY <2>2 DEF After
<1> QED
  BY <1>2 DEF Order

\* A candidate whose sweep was thrown away for its guard.
IsWaste(c) == c.intent = "eq_guard" /\ c.library # None /\ c.reject = "reject_schema"

\* The wasted candidates, as one set.
LEMMA WastedIs == Wasted = {c \in s.rejected \cup {s.slot} : IsWaste(c)}
  BY DEF Wasted, IsWaste

\* A step that rejects nothing wastes nothing.
LEMMA QuietWaste ==
    ASSUME s'.rejected = s.rejected,
           s'.slot = s.slot \/ (~IsWaste(s.slot) /\ ~IsWaste(s'.slot))
    PROVE  Wasted' = Wasted
  BY DEF Wasted, IsWaste

\* What is judged stays so while neither the lists nor the count change.
LEMMA SameJudged ==
    ASSUME JudgedOnItsOwn, s'.accepted = s.accepted, s'.rejected = s.rejected,
           s'.intra = s.intra, s'.iteration = s.iteration, s'.slot.idea \in {None, Current'}
    PROVE  JudgedOnItsOwn'
<1>1. Candidates' = Candidates
  BY DEF Candidates
<1>2. /\ Len(s'.intra) = Cardinality(s'.accepted) + Cardinality(s'.rejected)
      /\ {s'.intra[i] : i \in DOMAIN s'.intra} = Ideas(Candidates')
  BY <1>1 DEF JudgedOnItsOwn
<1>3. \A c \in Candidates' :
          /\ c.idea \in 1..s'.iteration
          /\ {c.commitments, c.files, c.library, c.attempt.of, c.attempt.library, c.gate.of,
              c.verdict.of} \subseteq {None, c.idea}
  BY <1>1 DEF JudgedOnItsOwn
<1>4. \A c \in s'.accepted :
          /\ c.attempt.of = c.idea /\ c.attempt.library = c.idea
          /\ c.gate = [of |-> c.idea, kind |-> "ok"]
          /\ c.verdict = [of |-> c.idea, accept |-> TRUE]
  BY DEF JudgedOnItsOwn
<1> QED
  BY <1>2, <1>3, <1>4 DEF JudgedOnItsOwn, Ideas

\* What a decision on file is made of.
LEMMA DecisionType ==
    ASSUME TypeOK, NEW i \in DOMAIN decisions
    PROVE  /\ decisions[i] \in Decisions /\ decisions[i].id \in Ids
           /\ decisions[i].id[1] \in Nat /\ decisions[i].outcome \in Outcomes /\ calls \in Nat
<1>1. decisions[i] \in Decisions
  BY DEF TypeOK
<1> QED
  BY <1>1 DEF Decisions, Ids, TypeOK

\* The empty slots are slots, and no waste.
LEMMA EmptySlotType == EmptySlots \in Slots /\ ~IsWaste(EmptySlots)
  BY DEF EmptySlots, Slots, Floors, Rejections, Ids, NoAttempt, NoGate, NoVerdict, NoMatch, None,
         IsWaste

\* A session starts in a state of its type.
LEMMA FreshType ==
    ASSUME NEW priors \in SUBSET [id : Ids, accepted : BOOLEAN], NEW ceiling \in Nat
    PROVE  Fresh(priors, ceiling) \in States
<1>1. [i \in Stages |-> None] \in [Stages -> Nat]
  BY DEF None
<1> QED
  BY <1>1, EmptySlotType DEF Fresh, States

\* The invariant holds before a session.
LEMMA InitInv == Init => IInv
<1> SUFFICES ASSUME Init PROVE IInv
  OBVIOUS
<1> USE DEF Init
<1>1. TypeOK
  <2>1. s \in States
    BY FreshType DEF Unlimited
  <2>2. IsFiniteSet(s.accepted) /\ IsFiniteSet(s.rejected)
    BY FS_EmptySet DEF Fresh
  <2> QED
    BY <2>1, <2>2, EmptySlotType DEF TypeOK
<1>2. SlotIsOwn
  BY DEF SlotIsOwn, OwnAt, Fresh, EmptySlots, NoAttempt, NoGate, NoVerdict, PastStage1, PastStage3, None, PastStage2, PastSweep, PastGate
<1>3. s = Fresh({}, Unlimited) /\ Candidates = {} /\ s.intra = <<>> /\ s.iteration = 0
  BY DEF Candidates, Fresh
<1>4. JudgedOnItsOwn
  BY <1>3, FS_EmptySet DEF JudgedOnItsOwn, Ideas, Fresh, EmptySlots, None, Candidates
<1>5. Sorted /\ Goes
  BY <1>3, BoundsAssumption DEF Sorted, Goes, Fresh, Candidates, Looping
<1>6. BudgetKept
  BY <1>3, FS_EmptySet, BoundsAssumption DEF BudgetKept, Fresh, Unlimited
<1>7. Dated /\ Informed /\ FiledInOrder
  BY DEF Dated, Informed, FiledInOrder, Persisting
<1> QED
  BY <1>1, <1>2, <1>4, <1>5, <1>6, <1>7 DEF IInv

-----------------------------------------------------------------------------
(* Steps of the graph                                                      *)

\* What a node leaves alone that neither ranks nor files.
Judges ==
    /\ pc \in Looping /\ pc' \in Looping /\ UNCHANGED <<saving, ledger, calls>>
    /\ s'.accepted = s.accepted /\ s'.rejected = s.rejected /\ s'.intra = s.intra
    /\ s'.iteration = s.iteration /\ s'.reason = s.reason /\ s'.priors = s.priors
    /\ s'.ceiling = s.ceiling

\* Such a node preserves the invariant if it keeps the slot's own part of it,
\* and the books of what is spent.
LEMMA JudgesInv ==
    ASSUME IInv, Judges, s' \in States, tries' \in Nat, spent' \in Nat, SlotIsOwn',
           s.ceiling # Unlimited => s'.consumed <= s.ceiling,
           spent' = s'.consumed + Cost * Cardinality(Wasted'),
           \/ s'.slot.matched \in {s.slot.matched, NoMatch}
           \/ \E i \in Earlier :
                decisions[i].id = s'.slot.matched /\ decisions[i].outcome = "rejected"
    PROVE  IInv'
<1> USE DEF IInv, Judges
<1>0. Candidates' = Candidates /\ Earlier' = Earlier /\ Current' = Current
  BY DEF Candidates, Earlier, ledger, Current
<1>1. TypeOK'
  BY DEF TypeOK, ledger
<1>2. JudgedOnItsOwn'
  BY SameJudged DEF SlotIsOwn, OwnAt
<1>3. Sorted' /\ Goes'
  BY <1>0 DEF Sorted, Goes, Looping
<1>4. BudgetKept'
  <2>1. pc # "idle" /\ s.reason = "running" /\ Cardinality(s.accepted) <= Target
    BY DEF Goes, BudgetKept, Looping
  <2> QED
    BY <2>1 DEF BudgetKept
<1>5. Dated'
  BY DEF Dated, ledger, Looping, Persisting
<1>6. Informed'
  <2>1. pc # "idle"
    BY DEF Looping
  <2>2. Known' = Known
    BY <1>0 DEF Known, ledger
  <2>3. decisions' = decisions
    BY DEF ledger
  <2>4. s'.priors = {[id |-> decisions[i].id, accepted |-> decisions[i].outcome = "accepted"] :
                        i \in Known}
    BY <2>1 DEF Informed
  <2>5. \A c \in s.rejected \cup {s'.slot} : c.matched # NoMatch =>
            \E i \in Earlier :
                decisions[i].id = c.matched /\ decisions[i].outcome = "rejected"
    BY <2>1 DEF Informed
  <2> QED
    BY <1>0, <2>2, <2>3, <2>4, <2>5 DEF Informed
<1>7. FiledInOrder'
  <2>1. pc' \notin Persisting
    BY DEF Looping, Persisting
  <2> QED
    BY <2>1 DEF FiledInOrder, ledger, Persisting
<1> QED
  BY <1>1, <1>2, <1>3, <1>4, <1>5, <1>6, <1>7

\* A node that fills a slot or refuses the candidate, and spends nothing.
LEMMA NewSlotInv ==
    ASSUME IInv, pc \in Looping, pc' \in Looping, UNCHANGED <<saving, ledger, calls, spent>>,
           tries' \in Nat, ~Rejected, NEW x \in Slots, NEW i \in Stages,
           s' = [s EXCEPT !.slot = x] \/ s' = Emitted(i, x),
           ~IsWaste(x), OwnAt(x, pc', Current),
           \/ x.matched \in {s.slot.matched, NoMatch}
           \/ \E j \in Earlier :
                decisions[j].id = x.matched /\ decisions[j].outcome = "rejected"
    PROVE  IInv'
<1>0. s \in States /\ s.responses \in [Stages -> Nat] /\ Current \in Nat
  BY SMTT(30) DEF IInv, TypeOK, States, Current
<1>1. [s.responses EXCEPT ![i] = Current] \in [Stages -> Nat]
  BY <1>0
<1>2. \/ s' = [s EXCEPT !.slot = x]
      \/ s' = [s EXCEPT !.slot = x, !.responses = [s.responses EXCEPT ![i] = Current]]
  BY <1>0 DEF Emitted, States
<1>3. s' \in States
  BY <1>0, <1>1, <1>2 DEF States
<1>4. /\ s'.slot = x /\ s'.consumed = s.consumed
      /\ s'.accepted = s.accepted /\ s'.rejected = s.rejected /\ s'.intra = s.intra
      /\ s'.iteration = s.iteration /\ s'.reason = s.reason /\ s'.priors = s.priors
      /\ s'.ceiling = s.ceiling
  BY <1>0, <1>2 DEF States
<1>5. SlotIsOwn'
  BY <1>4 DEF SlotIsOwn, Current
<1>6. ~IsWaste(s.slot)
  BY DEF IsWaste, Rejected
<1>7. Wasted' = Wasted
  BY <1>4, <1>6, QuietWaste
<1>8. pc # "idle"
  BY DEF Looping
<1>9. /\ s.ceiling # Unlimited => s.consumed <= s.ceiling
      /\ spent = s.consumed + Cost * Cardinality(Wasted) /\ spent \in Nat
  BY <1>8 DEF IInv, BudgetKept, TypeOK
<1> QED
  BY <1>3, <1>4, <1>5, <1>7, <1>9, JudgesInv DEF Judges

\* Nodes that prepare the loop, and those that find the candidate refused.
LEMMA QuietInv ==
    ASSUME IInv, Prepare \/ PassOver
    PROVE  IInv'
<1>0. OwnAt(s.slot, pc, Current)
  BY DEF IInv, SlotIsOwn
<1>1. /\ pc \in Looping /\ pc' \in Looping
      /\ s' = s /\ UNCHANGED <<tries, saving, ledger, calls, spent>>
      /\ OwnAt(s.slot, pc', Current)
  <2>1. CASE Prepare
    <3>1. pc \notin PastStage1 /\ pc' \notin PastStage1 /\ pc \notin PastStage3
      BY <2>1, AfterIs DEF Prepare, PastStage1, PastStage3
    <3>2. pc \in Looping /\ pc' \in Looping
      BY <2>1, AfterIs DEF Prepare, Looping
    <3>3. OwnAt(s.slot, pc', Current)
      BY <1>0, <3>1 DEF OwnAt, PastStage1, PastStage2, PastStage3, PastSweep, PastGate
    <3> QED
      BY <2>1, <3>2, <3>3 DEF Prepare
  <2>2. CASE PassOver
    <3>1. pc \in Looping /\ pc' \in Looping /\ pc' \in PastStage1 /\ s.slot.reject # "none"
      BY <2>2, AfterIs DEF PassOver, Gated, Looping, PastStage1, Rejected
    <3>2. pc \in PastStage3 => pc' \in PastStage3
      BY <2>2, AfterIs DEF PassOver, Gated, PastStage3
    <3>3. OwnAt(s.slot, pc', Current)
      BY <1>0, <3>1, <3>2 DEF OwnAt
    <3> QED
      BY <2>2, <3>1, <3>3 DEF PassOver
  <2> QED
    BY <2>1, <2>2
<1>2. Wasted' = Wasted
  BY <1>1 DEF Wasted
<1>3. SlotIsOwn'
  BY <1>1 DEF SlotIsOwn, Current
<1>4. pc # "idle"
  BY <1>1 DEF Looping
<1>5. /\ s \in States /\ tries \in Nat /\ spent \in Nat
      /\ s.ceiling # Unlimited => s.consumed <= s.ceiling
      /\ spent = s.consumed + Cost * Cardinality(Wasted)
  BY <1>4 DEF IInv, BudgetKept, TypeOK
<1> QED
  BY <1>1, <1>2, <1>3, <1>5, JudgesInv DEF Judges

\* An emission that fails, and one the node takes.
LEMMA StageInv ==
    ASSUME IInv, NEW i \in Stages, FailStage(i) \/ PassStage(i)
    PROVE  IInv'
<1>0. /\ s \in States /\ s.slot \in Slots /\ s.iteration \in Nat /\ Current \in Nat \ {0}
      /\ tries \in Nat /\ OwnAt(s.slot, pc, Current)
  BY DEF IInv, TypeOK, States, Current, SlotIsOwn
<1>1. pc = StageNode[i] /\ pc \in {"stage1", "stage2", "stage3"} /\ pc \in Looping
  BY DEF FailStage, PassStage, Turn, StageNode, Stages, Looping
<1>2. s.slot.reject = "none" /\ ~Rejected
  BY <1>0, <1>1 DEF FailStage, PassStage, Turn, Gated, OwnAt, PastStage1, EmptySlots, Rejected
<1>3. After(pc) \in Looping
  BY <1>1, AfterIs DEF Looping
<1>4. CASE FailStage(i)
  <2>1. PICK f \in Failures :
            /\ f[1] = i
            /\ IF tries < KRepair
               THEN tries' = tries + 1 /\ UNCHANGED <<pc, s>>
               ELSE /\ tries' = 0 /\ pc' = After(pc)
                    /\ s' = Emitted(i, [s.slot EXCEPT !.reject = f[2]])
    BY <1>4 DEF FailStage
  <2>2. f[2] \in Rejections \ {"none"}
    BY InputsAssumption DEF StructuralFailures, Rejections, Mechanical
  <2>3. CASE tries < KRepair
    <3>1. s' = [s EXCEPT !.slot = s.slot]
      BY <1>0, <2>1, <2>3 DEF States
    <3>2. ~IsWaste(s.slot)
      BY <1>2 DEF IsWaste
    <3> QED
      BY <1>0, <1>1, <1>2, <1>4, <2>1, <2>3, <3>1, <3>2, NewSlotInv DEF FailStage
  <2>4. CASE ~(tries < KRepair)
    <3> DEFINE x == [s.slot EXCEPT !.reject = f[2]]
    <3>1. x \in Slots
      BY <1>0, <2>2 DEF Slots
    <3>2. /\ x.idea = s.slot.idea /\ x.commitments = s.slot.commitments
          /\ x.files = s.slot.files /\ x.library = s.slot.library
          /\ x.attempt = s.slot.attempt /\ x.gate = s.slot.gate /\ x.verdict = s.slot.verdict
          /\ x.reject = f[2] /\ x.matched = s.slot.matched
      BY <1>0 DEF Slots
    <3>3. s.slot.library = None
      BY <1>0, <1>1 DEF OwnAt, PastStage3
    <3>4. After(pc) \in PastStage1
      BY <1>1, AfterIs DEF PastStage1
    <3>5. OwnAt(x, After(pc), Current)
      BY <1>0, <2>2, <3>2, <3>3, <3>4 DEF OwnAt
    <3>6. ~IsWaste(x)
      BY <3>2, <3>3 DEF IsWaste
    <3>7. /\ tries' = 0 /\ pc' = After(pc) /\ s' = Emitted(i, x)
      BY <2>1, <2>4
    <3> HIDE DEF x
    <3> QED
      BY <1>0, <1>1, <1>2, <1>3, <1>4, <3>1, <3>2, <3>5, <3>6, <3>7, NewSlotInv DEF FailStage
  <2> QED
    BY <2>3, <2>4
<1>5. CASE PassStage(i)
  <2>1. PICK x \in Filled(i) : s' = Emitted(i, x)
    BY <1>5 DEF PassStage
  <2>2. x \in Slots /\ x.reject = "none" /\ x.matched = s.slot.matched
    <3>1. CASE i = 1
      <4>1. x = [s.slot EXCEPT !.idea = Current, !.reject = "none"]
        BY <3>1, <2>1 DEF Filled
      <4> QED
        BY <1>0, <4>1 DEF Slots, Rejections
    <3>2. CASE i = 2
      <4>1. PICK intent \in {"sound", "no_space", "eq_guard"} :
                x = [s.slot EXCEPT !.commitments = Current, !.intent = intent]
        BY <3>2, <2>1 DEF Filled
      <4> QED
        BY <1>0, <1>2, <4>1 DEF Slots
    <3>3. CASE i = 3
      <4>1. x = [s.slot EXCEPT !.files = Current, !.library = Current]
        BY <3>3, <2>1 DEF Filled
      <4> QED
        BY <1>0, <1>2, <4>1 DEF Slots
    <3> QED
      BY <3>1, <3>2, <3>3 DEF Stages
  <2>3. OwnAt(x, After(pc), Current)
    <3>1. CASE i = 1
      <4>1. x = [s.slot EXCEPT !.idea = Current, !.reject = "none"] /\ pc = "stage1"
        BY <1>1, <3>1 DEF Filled, StageNode
      <4>2. s.slot = EmptySlots
        BY <1>0, <4>1 DEF OwnAt, PastStage1
      <4>3. /\ x.idea = Current /\ x.commitments = None /\ x.files = None /\ x.library = None
            /\ x.attempt.of = None /\ x.attempt.library = None /\ x.gate.of = None
            /\ x.verdict.of = None
        BY <4>1, <4>2 DEF EmptySlots, NoAttempt, NoGate, NoVerdict
      <4>4. After(pc) = "cheap_critique"
        BY <4>1, AfterIs
      <4> QED
        BY <4>3, <4>4 DEF OwnAt, PastStage1, PastStage2, PastStage3, PastSweep, PastGate
    <3>2. CASE i = 2
      <4>1. /\ \E intent \in {"sound", "no_space", "eq_guard"} :
                  x = [s.slot EXCEPT !.commitments = Current, !.intent = intent]
            /\ pc = "stage2"
        BY <1>1, <3>2 DEF Filled, StageNode
      <4>2. /\ x.idea = s.slot.idea /\ x.commitments = Current /\ x.files = s.slot.files
            /\ x.library = s.slot.library /\ x.attempt = s.slot.attempt /\ x.gate = s.slot.gate
            /\ x.verdict = s.slot.verdict
        BY <1>0, <4>1 DEF Slots
      <4>3. After(pc) = "stage3" /\ s.slot.idea = Current /\ s.slot.library = None
        BY <1>0, <1>2, <4>1, AfterIs DEF OwnAt, PastStage1, PastStage3
      <4> QED
        BY <1>0, <4>2, <4>3
        DEF OwnAt, PastStage1, PastStage2, PastStage3, PastSweep, PastGate
    <3>3. CASE i = 3
      <4>1. /\ x = [s.slot EXCEPT !.files = Current, !.library = Current]
            /\ pc = "stage3"
        BY <1>1, <3>3 DEF Filled, StageNode
      <4>2. /\ x.idea = s.slot.idea /\ x.commitments = s.slot.commitments
            /\ x.files = Current /\ x.library = Current
            /\ x.attempt = s.slot.attempt /\ x.gate = s.slot.gate
            /\ x.verdict = s.slot.verdict
        BY <1>0, <4>1 DEF Slots
      <4>3. /\ After(pc) = "mini_optimize" /\ s.slot.idea = Current
            /\ s.slot.commitments = Current
        BY <1>0, <1>2, <4>1, AfterIs DEF OwnAt, PastStage1, PastStage2
      <4> QED
        BY <1>0, <4>2, <4>3
        DEF OwnAt, PastStage1, PastStage2, PastStage3, PastSweep, PastGate, None
    <3> QED
      BY <3>1, <3>2, <3>3 DEF Stages
  <2>4. ~IsWaste(x)
    BY <2>2 DEF IsWaste
  <2> QED
    BY <1>0, <1>1, <1>2, <1>3, <1>5, <2>1, <2>2, <2>3, <2>4, NewSlotInv DEF PassStage
<1> QED
  BY <1>4, <1>5

\* A slot whose candidate a node refuses.
LEMMA RefusedSlot ==
    ASSUME NEW slot \in Slots, NEW node, NEW next \in PastStage1, NEW n,
           OwnAt(slot, node, n), node \in PastStage3 => next \in PastStage3,
           NEW kind \in Rejections \ {"none"}, NEW x, x = [slot EXCEPT !.reject = kind]
    PROVE  /\ x \in Slots /\ OwnAt(x, next, n) /\ x.reject = kind /\ x.intent = slot.intent
           /\ x.matched = slot.matched /\ x.idea = slot.idea /\ x.library = slot.library
<1>1. x \in Slots
  BY DEF Slots
<1>2. /\ x.idea = slot.idea /\ x.commitments = slot.commitments /\ x.intent = slot.intent
      /\ x.files = slot.files /\ x.library = slot.library
      /\ x.attempt = slot.attempt /\ x.gate = slot.gate /\ x.verdict = slot.verdict
      /\ x.reject = kind /\ x.matched = slot.matched
  BY DEF Slots
<1>3. OwnAt(x, next, n)
  BY <1>2 DEF OwnAt
<1> QED
  BY <1>1, <1>2, <1>3

\* What a node knows that judges a candidate not yet refused.
LEMMA AtTurn ==
    ASSUME IInv, NEW node \in Gated, Turn(node)
    PROVE  /\ pc = node /\ pc \in Looping /\ After(pc) \in Looping /\ pc \in PastStage1
           /\ ~Rejected /\ s.slot.reject = "none" /\ s.slot \in Slots /\ s \in States
           /\ Current \in Nat \ {0} /\ tries \in Nat
           /\ OwnAt(s.slot, pc, Current) /\ s.slot.idea = Current
<1>1. pc = node /\ pc \in Gated /\ ~Rejected /\ s.slot.reject = "none"
  BY DEF Turn, Rejected
<1>2. pc \in Looping /\ After(pc) \in Looping /\ pc \in PastStage1
  BY <1>1, AfterIs DEF Gated, Looping, PastStage1
<1>3. /\ s \in States /\ s.slot \in Slots /\ Current \in Nat \ {0} /\ tries \in Nat
      /\ OwnAt(s.slot, pc, Current)
  BY DEF IInv, TypeOK, States, Current, SlotIsOwn
<1> QED
  BY <1>1, <1>2, <1>3 DEF OwnAt

\* The cheap critique keeps the invariant.
LEMMA CheapCritiqueInv == ASSUME IInv, CheapCritique PROVE IInv'
<1>0. /\ pc = "cheap_critique" /\ Turn("cheap_critique") /\ pc' = After(pc)
      /\ UNCHANGED <<tries, saving, ledger, calls, spent>>
  BY DEF CheapCritique, Turn
<1>1. /\ ~Rejected /\ s.slot.reject = "none" /\ s.slot \in Slots /\ s \in States
      /\ tries \in Nat /\ OwnAt(s.slot, pc, Current) /\ s.slot.idea = Current
      /\ pc \in Looping /\ pc' \in Looping
  BY <1>0, AtTurn DEF Gated
<1>2. pc' = "stage2" /\ pc' \in PastStage1 /\ 1 \in Stages
  BY <1>0, AfterIs DEF PastStage1, Stages
<1>3. pc \notin PastStage3 /\ s.slot.library = None
  BY <1>0, <1>1 DEF PastStage3, OwnAt
<1>4. ~IsWaste(s.slot)
  BY <1>1 DEF IsWaste
<1>5. CASE s' = s
  <2>1. OwnAt(s.slot, pc', Current)
    BY <1>0, <1>1, <1>2, <1>3
    DEF OwnAt, PastStage1, PastStage2, PastStage3, PastSweep, PastGate
  <2>2. s' = [s EXCEPT !.slot = s.slot]
    BY <1>1, <1>5 DEF States
  <2> QED
    BY <1>0, <1>1, <1>2, <1>4, <2>1, <2>2, NewSlotInv
<1>6. ASSUME NEW x, x = [s.slot EXCEPT !.reject = "reject_verdict"]
      PROVE  /\ x \in Slots /\ OwnAt(x, pc', Current) /\ x.reject = "reject_verdict"
             /\ x.matched = s.slot.matched /\ x.library = None
  <2>1. "reject_verdict" \in Rejections \ {"none"}
    BY DEF Rejections
  <2> QED
    BY <1>1, <1>2, <1>3, <1>6, <2>1, RefusedSlot
<1>7. CASE s' = Reject("reject_verdict")
  <2> DEFINE x == [s.slot EXCEPT !.reject = "reject_verdict"]
  <2>1. s' = [s EXCEPT !.slot = x]
    BY <1>1, <1>7 DEF Reject, States, Slots
  <2>2. x \in Slots /\ OwnAt(x, pc', Current) /\ x.matched = s.slot.matched /\ ~IsWaste(x)
    BY <1>6 DEF IsWaste
  <2> HIDE DEF x
  <2> QED
    BY <1>0, <1>1, <1>2, <2>1, <2>2, NewSlotInv
<1>8. CASE \E prior \in s.priors :
              /\ ~prior.accepted
              /\ s' = [Reject("reject_verdict") EXCEPT !.slot.matched = prior.id]
  <2>1. PICK prior \in s.priors :
              /\ ~prior.accepted
              /\ s' = [Reject("reject_verdict") EXCEPT !.slot.matched = prior.id]
    BY <1>8
  <2> DEFINE y == [s.slot EXCEPT !.reject = "reject_verdict"]
             x == [y EXCEPT !.matched = prior.id]
  <2>2. y \in Slots /\ OwnAt(y, pc', Current) /\ y.reject = "reject_verdict" /\ y.library = None
    BY <1>6
  <2>3. Reject("reject_verdict") = [s EXCEPT !.slot = y]
    BY <1>1 DEF Reject, States, Slots
  <2>4. prior.id \in Ids
    BY <1>1 DEF States
  <2> HIDE DEF y
  <2>5. s' = [s EXCEPT !.slot = x]
    BY <1>1, <2>1, <2>2, <2>3 DEF States, Slots
  <2>6. /\ x \in Slots /\ x.matched = prior.id
        /\ x.idea = y.idea /\ x.commitments = y.commitments /\ x.files = y.files
        /\ x.library = y.library /\ x.attempt = y.attempt /\ x.gate = y.gate
        /\ x.verdict = y.verdict /\ x.reject = y.reject
    BY <2>2, <2>4 DEF Slots
  <2> HIDE DEF x
  <2>7. OwnAt(x, pc', Current)
    BY <1>2, <2>2, <2>6 DEF OwnAt
  <2>8. ~IsWaste(x)
    BY <2>2, <2>6 DEF IsWaste
  <2>9. \E j \in Earlier : decisions[j].id = x.matched /\ decisions[j].outcome = "rejected"
    <3>1. pc # "idle"
      BY <1>0
    <3>2. PICK j \in Known : prior = [id |-> decisions[j].id,
                                      accepted |-> decisions[j].outcome = "accepted"]
      BY <3>1 DEF IInv, Informed
    <3>3. j \in Earlier /\ j \in DOMAIN decisions /\ decisions[j].outcome # "deferred"
      BY <3>2 DEF Known, Earlier
    <3>4. decisions[j].outcome \in Outcomes
      <4>1. decisions[j] \in Decisions
        BY <3>3 DEF IInv, TypeOK
      <4> QED
        BY <4>1 DEF Decisions
    <3>5. decisions[j].outcome # "accepted" /\ decisions[j].id = x.matched
      BY <2>1, <2>6, <3>2
    <3> QED
      BY <3>3, <3>4, <3>5 DEF Outcomes
  <2> QED
    BY <1>0, <1>1, <1>2, <2>5, <2>6, <2>7, <2>8, <2>9, NewSlotInv
<1> QED
  BY <1>5, <1>7, <1>8 DEF CheapCritique

\* The mechanical gate keeps the invariant.
LEMMA MechanicalGateInv == ASSUME IInv, MechanicalGate PROVE IInv'
<1>0. /\ pc = "mechanical_gate" /\ Turn("mechanical_gate") /\ pc' = After(pc)
      /\ UNCHANGED <<tries, saving, ledger, calls, spent>>
  BY DEF MechanicalGate, Turn
<1>1. /\ ~Rejected /\ s.slot.reject = "none" /\ s.slot \in Slots /\ s \in States
      /\ tries \in Nat /\ OwnAt(s.slot, pc, Current) /\ s.slot.idea = Current
      /\ pc \in Looping /\ pc' \in Looping /\ Current \in Nat \ {0}
  BY <1>0, AtTurn DEF Gated
<1>2. pc' = "verdict_critique" /\ 1 \in Stages
  BY <1>0, AfterIs DEF Stages
<1>3. /\ s.slot.attempt.of = Current /\ s.slot.attempt.library = Current
      /\ s.slot.attempt.floor # "none" /\ s.slot.commitments = Current
      /\ s.slot.library = Current
  BY <1>0, <1>1 DEF OwnAt, PastSweep, PastStage2, PastStage3
<1>4. s.slot.attempt.floor \in Floors \ {"none"}
  BY <1>1, <1>3 DEF Slots
<1> DEFINE gate == [of |-> Current, kind |-> s.slot.attempt.floor]
           y == [s.slot EXCEPT !.gate = gate]
           x == IF s.slot.attempt.floor = "ok" THEN y
                ELSE [y EXCEPT !.reject = s.slot.attempt.floor]
<1>5. s' = [s EXCEPT !.slot = x]
  <2>1. [s EXCEPT !.slot.gate = [of |-> s.slot.attempt.of, kind |-> s.slot.attempt.floor]]
          = [s EXCEPT !.slot = y]
    BY <1>1, <1>3 DEF States, Slots
  <2>2. y \in Slots
    BY <1>1, <1>4 DEF Slots
  <2>3. [[s EXCEPT !.slot = y] EXCEPT !.slot.reject = s.slot.attempt.floor]
          = [s EXCEPT !.slot = [y EXCEPT !.reject = s.slot.attempt.floor]]
    <3> HIDE DEF y
    <3> QED
      BY <1>1, <2>2 DEF States
  <2> QED
    BY <2>1, <2>3 DEF MechanicalGate
<1>6. /\ x \in Slots /\ x.gate = gate /\ x.matched = s.slot.matched
      /\ x.idea = s.slot.idea /\ x.commitments = s.slot.commitments /\ x.files = s.slot.files
      /\ x.library = s.slot.library /\ x.attempt = s.slot.attempt
      /\ x.verdict = s.slot.verdict
      /\ x.reject = IF s.slot.attempt.floor = "ok" THEN "none" ELSE s.slot.attempt.floor
  BY <1>1, <1>4 DEF Slots, Floors, Rejections
<1> HIDE DEF x
<1>7. OwnAt(x, pc', Current)
  BY <1>1, <1>2, <1>3, <1>4, <1>6
  DEF OwnAt, PastStage1, PastStage2, PastStage3, PastSweep, PastGate, Floors
<1>8. ~IsWaste(x)
  BY <1>4, <1>6 DEF IsWaste, Floors
<1> QED
  BY <1>0, <1>1, <1>2, <1>5, <1>6, <1>7, <1>8, NewSlotInv

\* The critique of the verdict keeps the invariant.
LEMMA VerdictCritiqueInv == ASSUME IInv, VerdictCritique PROVE IInv'
<1>0. /\ pc = "verdict_critique" /\ Turn("verdict_critique") /\ pc' = After(pc)
      /\ UNCHANGED <<tries, saving, ledger, calls, spent>>
  BY DEF VerdictCritique, Turn
<1>1. /\ ~Rejected /\ s.slot.reject = "none" /\ s.slot \in Slots /\ s \in States
      /\ tries \in Nat /\ OwnAt(s.slot, pc, Current) /\ s.slot.idea = Current
      /\ pc \in Looping /\ pc' \in Looping /\ Current \in Nat \ {0}
  BY <1>0, AtTurn DEF Gated
<1>2. pc' = "rank" /\ 1 \in Stages
  BY <1>0, AfterIs DEF Stages
<1>3. /\ s.slot.attempt.of = Current /\ s.slot.attempt.library = Current
      /\ s.slot.attempt.floor # "none" /\ s.slot.commitments = Current
      /\ s.slot.library = Current /\ s.slot.gate = [of |-> Current, kind |-> "ok"]
  BY <1>0, <1>1 DEF OwnAt, PastSweep, PastStage2, PastStage3, PastGate
<1>4. PICK accept \in BOOLEAN :
        s' = [s EXCEPT !.slot.verdict = [of |-> s.slot.attempt.of, accept |-> accept],
                       !.slot.reject = IF accept THEN @ ELSE "reject_verdict"]
  BY DEF VerdictCritique
<1> DEFINE verdict == [of |-> Current, accept |-> accept]
           x == [s.slot EXCEPT !.verdict = verdict,
                               !.reject = IF accept THEN "none" ELSE "reject_verdict"]
<1>5. s' = [s EXCEPT !.slot = x]
  BY <1>1, <1>3, <1>4 DEF States, Slots
<1>6. /\ x \in Slots /\ x.gate = s.slot.gate /\ x.matched = s.slot.matched
      /\ x.idea = s.slot.idea /\ x.commitments = s.slot.commitments /\ x.files = s.slot.files
      /\ x.library = s.slot.library /\ x.attempt = s.slot.attempt
      /\ x.verdict = verdict
      /\ x.reject = IF accept THEN "none" ELSE "reject_verdict"
  BY <1>1 DEF Slots, Rejections
<1> HIDE DEF x
<1>7. OwnAt(x, pc', Current)
  <2>1. {x.idea, x.commitments, x.files, x.library, x.attempt.of, x.attempt.library, x.gate.of,
         x.verdict.of} \subseteq {None, Current}
    BY <1>1, <1>3, <1>6 DEF OwnAt
  <2>2. pc' \in PastStage1 /\ pc' \in PastStage3
    BY <1>2 DEF PastStage1, PastStage3
  <2>3. x.reject = "none" => x.verdict = [of |-> Current, accept |-> TRUE]
    BY <1>6
  <2> QED
    BY <1>1, <1>3, <1>6, <2>1, <2>2, <2>3 DEF OwnAt
<1>8. ~IsWaste(x)
  BY <1>6 DEF IsWaste
<1> QED
  BY <1>0, <1>1, <1>2, <1>5, <1>6, <1>7, <1>8, NewSlotInv

\* The mini-optimization keeps the invariant.
LEMMA MiniOptimizeInv == ASSUME IInv, MiniOptimize PROVE IInv'
<1>0. /\ pc = "mini_optimize" /\ Turn("mini_optimize") /\ pc' = After(pc)
      /\ UNCHANGED <<tries, saving, ledger, calls>>
  BY DEF MiniOptimize, Turn
<1>1. /\ ~Rejected /\ s.slot.reject = "none" /\ s.slot \in Slots /\ s \in States
      /\ tries \in Nat /\ OwnAt(s.slot, pc, Current) /\ s.slot.idea = Current
      /\ pc \in Looping /\ pc' \in Looping /\ Current \in Nat \ {0}
  BY <1>0, AtTurn DEF Gated
<1>2. pc' = "mechanical_gate" /\ pc' \in PastStage1 /\ pc' \in PastStage3 /\ 1 \in Stages
  BY <1>0, AfterIs DEF Stages, PastStage1, PastStage3
<1>3. s.slot.commitments = Current /\ s.slot.library = Current
  BY <1>0, <1>1 DEF OwnAt, PastStage2, PastStage3
<1>4. /\ pc # "idle" /\ s.consumed \in Nat /\ spent \in Nat /\ s.ceiling \in Nat
      /\ Cost \in Nat \ {0} /\ s.rejected \subseteq Slots /\ IsFiniteSet(s.rejected)
      /\ s.ceiling # Unlimited => s.consumed <= s.ceiling
      /\ spent = s.consumed + Cost * Cardinality(Wasted)
  BY <1>0, BoundsAssumption DEF IInv, TypeOK, States, BudgetKept
<1>5. ~IsWaste(s.slot)
  BY <1>1 DEF IsWaste
<1>6. ASSUME NEW kind \in {"reject_noise", "reject_schema"},
             NEW x, x = [s.slot EXCEPT !.reject = kind]
      PROVE  /\ x \in Slots /\ OwnAt(x, pc', Current) /\ x.reject = kind
             /\ x.matched = s.slot.matched /\ x.library = s.slot.library
             /\ x.intent = s.slot.intent /\ x.idea = s.slot.idea
             /\ Reject(kind) = [s EXCEPT !.slot = x]
  <2>1. kind \in Rejections \ {"none"}
    BY DEF Rejections
  <2>2. Reject(kind) = [s EXCEPT !.slot = x]
    BY <1>1, <1>6 DEF Reject, States, Slots
  <2> QED
    BY <1>1, <1>2, <1>6, <2>1, <2>2, RefusedSlot, SMTT(30)
<1>7. CASE s' = Reject("reject_noise") /\ UNCHANGED spent
  <2> DEFINE x == [s.slot EXCEPT !.reject = "reject_noise"]
  <2>1. /\ x \in Slots /\ OwnAt(x, pc', Current) /\ x.matched = s.slot.matched
        /\ s' = [s EXCEPT !.slot = x] /\ ~IsWaste(x)
    BY <1>6, <1>7 DEF IsWaste
  <2> HIDE DEF x
  <2> QED
    BY <1>0, <1>1, <1>2, <1>7, <2>1, NewSlotInv
<1>8. CASE s.slot.intent = "no_space" /\ s' = Reject("reject_schema") /\ UNCHANGED spent
  <2> DEFINE x == [s.slot EXCEPT !.reject = "reject_schema"]
  <2>1. /\ x \in Slots /\ OwnAt(x, pc', Current) /\ x.matched = s.slot.matched
        /\ s' = [s EXCEPT !.slot = x] /\ ~IsWaste(x)
    BY <1>6, <1>8 DEF IsWaste
  <2> HIDE DEF x
  <2> QED
    BY <1>0, <1>1, <1>2, <1>8, <2>1, NewSlotInv
<1>9. CASE s.slot.intent = "eq_guard" /\ s' = Reject("reject_schema") /\ spent' = spent + Cost
  <2> DEFINE x == [s.slot EXCEPT !.reject = "reject_schema"]
  <2>1. /\ x \in Slots /\ OwnAt(x, pc', Current) /\ x.matched = s.slot.matched
        /\ s' = [s EXCEPT !.slot = x] /\ IsWaste(x) /\ x.idea = Current
    BY <1>1, <1>3, <1>6, <1>9 DEF IsWaste, None
  <2> HIDE DEF x
  <2>2. /\ s' \in States /\ s'.slot = x /\ s'.consumed = s.consumed
        /\ s'.accepted = s.accepted /\ s'.rejected = s.rejected /\ s'.intra = s.intra
        /\ s'.iteration = s.iteration /\ s'.reason = s.reason /\ s'.priors = s.priors
        /\ s'.ceiling = s.ceiling
    BY <1>1, <2>1 DEF States
  <2>3. x \notin s.rejected
    <3>1. \A c \in s.rejected : c.idea \in 1..s.iteration
      BY DEF IInv, JudgedOnItsOwn, Candidates
    <3>2. s.iteration \in Nat /\ Current = s.iteration + 1
      BY <1>1 DEF States, Current
    <3> QED
      BY <2>1, <3>1, <3>2
  <2>4. Wasted' = Wasted \cup {x}
    BY <1>5, <2>1, <2>2 DEF Wasted, IsWaste
  <2>5. IsFiniteSet(Wasted) /\ x \notin Wasted
    <3>1. Wasted \subseteq s.rejected
      BY <1>5 DEF Wasted, IsWaste
    <3> QED
      BY <1>4, <2>3, <3>1, FS_Subset
  <2>6. Cardinality(Wasted') = Cardinality(Wasted) + 1 /\ Cardinality(Wasted) \in Nat
    BY <2>4, <2>5, FS_AddElement, FS_CardinalityType
  <2>7. \A n \in Nat : Cost * (n + 1) = Cost * n + Cost
    BY <1>4
  <2>8. spent' = s'.consumed + Cost * Cardinality(Wasted') /\ spent' \in Nat
    <3> DEFINE n == Cardinality(Wasted)
    <3>1. n \in Nat /\ spent = s.consumed + Cost * n /\ Cost * n \in Nat
      BY <1>4, <2>6
    <3>2. Cardinality(Wasted') = n + 1
      BY <2>6
    <3>3. Cost * (n + 1) = Cost * n + Cost
      BY <2>7, <3>1
    <3> HIDE DEF n
    <3>4. spent' = s.consumed + Cost * n + Cost
      BY <1>9, <3>1
    <3>5. spent' = s.consumed + (Cost * n + Cost)
      BY <1>4, <3>1, <3>4
    <3> QED
      BY <1>4, <1>9, <2>2, <3>2, <3>3, <3>5
  <2>9. SlotIsOwn'
    BY <2>1, <2>2 DEF SlotIsOwn, Current
  <2> QED
    BY <1>0, <1>1, <1>4, <2>1, <2>2, <2>8, <2>9, JudgesInv DEF Judges
<1>10. CASE ~OverBudget /\ Sweep
  <2>1. PICK check \in Checks, floor \in {"ok", "reject_noise", "reject_variance"} :
            s' = [s EXCEPT !.consumed = @ + Cost,
                           !.slot.attempt = [of |-> s.slot.commitments, library |-> s.slot.library,
                                             check |-> check, floor |-> floor]]
    BY <1>10 DEF Sweep
  <2> DEFINE attempt == [of |-> Current, library |-> Current, check |-> check, floor |-> floor]
             x == [s.slot EXCEPT !.attempt = attempt]
  <2>2. attempt \in [of : Nat, library : Nat, check : Checks \cup {"none"}, floor : Floors]
    BY <1>1 DEF Floors
  <2>3. s' = [s EXCEPT !.slot = x, !.consumed = s.consumed + Cost]
    BY <1>1, <1>3, <2>1 DEF States, Slots
  <2>4. attempt.of = Current /\ attempt.library = Current /\ attempt.floor # "none"
    OBVIOUS
  <2> HIDE DEF attempt
  <2>5. /\ x \in Slots /\ x.gate = s.slot.gate /\ x.matched = s.slot.matched
        /\ x.idea = s.slot.idea /\ x.commitments = s.slot.commitments /\ x.files = s.slot.files
        /\ x.library = s.slot.library /\ x.attempt = attempt
        /\ x.verdict = s.slot.verdict /\ x.reject = s.slot.reject
    BY <1>1, <2>2 DEF Slots
  <2> HIDE DEF x
  <2>6. /\ s' \in States /\ s'.slot = x /\ s'.consumed = s.consumed + Cost
        /\ s'.accepted = s.accepted /\ s'.rejected = s.rejected /\ s'.intra = s.intra
        /\ s'.iteration = s.iteration /\ s'.reason = s.reason /\ s'.priors = s.priors
        /\ s'.ceiling = s.ceiling
    <3>1. s.consumed + Cost \in Nat
      BY <1>4
    <3> QED
      BY <1>1, <2>3, <2>5, <3>1 DEF States
  <2>7. OwnAt(x, pc', Current)
    BY <1>1, <1>2, <1>3, <2>4, <2>5
    DEF OwnAt, PastStage1, PastStage2, PastStage3, PastSweep, PastGate
  <2>8. SlotIsOwn'
    BY <2>6, <2>7 DEF SlotIsOwn, Current
  <2>9. Wasted' = Wasted
    BY <1>1, <1>5, <2>5, <2>6, QuietWaste DEF IsWaste
  <2>10. s.ceiling # Unlimited => s'.consumed <= s.ceiling
    BY <1>4, <1>10, <2>6 DEF OverBudget
  <2>11. spent' = s'.consumed + Cost * Cardinality(Wasted') /\ spent' \in Nat
    <3>1. IsFiniteSet(Wasted)
      BY <1>4, <1>5, FS_Subset DEF Wasted, IsWaste
    <3>2. Cost * Cardinality(Wasted) \in Nat
      BY <1>4, <3>1, FS_CardinalityType
    <3>3. spent' = spent + Cost
      BY <1>10 DEF Sweep
    <3> QED
      BY <1>4, <2>6, <2>9, <3>2, <3>3
  <2> QED
    BY <1>0, <1>1, <2>5, <2>6, <2>8, <2>10, <2>11, JudgesInv DEF Judges
<1> QED
  BY <1>7, <1>8, <1>9, <1>10 DEF MiniOptimize

-----------------------------------------------------------------------------
(* Ranking and selection                                                   *)

\* Ranking the modes keeps the invariant.
LEMMA RankInv == ASSUME IInv, Rank PROVE IInv'
<1> DEFINE slot == s.slot
           idea == slot.idea # None
<1>0. /\ pc = "rank" /\ s' = Ranked /\ pc' = (IF Enough(s') THEN "select" ELSE "stage1")
      /\ UNCHANGED <<tries, saving, ledger, calls, spent>>
  BY DEF Rank
<1>1. /\ s \in States /\ slot \in Slots /\ s.iteration \in Nat /\ Current = s.iteration + 1
      /\ s.intra \in Seq(Nat) /\ OwnAt(slot, "rank", Current)
      /\ s.accepted \subseteq Slots /\ s.rejected \subseteq Slots
      /\ IsFiniteSet(s.accepted) /\ IsFiniteSet(s.rejected)
      /\ slot.idea \in {None, Current}
  BY <1>0 DEF IInv, TypeOK, States, Current, SlotIsOwn, OwnAt
<1>2. /\ s'.slot = EmptySlots /\ s'.iteration = Current
      /\ s'.intra = IF idea THEN Append(s.intra, slot.idea) ELSE s.intra
      /\ s'.accepted = IF ~idea \/ Rejected THEN s.accepted ELSE s.accepted \cup {slot}
      /\ s'.rejected = IF idea /\ Rejected THEN s.rejected \cup {slot} ELSE s.rejected
      /\ s'.consumed = s.consumed /\ s'.responses = s.responses /\ s'.reason = s.reason
      /\ s'.priors = s.priors /\ s'.ceiling = s.ceiling
  BY <1>0, <1>1 DEF Ranked, RankedTo, States, Current
<1>3. s' \in States
  <2>1. Append(s.intra, slot.idea) \in Seq(Nat)
    BY <1>1, AppendProperties DEF Slots
  <2> DEFINE intra == IF idea THEN Append(s.intra, slot.idea) ELSE s.intra
             accepted == IF ~idea \/ Rejected THEN s.accepted ELSE s.accepted \cup {slot}
             rejected == IF idea /\ Rejected THEN s.rejected \cup {slot} ELSE s.rejected
  <2>2. intra \in Seq(Nat) /\ accepted \in SUBSET Slots /\ rejected \in SUBSET Slots
    BY <1>1, <2>1
  <2>3. s' = [s EXCEPT !.slot = EmptySlots, !.iteration = s.iteration + 1, !.intra = intra,
                       !.accepted = accepted, !.rejected = rejected]
    BY <1>0, <1>1 DEF Ranked, RankedTo, States
  <2>4. s.iteration + 1 \in Nat
    BY <1>1
  <2> HIDE DEF intra, accepted, rejected
  <2> QED
    BY <1>1, <2>2, <2>3, <2>4, EmptySlotType DEF States
<1>4. pc' \in {"select", "stage1"} /\ Current' = Current + 1
  BY <1>0, <1>2 DEF Current
<1>5. (slot \notin s.accepted /\ slot \notin s.rejected) \/ ~idea
  BY <1>1 DEF IInv, JudgedOnItsOwn, Candidates
<1>6. TypeOK'
  <2>1. IsFiniteSet(s'.accepted) /\ IsFiniteSet(s'.rejected)
    <3>1. IsFiniteSet(s.accepted \cup {slot}) /\ IsFiniteSet(s.rejected \cup {slot})
      BY <1>1, FS_AddElement
    <3> QED
      BY <1>1, <1>2, <3>1
  <2> QED
    BY <1>0, <1>3, <1>4, <2>1 DEF IInv, TypeOK, ledger, Looping
<1>7. SlotIsOwn'
  BY <1>2, <1>4 DEF SlotIsOwn, OwnAt, PastStage1, PastStage2, PastStage3, PastSweep, PastGate, EmptySlots, NoAttempt, NoGate, NoVerdict
<1>8. /\ Candidates' = IF idea THEN Candidates \cup {slot} ELSE Candidates
      /\ \A c \in Candidates : c.idea \in 1..s.iteration
  BY <1>2 DEF Candidates, IInv, JudgedOnItsOwn
<1>9. idea /\ ~Rejected =>
        /\ slot.idea = Current /\ slot.attempt.of = Current /\ slot.attempt.library = Current
        /\ slot.gate = [of |-> Current, kind |-> "ok"]
        /\ slot.verdict = [of |-> Current, accept |-> TRUE]
  BY <1>1 DEF OwnAt, PastSweep, PastGate, Rejected
<1>10. JudgedOnItsOwn'
  <2>1. Len(s'.intra) = Cardinality(s'.accepted) + Cardinality(s'.rejected)
    <3>1. /\ Cardinality(s.accepted) \in Nat /\ Cardinality(s.rejected) \in Nat
          /\ Len(s.intra) = Cardinality(s.accepted) + Cardinality(s.rejected)
      BY <1>1, FS_CardinalityType DEF IInv, JudgedOnItsOwn
    <3>2. CASE ~idea
      BY <1>2, <3>1, <3>2
    <3>3. CASE idea
      <4>1. Len(s'.intra) = Len(s.intra) + 1
        BY <1>1, <1>2, <3>3, AppendProperties DEF Slots
      <4>2. /\ Cardinality(s.accepted \cup {slot}) = Cardinality(s.accepted) + 1
            /\ Cardinality(s.rejected \cup {slot}) = Cardinality(s.rejected) + 1
        BY <1>1, <1>5, <3>3, FS_AddElement
      <4> QED
        BY <1>2, <3>1, <3>3, <4>1, <4>2
    <3> QED
      BY <3>2, <3>3
  <2>2. {s'.intra[i] : i \in DOMAIN s'.intra} = Ideas(Candidates')
    <3>1. {s.intra[i] : i \in DOMAIN s.intra} = Ideas(Candidates)
      BY DEF IInv, JudgedOnItsOwn
    <3>2. CASE ~idea
      BY <1>2, <1>8, <3>1, <3>2
    <3>3. CASE idea
      <4>1. s'.intra = Append(s.intra, slot.idea) /\ Candidates' = Candidates \cup {slot}
        BY <1>2, <1>8, <3>3
      <4>2. Ideas(Candidates') = Ideas(Candidates) \cup {slot.idea}
        BY <4>1 DEF Ideas
      <4>3. /\ DOMAIN s'.intra = 1..(Len(s.intra) + 1) /\ DOMAIN s.intra = 1..Len(s.intra)
            /\ Len(s.intra) \in Nat
            /\ \A i \in 1..Len(s.intra) : s'.intra[i] = s.intra[i]
            /\ s'.intra[Len(s.intra) + 1] = slot.idea
        BY <1>1, <4>1, AppendProperties, LenProperties, SMTT(30) DEF Slots
      <4>4. {s'.intra[i] : i \in DOMAIN s'.intra}
              = {s.intra[i] : i \in DOMAIN s.intra} \cup {slot.idea}
        <5> DEFINE n == Len(s.intra)
        <5>1. 1..(n + 1) = (1..n) \cup {n + 1}
          BY <4>3
        <5> QED
          BY <4>3, <5>1
      <4> QED
        BY <3>1, <4>2, <4>4
    <3> QED
      BY <3>2, <3>3
  <2>3. s'.slot.idea \in {None, Current'}
    BY <1>2 DEF EmptySlots
  <2>4. \A c \in Candidates' :
        /\ c.idea \in 1..s'.iteration
        /\ {c.commitments, c.files, c.library, c.attempt.of, c.attempt.library, c.gate.of,
            c.verdict.of} \subseteq {None, c.idea}
    <3>1. \A c \in Candidates :
            /\ c.idea \in 1..s.iteration
            /\ {c.commitments, c.files, c.library, c.attempt.of, c.attempt.library, c.gate.of,
                c.verdict.of} \subseteq {None, c.idea}
      BY DEF IInv, JudgedOnItsOwn
    <3>2. idea =>
            /\ slot.idea = Current
            /\ {slot.commitments, slot.files, slot.library, slot.attempt.of,
                slot.attempt.library, slot.gate.of, slot.verdict.of} \subseteq {None, slot.idea}
      BY <1>1 DEF OwnAt
    <3>3. 1..s.iteration \subseteq 1..s'.iteration /\ Current \in 1..s'.iteration
      BY <1>1, <1>2
    <3> QED
      BY <1>8, <3>1, <3>2, <3>3
  <2>5. \A c \in s'.accepted :
        /\ c.attempt.of = c.idea /\ c.attempt.library = c.idea
        /\ c.gate = [of |-> c.idea, kind |-> "ok"]
        /\ c.verdict = [of |-> c.idea, accept |-> TRUE]
    <3>1. \A c \in s.accepted :
            /\ c.attempt.of = c.idea /\ c.attempt.library = c.idea
            /\ c.gate = [of |-> c.idea, kind |-> "ok"]
            /\ c.verdict = [of |-> c.idea, accept |-> TRUE]
      BY DEF IInv, JudgedOnItsOwn
    <3>2. \A c \in s'.accepted : c \in s.accepted \/ (c = slot /\ idea /\ ~Rejected)
      BY <1>2
    <3> QED
      BY <1>9, <3>1, <3>2
  <2> QED
    BY <2>1, <2>2, <2>3, <2>4, <2>5 DEF JudgedOnItsOwn, Ideas
<1>11. Sorted'
  <2>1. idea => \A c \in Candidates : c.idea # slot.idea
    BY <1>1, <1>8
  <2>2. \A c, d \in Candidates' : c.idea = d.idea => c = d
    BY <1>8, <2>1 DEF IInv, Sorted
  <2>3. \A c \in s'.accepted : c.reject = "none"
    BY <1>2 DEF IInv, Sorted, Rejected
  <2>4. \A c \in s'.rejected : c.reject # "none"
    BY <1>2 DEF IInv, Sorted, Rejected
  <2> QED
    BY <2>2, <2>3, <2>4 DEF Sorted
<1>12. /\ s.iteration < IterationBudget /\ s.reason = "running" /\ IterationBudget \in Nat
       /\ Cardinality(s'.accepted) <= Target /\ Cardinality(s'.accepted) \in Nat
       /\ Target \in Nat
  <2>1. Cardinality(s.accepted) < Target /\ Cardinality(s.accepted) \in Nat
    BY <1>0, <1>1, FS_CardinalityType DEF IInv, Goes, Looping
  <2>2. Cardinality(s.accepted \cup {slot}) \in {Cardinality(s.accepted), Cardinality(s.accepted) + 1}
    BY <1>1, FS_AddElement
  <2> QED
    BY <1>0, <1>2, <2>1, <2>2, BoundsAssumption DEF IInv, Goes, Looping
<1>13. Goes'
  <2>1. s'.iteration <= IterationBudget /\ s'.reason = "running"
    BY <1>1, <1>2, <1>12
  <2>2. CASE Enough(s')
    BY <1>0, <2>1, <2>2 DEF Goes, Looping, Enough
  <2>3. CASE ~Enough(s')
    BY <1>0, <1>1, <1>2, <1>12, <2>1, <2>3 DEF Goes, Enough
  <2> QED
    BY <2>2, <2>3
<1>14. BudgetKept'
  <2>1. ~IsWaste(EmptySlots)
    BY EmptySlotType
  <2>2. IsWaste(slot) => idea /\ Rejected
    BY <1>1 DEF IsWaste, OwnAt, Rejected
  <2>3. Wasted' = Wasted
    BY <1>2, <2>1, <2>2 DEF Wasted, IsWaste
  <2> QED
    BY <1>0, <1>2, <1>12, <2>3 DEF IInv, BudgetKept
<1>15. Dated' /\ FiledInOrder'
  BY <1>0, <1>4 DEF IInv, Dated, FiledInOrder, Persisting, ledger
<1>16. Informed'
  <2>1. Known' = Known /\ Earlier' = Earlier /\ decisions' = decisions
    BY <1>0 DEF Known, Earlier, ledger
  <2>2. s'.priors = {[id |-> decisions[i].id, accepted |-> decisions[i].outcome = "accepted"] :
                        i \in Known}
    BY <1>0, <1>2 DEF IInv, Informed
  <2>3. \A c \in s'.rejected \cup {s'.slot} : c.matched # NoMatch =>
            \E i \in Earlier :
                decisions[i].id = c.matched /\ decisions[i].outcome = "rejected"
    BY <1>0, <1>2 DEF IInv, Informed, EmptySlots
  <2> QED
    BY <2>1, <2>2, <2>3 DEF Informed
<1> QED
  BY <1>6, <1>7, <1>10, <1>11, <1>13, <1>14, <1>15, <1>16 DEF IInv

\* Selecting a mode keeps the invariant.
LEMMA SelectInv == ASSUME IInv, Select PROVE IInv'
<1> DEFINE many == Cardinality(s.accepted) >= Target
<1>0. /\ pc = "select" /\ pc' \in {"persist", "return"}
      /\ UNCHANGED <<tries, saving, ledger, calls, spent>>
  BY DEF Select
<1>1. PICK kept \in SUBSET s.accepted :
        /\ IF many THEN Cardinality(kept) = Target ELSE kept = s.accepted
        /\ s' = [s EXCEPT !.accepted = kept,
                          !.reason = IF many THEN "sufficient_candidates" ELSE "budget_exhausted"]
  BY DEF Select
<1>2. /\ s \in States /\ IsFiniteSet(s.accepted) /\ Cardinality(s.accepted) \in Nat
      /\ Target \in Nat /\ Cardinality(s.accepted) <= Target
      /\ IterationBudget \in Nat /\ s.iteration \in Nat
  BY FS_CardinalityType, BoundsAssumption DEF IInv, TypeOK, BudgetKept, States
\* No more were accepted than are kept.
<1>3. kept = s.accepted
  <2>1. CASE many
    BY <1>1, <1>2, <2>1, FS_Subset
  <2> QED
    BY <1>1, <2>1
<1>4. /\ s' \in States /\ s'.slot = s.slot /\ s'.consumed = s.consumed
      /\ s'.accepted = s.accepted /\ s'.rejected = s.rejected /\ s'.intra = s.intra
      /\ s'.iteration = s.iteration /\ s'.priors = s.priors /\ s'.ceiling = s.ceiling
      /\ s'.reason = IF many THEN "sufficient_candidates" ELSE "budget_exhausted"
  BY <1>1, <1>2, <1>3 DEF States
<1>5. Candidates' = Candidates /\ Earlier' = Earlier /\ Known' = Known /\ decisions' = decisions
  BY <1>0, <1>4 DEF Candidates, Earlier, Known, ledger
<1>6. TypeOK'
  BY <1>0, <1>4 DEF IInv, TypeOK, ledger, Persisting
<1>7. SlotIsOwn'
  <2>1. s.slot = EmptySlots /\ pc' \notin PastStage1
    BY <1>0 DEF IInv, SlotIsOwn, OwnAt, PastStage1
  <2> QED
    BY <1>4, <2>1
    DEF SlotIsOwn, OwnAt, PastStage1, PastStage2, PastStage3, PastSweep, PastGate, EmptySlots,
        NoAttempt, NoGate, NoVerdict
<1>8. JudgedOnItsOwn'
  <2>1. s'.slot.idea \in {None, Current'}
    BY <1>7 DEF SlotIsOwn, OwnAt
  <2> QED
    BY <1>4, <2>1, SameJudged DEF IInv
<1>9. Sorted' /\ Goes'
  BY <1>0, <1>4, <1>5 DEF IInv, Sorted, Goes, Looping
<1>10. BudgetKept'
  <2>1. Wasted' = Wasted
    BY <1>4 DEF Wasted
  <2>2. /\ s.ceiling # Unlimited => s.consumed <= s.ceiling
        /\ spent = s.consumed + Cost * Cardinality(Wasted)
    BY <1>0 DEF IInv, BudgetKept
  <2>3. s'.reason = "sufficient_candidates" => Cardinality(s'.accepted) = Target
    BY <1>2, <1>4
  <2>4. s'.reason = "budget_exhausted" =>
            /\ Cardinality(s'.accepted) < Target
            /\ s'.iteration = IterationBudget \/ s'.consumed = s'.ceiling
    <3>1. Enough(s) /\ s.iteration <= IterationBudget /\ s.consumed \in Nat /\ s.ceiling \in Nat
      BY <1>0, <1>2 DEF IInv, Goes, States
    <3> QED
      BY <1>2, <1>4, <2>2, <3>1 DEF Enough
  <2> QED
    BY <1>0, <1>2, <1>4, <2>1, <2>2, <2>3, <2>4 DEF BudgetKept
<1>11. Dated'
  BY <1>0, <1>5 DEF IInv, Dated, Persisting
<1>12. Informed'
  BY <1>0, <1>4, <1>5 DEF IInv, Informed
<1>13. FiledInOrder'
  <2>1. \A i \in DOMAIN decisions : decisions[i].id[1] # calls
    <3>1. \A i \in DOMAIN decisions : decisions[i].id[1] < calls
      BY <1>0 DEF IInv, Dated, Persisting
    <3> QED
      BY <3>1, DecisionType DEF IInv
  <2> QED
    BY <1>0, <2>1 DEF IInv, FiledInOrder, ledger
<1> QED
  BY <1>6, <1>7, <1>8, <1>9, <1>10, <1>11, <1>12, <1>13 DEF IInv

-----------------------------------------------------------------------------
(* Filing                                                                  *)

\* While candidates are filed the loop's part of the invariant stands still.
LEMMA FilingInv ==
    ASSUME IInv, pc \in Persisting, pc' \in Persisting, s' = s, UNCHANGED <<calls, spent>>
    PROVE  /\ SlotIsOwn' /\ JudgedOnItsOwn' /\ Sorted' /\ BudgetKept' /\ Goes'
           /\ Candidates' = Candidates
<1>1. pc \notin PastStage1 /\ pc' \notin PastStage1 /\ pc \notin Looping /\ pc' \notin Looping
      /\ pc # "idle" /\ pc' # "idle" /\ pc' # "select"
  BY DEF Persisting, PastStage1, Looping
<1>2. Candidates' = Candidates /\ Current' = Current /\ Wasted' = Wasted
  BY DEF Candidates, Current, Wasted
<1>3. s.slot = EmptySlots
  BY <1>1 DEF IInv, SlotIsOwn, OwnAt
<1>4. SlotIsOwn'
  BY <1>1, <1>3
  DEF SlotIsOwn, OwnAt, PastStage1, PastStage2, PastStage3, PastSweep, PastGate, EmptySlots,
      NoAttempt, NoGate, NoVerdict
<1>5. JudgedOnItsOwn'
  <2>1. s'.slot.idea \in {None, Current'}
    BY <1>4 DEF SlotIsOwn, OwnAt
  <2> QED
    BY <2>1, SameJudged DEF IInv
<1>6. Sorted' /\ Goes'
  BY <1>1, <1>2 DEF IInv, Sorted, Goes
<1>7. BudgetKept'
  BY <1>1, <1>2 DEF IInv, BudgetKept
<1> QED
  BY <1>2, <1>4, <1>5, <1>6, <1>7

\* Saving the blobs keeps the invariant.
LEMMA SaveBlobsInv == ASSUME IInv, SaveBlobs PROVE IInv'
<1>0. /\ pc = "persist" /\ pc' = "hypothesis"
      /\ UNCHANGED <<s, tries, hypotheses, decisions, torn, baseline, calls, spent>>
  BY DEF SaveBlobs
<1>1. PICK c \in NextToSave :
        saving' = c /\ blobs' = blobs \cup {[id |-> Id(c), responses |-> s.responses]}
  BY DEF SaveBlobs
<1>2. /\ SlotIsOwn' /\ JudgedOnItsOwn' /\ Sorted' /\ BudgetKept' /\ Goes'
      /\ Candidates' = Candidates
  BY <1>0, FilingInv DEF Persisting
<1>3. c \in Candidates /\ Id(c) \notin Filed
  BY <1>1 DEF NextToSave, Waiting, Candidates
<1>4. c \in s.rejected => Waiting(s.accepted) = {}
  BY <1>1 DEF NextToSave, Waiting, IInv, Sorted
<1>5. Id(c)' = Id(c) /\ Filed' = Filed /\ Earlier' = Earlier /\ Known' = Known
  BY <1>0 DEF Id, Filed, Earlier, Known
<1>6. Waiting(s.accepted)' = Waiting(s.accepted) /\ saving' = c /\ Id(saving)' = Id(c)
  BY <1>0, <1>1, <1>5 DEF Waiting, Id
<1>7. TypeOK'
  BY <1>0, <1>1, <1>3 DEF IInv, TypeOK, Persisting, Candidates, States
<1>8. Dated'
  BY <1>0 DEF IInv, Dated, Persisting
<1>9. Informed'
  BY <1>0, <1>5 DEF IInv, Informed
<1>10. FiledInOrder'
  <2>1. \A b \in blobs : b \in blobs'
    BY <1>1
  <2>2. \E b \in blobs' : b.id = Id(c)
    <3>1. [id |-> Id(c), responses |-> s.responses] \in blobs'
      BY <1>1
    <3> QED
      BY <3>1
  <2>3. \A d \in Candidates : Id(d)' = Id(d) /\ OutcomeOf(d)' = OutcomeOf(d)
    BY <1>0 DEF Id, OutcomeOf
  <2>4. \A i \in DOMAIN decisions : decisions[i].id \in hypotheses /\ \E b \in blobs' : b.id = decisions[i].id
    BY <2>1 DEF IInv, FiledInOrder
  <2>5. \A i \in DOMAIN decisions : decisions[i].id[1] = calls =>
            /\ \E d \in Candidates : decisions[i].id = Id(d) /\ decisions[i].outcome = OutcomeOf(d)
            /\ Waiting(s.accepted) # {} => decisions[i].outcome = "accepted"
    BY <1>0 DEF IInv, FiledInOrder, Persisting
  <2>6. \A i, j \in DOMAIN decisions :
            i < j => /\ decisions[i].id # decisions[j].id
                     /\ decisions[i].id[1] = decisions[j].id[1] =>
                          ~(decisions[i].outcome # "accepted" /\ decisions[j].outcome = "accepted")
    BY DEF IInv, FiledInOrder
  <2> QED
    BY <1>0, <1>2, <1>3, <1>4, <1>5, <1>6, <2>2, <2>3, <2>4, <2>5, <2>6 DEF FiledInOrder
<1> QED
  BY <1>2, <1>7, <1>8, <1>9, <1>10 DEF IInv

\* Saving the hypothesis keeps the invariant.
LEMMA SaveHypothesisInv == ASSUME IInv, SaveHypothesis PROVE IInv'
<1>0. /\ pc = "hypothesis" /\ pc' = "decision" /\ hypotheses' = hypotheses \cup {Id(saving)}
      /\ UNCHANGED <<s, tries, saving, decisions, blobs, torn, baseline, calls, spent>>
  BY DEF SaveHypothesis
<1>1. /\ SlotIsOwn' /\ JudgedOnItsOwn' /\ Sorted' /\ BudgetKept' /\ Goes'
      /\ Candidates' = Candidates
  BY <1>0, FilingInv DEF Persisting
<1>2. /\ Id(saving)' = Id(saving) /\ Filed' = Filed /\ Earlier' = Earlier /\ Known' = Known
      /\ Waiting(s.accepted)' = Waiting(s.accepted)
      /\ \A d \in Candidates : Id(d)' = Id(d) /\ OutcomeOf(d)' = OutcomeOf(d)
  BY <1>0 DEF Id, Filed, Earlier, Known, Waiting, OutcomeOf
<1>3. TypeOK' /\ Dated' /\ Informed'
  BY <1>0, <1>2 DEF IInv, TypeOK, Dated, Informed, Persisting
<1>4. FiledInOrder'
  <2>1. /\ saving \in Candidates /\ Id(saving) \notin Filed
        /\ \E b \in blobs : b.id = Id(saving)
        /\ saving \in s.rejected => Waiting(s.accepted) = {}
    BY <1>0 DEF IInv, FiledInOrder
  <2>2. \A i \in DOMAIN decisions : decisions[i].id[1] = calls =>
            /\ \E d \in Candidates : decisions[i].id = Id(d) /\ decisions[i].outcome = OutcomeOf(d)
            /\ Waiting(s.accepted) # {} => decisions[i].outcome = "accepted"
    BY <1>0 DEF IInv, FiledInOrder, Persisting
  <2>3. \A i \in DOMAIN decisions :
            decisions[i].id \in hypotheses' /\ \E b \in blobs : b.id = decisions[i].id
    BY <1>0 DEF IInv, FiledInOrder
  <2>4. \A i, j \in DOMAIN decisions :
            i < j => /\ decisions[i].id # decisions[j].id
                     /\ decisions[i].id[1] = decisions[j].id[1] =>
                          ~(decisions[i].outcome # "accepted" /\ decisions[j].outcome = "accepted")
    BY DEF IInv, FiledInOrder
  <2> QED
    BY <1>0, <1>1, <1>2, <2>1, <2>2, <2>3, <2>4 DEF FiledInOrder
<1> QED
  BY <1>1, <1>3, <1>4 DEF IInv

\* A new decision is of this call, after all there are.
LEMMA SaveDecisionInv == ASSUME IInv, SaveDecision PROVE IInv'
<1> DEFINE new == [id |-> Id(saving), outcome |-> OutcomeOf(saving), stage |-> saving.reject]
           n == Len(decisions)
<1>0. /\ pc = "decision" /\ pc' = "persist" /\ saving' = EmptySlots
      /\ decisions' = Append(decisions, new)
      /\ UNCHANGED <<s, tries, hypotheses, blobs, torn, baseline, calls, spent>>
  BY DEF SaveDecision
<1>1. /\ SlotIsOwn' /\ JudgedOnItsOwn' /\ Sorted' /\ BudgetKept' /\ Goes'
      /\ Candidates' = Candidates
  BY <1>0, FilingInv DEF Persisting
<1>2. /\ saving \in Candidates /\ Id(saving) \notin Filed /\ Id(saving) \in hypotheses
      /\ \E b \in blobs : b.id = Id(saving)
      /\ saving \in s.rejected => Waiting(s.accepted) = {}
  BY <1>0 DEF IInv, FiledInOrder
<1>3. /\ saving \in Slots /\ calls \in Nat /\ decisions \in Seq(Decisions)
      /\ Id(saving) = <<calls, saving.idea>>
  BY DEF IInv, TypeOK, Id
<1>4. new \in Decisions /\ new.id = Id(saving) /\ new.id[1] = calls /\ new.outcome = OutcomeOf(saving)
  <2>1. Id(saving) \in Ids /\ saving.reject \in Rejections
    BY <1>3 DEF Ids, Slots
  <2>2. OutcomeOf(saving) \in Outcomes
    BY DEF OutcomeOf, Outcomes
  <2> QED
    BY <1>3, <2>1, <2>2 DEF Decisions
<1> HIDE DEF new
<1>5. /\ n \in Nat /\ DOMAIN decisions = 1..n /\ DOMAIN decisions' = 1..(n + 1)
      /\ decisions' \in Seq(Decisions)
      /\ \A i \in 1..n : decisions'[i] = decisions[i]
      /\ decisions'[n + 1] = new
  <2>1. /\ decisions' \in Seq(Decisions) /\ Len(decisions') = n + 1
        /\ \A i \in 1..n : decisions'[i] = decisions[i]
        /\ decisions'[n + 1] = new
    BY <1>0, <1>3, <1>4, AppendProperties
  <2> QED
    BY <1>3, <2>1, LenProperties
<1> HIDE DEF n
<1>6. 1..(n + 1) = (1..n) \cup {n + 1} /\ \A i \in 1..n : i < n + 1 /\ i # n + 1
  BY <1>5
<1>7. \A i \in DOMAIN decisions' : i \in 1..n \/ i = n + 1
  BY <1>5, <1>6
<1>8. Filed' = Filed \cup {Id(saving)}
  BY <1>4, <1>5, <1>6 DEF Filed
<1>9. Earlier' = Earlier /\ Earlier \subseteq 1..n
  BY <1>0, <1>3, <1>4, <1>5, <1>6 DEF Earlier
<1>10. Known' = Known
  BY <1>5, <1>9 DEF Known
<1>11. TypeOK'
  BY <1>0, <1>5, EmptySlotType DEF IInv, TypeOK, Persisting
<1>12. Dated'
  <2>1. \A i \in 1..n : decisions[i].id[1] <= calls
    BY <1>5 DEF IInv, Dated
  <2>2. \A i, j \in 1..n : i < j => decisions[i].id[1] <= decisions[j].id[1]
    BY <1>5 DEF IInv, Dated
  <2>3. \A i \in DOMAIN decisions' : decisions'[i].id[1] <= calls
    BY <1>3, <1>4, <1>5, <1>7, <2>1
  <2>4. ASSUME NEW i \in DOMAIN decisions', NEW j \in DOMAIN decisions', i < j
        PROVE  decisions'[i].id[1] <= decisions'[j].id[1]
    <3>1. i \in 1..n
      BY <1>5, <2>4
    <3>2. CASE j = n + 1
      BY <1>4, <1>5, <2>1, <3>1, <3>2
    <3>3. CASE j \in 1..n
      BY <1>5, <2>2, <2>4, <3>1, <3>3
    <3> QED
      BY <1>7, <3>2, <3>3
  <2> QED
    BY <1>0, <2>3, <2>4 DEF Dated, Persisting
<1>13. Informed'
  <2>1. \A i \in Earlier : decisions'[i] = decisions[i]
    BY <1>5, <1>9
  <2>2. /\ s.priors = {[id |-> decisions[i].id, accepted |-> decisions[i].outcome = "accepted"] :
                          i \in Known}
        /\ \A c \in s.rejected \cup {s.slot} : c.matched # NoMatch =>
            \E i \in Earlier :
                decisions[i].id = c.matched /\ decisions[i].outcome = "rejected"
    BY <1>0 DEF IInv, Informed
  <2>3. {[id |-> decisions[i].id, accepted |-> decisions[i].outcome = "accepted"] : i \in Known}
          = {[id |-> decisions'[i].id, accepted |-> decisions'[i].outcome = "accepted"] :
                i \in Known}
    BY <2>1 DEF Known
  <2>4. \A c \in s.rejected \cup {s.slot} : c.matched # NoMatch =>
            \E i \in Earlier :
                decisions'[i].id = c.matched /\ decisions'[i].outcome = "rejected"
    BY <2>1, <2>2
  <2> QED
    BY <1>0, <1>9, <1>10, <2>2, <2>3, <2>4 DEF Informed
<1>14. FiledInOrder'
  <2>1. \A c \in Candidates : Id(c)' = Id(c) /\ OutcomeOf(c)' = OutcomeOf(c)
    BY <1>0 DEF Id, OutcomeOf
  <2>2. \A i \in 1..n : decisions[i].id[1] = calls =>
            /\ \E d \in Candidates : decisions[i].id = Id(d) /\ decisions[i].outcome = OutcomeOf(d)
            /\ Waiting(s.accepted) # {} => decisions[i].outcome = "accepted"
    BY <1>0, <1>5 DEF IInv, FiledInOrder, Persisting
  <2>3. Waiting(s.accepted)' \subseteq Waiting(s.accepted)
    BY <1>0, <1>8 DEF Waiting, Id
  <2>4. saving \in s.accepted => OutcomeOf(saving) = "accepted"
    BY DEF IInv, Sorted, OutcomeOf, Mechanical
  <2>5. OutcomeOf(saving) = "accepted" => saving \in s.accepted
    BY <1>2 DEF IInv, Sorted, OutcomeOf, Candidates
  <2>6. saving \in s.accepted => Waiting(s.accepted) # {}
    BY <1>2 DEF Waiting
  <2>7. \A i \in DOMAIN decisions' :
            decisions'[i].id \in hypotheses /\ \E b \in blobs : b.id = decisions'[i].id
    <3>1. \A i \in 1..n : decisions[i].id \in hypotheses /\ \E b \in blobs : b.id = decisions[i].id
      BY <1>5 DEF IInv, FiledInOrder
    <3> QED
      BY <1>2, <1>4, <1>5, <1>7, <3>1
  <2>8. ASSUME NEW i \in DOMAIN decisions', NEW j \in DOMAIN decisions', i < j
        PROVE  /\ decisions'[i].id # decisions'[j].id
               /\ decisions'[i].id[1] = decisions'[j].id[1] =>
                    ~(decisions'[i].outcome # "accepted" /\ decisions'[j].outcome = "accepted")
    <3>1. i \in 1..n
      BY <1>5, <2>8
    <3>2. CASE j = n + 1
      <4>1. decisions[i].id # Id(saving)
        BY <1>2, <1>5, <3>1 DEF Filed
      <4>2. decisions[i].id[1] = calls /\ OutcomeOf(saving) = "accepted"
                => decisions[i].outcome = "accepted"
        BY <2>2, <2>5, <2>6, <3>1
      <4> QED
        BY <1>4, <1>5, <3>1, <3>2, <4>1, <4>2
    <3>3. CASE j \in 1..n
      BY <1>5, <2>8, <3>1, <3>3 DEF IInv, FiledInOrder
    <3> QED
      BY <1>7, <3>2, <3>3
  <2>9. ASSUME NEW i \in DOMAIN decisions', decisions'[i].id[1] = calls
        PROVE  /\ \E d \in Candidates :
                    decisions'[i].id = Id(d) /\ decisions'[i].outcome = OutcomeOf(d)
               /\ Waiting(s.accepted)' # {} => decisions'[i].outcome = "accepted"
    <3>1. CASE i = n + 1
      <4>1. Waiting(s.accepted) # {} => saving \in s.accepted
        BY <1>2 DEF Candidates
      <4> QED
        BY <1>2, <1>4, <1>5, <2>3, <2>4, <3>1, <4>1
    <3>2. CASE i \in 1..n
      BY <1>5, <2>2, <2>3, <2>9, <3>2
    <3> QED
      BY <1>7, <3>1, <3>2
  <2> QED
    BY <1>0, <1>1, <2>1, <2>7, <2>8, <2>9 DEF FiledInOrder
<1> QED
  BY <1>1, <1>11, <1>12, <1>13, <1>14 DEF IInv

-----------------------------------------------------------------------------
(* The beginning and the end of a call                                     *)

\* A state with nothing in hand is judged, sorted and within every budget.
LEMMA FreshInv ==
    ASSUME NEW priors \in SUBSET [id : Ids, accepted : BOOLEAN], NEW ceiling \in Nat,
           s' = Fresh(priors, ceiling), spent' = 0, pc' \in {"idle", "diagnose"}
    PROVE  /\ SlotIsOwn' /\ JudgedOnItsOwn' /\ Sorted' /\ BudgetKept'
           /\ s' \in States /\ IsFiniteSet(s'.accepted) /\ IsFiniteSet(s'.rejected)
           /\ Cardinality(s'.accepted) = 0
<1>1. /\ s'.slot = EmptySlots /\ s'.accepted = {} /\ s'.rejected = {} /\ s'.intra = <<>>
      /\ s'.iteration = 0 /\ s'.consumed = 0 /\ s'.reason = "running" /\ s'.ceiling = ceiling
  BY DEF Fresh
<1>2. Candidates' = {} /\ Wasted' = {}
  BY <1>1, EmptySlotType DEF Candidates, Wasted, IsWaste
<1>3. SlotIsOwn'
  BY <1>1
  DEF SlotIsOwn, OwnAt, PastStage1, PastStage2, PastStage3, PastSweep, PastGate, EmptySlots,
      NoAttempt, NoGate, NoVerdict
<1>4. JudgedOnItsOwn'
  <2>1. {s'.intra[i] : i \in DOMAIN s'.intra} = {} /\ Len(s'.intra) = 0
    BY <1>1
  <2>2. s'.slot.idea \in {None, Current'}
    BY <1>3 DEF SlotIsOwn, OwnAt
  <2> QED
    BY <1>1, <1>2, <2>1, <2>2, FS_EmptySet DEF JudgedOnItsOwn, Ideas
<1>5. Sorted'
  BY <1>1, <1>2 DEF Sorted
<1>6. BudgetKept'
  BY <1>1, <1>2, FS_EmptySet, BoundsAssumption DEF BudgetKept
<1> QED
  BY <1>1, <1>3, <1>4, <1>5, <1>6, FreshType, FS_EmptySet

\* Whatever ends a call, what is filed is left as it is.
LEMMA LeaveInv ==
    ASSUME IInv, Leave, UNCHANGED <<hypotheses, decisions, blobs, calls>>
    PROVE  IInv'
<1>1. /\ SlotIsOwn' /\ JudgedOnItsOwn' /\ Sorted' /\ BudgetKept'
      /\ s' \in States /\ IsFiniteSet(s'.accepted) /\ IsFiniteSet(s'.rejected)
  BY FreshInv DEF Leave, Unlimited
<1>2. TypeOK'
  BY <1>1, EmptySlotType DEF IInv, TypeOK, Leave
<1>3. Goes'
  BY BoundsAssumption DEF Goes, Leave, Fresh, Looping
<1>4. Dated' /\ Informed'
  BY DEF IInv, Dated, Informed, Leave
<1>5. FiledInOrder'
  BY DEF IInv, FiledInOrder, Leave, Persisting
<1> QED
  BY <1>1, <1>2, <1>3, <1>4, <1>5 DEF IInv

\* The last decisions are the known ones once all are of earlier calls.
LEMMA RecentAreKnown ==
    ASSUME IInv, calls' = calls + 1, decisions' = decisions
    PROVE  /\ Earlier' = DOMAIN decisions
           /\ Priors = {[id |-> decisions[i].id, accepted |-> decisions[i].outcome = "accepted"] :
                           i \in Known'}
<1> DEFINE n == Len(decisions)
           first == IF n > PriorLimit THEN n - PriorLimit + 1 ELSE 1
<1>1. n \in Nat /\ DOMAIN decisions = 1..n /\ PriorLimit \in Nat /\ first \in Nat \ {0}
  BY LenProperties, BoundsAssumption DEF IInv, TypeOK
<1>2. Earlier' = 1..n
  <2>1. \A i \in DOMAIN decisions : decisions[i].id[1] < calls + 1
    <3> TAKE i \in DOMAIN decisions
    <3>1. decisions[i].id[1] <= calls /\ decisions[i].id[1] \in Nat /\ calls \in Nat
      BY DecisionType DEF IInv, Dated
    <3> QED
      BY <3>1
  <2> QED
    BY <1>1, <2>1 DEF Earlier
<1>3. ASSUME NEW j \in 1..n
      PROVE  Cardinality({k \in 1..n : k >= j}) <= PriorLimit <=> j \in first..n
  <2>1. {k \in 1..n : k >= j} = j..n
    BY <1>1
  <2>2. Cardinality(j..n) = n - j + 1
    BY <1>1, FS_Interval
  <2>3. j \in first..n <=> n - j + 1 <= PriorLimit
    <3> HIDE DEF n
    <3> QED
      BY <1>1
  <2> HIDE DEF n, first
  <2> QED
    BY <2>1, <2>2, <2>3
<1>4. Known' = {j \in 1..n : j \in first..n /\ decisions[j].outcome # "deferred"}
  BY <1>2, <1>3 DEF Known
<1>5. \A j \in first..n : j \in 1..n
  BY <1>1
<1>6. \A j \in first..n : decisions[j].id \in hypotheses
  BY <1>1, <1>5 DEF IInv, FiledInOrder
<1>7. Recent = {decisions[i] : i \in first..n}
  BY DEF Recent
<1>8. {e \in Recent : e.outcome # "deferred" /\ e.id \in hypotheses}
        = {decisions[i] : i \in Known'}
  <2> HIDE DEF first, n
  <2> QED
    BY <1>4, <1>5, <1>6, <1>7
<1> QED
  BY <1>1, <1>2, <1>8 DEF Priors

\* Beginning a session keeps the invariant.
LEMMA BeginInv == ASSUME IInv, Begin PROVE IInv'
<1>0. pc = "idle" /\ calls' = calls + 1 /\ calls \in Nat /\ s = Fresh({}, Unlimited)
  BY DEF Begin, IInv, TypeOK, Goes
<1>1. /\ UNCHANGED <<hypotheses, decisions, blobs, tries, saving, spent>>
      /\ \/ UNCHANGED <<pc, s>>
         \/ pc' = "diagnose" /\ \E ceiling \in Ceilings : s' = Fresh(Priors, ceiling)
  BY DEF Begin, ledger
<1>2. Earlier' = DOMAIN decisions
  BY <1>0, <1>1, RecentAreKnown
<1>3. Dated'
  <2>1. \A i \in DOMAIN decisions : decisions[i].id[1] < calls + 1 /\ decisions[i].id[1] <= calls + 1
    <3> TAKE i \in DOMAIN decisions
    <3>1. decisions[i].id[1] <= calls /\ decisions[i].id[1] \in Nat
      BY DecisionType DEF IInv, Dated
    <3> QED
      BY <1>0, <3>1
  <2> QED
    BY <1>0, <1>1, <2>1 DEF IInv, Dated
<1>4. CASE UNCHANGED <<pc, s>>
  <2>1. TypeOK'
    BY <1>0, <1>1, <1>4 DEF IInv, TypeOK
  <2>2. SlotIsOwn' /\ Sorted' /\ Goes' /\ BudgetKept'
    BY <1>0, <1>1, <1>4
    DEF IInv, SlotIsOwn, Current, Sorted, Candidates, Goes, Looping, BudgetKept, Wasted
  <2>3. JudgedOnItsOwn'
    BY <1>4, <2>2, SameJudged DEF IInv, SlotIsOwn, OwnAt
  <2>4. Informed' /\ FiledInOrder'
    BY <1>0, <1>1, <1>4 DEF IInv, Informed, FiledInOrder, Persisting
  <2> QED
    BY <1>3, <2>1, <2>2, <2>3, <2>4 DEF IInv
<1>5. CASE pc' = "diagnose" /\ \E ceiling \in Ceilings : s' = Fresh(Priors, ceiling)
  <2>1. PICK ceiling \in Ceilings : s' = Fresh(Priors, ceiling)
    BY <1>5
  <2>2. Priors \in SUBSET [id : Ids, accepted : BOOLEAN]
    <3>1. \A i \in DOMAIN decisions : decisions[i].id \in Ids
      BY DecisionType DEF IInv
    <3>2. Known' \subseteq DOMAIN decisions
      BY <1>2 DEF Known
    <3>3. \A i \in Known' :
            [id |-> decisions[i].id, accepted |-> decisions[i].outcome = "accepted"]
              \in [id : Ids, accepted : BOOLEAN]
      BY <3>1, <3>2
    <3>4. Priors = {[id |-> decisions[i].id, accepted |-> decisions[i].outcome = "accepted"] :
                       i \in Known'}
      BY <1>0, <1>1, RecentAreKnown
    <3> QED
      BY <3>3, <3>4
  <2>3. ceiling \in Nat /\ spent = 0
    BY <1>0, BoundsAssumption DEF IInv, Goes
  <2>4. /\ SlotIsOwn' /\ JudgedOnItsOwn' /\ Sorted' /\ BudgetKept'
        /\ s' \in States /\ IsFiniteSet(s'.accepted) /\ IsFiniteSet(s'.rejected)
        /\ Cardinality(s'.accepted) = 0
    BY <1>1, <1>5, <2>1, <2>2, <2>3, FreshInv
  <2>5. TypeOK'
    BY <1>0, <1>1, <1>5, <2>4 DEF IInv, TypeOK, Looping
  <2>6. Goes'
    BY <1>5, <2>1, <2>4, BoundsAssumption DEF Goes, Fresh
  <2>7. Informed'
    <3>1. s'.priors = Priors /\ s'.rejected = {} /\ s'.slot.matched = NoMatch
      BY <2>1 DEF Fresh, EmptySlots
    <3>2. decisions' = decisions
      BY <1>1
    <3> QED
      BY <1>0, <3>1, <3>2, RecentAreKnown DEF Informed
  <2>8. FiledInOrder'
    BY <1>1, <1>5 DEF IInv, FiledInOrder, Persisting
  <2> QED
    BY <1>3, <2>4, <2>5, <2>6, <2>7, <2>8 DEF IInv
<1> QED
  BY <1>1, <1>4, <1>5

-----------------------------------------------------------------------------
(* The theorems                                                            *)

\* The invariant is inductive.
THEOREM InductiveInvariant == Spec => []IInv
<1>1. IInv /\ [Next]_vars => IInv'
  <2> SUFFICES ASSUME IInv, [Next]_vars PROVE IInv'
    OBVIOUS
  <2>1. CASE Begin
    BY <2>1, BeginInv
  <2>2. CASE Prepare \/ PassOver
    BY <2>2, QuietInv
  <2>3. CASE \E i \in Stages : FailStage(i) \/ PassStage(i)
    BY <2>3, StageInv
  <2>4. CASE CheapCritique
    BY <2>4, CheapCritiqueInv
  <2>5. CASE MiniOptimize
    BY <2>5, MiniOptimizeInv
  <2>6. CASE MechanicalGate
    BY <2>6, MechanicalGateInv
  <2>7. CASE VerdictCritique
    BY <2>7, VerdictCritiqueInv
  <2>8. CASE Rank
    BY <2>8, RankInv
  <2>9. CASE Select
    BY <2>9, SelectInv
  <2>10. CASE SaveBlobs
    BY <2>10, SaveBlobsInv
  <2>11. CASE SaveHypothesis
    BY <2>11, SaveHypothesisInv
  <2>12. CASE SaveDecision
    BY <2>12, SaveDecisionInv
  <2>13. CASE FailToAppend \/ Return \/ Die \/ DieWriting
    <3>1. Leave /\ UNCHANGED <<hypotheses, decisions, blobs, calls>>
      BY <2>13 DEF FailToAppend, Return, Die, DieWriting, ledger
    <3> QED
      BY <3>1, LeaveInv
  <2>14. CASE UNCHANGED vars
    <3>1. UNCHANGED <<pc, s, tries, saving, hypotheses, decisions, blobs, calls, spent>>
      BY <2>14 DEF vars, ledger
    <3>2. Candidates' = Candidates /\ Current' = Current /\ Wasted' = Wasted
      BY <3>1 DEF Candidates, Current, Wasted
    <3>3. TypeOK' /\ SlotIsOwn' /\ Sorted' /\ BudgetKept' /\ Goes' /\ Dated'
      <4>1. TypeOK' /\ SlotIsOwn'
        BY <3>1, <3>2 DEF IInv, TypeOK, SlotIsOwn
      <4>2. Sorted' /\ Dated'
        BY <3>1, <3>2 DEF IInv, Sorted, Dated
      <4>3. BudgetKept' /\ Goes'
        BY <3>1, <3>2 DEF IInv, BudgetKept, Goes, Enough
      <4> QED
        BY <4>1, <4>2, <4>3
    <3>4. JudgedOnItsOwn'
      BY <3>1, <3>3, SameJudged DEF IInv, SlotIsOwn, OwnAt
    <3>5. Informed'
      <4>1. Earlier' = Earlier /\ decisions' = decisions
        BY <3>1 DEF Earlier
      <4>2. Known' = Known
        BY <4>1 DEF Known
      <4>3. Informed
        BY DEF IInv
      <4> QED
        BY <3>1, <4>1, <4>2, <4>3 DEF Informed
    <3>6. FiledInOrder'
      <4>1. /\ Filed' = Filed /\ Id(saving)' = Id(saving)
            /\ Waiting(s.accepted)' = Waiting(s.accepted)
            /\ \A c \in Candidates : Id(c)' = Id(c) /\ OutcomeOf(c)' = OutcomeOf(c)
        BY <3>1 DEF Waiting, Filed, Id, OutcomeOf
      <4>2. FiledInOrder
        BY DEF IInv
      <4> QED
        BY <3>1, <3>2, <4>1, <4>2 DEF FiledInOrder
    <3> QED
      BY <3>3, <3>4, <3>5, <3>6 DEF IInv
  <2> QED
    BY <2>1, <2>2, <2>3, <2>4, <2>5, <2>6, <2>7, <2>8, <2>9, <2>10, <2>11, <2>12, <2>13, <2>14
    DEF Next, Step
<1> QED
  BY <1>1, InitInv, PTL DEF Spec

\* Every idea is judged once, on emissions of its own iteration, and what is
\* accepted has passed the gate and the critic (JudgedOnItsOwn).
THEOREM AlwaysJudgedOnItsOwn == Spec => []JudgedOnItsOwn
  BY InductiveInvariant, PTL DEF IInv

\* What a call runs stays within its ceiling, but for the sweeps it throws
\* away, and the loop ends for one of its two reasons (BudgetKept).
THEOREM BudgetAlwaysKept == Spec => []BudgetKept
  BY InductiveInvariant, PTL DEF IInv

\* A call is told of exactly the latest decisions on the merits
\* (LearnsOnlyFromVerdicts).
THEOREM AlwaysLearnsFromVerdicts == Spec => []LearnsOnlyFromVerdicts
<1>1. IInv => LearnsOnlyFromVerdicts
  <2> SUFFICES ASSUME IInv, pc # "idle"
               PROVE  /\ {p.id : p \in s.priors} = {decisions[i].id : i \in Known}
                      /\ \A c \in s.rejected : c.matched # NoMatch =>
                          \E i \in Earlier :
                              decisions[i].id = c.matched /\ decisions[i].outcome = "rejected"
    BY DEF LearnsOnlyFromVerdicts, Known
  <2>1. s.priors = {[id |-> decisions[i].id, accepted |-> decisions[i].outcome = "accepted"] :
                       i \in Known}
    BY DEF IInv, Informed
  <2>2. {p.id : p \in s.priors} = {decisions[i].id : i \in Known}
    <3>1. \A p \in s.priors : \E i \in Known : p.id = decisions[i].id
      BY <2>1
    <3>2. \A i \in Known : \E p \in s.priors : p.id = decisions[i].id
      <4> TAKE i \in Known
      <4>1. [id |-> decisions[i].id, accepted |-> decisions[i].outcome = "accepted"] \in s.priors
        BY <2>1
      <4> QED
        BY <4>1
    <3> QED
      BY <3>1, <3>2
  <2> QED
    BY <2>2 DEF IInv, Informed
<1> QED
  BY <1>1, InductiveInvariant, PTL

\* Among candidates there is one of the earliest idea.
LEMMA FirstOne ==
    ASSUME NEW C, C # {}, \A c \in C : c.idea \in Nat
    PROVE  \E c \in C : \A d \in C : c.idea <= d.idea
<1> DEFINE ideas == {c.idea : c \in C}
<1>1. ideas \subseteq Nat /\ ideas # {}
  OBVIOUS
<1> HIDE DEF ideas
<1>2. \E n \in ideas : \A m \in ideas : ~(<<m, n>> \in OpToRel(<, Nat))
  BY <1>1, NatLessThanWellFounded, WFMin
<1>3. PICK n \in ideas : \A m \in ideas : ~(m < n)
  BY <1>1, <1>2 DEF OpToRel
<1>4. \A m \in ideas : n <= m
  BY <1>1, <1>3
<1> QED
  BY <1>4 DEF ideas

\* What is on file hangs together, and a call that files all it has leaves a
\* decision for every candidate (DecisionsComplete).
THEOREM DecisionsAlwaysComplete == Spec => []DecisionsComplete
<1>1. IInv => DecisionsComplete
  <2> SUFFICES ASSUME IInv, pc = "persist", NextToSave = {}
               PROVE  {<<decisions[i].id, decisions[i].outcome>> :
                          i \in {j \in DOMAIN decisions : decisions[j].id[1] = calls}}
                        = {<<Id(c), OutcomeOf(c)>> : c \in Candidates}
    BY DEF DecisionsComplete, IInv, FiledInOrder
  <2>1. \A i \in DOMAIN decisions : decisions[i].id[1] = calls =>
            \E c \in Candidates : decisions[i].id = Id(c) /\ decisions[i].outcome = OutcomeOf(c)
    BY DEF IInv, FiledInOrder, Persisting
  <2>2. \A c \in Candidates : c.idea \in Nat
    <3>1. \A c \in Candidates : c \in Slots
      BY DEF Candidates, IInv, TypeOK, States
    <3> QED
      BY <3>1 DEF Slots
  <2>3. Waiting(s.accepted) = {} /\ Waiting(s.rejected) = {}
    <3>1. Waiting(s.accepted) = {}
      BY DEF NextToSave
    <3>2. Waiting(s.rejected) # {} =>
            \E c \in Waiting(s.rejected) : \A d \in Waiting(s.rejected) : c.idea <= d.idea
      BY <2>2, FirstOne DEF Waiting, Candidates
    <3> QED
      BY <3>1, <3>2 DEF NextToSave
  <2>4. ASSUME NEW c \in Candidates
        PROVE  \E i \in DOMAIN decisions : /\ decisions[i].id[1] = calls /\ decisions[i].id = Id(c)
                                           /\ decisions[i].outcome = OutcomeOf(c)
    <3>1. Id(c) \in Filed
      BY <2>3 DEF Waiting, Candidates
    <3>2. PICK i \in DOMAIN decisions : decisions[i].id = Id(c)
      BY <3>1 DEF Filed
    <3>3. decisions[i].id[1] = calls
      BY <3>2 DEF Id
    <3>4. PICK d \in Candidates : decisions[i].id = Id(d) /\ decisions[i].outcome = OutcomeOf(d)
      BY <2>1, <3>3
    <3>5. c = d
      BY <3>2, <3>4 DEF Id, IInv, Sorted
    <3> QED
      BY <3>2, <3>3, <3>4, <3>5
  <2> QED
    BY <2>1, <2>4
<1> QED
  BY <1>1, InductiveInvariant, PTL
=============================================================================

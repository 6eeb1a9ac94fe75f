-------------------------- MODULE EngineJobs_proofs --------------------------
(***************************************************************************)
(* Proofs about the job table, for any number of batches and runs.  The    *)
(* inductive invariant ties an entry of the table to the detached thread   *)
(* of its batch, and an answer to the outcome that thread had.             *)
(***************************************************************************)
EXTENDS EngineJobs, TLAPS

CalledKinds == {"smoke", "batch", "metrics", "replay"}
Silent == [at : {"none", "executing", "dead", "killed"}]
With(k) == [at : {"returned", "published"}, outcome : Outcomes(k)]

TypeOK ==
    /\ DOMAIN table \subseteq Handles
    /\ DOMAIN thread = Handles
    /\ \A h \in Handles : thread[h] \in Silent \cup With(kind[h])
    /\ flag \in [Handles -> BOOLEAN]
    /\ kind \in [Handles -> Kinds \cup {"none"}]
    /\ DOMAIN answer = Handles
    /\ call \in [handle : {{}} \cup {{h} : h \in Handles}, late : BOOLEAN]
    /\ alive \in BOOLEAN

\* An entry that is not Running is what its thread has published.
EntriesAreOutcomes ==
    \A h \in DOMAIN table : table[h] # Running =>
        thread[h].at = "published" /\ table[h] = thread[h].outcome

\* What is polled has been submitted for an answer, and has none yet.
PolledIsOpen ==
    \A h \in Handles : call.handle = {h} =>
        kind[h] \in CalledKinds /\ (alive => h \in DOMAIN table)

\* A batch never submitted has no thread.
UnusedIsIdle == \A h \in Handles : kind[h] = "none" => thread[h].at = "none"

GivenUp == {<<"none">>, <<"handle">>, <<"timeout">>, <<"interrupted">>}
\* An answer is made of the outcome of the batch's own thread.
AnswersAreOfOutcomes ==
    \A h \in Handles : answer[h] \notin GivenUp =>
        /\ Done(h) /\ kind[h] \in CalledKinds
        /\ answer[h] = AnswerTo(kind[h], thread[h].outcome)

IInv == /\ TypeOK /\ EntriesAreOutcomes /\ PolledIsOpen /\ UnusedIsIdle
        /\ AnswersAreOfOutcomes /\ OnlyGivenUpBatchesRunOn

\* The invariant holds before any call.
LEMMA InitInv == Init => IInv
  BY DEF Init, IInv, TypeOK, Silent, Kinds, NoCall, EntriesAreOutcomes, PolledIsOpen,
         UnusedIsIdle, AnswersAreOfOutcomes, GivenUp, Unanswered, OnlyGivenUpBatchesRunOn

(***************************************************************************)
(* Every step preserves the invariant                                      *)
(***************************************************************************)
\* A new batch has an entry of its own, a thread, and no answer.
LEMMA SubmitInv ==
    ASSUME IInv, NEW h \in Handles, NEW k \in Kinds, Submit(h, k)
    PROVE  IInv'
<1> USE DEF IInv, Submit
<1>1. TypeOK'
  BY DEF TypeOK, Silent, With, Kinds, NoCall
<1>2. EntriesAreOutcomes'
  BY DEF TypeOK, EntriesAreOutcomes, UnusedIsIdle, Running, Ended
<1>3. PolledIsOpen'
  BY DEF TypeOK, PolledIsOpen, CalledKinds, Kinds, NoCall
<1>4. UnusedIsIdle'
  BY DEF TypeOK, UnusedIsIdle, Kinds
<1>5. AnswersAreOfOutcomes'
  <2> SUFFICES ASSUME NEW g \in Handles, answer'[g] \notin GivenUp
               PROVE  /\ Done(g)' /\ kind'[g] \in CalledKinds
                      /\ answer'[g] = AnswerTo(kind'[g], thread'[g].outcome)
    BY DEF AnswersAreOfOutcomes
  <2>1. answer[g] \notin GivenUp
    BY DEF TypeOK, GivenUp
  <2>2. g # h
    BY <2>1 DEF AnswersAreOfOutcomes, CalledKinds
  <2> QED
    BY <2>1, <2>2 DEF TypeOK, AnswersAreOfOutcomes, Done
<1>6. OnlyGivenUpBatchesRunOn'
  BY DEF TypeOK, OnlyGivenUpBatchesRunOn, NoCall, Kinds
<1> QED
  BY <1>1, <1>2, <1>3, <1>4, <1>5, <1>6

\* The batch of a call that comes back with something is over, or given up.
LEMMA ReturnInv ==
    ASSUME IInv, NEW h \in Handles, Polling(h), NEW what, Return(h, what),
           \/ what \in {<<"timeout">>, <<"interrupted">>}
           \/ Done(h) /\ what = AnswerTo(kind[h], thread[h].outcome)
    PROVE  IInv'
<1> USE DEF IInv, Return, Polling
<1>1. TypeOK'
  BY DEF TypeOK, Silent, With, NoCall, AfterCall, Without
<1>2. EntriesAreOutcomes' /\ PolledIsOpen'
  BY DEF TypeOK, EntriesAreOutcomes, PolledIsOpen, AfterCall, Without, NoCall
<1>3. UnusedIsIdle'
  BY DEF UnusedIsIdle
<1>4. AnswersAreOfOutcomes'
  BY DEF TypeOK, AnswersAreOfOutcomes, PolledIsOpen, GivenUp, Done
<1>5. OnlyGivenUpBatchesRunOn'
  <2> SUFFICES ASSUME NEW g \in Handles, thread[g].at = "executing"
               PROVE  answer'[g] \in {<<"timeout">>, <<"interrupted">>, <<"handle">>}
    BY DEF OnlyGivenUpBatchesRunOn
  <2>1. CASE g = h
    BY <2>1 DEF TypeOK, Done
  <2>2. CASE g # h
    <3>1. call.handle # {g}
      BY <2>2
    <3> QED
      BY <2>2, <3>1 DEF TypeOK, OnlyGivenUpBatchesRunOn
  <2> QED
    BY <2>1, <2>2
<1> QED
  BY <1>1, <1>2, <1>3, <1>4, <1>5

\* The caller answers with the outcome of the thread, or gives up.
LEMMA CallerInv ==
    ASSUME IInv, NEW h \in Handles, Caller(h) \/ Interrupt(h)
    PROVE  IInv'
<1>1. CASE PollTerminal(h)
  <2>1. h \in DOMAIN table
    BY <1>1 DEF PollTerminal, Polling, IInv, PolledIsOpen
  <2>2. Done(h) /\ table[h] = thread[h].outcome
    BY <1>1, <2>1 DEF PollTerminal, IInv, EntriesAreOutcomes, Done
  <2> QED
    BY <1>1, <2>2, ReturnInv DEF PollTerminal
<1>2. CASE PollLate(h)
  BY <1>2, ReturnInv DEF PollLate
<1>3. CASE Interrupt(h)
  BY <1>3, ReturnInv DEF Interrupt
<1> QED
  BY <1>1, <1>2, <1>3 DEF Caller

\* Raising a flag, and the clock, touch no outcome.
LEMMA CancelInv == ASSUME IInv, NEW h \in Handles, Cancel(h) PROVE IInv'
<1> USE DEF IInv, Cancel
<1>1. TypeOK'
  BY DEF TypeOK, Silent, With
<1>2. EntriesAreOutcomes' /\ PolledIsOpen' /\ UnusedIsIdle'
  BY DEF EntriesAreOutcomes, PolledIsOpen, UnusedIsIdle
<1>3. AnswersAreOfOutcomes' /\ OnlyGivenUpBatchesRunOn'
  BY DEF AnswersAreOfOutcomes, OnlyGivenUpBatchesRunOn, Done
<1> QED
  BY <1>1, <1>2, <1>3

\* A deadline that passes keeps the invariant.
LEMMA DeadlineInv == ASSUME IInv, DeadlinePasses PROVE IInv'
<1> USE DEF IInv, DeadlinePasses
<1>1. TypeOK' /\ call'.handle = call.handle
  BY DEF TypeOK, Silent, With
<1>2. EntriesAreOutcomes' /\ PolledIsOpen' /\ UnusedIsIdle'
  BY <1>1 DEF EntriesAreOutcomes, PolledIsOpen, UnusedIsIdle
<1>3. AnswersAreOfOutcomes' /\ OnlyGivenUpBatchesRunOn'
  BY <1>1 DEF AnswersAreOfOutcomes, OnlyGivenUpBatchesRunOn, Done
<1> QED
  BY <1>1, <1>2, <1>3

\* What execute returns is stored as it was; a panic leaves the entry alone.
LEMMA ThreadInv == ASSUME IInv, NEW h \in Handles, Thread(h) PROVE IInv'
<1> USE DEF IInv
<1>1. CASE Execute(h)
  <2> USE <1>1 DEF Execute
  <2>1. TypeOK'
    BY DEF TypeOK, Silent, With
  <2>2. EntriesAreOutcomes' /\ PolledIsOpen' /\ UnusedIsIdle'
    BY DEF TypeOK, EntriesAreOutcomes, PolledIsOpen, UnusedIsIdle
  <2>3. AnswersAreOfOutcomes' /\ OnlyGivenUpBatchesRunOn'
    BY DEF TypeOK, AnswersAreOfOutcomes, OnlyGivenUpBatchesRunOn, Done
  <2> QED
    BY <2>1, <2>2, <2>3
<1>2. CASE Panic(h)
  <2> USE <1>2 DEF Panic
  <2>1. TypeOK'
    BY DEF TypeOK, Silent, With
  <2>2. EntriesAreOutcomes' /\ PolledIsOpen' /\ UnusedIsIdle'
    BY DEF TypeOK, EntriesAreOutcomes, PolledIsOpen, UnusedIsIdle
  <2>3. AnswersAreOfOutcomes' /\ OnlyGivenUpBatchesRunOn'
    BY DEF TypeOK, AnswersAreOfOutcomes, OnlyGivenUpBatchesRunOn, Done
  <2> QED
    BY <2>1, <2>2, <2>3
<1>3. CASE Publish(h)
  <2>1. PICK o \in Outcomes(kind[h]) : thread[h] = [at |-> "returned", outcome |-> o]
    BY <1>3 DEF Publish, TypeOK, Silent, With
  <2>2. [thread[h] EXCEPT !.at = "published"] = [at |-> "published", outcome |-> o]
    BY <2>1
  <2>3. /\ thread' = [thread EXCEPT ![h] = [at |-> "published", outcome |-> o]]
        /\ table' = [g \in DOMAIN table |-> IF g = h THEN o ELSE table[g]]
        /\ UNCHANGED <<flag, kind, answer, call, alive>>
    BY <1>3, <2>1, <2>2 DEF Publish
  <2>4. TypeOK'
    BY <2>3 DEF TypeOK, Silent, With
  <2>5. EntriesAreOutcomes'
    BY <2>1, <2>3 DEF TypeOK, EntriesAreOutcomes
  <2>6. PolledIsOpen' /\ UnusedIsIdle'
    BY <2>1, <2>3 DEF TypeOK, PolledIsOpen, UnusedIsIdle
  <2>7. AnswersAreOfOutcomes' /\ OnlyGivenUpBatchesRunOn'
    BY <2>1, <2>3 DEF TypeOK, AnswersAreOfOutcomes, OnlyGivenUpBatchesRunOn, Done
  <2> QED
    BY <2>4, <2>5, <2>6, <2>7
<1> QED
  BY <1>1, <1>2, <1>3 DEF Thread

\* What has been answered outlives the process.
LEMMA ExitInv == ASSUME IInv, Exit PROVE IInv'
<1> USE DEF IInv, Exit
<1>1. TypeOK'
  BY DEF TypeOK, Silent, With
<1>2. EntriesAreOutcomes' /\ PolledIsOpen' /\ UnusedIsIdle'
  BY DEF TypeOK, EntriesAreOutcomes, PolledIsOpen, UnusedIsIdle
<1>3. AnswersAreOfOutcomes' /\ OnlyGivenUpBatchesRunOn'
  BY DEF TypeOK, AnswersAreOfOutcomes, OnlyGivenUpBatchesRunOn, Done
<1> QED
  BY <1>1, <1>2, <1>3

\* Every step, and every stutter, keeps the invariant.
LEMMA NextInv == IInv /\ [Next]_vars => IInv'
<1> SUFFICES ASSUME IInv, [Next]_vars PROVE IInv'
  OBVIOUS
<1>1. ASSUME NEW h \in Handles,
             \/ RunSmoke(h) \/ SubmitAndCollect(h) \/ EvaluateFold(h) \/ ReplayTrial(h)
             \/ RunCommand(h)
      PROVE  IInv'
  BY <1>1, SubmitInv DEF RunSmoke, SubmitAndCollect, EvaluateFold, ReplayTrial, RunCommand, Kinds
<1>2. ASSUME NEW h \in Handles, Caller(h) \/ Interrupt(h) PROVE IInv'
  BY <1>2, CallerInv
<1>3. ASSUME NEW h \in Handles, Cancel(h) PROVE IInv'
  BY <1>3, CancelInv
<1>4. ASSUME NEW h \in Handles, Thread(h) PROVE IInv'
  BY <1>4, ThreadInv
<1>5. CASE DeadlinePasses
  BY <1>5, DeadlineInv
<1>6. CASE Exit
  BY <1>6, ExitInv
<1>7. CASE UNCHANGED vars
  BY <1>7 DEF vars, IInv, TypeOK, EntriesAreOutcomes, PolledIsOpen, UnusedIsIdle,
              AnswersAreOfOutcomes, OnlyGivenUpBatchesRunOn, Done
<1> QED
  BY <1>1, <1>2, <1>3, <1>4, <1>5, <1>6, <1>7 DEF Next

\* The inductive invariant holds in every state of the job table.
THEOREM InductiveInvariant == Spec => []IInv
  BY InitInv, NextInv, PTL DEF Spec

(***************************************************************************)
(* What answers mean                                                       *)
(***************************************************************************)
\* A smoke run passes only if execute returned one that traded enough.
LEMMA SmokePasses ==
    ASSUME NEW outcome \in Outcomes("smoke"), SmokeAnswer(outcome) = "smoke_passed"
    PROVE  \E run \in SmokeRuns :
               /\ outcome = Completed([i \in {1} |-> run])
               /\ run.trades >= MinTrades /\ run.trips <= MaxSanityTrips
<1>1. outcome.status = "completed"
  BY DEF Outcomes, Completed, Ended, SmokeAnswer
<1>2. PICK R \in SUBSET {1} : \E f \in [R -> RunResults("smoke")] : outcome = Completed(f)
  BY <1>1 DEF Outcomes, Completed, Ended, RunsOf
<1>3. PICK f \in [R -> RunResults("smoke")] : outcome = Completed(f)
  BY <1>2
<1>4. 1 \in R /\ R = {1}
  BY <1>1, <1>3 DEF SmokeAnswer, Completed
<1>5. f[1] \in SmokeRuns /\ f = [i \in {1} |-> f[1]]
  BY <1>1, <1>3, <1>4 DEF SmokeAnswer, Completed, RunResults, RunFailed
<1>6. f[1].trades >= MinTrades /\ f[1].trips <= MaxSanityTrips
  BY <1>1, <1>3, <1>4, <1>5, EngineJobsAssumption DEF SmokeAnswer, Completed, SmokeRuns
<1> QED
  BY <1>3, <1>5, <1>6

\* Metrics are those of one run that went well.
LEMMA MetricsAreTheRuns ==
    ASSUME NEW outcome \in Outcomes("metrics"), MetricsAnswer(outcome) = "metrics"
    PROVE  outcome = Completed([i \in {1} |-> [ok |-> TRUE]])
<1>1. outcome.status = "completed"
  BY DEF Outcomes, Completed, Ended, MetricsAnswer
<1>2. PICK R \in SUBSET {1} : \E f \in [R -> RunResults("metrics")] : outcome = Completed(f)
  BY <1>1 DEF Outcomes, Completed, Ended, RunsOf
<1>3. PICK f \in [R -> RunResults("metrics")] : outcome = Completed(f)
  BY <1>2
<1>4. 1 \in R /\ R = {1}
  BY <1>1, <1>3 DEF MetricsAnswer, Completed
<1>5. f[1] = [ok |-> TRUE]
  BY <1>1, <1>3, <1>4 DEF MetricsAnswer, Completed, RunResults, RunFailed
<1> QED
  BY <1>3, <1>4, <1>5

\* Every answer is what execute returned for the batch it was asked of
\* (AnswersAreTrue).
THEOREM AnswersAlwaysTrue == Spec => []AnswersAreTrue
<1>1. IInv => AnswersAreTrue
  <2> SUFFICES ASSUME IInv, NEW h \in Handles, Reported(h)
               PROVE  /\ Done(h)
                      /\ kind[h] = "smoke" /\ answer[h] = <<"smoke_passed">> =>
                            \E run \in SmokeRuns :
                                /\ thread[h].outcome = Completed([i \in {1} |-> run])
                                /\ run.trades >= MinTrades /\ run.trips <= MaxSanityTrips
                      /\ kind[h] = "metrics" /\ answer[h] = <<"metrics">> =>
                            thread[h].outcome = Completed([i \in {1} |-> [ok |-> TRUE]])
                      /\ kind[h] = "batch" => \A i \in 1..NumRuns :
                            answer[h][i] = "ok" <=>
                                /\ thread[h].outcome.status = "completed"
                                /\ i \in DOMAIN thread[h].outcome.results
                                /\ thread[h].outcome.results[i].ok
    BY DEF AnswersAreTrue
  <2>1. answer[h] \notin GivenUp
    BY DEF Reported, GivenUp
  <2>2. /\ Done(h) /\ kind[h] \in CalledKinds
        /\ answer[h] = AnswerTo(kind[h], thread[h].outcome)
    BY <2>1 DEF IInv, AnswersAreOfOutcomes
  <2>3. thread[h].outcome \in Outcomes(kind[h])
    BY <2>2 DEF IInv, TypeOK, Silent, With, Done
  <2>4. CASE kind[h] = "smoke"
    BY <2>2, <2>3, <2>4, SmokePasses DEF AnswerTo
  <2>5. CASE kind[h] = "metrics"
    BY <2>2, <2>3, <2>5, MetricsAreTheRuns DEF AnswerTo
  <2>6. CASE kind[h] = "batch"
    <3>1. answer[h] = BatchAnswer(thread[h].outcome)
      BY <2>2, <2>6 DEF AnswerTo
    <3>2. thread[h].outcome.status \in {"completed", "failed", "cancelled"}
      BY <2>3, <2>6 DEF Outcomes, Completed, Ended
    <3> QED
      BY <2>2, <2>6, <3>1, <3>2 DEF BatchAnswer
  <2>7. CASE kind[h] = "replay"
    BY <2>2, <2>7
  <2> QED
    BY <2>2, <2>4, <2>5, <2>6, <2>7 DEF CalledKinds
<1> QED
  BY <1>1, InductiveInvariant, PTL

\* A batch that still executes is polled, or its caller gave it up
\* (OnlyGivenUpBatchesRunOn).
THEOREM OnlyGivenUpRunOn == Spec => []OnlyGivenUpBatchesRunOn
  BY InductiveInvariant, PTL DEF IInv
=============================================================================

----------------------------- MODULE EngineJobs -----------------------------
(***************************************************************************)
(* The job table of an Engine (engine_mod.rs, engine.py) and the calls the *)
(* program makes on it: a smoke run polled up to a deadline (tester.py), a *)
(* batch polled without one (optimization_runner.py, hypothesize_wiring.py,*)
(* cli.py), and `run` without --wait, which prints the handle and exits.   *)
(*                                                                         *)
(* One thread calls, one batch after another; a detached thread per batch  *)
(* executes it.  What execute may do is the contract of the Coordinator    *)
(* module: it returns results, an error, or that it was cancelled.         *)
(***************************************************************************)
EXTENDS Integers, FiniteSets

CONSTANTS
    Handles,        \* uuids: one for each batch ever submitted
    NumRuns,        \* len(spec["runs"]) of a batch; a smoke spec has one
    MinTrades,      \* SmokePolicy.min_trades
    MaxSanityTrips, \* SmokePolicy.max_sanity_trips
    MaxTrades,      \* bound: trades of a run
    MaxTrips        \* bound: sanity events in its exec_log

ASSUME EngineJobsAssumption ==
    /\ NumRuns \in Nat \ {0} /\ MinTrades \in Nat /\ MaxSanityTrips \in Nat
    /\ MaxTrades \in Nat /\ MaxTrips \in Nat

VARIABLES
    table,      \* handles: the entries of the HashMap and their JobState
    thread,     \* the detached thread of each batch
    flag,       \* its cancel flag, which outlives the entry
    kind,       \* what the batch was submitted for
    answer,     \* what the call came back with
    call,       \* the handle being polled, and whether its deadline has passed
    alive       \* the process

vars == <<table, thread, flag, kind, answer, call, alive>>

Kinds == {"smoke", "batch", "metrics", "replay", "print"}
RunsOf(k) == IF k \in {"smoke", "metrics", "replay"} THEN {1} ELSE 1..NumRuns

(***************************************************************************)
(* Outcomes of execute.  A run failed, or has trades and sanity trips.     *)
(* Completed results name their run; an engine that loses one is external. *)
(***************************************************************************)
RunFailed == [ok |-> FALSE]
SmokeRuns == [ok : {TRUE}, trades : 0..MaxTrades, trips : 0..MaxTrips]
\* The rows of a batch do not tell two good runs apart.
RunResults(k) == {RunFailed} \cup IF k = "smoke" THEN SmokeRuns ELSE {[ok |-> TRUE]}
Completed(results) == [status |-> "completed", results |-> results]
Ended(status) == [status |-> status]
Outcomes(k) ==
    {Completed(f) : f \in UNION {[R -> RunResults(k)] : R \in SUBSET RunsOf(k)}}
    \cup {Ended("failed"), Ended("cancelled")}
Running == Ended("running")

(***************************************************************************)
(* What the callers make of them                                           *)
(***************************************************************************)
\* _classify_smoke_completed, _run_smoke_polled
SmokeAnswer(outcome) ==
    IF outcome.status # "completed" THEN outcome.status
    ELSE IF 1 \notin DOMAIN outcome.results THEN "empty_results"
    ELSE LET run == outcome.results[1]
         IN  IF ~run.ok THEN "run_failed"
             ELSE IF run.trips > MaxSanityTrips THEN "sanity_trips"
             ELSE IF run.trades < MinTrades THEN "no_trades" ELSE "smoke_passed"

\* _submit_and_collect: one row per run of the spec, by its index
BatchAnswerByPosition(outcome) ==
    LET Before(i) == {j \in DOMAIN outcome.results : j <= i}
    IN  [i \in 1..NumRuns |->
            IF outcome.status # "completed" THEN outcome.status
            ELSE IF i > Cardinality(DOMAIN outcome.results) THEN "missing_result"
            ELSE LET j == CHOOSE k \in DOMAIN outcome.results : Cardinality(Before(k)) = i
                 IN  IF outcome.results[j].ok THEN "ok" ELSE "run_failed"]
BatchAnswer(outcome) ==
    [i \in 1..NumRuns |->
        IF outcome.status # "completed" THEN outcome.status
        ELSE IF i \notin DOMAIN outcome.results THEN "missing_result"
        ELSE IF outcome.results[i].ok THEN "ok" ELSE "run_failed"]

\* _submit_and_extract_metrics: metrics, or an error
MetricsAnswer(outcome) ==
    IF outcome.status # "completed" THEN outcome.status
    ELSE IF 1 \notin DOMAIN outcome.results THEN "empty_results"
    ELSE IF outcome.results[1].ok THEN "metrics" ELSE "run_failed"

\* optimize replay prints the entry of the run, a failed one like any other
ReplayAnswer(outcome) ==
    IF outcome.status # "completed" THEN outcome.status
    ELSE IF 1 \notin DOMAIN outcome.results THEN "empty_results" ELSE "printed"

AnswerTo(k, outcome) ==
    CASE k = "smoke" -> <<SmokeAnswer(outcome)>>
      [] k = "batch" -> BatchAnswer(outcome)
      [] k = "metrics" -> <<MetricsAnswer(outcome)>>
      [] k = "replay" -> <<ReplayAnswer(outcome)>>

(***************************************************************************)
(* The program                                                             *)
(***************************************************************************)
NoCall == [handle |-> {}, late |-> FALSE]
Unanswered == <<"none">>
Without(h) == [g \in DOMAIN table \ {h} |-> table[g]]
\* The finally clause of _run_smoke_polled; a batch keeps its entry.
AfterCall(h) == IF kind[h] = "smoke" THEN Without(h) ELSE table

Init ==
    /\ table = [h \in {} |-> Running]
    /\ thread = [h \in Handles |-> [at |-> "none"]]
    /\ flag = [h \in Handles |-> FALSE]
    /\ kind = [h \in Handles |-> "none"]
    /\ answer = [h \in Handles |-> Unanswered]
    /\ call = NoCall
    /\ alive = TRUE

Submit(h, k) ==
    /\ alive /\ call = NoCall /\ kind[h] = "none"
    /\ \A g \in Handles : kind[g] = "none" \/ "print" \notin {k, kind[g]}
    /\ table' = [g \in DOMAIN table \cup {h} |-> IF g = h THEN Running ELSE table[g]]
    /\ thread' = [thread EXCEPT ![h] = [at |-> "executing"]]
    /\ kind' = [kind EXCEPT ![h] = k]
    /\ call' = IF k = "print" THEN NoCall ELSE [handle |-> {h}, late |-> FALSE]
    /\ answer' = IF k = "print" THEN [answer EXCEPT ![h] = <<"handle">>] ELSE answer
    /\ UNCHANGED <<flag, alive>>

RunSmoke(h) == Submit(h, "smoke")
SubmitAndCollect(h) == Submit(h, "batch")
EvaluateFold(h) == Submit(h, "metrics")
ReplayTrial(h) == Submit(h, "replay")
\* run without --wait
RunCommand(h) == Submit(h, "print")

\* The call on h comes back, one way or another.
Return(h, what) ==
    /\ table' = AfterCall(h)
    /\ answer' = [answer EXCEPT ![h] = what]
    /\ call' = NoCall
    /\ UNCHANGED <<thread, flag, kind, alive>>

Polling(h) == alive /\ call.handle = {h}

PollTerminal(h) ==
    /\ Polling(h) /\ table[h] # Running
    /\ Return(h, AnswerTo(kind[h], table[h]))

PollLate(h) ==
    /\ Polling(h) /\ kind[h] = "smoke" /\ table[h] = Running /\ call.late
    /\ Return(h, <<"timeout">>)

\* time.monotonic() passes the deadline, whether or not anybody looks at it.
DeadlinePasses ==
    /\ call # NoCall /\ ~call.late
    /\ call' = [call EXCEPT !.late = TRUE]
    /\ UNCHANGED <<table, thread, flag, kind, answer, alive>>

\* KeyboardInterrupt between two polls.
Interrupt(h) == Polling(h) /\ Return(h, <<"interrupted">>)

\* Engine.cancel, from another thread of the program: only a Running entry.
CancelAtOnce(h) ==
    /\ alive /\ h \in DOMAIN table /\ table[h] = Running /\ ~flag[h]
    /\ flag' = [flag EXCEPT ![h] = TRUE]
    /\ table' = [table EXCEPT ![h] = Ended("cancelled")]
    /\ UNCHANGED <<thread, kind, answer, call, alive>>
Cancel(h) ==
    /\ alive /\ h \in DOMAIN table /\ table[h] = Running /\ ~flag[h]
    /\ flag' = [flag EXCEPT ![h] = TRUE]
    /\ UNCHANGED <<table, thread, kind, answer, call, alive>>

\* The command has printed the handle and ends, and with the process its
\* table and the threads that were executing.
Exit ==
    /\ alive /\ \E h \in Handles : kind[h] = "print"
    /\ alive' = FALSE
    /\ table' = [h \in {} |-> Running]
    /\ thread' = [h \in Handles |->
                     IF thread[h].at = "executing" THEN [at |-> "killed"] ELSE thread[h]]
    /\ UNCHANGED <<flag, kind, answer, call>>

(***************************************************************************)
(* The detached threads                                                    *)
(***************************************************************************)
\* execute returns; it says Cancelled only to a raised flag.
Execute(h) ==
    /\ alive /\ thread[h].at = "executing"
    /\ \E outcome \in Outcomes(kind[h]) :
          /\ outcome = Ended("cancelled") => flag[h]
          /\ thread' = [thread EXCEPT ![h] = [at |-> "returned", outcome |-> outcome]]
    /\ UNCHANGED <<table, flag, kind, answer, call, alive>>

\* execute panics: nobody joins the thread, and the entry stays as it was.
Panic(h) ==
    /\ alive /\ thread[h].at = "executing"
    /\ thread' = [thread EXCEPT ![h] = [at |-> "dead"]]
    /\ UNCHANGED <<table, flag, kind, answer, call, alive>>

\* The outcome is stored if the entry is still there.
PublishCompleted(h) ==
    /\ alive /\ thread[h].at = "returned" /\ thread[h].outcome.status = "completed"
    /\ table' = [g \in DOMAIN table |-> IF g = h THEN thread[h].outcome ELSE table[g]]
    /\ thread' = [thread EXCEPT ![h].at = "published"]
    /\ UNCHANGED <<flag, kind, answer, call, alive>>
Publish(h) ==
    /\ alive /\ thread[h].at = "returned"
    /\ table' = [g \in DOMAIN table |-> IF g = h THEN thread[h].outcome ELSE table[g]]
    /\ thread' = [thread EXCEPT ![h].at = "published"]
    /\ UNCHANGED <<flag, kind, answer, call, alive>>

----------------------------------------------------------------------------
Caller(h) == PollTerminal(h) \/ PollLate(h)
Thread(h) == Execute(h) \/ Panic(h) \/ Publish(h)

Next ==
    \/ \E h \in Handles :
          \/ RunSmoke(h) \/ SubmitAndCollect(h) \/ EvaluateFold(h) \/ ReplayTrial(h)
          \/ RunCommand(h)
          \/ Caller(h) \/ Interrupt(h) \/ Cancel(h) \/ Thread(h)
    \/ DeadlinePasses
    \/ Exit

Spec == Init /\ [][Next]_vars

\* Callers poll in a loop, a thread that has an outcome stores it, and the
\* clock runs.  Nothing says that execute ever returns.
FairSpec ==
    /\ Spec
    /\ \A h \in Handles : WF_vars(Caller(h)) /\ WF_vars(Publish(h))
    /\ WF_vars(DeadlinePasses)

----------------------------------------------------------------------------
Done(h) == thread[h].at \in {"returned", "published"}
Reported(h) == answer[h] \notin {<<a>> : a \in {"none", "handle", "timeout", "interrupted"}}

\* A call reports what execute returned for the batch it submitted, and for no
\* other: a smoke run that passed did trade, within the sanity bounds, and a
\* row of a batch is of the run of its index; a run that timed out or was
\* interrupted may finish while the next one is polled
\* (_run_smoke_polled, _submit_and_collect, _submit_and_extract_metrics).
AnswersAreTrue ==
    \A h \in Handles : Reported(h) =>
        /\ Done(h)
        /\ kind[h] = "smoke" /\ answer[h] = <<"smoke_passed">> =>
              \E run \in SmokeRuns :
                  /\ thread[h].outcome = Completed([i \in {1} |-> run])
                  /\ run.trades >= MinTrades /\ run.trips <= MaxSanityTrips
        /\ kind[h] = "metrics" /\ answer[h] = <<"metrics">> =>
              thread[h].outcome = Completed([i \in {1} |-> [ok |-> TRUE]])
        /\ kind[h] = "batch" => \A i \in 1..NumRuns :
              answer[h][i] = "ok" <=>
                  /\ thread[h].outcome.status = "completed"
                  /\ i \in DOMAIN thread[h].outcome.results
                  /\ thread[h].outcome.results[i].ok

\* A batch executes behind the caller's back only after its smoke run timed
\* out or the operator interrupted: every other call comes back with the batch
\* over (drop_handle in the finally of _run_smoke_polled).
OnlyGivenUpBatchesRunOn ==
    \A h \in Handles :
        alive /\ thread[h].at = "executing" /\ call.handle # {h} =>
            answer[h] \in {<<"timeout">>, <<"interrupted">>, <<"handle">>}

\* Every wait comes to an end that has one.  A smoke run comes back although its
\* thread may panic or never return: the deadline is the caller's own
\* (SmokePolicy.timeout_secs).  A batch comes back once execute has returned; one
\* whose thread died is polled for ever (_submit_and_collect has no deadline).
CallsEnd ==
    \A h \in Handles :
        /\ kind[h] = "smoke" /\ call.handle = {h} ~> call.handle # {h}
        /\ alive /\ call.handle = {h} /\ Done(h) ~> call.handle # {h}
=============================================================================

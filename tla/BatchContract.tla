---------------------------- MODULE BatchContract ----------------------------
(***************************************************************************)
(* What Coordinator::execute promises its caller about one batch, with no  *)
(* threads, flags or processes: each run is started at most once and in    *)
(* submission order, at most Workers runs are active at a time, a run is   *)
(* stopped only because the caller cancelled or another run went wrong,    *)
(* and the single reply says truthfully what became of the runs.           *)
(***************************************************************************)
EXTENDS Naturals, FiniteSets

CONSTANTS
    NumRuns,        \* batch.runs.len(); runs are numbered 1..NumRuns
    Workers         \* the number of dispatch threads

VARIABLES
    mode,           \* the batch's failure_mode, "abort" or "continue"
    status,         \* status[i]: what has become of run i
    cancelled,      \* the caller has asked for cancellation
    reply           \* what execute returned; kind "none" while it has not

cvars == <<mode, status, cancelled, reply>>

RunIds == 1..NumRuns
RunsAt(s) == {i \in RunIds : status[i] = s}

NoReply == [kind |-> "none", run |-> 0]

CInit == /\ mode \in {"abort", "continue"}
         /\ status = [i \in RunIds |-> "pending"]
         /\ cancelled = FALSE
         /\ reply = NoReply

Cancel == /\ reply = NoReply
          /\ cancelled' = TRUE
          /\ UNCHANGED <<mode, status, reply>>

Start(i) == /\ reply = NoReply
            /\ status[i] = "pending"
            /\ \A j \in RunIds : j < i => status[j] # "pending"
            /\ Cardinality(RunsAt("active")) < Workers
            /\ status' = [status EXCEPT ![i] = "active"]
            /\ UNCHANGED <<mode, cancelled, reply>>

\* The run's own result: a backtest result, or a failure of its worker.
Finish(i) == /\ reply = NoReply
             /\ status[i] = "active"
             /\ status' \in {[status EXCEPT ![i] = s] : s \in {"ok", "fail"}}
             /\ UNCHANGED <<mode, cancelled, reply>>

\* The run is killed although nothing is wrong with it.
StopReason == \/ cancelled
              \/ mode = "abort" /\ RunsAt("fail") # {}
              \/ RunsAt("lost") # {}

Stop(i) == /\ reply = NoReply
           /\ status[i] = "active"
           /\ StopReason
           /\ status' = [status EXCEPT ![i] = "stopped"]
           /\ UNCHANGED <<mode, cancelled, reply>>

\* The dispatch thread that owned the run panicked.
Lose(i) == /\ reply = NoReply
           /\ status[i] = "active"
           /\ status' = [status EXCEPT ![i] = "lost"]
           /\ UNCHANGED <<mode, cancelled, reply>>

ReplyCancelled == /\ cancelled
                  /\ reply' = [kind |-> "cancelled", run |-> 0]

ReplyFailed == /\ ~cancelled
               /\ mode = "abort"
               /\ \E i \in RunsAt("fail") : reply' = [kind |-> "failed", run |-> i]

ReplyPanicked == /\ ~cancelled
                 /\ \E i \in RunsAt("lost") : reply' = [kind |-> "panicked", run |-> 0]

\* One entry per run, none missing; under "abort" only if no run failed.
ReplyResults ==
    /\ ~cancelled
    /\ RunsAt("ok") \union RunsAt("fail") = RunIds
    /\ mode = "abort" => RunsAt("fail") = {}
    /\ reply' = [kind |-> "results", run |-> 0]

Reply == /\ reply = NoReply
         /\ RunsAt("active") = {}
         /\ ReplyCancelled \/ ReplyFailed \/ ReplyPanicked \/ ReplyResults
         /\ UNCHANGED <<mode, status, cancelled>>

CNext == \/ Cancel
         \/ Reply
         \/ \E i \in RunIds : Start(i) \/ Finish(i) \/ Stop(i) \/ Lose(i)

CSpec == CInit /\ [][CNext]_cvars
=============================================================================

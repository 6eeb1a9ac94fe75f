----------------------------- MODULE Coordinator -----------------------------
(***************************************************************************)
(* Coordinator::execute of crates/engine/src/coordinator.rs for one        *)
(* non-empty batch: the dispatch threads popping the shared queue, the     *)
(* worker process each run is given, the caller's cancel flag, the batch's *)
(* abort flag and first_error slot, the per-run time cap, the progress     *)
(* phases, and the collection of the results.                              *)
(*                                                                         *)
(* Threads interleave between any two accesses to shared state.  A worker  *)
(* process runs on its own: it may read its request, finish, report an     *)
(* error, crash, be killed by a signal, or hang.                           *)
(*                                                                         *)
(* The queue holds (index, run) pairs in submission order and is only ever *)
(* popped at its front, so what is left of it is next..NumRuns.            *)
(***************************************************************************)
EXTENDS Naturals, FiniteSets

CONSTANTS
    NumRuns,        \* batch.runs.len(), at least 1 (an empty batch returns at once)
    Parallelism,    \* batch.parallelism, as given by the caller; may be 0
    WorkerExits,    \* the ways the worker of each run may end by itself
    MemCapSet,      \* caps.mem_bytes is Some
    LargeRequests,  \* the runs whose request the kernel's pipe buffer does not hold
    SinkMayPanic    \* the progress sink may panic on a dispatch thread

ASSUME NumRunsAssumption == NumRuns \in Nat \ {0}
ASSUME ParallelismAssumption == Parallelism \in Nat
ASSUME FlagAssumption ==
    MemCapSet \in BOOLEAN /\ SinkMayPanic \in BOOLEAN

\* The ways a worker ends by itself: exit 0 with a result, exit 0 without a
\* readable frame, exit 2 after a WorkerResponse::Error, another non-zero exit
\* code, death by a signal.
Exits == {"ok", "garbled", "reported", "code", "signal"}
Crashes == {"code", "signal"}

RunIds == 1..NumRuns

ASSUME WorkerExitsAssumption == WorkerExits \in [RunIds -> SUBSET Exits]
ASSUME LargeRequestsAssumption == LargeRequests \subseteq RunIds

\* batch.parallelism.max(1).min(batch.runs.len())
AtLeastOne == IF Parallelism = 0 THEN 1 ELSE Parallelism
\* Mutant: one thread per run, the pool size forgotten.
ThreadPerRun == NumRuns

Workers == IF AtLeastOne <= NumRuns THEN AtLeastOne ELSE NumRuns
Threads == 1..Workers

VARIABLES
    mode,           \* batch.failure_mode
    next,           \* index at the front of the queue; NumRuns + 1 when empty
    results,        \* results[i]: the slot of run i
    cancel,         \* the caller's cancel flag
    abort,          \* the batch's abort flag
    firstError,     \* the first_error slot
    pc,             \* pc[t]: where dispatch thread t is
    item,           \* item[t]: the run thread t has popped, 0 if none
    outcome,        \* outcome[t]: what run_one_subprocess returned to t
    expired,        \* expired[t]: the time cap of t's child has elapsed
    child,          \* child[i]: the worker process of run i
    exitKind,       \* exitKind[i]: how that process ended
    phase,          \* phase[i]: the progress phase of run i
    joined,         \* threads 1..joined have been joined by execute
    reply           \* what execute returned

vars == <<mode, next, results, cancel, abort, firstError, pc, item, outcome, expired,
          child, exitKind, phase, joined, reply>>

(***************************************************************************)
(* Values                                                                  *)
(***************************************************************************)
\* The error kinds of classify_failure that a run can end with.
Causes == {"spawn", "wire", "worker_exited", "worker_reported",
           "time_cap_exceeded", "mem_cap_exceeded"}
Outcomes == {"none", "ok", "cancelled"} \union Causes

NoResult == [run |-> 0, status |-> "none"]
NoError == [run |-> 0, cause |-> "none"]
Panic == [run |-> 0, cause |-> "dispatch_panic"]
NoReply == [kind |-> "none", run |-> 0]

Slots == [run : RunIds \union {0}, status : {"none", "ok"} \union Causes]
Errors == [run : RunIds \union {0}, cause : {"none", "dispatch_panic"} \union Causes]
Replies == [kind : {"none", "results", "failed", "panicked", "cancelled"},
            run : RunIds \union {0}]

PCs == {"check", "pop", "spawn", "write", "poll", "flags", "report", "record",
        "slot", "exit", "panicked"}
Stopped(t) == pc[t] \in {"exit", "panicked"}

\* A worker process that is still using the machine.
Alive(i) == child[i] \in {"starting", "running"}
TypeOK ==
    /\ mode \in {"abort", "continue"}
    /\ next \in 1..(NumRuns + 1)
    /\ results \in [RunIds -> Slots]
    /\ cancel \in BOOLEAN
    /\ abort \in BOOLEAN
    /\ firstError \in Errors
    /\ pc \in [Threads -> PCs]
    /\ item \in [Threads -> RunIds \union {0}]
    /\ outcome \in [Threads -> Outcomes]
    /\ expired \in [Threads -> BOOLEAN]
    /\ child \in [RunIds -> {"none", "starting", "running", "zombie", "gone"}]
    /\ exitKind \in [RunIds -> {"none", "killed"} \union Exits]
    /\ phase \in [RunIds -> {"none", "open", "ok", "fail", "cancelled"}]
    /\ joined \in 0..Workers
    /\ reply \in Replies

Init ==
    /\ mode \in {"abort", "continue"}
    /\ next = 1
    /\ results = [i \in RunIds |-> NoResult]
    /\ cancel = FALSE
    /\ abort = FALSE
    /\ firstError = NoError
    /\ pc = [t \in Threads |-> "check"]
    /\ item = [t \in Threads |-> 0]
    /\ outcome = [t \in Threads |-> "none"]
    /\ expired = [t \in Threads |-> FALSE]
    /\ child = [i \in RunIds |-> "none"]
    /\ exitKind = [i \in RunIds |-> "none"]
    /\ phase = [i \in RunIds |-> "none"]
    /\ joined = 0
    /\ reply = NoReply

Goto(t, label) == pc' = [pc EXCEPT ![t] = label]

(***************************************************************************)
(* A dispatch thread's loop                                                *)
(***************************************************************************)
\* while !abort && !cancel
CheckFlags(t) ==
    /\ pc[t] = "check"
    /\ Goto(t, IF abort \/ cancel THEN "exit" ELSE "pop")
    /\ UNCHANGED <<mode, next, results, cancel, abort, firstError, item, outcome,
                   expired, child, exitKind, phase, joined, reply>>

\* q.pop_front(); the loop ends on an empty queue.
PopRun(t) ==
    /\ pc[t] = "pop"
    /\ IF next > NumRuns
       THEN Goto(t, "exit") /\ UNCHANGED <<next, item>>
       ELSE /\ Goto(t, "spawn")
            /\ item' = [item EXCEPT ![t] = next]
            /\ next' = next + 1
    /\ UNCHANGED <<mode, results, cancel, abort, firstError, outcome, expired, child,
                   exitKind, phase, joined, reply>>

\* Open the run's phase, then Command::spawn, which may fail.
SpawnWorker(t) ==
    /\ pc[t] = "spawn"
    /\ phase' = [phase EXCEPT ![item[t]] = "open"]
    /\ \/ /\ child' = [child EXCEPT ![item[t]] = "starting"]
          /\ Goto(t, "write")
          /\ UNCHANGED outcome
       \/ /\ outcome' = [outcome EXCEPT ![t] = "spawn"]
          /\ Goto(t, "report")
          /\ UNCHANGED child
    /\ UNCHANGED <<mode, next, results, cancel, abort, firstError, item, expired,
                   exitKind, joined, reply>>

\* write_message to the worker's stdin.  A request the pipe does not hold waits
\* for the worker to read it (ReadRequest); the pipe of a dead worker is broken,
\* and that error leaves run_one_subprocess without waiting for the process.
WriteRequest(t) ==
    /\ pc[t] = "write"
    /\ \/ /\ item[t] \notin LargeRequests
          /\ child[item[t]] = "starting"
          /\ Goto(t, "poll")
          /\ UNCHANGED outcome
       \/ /\ child[item[t]] = "zombie"
          /\ outcome' = [outcome EXCEPT ![t] = "wire"]
          /\ Goto(t, "report")
    /\ UNCHANGED <<mode, next, results, cancel, abort, firstError, item, expired,
                   child, exitKind, phase, joined, reply>>

\* Mutant: any non-zero exit under a memory cap is blamed on the cap.
BlameMemCap(how) ==
    CASE how = "ok" -> "ok"
      [] how = "garbled" -> "wire"
      [] how \in {"reported", "code", "signal"} -> IF MemCapSet THEN "mem_cap_exceeded"
                                                   ELSE "worker_exited"

\* How run_one_subprocess reads an exit status.
Classify(how) ==
    CASE how = "ok" -> "ok"
      [] how = "garbled" -> "wire"
      [] how = "reported" -> "worker_reported"
      [] how = "code" -> "worker_exited"
      [] how = "signal" -> IF MemCapSet THEN "mem_cap_exceeded" ELSE "worker_exited"

\* child.try_wait() in wait_with_caps.
PollChild(t) ==
    LET i == item[t] IN
    /\ pc[t] = "poll"
    /\ IF child[i] = "zombie"
       THEN /\ child' = [child EXCEPT ![i] = "gone"]
            /\ outcome' = [outcome EXCEPT ![t] = Classify(exitKind[i])]
            /\ expired' = [expired EXCEPT ![t] = FALSE]
            /\ Goto(t, "report")
       ELSE Goto(t, "flags") /\ UNCHANGED <<child, outcome, expired>>
    /\ UNCHANGED <<mode, next, results, cancel, abort, firstError, item, exitKind,
                   phase, joined, reply>>

\* child.kill() and child.wait(): a worker that died meanwhile is only reaped.
KillAndReap(i) ==
    /\ child' = [child EXCEPT ![i] = "gone"]
    /\ exitKind' = IF Alive(i) THEN [exitKind EXCEPT ![i] = "killed"] ELSE exitKind

\* The rest of the wait loop: flags first, then the cap, then sleep.
EndWait(t, stop, late) ==
    /\ pc[t] = "flags"
    /\ IF stop \/ late
       THEN /\ KillAndReap(item[t])
            /\ outcome' = [outcome EXCEPT ![t] = IF stop THEN "cancelled"
                                                 ELSE "time_cap_exceeded"]
            /\ expired' = [expired EXCEPT ![t] = FALSE]
            /\ Goto(t, "report")
       ELSE Goto(t, "poll") /\ UNCHANGED <<child, exitKind, outcome, expired>>
    /\ UNCHANGED <<mode, next, results, cancel, abort, firstError, item, phase,
                   joined, reply>>
\* Mutant: only the time cap ends the wait, the flags are not looked at.
CheckCapOnly(t) == EndWait(t, FALSE, expired[t])
\* Mutant: only the flags end the wait, the time cap is not looked at.
CheckFlagsOnly(t) == EndWait(t, cancel \/ abort, FALSE)
CheckWait(t) == EndWait(t, cancel \/ abort, expired[t])

RunStatus(o) == IF o \in Causes THEN "fail" ELSE o

\* emit_phase_end of the run, with run_status.
ReportRun(t) ==
    /\ pc[t] = "report"
    /\ phase' = [phase EXCEPT ![item[t]] = RunStatus(outcome[t])]
    /\ Goto(t, "record")
    /\ UNCHANGED <<mode, next, results, cancel, abort, firstError, item, outcome,
                   expired, child, exitKind, joined, reply>>

\* results[idx] = Some(..), for a result and, under "continue", for a failure.
StoreAt(t, i) ==
    /\ pc[t] = "record"
    /\ outcome[t] = "ok" \/ (mode = "continue" /\ outcome[t] \in Causes)
    /\ results' = [results EXCEPT ![i] = [run |-> item[t], status |-> outcome[t]]]
    /\ item' = [item EXCEPT ![t] = 0]
    /\ outcome' = [outcome EXCEPT ![t] = "none"]
    /\ Goto(t, "check")
    /\ UNCHANGED <<mode, next, cancel, abort, firstError, expired, child, exitKind,
                   phase, joined, reply>>
\* Mutant: under "continue" a crashed worker's run is tried again.
StoreOrRetry(t) ==
    IF outcome[t] # "worker_exited" THEN StoreAt(t, item[t])
    ELSE /\ pc[t] = "record" /\ mode = "continue"
         /\ Goto(t, "spawn")
         /\ UNCHANGED <<mode, next, results, cancel, abort, firstError, item, outcome,
                        expired, child, exitKind, phase, joined, reply>>
StoreResult(t) == StoreAt(t, item[t])

\* Err(Cancelled) => break
LeaveCancelled(t) ==
    /\ pc[t] = "record"
    /\ outcome[t] = "cancelled"
    /\ Goto(t, "exit")
    /\ UNCHANGED <<mode, next, results, cancel, abort, firstError, item, outcome,
                   expired, child, exitKind, phase, joined, reply>>

\* Under "abort" a failure raises the flag first and takes the lock of
\* first_error in a second step.
RaiseThenGo(t, label) ==
    /\ pc[t] = "record"
    /\ mode = "abort"
    /\ outcome[t] \in Causes
    /\ abort' = TRUE
    /\ Goto(t, label)
    /\ UNCHANGED <<mode, next, results, cancel, firstError, item, outcome, expired,
                   child, exitKind, phase, joined, reply>>
\* Mutant: the thread leaves the loop without recording its error.
RaiseAbortOnly(t) == RaiseThenGo(t, "exit")
RaiseAbort(t) == RaiseThenGo(t, "slot")

RecordError(t) ==
    /\ pc[t] = "slot"
    /\ firstError' = IF firstError = NoError
                     THEN [run |-> item[t], cause |-> outcome[t]] ELSE firstError
    /\ Goto(t, "exit")
    /\ UNCHANGED <<mode, next, results, cancel, abort, item, outcome, expired, child,
                   exitKind, phase, joined, reply>>

\* The sink panics where the thread opens or closes the run's phase.
PanicInSink(t) ==
    /\ SinkMayPanic
    /\ pc[t] \in {"spawn", "report"}
    /\ Goto(t, "panicked")
    /\ UNCHANGED <<mode, next, results, cancel, abort, firstError, item, outcome,
                   expired, child, exitKind, phase, joined, reply>>

ThreadStep(t) ==
    \/ CheckFlags(t) \/ PopRun(t) \/ SpawnWorker(t) \/ WriteRequest(t)
    \/ PollChild(t) \/ CheckWait(t) \/ ReportRun(t) \/ StoreResult(t)
    \/ LeaveCancelled(t) \/ RaiseAbort(t) \/ RecordError(t)

(***************************************************************************)
(* Worker processes, the clock and the caller                              *)
(***************************************************************************)
\* read_message in the worker: the request lies in the pipe, or the dispatch
\* thread is writing it and goes on once it has all been read.
ReadRequest(i, t) ==
    /\ item[t] = i
    /\ child[i] = "starting"
    /\ \/ pc[t] \in {"poll", "flags"} /\ UNCHANGED pc
       \/ i \in LargeRequests /\ pc[t] = "write" /\ Goto(t, "poll")
    /\ child' = [child EXCEPT ![i] = "running"]
    /\ UNCHANGED <<mode, next, results, cancel, abort, firstError, item, outcome,
                   expired, exitKind, phase, joined, reply>>

\* Before it has its request a worker can only crash.
WorkerExit(i) ==
    /\ Alive(i)
    /\ child' = [child EXCEPT ![i] = "zombie"]
    /\ exitKind' \in {[exitKind EXCEPT ![i] = how] :
                         how \in IF child[i] = "starting" THEN WorkerExits[i] \intersect Crashes
                                                          ELSE WorkerExits[i]}
    /\ UNCHANGED <<mode, next, results, cancel, abort, firstError, pc, item, outcome,
                   expired, phase, joined, reply>>

\* start.elapsed() > caps.time; start is taken when the wait loop is entered.
TimeCapElapses(t) ==
    /\ pc[t] \in {"poll", "flags"}
    /\ ~expired[t]
    /\ expired' = [expired EXCEPT ![t] = TRUE]
    /\ UNCHANGED <<mode, next, results, cancel, abort, firstError, pc, item, outcome,
                   child, exitKind, phase, joined, reply>>

CallerCancels ==
    /\ ~cancel
    /\ reply = NoReply
    /\ cancel' = TRUE
    /\ UNCHANGED <<mode, next, results, abort, firstError, pc, item, outcome, expired,
                   child, exitKind, phase, joined, reply>>

(***************************************************************************)
(* The thread that called execute                                          *)
(***************************************************************************)
\* Mutant: a panic stops the batch but is not recorded.
JoinQuietly ==
    LET t == joined + 1 IN
    /\ joined < Workers
    /\ Stopped(t)
    /\ joined' = t
    /\ abort' = (abort \/ pc[t] = "panicked")
    /\ UNCHANGED <<mode, next, results, cancel, firstError, pc, item, outcome,
                   expired, child, exitKind, phase, reply>>

\* h.join() on the handles in order; a panic is turned into an error.
JoinThread ==
    LET t == joined + 1 IN
    /\ joined < Workers
    /\ Stopped(t)
    /\ joined' = t
    /\ IF pc[t] = "panicked"
       THEN /\ abort' = TRUE
            /\ firstError' = IF firstError = NoError THEN Panic ELSE firstError
       ELSE UNCHANGED <<abort, firstError>>
    /\ UNCHANGED <<mode, next, results, cancel, pc, item, outcome, expired, child,
                   exitKind, phase, reply>>

ReplyFor(e) ==
    CASE e = NoError -> [kind |-> "results", run |-> 0]
      [] e = Panic -> [kind |-> "panicked", run |-> 0]
      [] OTHER -> [kind |-> "failed", run |-> e.run]

\* cancel wins over first_error, first_error over the results.
ReplyOr(stopped) ==
    /\ joined = Workers
    /\ reply = NoReply
    /\ reply' = IF stopped THEN [kind |-> "cancelled", run |-> 0] ELSE ReplyFor(firstError)
    /\ UNCHANGED <<mode, next, results, cancel, abort, firstError, pc, item, outcome,
                   expired, child, exitKind, phase, joined>>
\* Mutant: an error on record hides the cancellation.
ReturnErrorFirst == ReplyOr(cancel /\ firstError = NoError)
Return == ReplyOr(cancel)

Next ==
    \/ \E t \in Threads : ThreadStep(t) \/ PanicInSink(t) \/ TimeCapElapses(t)
    \/ \E i \in RunIds : WorkerExit(i) \/ \E t \in Threads : ReadRequest(i, t)
    \/ CallerCancels
    \/ JoinThread
    \/ Return

Spec == Init /\ [][Next]_vars

\* The operating system runs every dispatch thread and the caller's thread.
\* Nothing is assumed of a worker process: it may hang for ever.
FairSpec == /\ Spec
            /\ \A t \in Threads : WF_vars(ThreadStep(t))
            /\ WF_vars(JoinThread)
            /\ WF_vars(Return)

\* Time passes: a cap that is being timed elapses.
Clock == \A t \in Threads : WF_vars(TimeCapElapses(t))

(***************************************************************************)
(* Safety                                                                  *)
(***************************************************************************)
\* Never more worker processes than batch.parallelism, where 0 counts as 1, and
\* none left when execute returns: every thread has killed, reaped or lost its
\* worker before it can be joined (coordinator.rs, module comment: "every
\* still-running child is killed before execute returns").
ProcessesBounded ==
    /\ Cardinality({i \in RunIds : Alive(i)}) <= AtLeastOne
    /\ reply # NoReply => \A i \in RunIds : ~Alive(i)

\* When no cancellation and no error is on record the collection finds a result
\* in every slot, and in slot i the one of run i: the expect() of the
\* collection cannot fail, whichever threads left the loop and why.
CollectionComplete ==
    joined = Workers /\ ~cancel /\ firstError = NoError
        => \A i \in RunIds : results[i].run = i

\* A raised abort flag is never silent: once every thread is joined the slot
\* holds the error that raised it or another one.
AbortNeverSilent == joined = Workers /\ abort => firstError # NoError

\* What a worker did that makes `cause` a true account of run i.  A worker that
\* ends by itself between the last poll and the kill is still a time cap.
TrueCause(i, cause) ==
    CASE cause = "spawn" -> child[i] = "none"
      [] cause = "wire" -> exitKind[i] \in Crashes \union {"garbled"}
      [] cause = "worker_exited" -> exitKind[i] \in Crashes
      [] cause = "worker_reported" -> exitKind[i] = "reported"
      [] cause = "mem_cap_exceeded" -> MemCapSet /\ exitKind[i] = "signal"
      [] cause = "time_cap_exceeded" -> exitKind[i] \in {"killed"} \union Exits
      [] OTHER -> exitKind[i] = "ok"

\* Every failure and every result that reaches the caller is true of the run it
\* names; a batch of results under "abort" holds no failure; and in any batch of
\* results nobody suffers for a neighbour: a worker was killed only for its own
\* time cap, and one that was not and gave its result has it recorded.
ReportsAreTrue ==
    /\ firstError.run # 0 =>
          /\ phase[firstError.run] = "fail"
          /\ TrueCause(firstError.run, firstError.cause)
    /\ \A i \in RunIds : results[i] # NoResult => TrueCause(i, results[i].status)
    /\ reply.kind = "results" => \A i \in RunIds :
          /\ mode = "abort" => exitKind[i] = "ok"
          /\ exitKind[i] = "killed" => results[i].status = "time_cap_exceeded"
          /\ exitKind[i] = "ok" => results[i].status \in {"ok", "time_cap_exceeded"}

(***************************************************************************)
(* Action properties                                                       *)
(***************************************************************************)
\* No run is retried and no result is overwritten: a slot is filled once, a run
\* has at most one worker process, and a dead worker never comes back.
NeverRetried ==
    [][\A i \in RunIds :
          /\ results[i] # NoResult => results'[i] = results[i]
          /\ child[i] # "none" => child'[i] # "none"
          /\ child[i] \in {"zombie", "gone"} => child'[i] \in {"zombie", "gone"}]_vars

(***************************************************************************)
(* Liveness                                                                *)
(***************************************************************************)
\* Every worker process gets as far as reading its request, or dies.  Without
\* it a dispatch thread may be writing a large request for ever: neither the
\* flags nor the cap are looked at before the write has returned.
WorkersStart == \A i \in RunIds : []<>(child[i] # "starting")

\* execute returns, even if a worker that has its request hangs: the time cap
\* ends it.
Termination == Clock /\ WorkersStart => <>(reply # NoReply)

\* A cancellation requested while execute runs is what execute returns, and the
\* abort flag takes every running worker down ("the first failure cancels
\* remaining runs"); neither waits for a time cap.
StopsHonoured ==
    WorkersStart => /\ cancel ~> reply.kind = "cancelled"
                    /\ abort ~> \A i \in RunIds : ~Alive(i)

(***************************************************************************)
(* The coordinator implements the batch contract                           *)
(***************************************************************************)
Owner(i) == {t \in Threads : item[t] = i}

StatusOf(i) ==
    IF i >= next THEN "pending"
    ELSE CASE phase[i] = "ok" -> "ok"
           [] phase[i] = "fail" -> "fail"
           [] phase[i] = "cancelled" -> "stopped"
           [] OTHER -> IF \E t \in Owner(i) : pc[t] = "panicked" THEN "lost" ELSE "active"

Contract == INSTANCE BatchContract WITH
                status <- [i \in RunIds |-> StatusOf(i)],
                cancelled <- cancel

ImplementsContract == Contract!CSpec
=============================================================================

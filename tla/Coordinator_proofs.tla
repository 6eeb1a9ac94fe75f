-------------------------- MODULE Coordinator_proofs --------------------------
(***************************************************************************)
(* Proofs about one batch, for any number of runs and any parallelism.     *)
(* The inductive invariant says who owns which run, what each thread has   *)
(* decided about it, which workers are watched, and that a run once popped *)
(* is never forgotten; the theorems at the end of the module follow.       *)
(***************************************************************************)
EXTENDS Coordinator, FiniteSetTheorems, TLAPS

Busy == {"spawn", "write", "poll", "flags", "report", "record", "slot"}
Supervising == {"write", "poll", "flags"}
Settled == {"ok", "cancelled"} \union Causes

\* A thread has a run exactly while it works on it, and no run has two threads.
Ownership ==
    /\ \A t \in Threads : pc[t] \in Busy => item[t] \in RunIds
    /\ \A t \in Threads : pc[t] \in {"check", "pop"} => item[t] = 0
    /\ \A t \in Threads : item[t] # 0 => item[t] < next
    /\ \A t, u \in Threads : item[t] # 0 /\ item[t] = item[u] => t = u

\* What a thread is about to report has been decided, and a run is given up
\* only because a flag is up.
OutcomeDecided ==
    \A t \in Threads :
        /\ pc[t] \in {"report", "record"} => outcome[t] \in Settled
        /\ pc[t] = "slot" => outcome[t] \in Causes /\ abort
        /\ outcome[t] = "cancelled" => cancel \/ abort

\* A dead worker died in one of its own ways.
ZombieExited == \A i \in RunIds : child[i] = "zombie" => exitKind[i] \in Exits

\* A live worker is under the eyes of the thread that owns its run.
Supervised ==
    \A i \in RunIds : Alive(i) => \E t \in Threads : item[t] = i /\ pc[t] \in Supervising

\* A popped run has its result or is still with its thread.
NoRunForgotten ==
    \A i \in RunIds : i < next => results[i].run = i \/ \E t \in Threads : item[t] = i

\* A thread leaves the loop because a flag is up or all the work is done.
ExitJustified ==
    \A t \in Threads : pc[t] = "exit" => \/ abort \/ cancel
                                         \/ item[t] = 0 /\ next = NumRuns + 1

\* The error behind a raised abort flag is on record or about to be.
AbortExplained == abort => firstError # NoError \/ \E t \in Threads : pc[t] = "slot"

\* What execute knows of the threads it has joined.
JoinedStopped ==
    \A t \in Threads : t <= joined => /\ Stopped(t)
                                      /\ pc[t] = "panicked" => firstError # NoError

\* Nothing happens after the reply but the caller's own steps.
ReplyLast == reply # NoReply => joined = Workers

\* A run that is not finished has no result yet, and no worker before its spawn.
FirstTry ==
    /\ \A i \in RunIds : i >= next => results[i] = NoResult /\ child[i] = "none"
    /\ \A t \in Threads : pc[t] \in Busy => results[item[t]] = NoResult
    /\ \A t \in Threads : pc[t] = "spawn" => child[item[t]] = "none"

IInv == /\ TypeOK /\ Ownership /\ OutcomeDecided /\ ZombieExited /\ Supervised
        /\ NoRunForgotten /\ ExitJustified /\ AbortExplained /\ JoinedStopped
        /\ ReplyLast /\ FirstTry

\* The pool has at least one thread and never more than asked for.
LEMMA WorkersType == Workers \in Nat \ {0} /\ Workers <= AtLeastOne /\ AtLeastOne \in Nat
  BY NumRunsAssumption, ParallelismAssumption DEF Workers, AtLeastOne

USE NumRunsAssumption, FlagAssumption

\* The empty slot, error and reply are values of their types.
LEMMA BlanksTyped == /\ NoResult \in Slots
                     /\ NoError \in Errors /\ Panic \in Errors /\ Panic # NoError
                     /\ NoReply \in Replies
  BY DEF NoResult, NoError, Panic, NoReply, Slots, Errors, Replies

\* An exit status is read as a result or as one of the failure causes.
LEMMA ClassifyType == \A how \in Exits : Classify(how) \in {"ok"} \union Causes
  BY DEF Exits, Classify, Causes

\* Whatever the error slot holds, the reply made of it is a reply.
LEMMA ReplyForType == \A e \in Errors : ReplyFor(e) \in Replies /\ ReplyFor(e) # NoReply
  BY DEF Errors, Replies, ReplyFor, NoReply, NoError, Panic

\* The invariant holds when the batch starts.
LEMMA InitInv == Init => IInv
<1> SUFFICES ASSUME Init PROVE IInv
  OBVIOUS
<1> USE DEF Init
<1>1. TypeOK
  <2>1. joined \in 0..Workers /\ next \in 1..(NumRuns + 1)
    BY WorkersType
  <2>2. /\ results \in [RunIds -> Slots] /\ firstError \in Errors /\ reply \in Replies
        /\ pc \in [Threads -> PCs]
    BY BlanksTyped DEF PCs
  <2>3. /\ item \in [Threads -> RunIds \union {0}]
        /\ outcome \in [Threads -> Outcomes]
        /\ expired \in [Threads -> BOOLEAN]
    BY DEF Outcomes
  <2> QED
    BY <2>1, <2>2, <2>3 DEF TypeOK
<1>2. Ownership /\ OutcomeDecided /\ ExitJustified
  BY DEF Ownership, OutcomeDecided, ExitJustified, Busy
<1>3. ZombieExited /\ Supervised
  BY DEF ZombieExited, Supervised, Alive
<1>4. NoRunForgotten
  BY DEF NoRunForgotten, RunIds
<1>5. AbortExplained /\ ReplyLast /\ FirstTry
  BY DEF AbortExplained, ReplyLast, FirstTry, Busy
<1>6. JoinedStopped
  BY WorkersType DEF JoinedStopped, Threads
<1> QED
  BY <1>1, <1>2, <1>3, <1>4, <1>5, <1>6 DEF IInv

\* A step of one thread, or of the worker it watches, keeps live workers watched.
LEMMA SupervisedStep ==
    ASSUME Supervised, NEW t \in Threads,
           \A u \in Threads \ {t} : item'[u] = item[u] /\ pc'[u] = pc[u],
           \A j \in RunIds : Alive(j)' =>
               \/ Alive(j) /\ (j # item[t] \/ pc[t] \notin Supervising)
               \/ item'[t] = j /\ pc'[t] \in Supervising
    PROVE  Supervised'
<1> SUFFICES ASSUME NEW j \in RunIds, Alive(j)'
             PROVE  \E u \in Threads : item'[u] = j /\ pc'[u] \in Supervising
  BY DEF Supervised
<1>1. CASE Alive(j) /\ (j # item[t] \/ pc[t] \notin Supervising)
  <2>1. PICK u \in Threads : item[u] = j /\ pc[u] \in Supervising
    BY <1>1 DEF Supervised
  <2>2. u # t
    BY <1>1, <2>1
  <2> QED
    BY <2>1, <2>2
<1> QED
  BY <1>1

(***************************************************************************)
(* Every step preserves the invariant                                      *)
(***************************************************************************)
\* Reading the flags moves one thread and changes nothing shared.
LEMMA CheckFlagsInv == ASSUME IInv, NEW t \in Threads, CheckFlags(t) PROVE IInv'
<1> USE DEF CheckFlags, IInv
<1>1. TypeOK'
  BY WorkersType, BlanksTyped DEF TypeOK, PCs, Outcomes, Causes, Goto, RunStatus, Threads, RunIds
<1>2. Ownership'
  BY WorkersType, BlanksTyped DEF TypeOK, Ownership, Busy, Goto, Threads, RunIds
<1>3. OutcomeDecided'
  BY WorkersType, BlanksTyped DEF TypeOK, OutcomeDecided, Settled, Goto, Causes, Threads, RunIds
<1>4. ZombieExited'
  BY WorkersType, BlanksTyped DEF TypeOK, ZombieExited, Alive, Threads, RunIds
<1>5. Supervised'
  BY SupervisedStep DEF TypeOK, Ownership, Supervising, Busy, Alive, Goto
<1>6. NoRunForgotten'
  BY WorkersType, BlanksTyped DEF TypeOK, Ownership, NoRunForgotten, Goto, Busy, Threads, RunIds
<1>7. ExitJustified'
  BY WorkersType, BlanksTyped DEF TypeOK, Ownership, ExitJustified, Goto, OutcomeDecided, Threads, RunIds
<1>8. AbortExplained'
  BY WorkersType, BlanksTyped DEF TypeOK, AbortExplained, Goto, NoError, Threads, RunIds
<1>9. JoinedStopped'
  BY WorkersType, BlanksTyped DEF TypeOK, JoinedStopped, Stopped, Goto, Threads, RunIds
<1>10. ReplyLast'
  BY WorkersType, BlanksTyped DEF TypeOK, ReplyLast, Goto, Threads, RunIds
<1>11. FirstTry'
  BY WorkersType, BlanksTyped DEF TypeOK, Ownership, FirstTry, Busy, Goto, Threads, RunIds
<1> QED
  BY <1>1, <1>2, <1>3, <1>4, <1>5, <1>6, <1>7, <1>8, <1>9, <1>10, <1>11

\* A popped run has exactly one owner; an exit finds the queue empty.
LEMMA PopRunInv == ASSUME IInv, NEW t \in Threads, PopRun(t) PROVE IInv'
<1> USE DEF PopRun, IInv
<1>1. TypeOK'
  <2>1. CASE next > NumRuns
    BY <2>1 DEF TypeOK, Goto, PCs
  <2>2. CASE next \in RunIds
    <3>1. /\ item' = [item EXCEPT ![t] = next] /\ next' = next + 1
          /\ pc' = [pc EXCEPT ![t] = "spawn"]
      BY <2>2 DEF Goto, RunIds
    <3>2. next' \in 1..(NumRuns + 1)
      BY <2>2, <3>1 DEF RunIds
    <3>3. item' \in [Threads -> RunIds \union {0}] /\ pc' \in [Threads -> PCs]
      BY <2>2, <3>1 DEF TypeOK, PCs
    <3> QED
      BY <3>2, <3>3 DEF TypeOK
  <2> QED
    BY <2>1, <2>2 DEF TypeOK, RunIds
<1>2. Ownership'
  <2>1. CASE next > NumRuns
    BY <2>1 DEF TypeOK, Ownership, Goto, Busy
  <2>2. CASE next \in RunIds
    <3>1. /\ item' = [item EXCEPT ![t] = next] /\ next' = next + 1
          /\ pc' = [pc EXCEPT ![t] = "spawn"]
      BY <2>2 DEF Goto, RunIds
    <3>2. \A u \in Threads : item[u] < next \/ item[u] = 0
      BY DEF Ownership
    <3> QED
      BY <2>2, <3>1, <3>2 DEF TypeOK, Ownership, Busy, RunIds
  <2> QED
    BY <2>1, <2>2 DEF TypeOK, RunIds
<1>3. OutcomeDecided'
  BY WorkersType, BlanksTyped DEF TypeOK, OutcomeDecided, Settled, Goto, Causes, Threads, RunIds
<1>4. ZombieExited'
  BY WorkersType, BlanksTyped DEF TypeOK, ZombieExited, Alive, Threads, RunIds
<1>5. Supervised'
  BY SupervisedStep DEF TypeOK, Ownership, Supervising, Busy, Alive, Goto
<1>6. NoRunForgotten'
  <2>1. CASE next > NumRuns
    BY <2>1 DEF TypeOK, NoRunForgotten, Goto
  <2>2. CASE next \in RunIds
    <3>1. item' = [item EXCEPT ![t] = next] /\ next' = next + 1 /\ item[t] = 0
      BY <2>2 DEF Goto, RunIds, Ownership
    <3> SUFFICES ASSUME NEW j \in RunIds, j < next + 1
                 PROVE  results[j].run = j \/ \E u \in Threads : item'[u] = j
      BY <3>1 DEF NoRunForgotten
    <3>2. CASE j = next
      BY <3>1, <3>2 DEF TypeOK
    <3>3. CASE j < next
      BY <3>1, <3>3 DEF TypeOK, NoRunForgotten, RunIds
    <3> QED
      BY <2>2, <3>2, <3>3 DEF RunIds
  <2> QED
    BY <2>1, <2>2 DEF TypeOK, RunIds
<1>7. ExitJustified'
  BY WorkersType, BlanksTyped DEF TypeOK, Ownership, ExitJustified, Goto, OutcomeDecided, Threads, RunIds
<1>8. AbortExplained'
  BY WorkersType, BlanksTyped DEF TypeOK, AbortExplained, Goto, NoError, Threads, RunIds
<1>9. JoinedStopped'
  BY WorkersType, BlanksTyped DEF TypeOK, JoinedStopped, Stopped, Goto, Threads, RunIds
<1>10. ReplyLast'
  BY WorkersType, BlanksTyped DEF TypeOK, ReplyLast, Goto, Threads, RunIds
<1>11. FirstTry'
  <2>1. /\ UNCHANGED <<results, child>>
        /\ \/ next > NumRuns /\ UNCHANGED <<next, item>> /\ pc'[t] \notin Busy
           \/ next \in RunIds /\ next' = next + 1 /\ item' = [item EXCEPT ![t] = next]
        /\ \A u \in Threads \ {t} : pc'[u] = pc[u]
    BY DEF TypeOK, Goto, Busy, RunIds
  <2>2. CASE next > NumRuns
    <3>1. \A u \in Threads : pc'[u] \in Busy => u # t
      BY <2>1, <2>2 DEF RunIds
    <3>2. UNCHANGED <<next, item>>
      BY <2>1, <2>2 DEF RunIds
    <3> QED
      BY <2>1, <3>1, <3>2 DEF FirstTry, Busy
  <2>3. CASE next \in RunIds
    <3>1. item'[t] = next /\ \A u \in Threads \ {t} : item'[u] = item[u]
      BY <2>1, <2>3 DEF TypeOK, RunIds
    <3>2. \A i \in RunIds : i >= next' => i >= next
      BY <2>1, <2>3 DEF RunIds
    <3>3. results[next] = NoResult /\ child[next] = "none"
      BY <2>3 DEF FirstTry, RunIds
    <3> QED
      BY <2>1, <3>1, <3>2, <3>3 DEF FirstTry, Busy
  <2> QED
    BY <2>1, <2>2, <2>3
<1> QED
  BY <1>1, <1>2, <1>3, <1>4, <1>5, <1>6, <1>7, <1>8, <1>9, <1>10, <1>11

\* A new worker is watched by its thread; a failed spawn leaves none.
LEMMA SpawnWorkerInv == ASSUME IInv, NEW t \in Threads, SpawnWorker(t) PROVE IInv'
<1> USE DEF SpawnWorker, IInv
<1>1. TypeOK'
  BY WorkersType, BlanksTyped DEF TypeOK, PCs, Outcomes, Causes, Goto, RunStatus, Threads, RunIds
<1>2. Ownership'
  BY WorkersType, BlanksTyped DEF TypeOK, Ownership, Busy, Goto, Threads, RunIds
<1>3. OutcomeDecided'
  BY WorkersType, BlanksTyped DEF TypeOK, OutcomeDecided, Settled, Goto, Causes, Threads, RunIds
<1>4. ZombieExited'
  BY WorkersType, BlanksTyped DEF TypeOK, ZombieExited, Alive, Threads, RunIds
<1>5. Supervised'
  BY SupervisedStep DEF TypeOK, Ownership, Supervising, Busy, Alive, Goto
<1>6. NoRunForgotten'
  BY WorkersType, BlanksTyped DEF TypeOK, Ownership, NoRunForgotten, Goto, Busy, Threads, RunIds
<1>7. ExitJustified'
  BY WorkersType, BlanksTyped DEF TypeOK, Ownership, ExitJustified, Goto, OutcomeDecided, Threads, RunIds
<1>8. AbortExplained'
  BY WorkersType, BlanksTyped DEF TypeOK, AbortExplained, Goto, NoError, Threads, RunIds
<1>9. JoinedStopped'
  BY WorkersType, BlanksTyped DEF TypeOK, JoinedStopped, Stopped, Goto, Threads, RunIds
<1>10. ReplyLast'
  BY WorkersType, BlanksTyped DEF TypeOK, ReplyLast, Goto, Threads, RunIds
<1>11. FirstTry'
  <2>1. next' = next /\ results' = results /\ item' = item
    OBVIOUS
  <2>2. item[t] \in RunIds /\ item[t] < next /\ pc[t] = "spawn"
    BY DEF Ownership, Busy, RunIds
  <2>3. \A i \in RunIds : i # item[t] => child'[i] = child[i]
    BY DEF TypeOK
  <2>4. \A u \in Threads : pc'[u] \in Busy => pc[u] \in Busy
    BY <2>2 DEF TypeOK, Goto, Busy
  <2>5. \A i \in RunIds : i >= next' => results'[i] = NoResult /\ child'[i] = "none"
    BY <2>1, <2>2, <2>3 DEF TypeOK, FirstTry, RunIds
  <2>6. \A u \in Threads : pc'[u] \in Busy => results'[item'[u]] = NoResult
    BY <2>1, <2>4 DEF FirstTry
  <2>7. ASSUME NEW u \in Threads, pc'[u] = "spawn" PROVE child'[item'[u]] = "none"
    <3>1. pc[u] = "spawn" /\ u # t
      BY <2>2, <2>7 DEF TypeOK, Goto
    <3>2. item[u] \in RunIds /\ item[u] # item[t]
      BY <2>2, <3>1 DEF Ownership, Busy, RunIds
    <3> QED
      BY <2>1, <2>3, <3>1, <3>2 DEF FirstTry
  <2> QED
    BY <2>5, <2>6, <2>7 DEF FirstTry
<1> QED
  BY <1>1, <1>2, <1>3, <1>4, <1>5, <1>6, <1>7, <1>8, <1>9, <1>10, <1>11

\* A written request moves the thread to its wait; a broken pipe decides the outcome.
LEMMA WriteRequestInv == ASSUME IInv, NEW t \in Threads, WriteRequest(t) PROVE IInv'
<1> USE DEF WriteRequest, IInv
<1>1. TypeOK'
  BY WorkersType, BlanksTyped DEF TypeOK, PCs, Outcomes, Causes, Goto, RunStatus, Threads, RunIds
<1>2. Ownership'
  BY WorkersType, BlanksTyped DEF TypeOK, Ownership, Busy, Goto, Threads, RunIds
<1>3. OutcomeDecided'
  BY WorkersType, BlanksTyped DEF TypeOK, OutcomeDecided, Settled, Goto, Causes, Threads, RunIds
<1>4. ZombieExited'
  BY WorkersType, BlanksTyped DEF TypeOK, ZombieExited, Alive, Threads, RunIds
<1>5. Supervised'
  BY SupervisedStep DEF TypeOK, Ownership, Supervising, Busy, Alive, Goto
<1>6. NoRunForgotten'
  BY WorkersType, BlanksTyped DEF TypeOK, Ownership, NoRunForgotten, Goto, Busy, Threads, RunIds
<1>7. ExitJustified'
  BY WorkersType, BlanksTyped DEF TypeOK, Ownership, ExitJustified, Goto, OutcomeDecided, Threads, RunIds
<1>8. AbortExplained'
  BY WorkersType, BlanksTyped DEF TypeOK, AbortExplained, Goto, NoError, Threads, RunIds
<1>9. JoinedStopped'
  BY WorkersType, BlanksTyped DEF TypeOK, JoinedStopped, Stopped, Goto, Threads, RunIds
<1>10. ReplyLast'
  BY WorkersType, BlanksTyped DEF TypeOK, ReplyLast, Goto, Threads, RunIds
<1>11. FirstTry'
  BY WorkersType, BlanksTyped DEF TypeOK, Ownership, FirstTry, Busy, Goto, Threads, RunIds
<1> QED
  BY <1>1, <1>2, <1>3, <1>4, <1>5, <1>6, <1>7, <1>8, <1>9, <1>10, <1>11

\* A reaped worker decides the outcome of its run.
LEMMA PollChildInv == ASSUME IInv, NEW t \in Threads, PollChild(t) PROVE IInv'
<1> USE DEF PollChild, IInv
<1>1. TypeOK'
  <2>1. child[item[t]] = "zombie" => Classify(exitKind[item[t]]) \in Outcomes
    BY ClassifyType DEF ZombieExited, Ownership, Busy, Outcomes
  <2>2. outcome' \in [Threads -> Outcomes] /\ expired' \in [Threads -> BOOLEAN]
    BY <2>1 DEF TypeOK
  <2>3. pc' \in [Threads -> PCs]
    BY DEF TypeOK, Goto, PCs
  <2> QED
    BY <2>2, <2>3 DEF TypeOK
<1>2. Ownership'
  BY WorkersType, BlanksTyped DEF TypeOK, Ownership, Busy, Goto, Threads, RunIds
<1>3. OutcomeDecided'
  <2>1. child[item[t]] = "zombie" =>
           Classify(exitKind[item[t]]) \in Settled \ {"cancelled"}
    BY ClassifyType DEF ZombieExited, Ownership, Busy, Settled, Causes
  <2> QED
    BY <2>1 DEF TypeOK, OutcomeDecided, Goto
<1>4. ZombieExited'
  BY WorkersType, BlanksTyped DEF TypeOK, ZombieExited, Alive, Threads, RunIds
<1>5. Supervised'
  BY SupervisedStep DEF TypeOK, Ownership, Supervising, Busy, Alive, Goto
<1>6. NoRunForgotten'
  BY WorkersType, BlanksTyped DEF TypeOK, Ownership, NoRunForgotten, Goto, Busy, Threads, RunIds
<1>7. ExitJustified'
  BY WorkersType, BlanksTyped DEF TypeOK, Ownership, ExitJustified, Goto, OutcomeDecided, Threads, RunIds
<1>8. AbortExplained'
  BY WorkersType, BlanksTyped DEF TypeOK, AbortExplained, Goto, NoError, Threads, RunIds
<1>9. JoinedStopped'
  BY WorkersType, BlanksTyped DEF TypeOK, JoinedStopped, Stopped, Goto, Threads, RunIds
<1>10. ReplyLast'
  BY WorkersType, BlanksTyped DEF TypeOK, ReplyLast, Goto, Threads, RunIds
<1>11. FirstTry'
  BY WorkersType, BlanksTyped DEF TypeOK, Ownership, FirstTry, Busy, Goto, Threads, RunIds
<1> QED
  BY <1>1, <1>2, <1>3, <1>4, <1>5, <1>6, <1>7, <1>8, <1>9, <1>10, <1>11

\* A wait is given up only with the worker dead, for a flag or for the cap.
LEMMA CheckWaitInv == ASSUME IInv, NEW t \in Threads, CheckWait(t) PROVE IInv'
<1> USE DEF CheckWait, EndWait, IInv
<1>1. TypeOK'
  <2>1. child' \in [RunIds -> {"none", "starting", "running", "zombie", "gone"}]
    BY DEF TypeOK, KillAndReap
  <2>2. exitKind' \in [RunIds -> {"none", "killed"} \union Exits]
    BY DEF TypeOK, KillAndReap
  <2>3. outcome' \in [Threads -> Outcomes] /\ expired' \in [Threads -> BOOLEAN]
    BY DEF TypeOK, Outcomes, Causes
  <2>4. pc' \in [Threads -> PCs]
    BY DEF TypeOK, Goto, PCs
  <2>5. UNCHANGED <<mode, next, results, cancel, abort, firstError, item, phase, joined, reply>>
    OBVIOUS
  <2> QED
    BY <2>1, <2>2, <2>3, <2>4, <2>5 DEF TypeOK
<1>2. Ownership'
  BY WorkersType, BlanksTyped DEF TypeOK, Ownership, Busy, Goto, Threads, RunIds
<1>3. OutcomeDecided'
  BY WorkersType, BlanksTyped DEF TypeOK, OutcomeDecided, Settled, Goto, Causes, Threads, RunIds
<1>4. ZombieExited'
  BY DEF TypeOK, ZombieExited, KillAndReap, Alive
<1>5. Supervised'
  BY SupervisedStep DEF TypeOK, Ownership, Supervising, Busy, Alive, Goto, KillAndReap
<1>6. NoRunForgotten'
  BY WorkersType, BlanksTyped DEF TypeOK, Ownership, NoRunForgotten, Goto, Busy, Threads, RunIds
<1>7. ExitJustified'
  BY WorkersType, BlanksTyped DEF TypeOK, Ownership, ExitJustified, Goto, OutcomeDecided, Threads, RunIds
<1>8. AbortExplained'
  BY WorkersType, BlanksTyped DEF TypeOK, AbortExplained, Goto, NoError, Threads, RunIds
<1>9. JoinedStopped'
  BY WorkersType, BlanksTyped DEF TypeOK, JoinedStopped, Stopped, Goto, Threads, RunIds
<1>10. ReplyLast'
  BY WorkersType, BlanksTyped DEF TypeOK, ReplyLast, Goto, Threads, RunIds
<1>11. FirstTry'
  <2>1. \A i \in RunIds \ {item[t]} : child'[i] = child[i]
    BY DEF KillAndReap, TypeOK
  <2>2. \A u \in Threads : pc'[u] = "spawn" => pc[u] = "spawn" /\ item[u] # item[t]
    <3> SUFFICES ASSUME NEW u \in Threads, pc'[u] = "spawn"
                 PROVE  pc[u] = "spawn" /\ item[u] # item[t]
      OBVIOUS
    <3>1. u # t /\ pc[u] = "spawn"
      BY DEF TypeOK, Goto
    <3>2. item[u] # 0
      BY <3>1 DEF Ownership, Busy, RunIds
    <3> QED
      BY <3>1, <3>2 DEF Ownership
  <2>3. \A u \in Threads : pc'[u] \in Busy => pc[u] \in Busy
    BY DEF TypeOK, Busy, Goto
  <2>4. item[t] \in RunIds /\ item[t] < next
    BY DEF TypeOK, Ownership, Busy, RunIds
  <2>5. \A u \in Threads : pc[u] \in Busy => item[u] \in RunIds
    BY DEF Ownership
  <2> QED
    BY <2>1, <2>2, <2>3, <2>4, <2>5 DEF FirstTry, TypeOK, RunIds, Busy
<1> QED
  BY <1>1, <1>2, <1>3, <1>4, <1>5, <1>6, <1>7, <1>8, <1>9, <1>10, <1>11

\* Closing the phase of a run changes nothing else.
LEMMA ReportRunInv == ASSUME IInv, NEW t \in Threads, ReportRun(t) PROVE IInv'
<1> USE DEF ReportRun, IInv
<1>1. TypeOK'
  BY WorkersType, BlanksTyped DEF TypeOK, PCs, Outcomes, Causes, Goto, RunStatus, Threads, RunIds
<1>2. Ownership'
  BY WorkersType, BlanksTyped DEF TypeOK, Ownership, Busy, Goto, Threads, RunIds
<1>3. OutcomeDecided'
  BY WorkersType, BlanksTyped DEF TypeOK, OutcomeDecided, Settled, Goto, Causes, Threads, RunIds
<1>4. ZombieExited'
  BY WorkersType, BlanksTyped DEF TypeOK, ZombieExited, Alive, Threads, RunIds
<1>5. Supervised'
  BY SupervisedStep DEF TypeOK, Ownership, Supervising, Busy, Alive, Goto
<1>6. NoRunForgotten'
  BY WorkersType, BlanksTyped DEF TypeOK, Ownership, NoRunForgotten, Goto, Busy, Threads, RunIds
<1>7. ExitJustified'
  BY WorkersType, BlanksTyped DEF TypeOK, Ownership, ExitJustified, Goto, OutcomeDecided, Threads, RunIds
<1>8. AbortExplained'
  BY WorkersType, BlanksTyped DEF TypeOK, AbortExplained, Goto, NoError, Threads, RunIds
<1>9. JoinedStopped'
  BY WorkersType, BlanksTyped DEF TypeOK, JoinedStopped, Stopped, Goto, Threads, RunIds
<1>10. ReplyLast'
  BY WorkersType, BlanksTyped DEF TypeOK, ReplyLast, Goto, Threads, RunIds
<1>11. FirstTry'
  BY WorkersType, BlanksTyped DEF TypeOK, Ownership, FirstTry, Busy, Goto, Threads, RunIds
<1> QED
  BY <1>1, <1>2, <1>3, <1>4, <1>5, <1>6, <1>7, <1>8, <1>9, <1>10, <1>11

\* A stored result fills the slot of its own run, which then has no owner.
LEMMA StoreResultInv == ASSUME IInv, NEW t \in Threads, StoreResult(t) PROVE IInv'
<1> USE DEF StoreResult, StoreAt, IInv
<1>1. TypeOK'
  <2>1. item[t] \in RunIds /\ outcome[t] \in {"ok"} \union Causes
    BY DEF Ownership, Busy
  <2>2. [run |-> item[t], status |-> outcome[t]] \in Slots
    BY <2>1 DEF Slots
  <2> QED
    BY <2>1, <2>2 DEF TypeOK, Goto, PCs, Outcomes
<1>2. Ownership'
  BY WorkersType, BlanksTyped DEF TypeOK, Ownership, Busy, Goto, Threads, RunIds
<1>3. OutcomeDecided'
  BY WorkersType, BlanksTyped DEF TypeOK, OutcomeDecided, Settled, Goto, Causes, Threads, RunIds
<1>4. ZombieExited'
  BY WorkersType, BlanksTyped DEF TypeOK, ZombieExited, Alive, Threads, RunIds
<1>5. Supervised'
  BY SupervisedStep DEF TypeOK, Ownership, Supervising, Busy, Alive, Goto
<1>6. NoRunForgotten'
  BY WorkersType, BlanksTyped DEF TypeOK, Ownership, NoRunForgotten, Goto, Busy, Threads, RunIds
<1>7. ExitJustified'
  BY WorkersType, BlanksTyped DEF TypeOK, Ownership, ExitJustified, Goto, OutcomeDecided, Threads, RunIds
<1>8. AbortExplained'
  BY WorkersType, BlanksTyped DEF TypeOK, AbortExplained, Goto, NoError, Threads, RunIds
<1>9. JoinedStopped'
  BY WorkersType, BlanksTyped DEF TypeOK, JoinedStopped, Stopped, Goto, Threads, RunIds
<1>10. ReplyLast'
  BY WorkersType, BlanksTyped DEF TypeOK, ReplyLast, Goto, Threads, RunIds
<1>11. FirstTry'
  BY WorkersType, BlanksTyped DEF TypeOK, Ownership, FirstTry, Busy, Goto, Threads, RunIds
<1> QED
  BY <1>1, <1>2, <1>3, <1>4, <1>5, <1>6, <1>7, <1>8, <1>9, <1>10, <1>11

\* A thread leaves with its run unfinished only because a flag is up.
LEMMA LeaveCancelledInv == ASSUME IInv, NEW t \in Threads, LeaveCancelled(t) PROVE IInv'
<1> USE DEF LeaveCancelled, IInv
<1>1. TypeOK'
  BY WorkersType, BlanksTyped DEF TypeOK, PCs, Outcomes, Causes, Goto, RunStatus, Threads, RunIds
<1>2. Ownership'
  BY WorkersType, BlanksTyped DEF TypeOK, Ownership, Busy, Goto, Threads, RunIds
<1>3. OutcomeDecided'
  BY WorkersType, BlanksTyped DEF TypeOK, OutcomeDecided, Settled, Goto, Causes, Threads, RunIds
<1>4. ZombieExited'
  BY WorkersType, BlanksTyped DEF TypeOK, ZombieExited, Alive, Threads, RunIds
<1>5. Supervised'
  BY SupervisedStep DEF TypeOK, Ownership, Supervising, Busy, Alive, Goto
<1>6. NoRunForgotten'
  BY WorkersType, BlanksTyped DEF TypeOK, Ownership, NoRunForgotten, Goto, Busy, Threads, RunIds
<1>7. ExitJustified'
  BY WorkersType, BlanksTyped DEF TypeOK, Ownership, ExitJustified, Goto, OutcomeDecided, Threads, RunIds
<1>8. AbortExplained'
  BY WorkersType, BlanksTyped DEF TypeOK, AbortExplained, Goto, NoError, Threads, RunIds
<1>9. JoinedStopped'
  BY WorkersType, BlanksTyped DEF TypeOK, JoinedStopped, Stopped, Goto, Threads, RunIds
<1>10. ReplyLast'
  BY WorkersType, BlanksTyped DEF TypeOK, ReplyLast, Goto, Threads, RunIds
<1>11. FirstTry'
  BY WorkersType, BlanksTyped DEF TypeOK, Ownership, FirstTry, Busy, Goto, Threads, RunIds
<1> QED
  BY <1>1, <1>2, <1>3, <1>4, <1>5, <1>6, <1>7, <1>8, <1>9, <1>10, <1>11

\* A raised flag has a thread on its way to record the error.
LEMMA RaiseAbortInv == ASSUME IInv, NEW t \in Threads, RaiseAbort(t) PROVE IInv'
<1> USE DEF RaiseAbort, RaiseThenGo, IInv
<1>1. TypeOK'
  BY WorkersType, BlanksTyped DEF TypeOK, PCs, Outcomes, Causes, Goto, RunStatus, Threads, RunIds
<1>2. Ownership'
  BY WorkersType, BlanksTyped DEF TypeOK, Ownership, Busy, Goto, Threads, RunIds
<1>3. OutcomeDecided'
  BY WorkersType, BlanksTyped DEF TypeOK, OutcomeDecided, Settled, Goto, Causes, Threads, RunIds
<1>4. ZombieExited'
  BY WorkersType, BlanksTyped DEF TypeOK, ZombieExited, Alive, Threads, RunIds
<1>5. Supervised'
  BY SupervisedStep DEF TypeOK, Ownership, Supervising, Busy, Alive, Goto
<1>6. NoRunForgotten'
  BY WorkersType, BlanksTyped DEF TypeOK, Ownership, NoRunForgotten, Goto, Busy, Threads, RunIds
<1>7. ExitJustified'
  BY WorkersType, BlanksTyped DEF TypeOK, Ownership, ExitJustified, Goto, OutcomeDecided, Threads, RunIds
<1>8. AbortExplained'
  BY WorkersType, BlanksTyped DEF TypeOK, AbortExplained, Goto, NoError, Threads, RunIds
<1>9. JoinedStopped'
  BY WorkersType, BlanksTyped DEF TypeOK, JoinedStopped, Stopped, Goto, Threads, RunIds
<1>10. ReplyLast'
  BY WorkersType, BlanksTyped DEF TypeOK, ReplyLast, Goto, Threads, RunIds
<1>11. FirstTry'
  BY WorkersType, BlanksTyped DEF TypeOK, Ownership, FirstTry, Busy, Goto, Threads, RunIds
<1> QED
  BY <1>1, <1>2, <1>3, <1>4, <1>5, <1>6, <1>7, <1>8, <1>9, <1>10, <1>11

\* A recorded error explains the abort flag.
LEMMA RecordErrorInv == ASSUME IInv, NEW t \in Threads, RecordError(t) PROVE IInv'
<1> USE DEF RecordError, IInv
<1>1. TypeOK'
  <2>1. [run |-> item[t], cause |-> outcome[t]] \in Errors
    BY DEF Ownership, OutcomeDecided, Busy, Errors
  <2> QED
    BY <2>1 DEF TypeOK, Goto, PCs
<1>2. Ownership'
  BY WorkersType, BlanksTyped DEF TypeOK, Ownership, Busy, Goto, Threads, RunIds
<1>3. OutcomeDecided'
  BY WorkersType, BlanksTyped DEF TypeOK, OutcomeDecided, Settled, Goto, Causes, Threads, RunIds
<1>4. ZombieExited'
  BY WorkersType, BlanksTyped DEF TypeOK, ZombieExited, Alive, Threads, RunIds
<1>5. Supervised'
  BY SupervisedStep DEF TypeOK, Ownership, Supervising, Busy, Alive, Goto
<1>6. NoRunForgotten'
  BY WorkersType, BlanksTyped DEF TypeOK, Ownership, NoRunForgotten, Goto, Busy, Threads, RunIds
<1>7. ExitJustified'
  BY WorkersType, BlanksTyped DEF TypeOK, Ownership, ExitJustified, Goto, OutcomeDecided, Threads, RunIds
<1>8. AbortExplained'
  <2>1. [run |-> item[t], cause |-> outcome[t]] # NoError
    BY DEF Ownership, Busy, RunIds, NoError
  <2> QED
    BY <2>1 DEF AbortExplained
<1>9. JoinedStopped'
  BY WorkersType, BlanksTyped DEF TypeOK, JoinedStopped, Stopped, Goto, Threads, RunIds
<1>10. ReplyLast'
  BY WorkersType, BlanksTyped DEF TypeOK, ReplyLast, Goto, Threads, RunIds
<1>11. FirstTry'
  BY WorkersType, BlanksTyped DEF TypeOK, Ownership, FirstTry, Busy, Goto, Threads, RunIds
<1> QED
  BY <1>1, <1>2, <1>3, <1>4, <1>5, <1>6, <1>7, <1>8, <1>9, <1>10, <1>11

\* A panicked thread keeps its run; the join will see it.
LEMMA PanicInSinkInv == ASSUME IInv, NEW t \in Threads, PanicInSink(t) PROVE IInv'
<1> USE DEF PanicInSink, IInv
<1>1. TypeOK'
  BY WorkersType, BlanksTyped DEF TypeOK, PCs, Outcomes, Causes, Goto, RunStatus, Threads, RunIds
<1>2. Ownership'
  BY WorkersType, BlanksTyped DEF TypeOK, Ownership, Busy, Goto, Threads, RunIds
<1>3. OutcomeDecided'
  BY WorkersType, BlanksTyped DEF TypeOK, OutcomeDecided, Settled, Goto, Causes, Threads, RunIds
<1>4. ZombieExited'
  BY WorkersType, BlanksTyped DEF TypeOK, ZombieExited, Alive, Threads, RunIds
<1>5. Supervised'
  BY SupervisedStep DEF TypeOK, Ownership, Supervising, Busy, Alive, Goto
<1>6. NoRunForgotten'
  BY WorkersType, BlanksTyped DEF TypeOK, Ownership, NoRunForgotten, Goto, Busy, Threads, RunIds
<1>7. ExitJustified'
  BY WorkersType, BlanksTyped DEF TypeOK, Ownership, ExitJustified, Goto, OutcomeDecided, Threads, RunIds
<1>8. AbortExplained'
  BY WorkersType, BlanksTyped DEF TypeOK, AbortExplained, Goto, NoError, Threads, RunIds
<1>9. JoinedStopped'
  BY WorkersType, BlanksTyped DEF TypeOK, JoinedStopped, Stopped, Goto, Threads, RunIds
<1>10. ReplyLast'
  BY WorkersType, BlanksTyped DEF TypeOK, ReplyLast, Goto, Threads, RunIds
<1>11. FirstTry'
  BY WorkersType, BlanksTyped DEF TypeOK, Ownership, FirstTry, Busy, Goto, Threads, RunIds
<1> QED
  BY <1>1, <1>2, <1>3, <1>4, <1>5, <1>6, <1>7, <1>8, <1>9, <1>10, <1>11

\* The clock touches no shared state.
LEMMA TimeCapElapsesInv == ASSUME IInv, NEW t \in Threads, TimeCapElapses(t) PROVE IInv'
<1> USE DEF TimeCapElapses, IInv
<1>1. TypeOK'
  BY WorkersType, BlanksTyped DEF TypeOK, PCs, Outcomes, Causes, Goto, RunStatus, Threads, RunIds
<1>2. Ownership'
  BY WorkersType, BlanksTyped DEF TypeOK, Ownership, Busy, Goto, Threads, RunIds
<1>3. OutcomeDecided'
  BY WorkersType, BlanksTyped DEF TypeOK, OutcomeDecided, Settled, Goto, Causes, Threads, RunIds
<1>4. ZombieExited'
  BY WorkersType, BlanksTyped DEF TypeOK, ZombieExited, Alive, Threads, RunIds
<1>5. Supervised'
  BY SupervisedStep DEF TypeOK, Ownership, Supervising, Busy, Alive, Goto
<1>6. NoRunForgotten'
  BY WorkersType, BlanksTyped DEF TypeOK, Ownership, NoRunForgotten, Goto, Busy, Threads, RunIds
<1>7. ExitJustified'
  BY WorkersType, BlanksTyped DEF TypeOK, Ownership, ExitJustified, Goto, OutcomeDecided, Threads, RunIds
<1>8. AbortExplained'
  BY WorkersType, BlanksTyped DEF TypeOK, AbortExplained, Goto, NoError, Threads, RunIds
<1>9. JoinedStopped'
  BY WorkersType, BlanksTyped DEF TypeOK, JoinedStopped, Stopped, Goto, Threads, RunIds
<1>10. ReplyLast'
  BY WorkersType, BlanksTyped DEF TypeOK, ReplyLast, Goto, Threads, RunIds
<1>11. FirstTry'
  BY WorkersType, BlanksTyped DEF TypeOK, Ownership, FirstTry, Busy, Goto, Threads, RunIds
<1> QED
  BY <1>1, <1>2, <1>3, <1>4, <1>5, <1>6, <1>7, <1>8, <1>9, <1>10, <1>11

\* A worker that reads its request stays watched.
LEMMA ReadRequestInv == ASSUME IInv, NEW i \in RunIds, NEW t \in Threads, ReadRequest(i, t) PROVE IInv'
<1> USE DEF ReadRequest, IInv
<1>1. TypeOK'
  BY WorkersType, BlanksTyped DEF TypeOK, PCs, Outcomes, Causes, Goto, RunStatus, Threads, RunIds
<1>2. Ownership'
  BY WorkersType, BlanksTyped DEF TypeOK, Ownership, Busy, Goto, Threads, RunIds
<1>3. OutcomeDecided'
  BY WorkersType, BlanksTyped DEF TypeOK, OutcomeDecided, Settled, Goto, Causes, Threads, RunIds
<1>4. ZombieExited'
  BY WorkersType, BlanksTyped DEF TypeOK, ZombieExited, Alive, Threads, RunIds
<1>5. Supervised'
  BY SupervisedStep DEF TypeOK, Ownership, Supervising, Busy, Alive, Goto
<1>6. NoRunForgotten'
  BY WorkersType, BlanksTyped DEF TypeOK, Ownership, NoRunForgotten, Goto, Busy, Threads, RunIds
<1>7. ExitJustified'
  BY WorkersType, BlanksTyped DEF TypeOK, Ownership, ExitJustified, Goto, OutcomeDecided, Threads, RunIds
<1>8. AbortExplained'
  BY WorkersType, BlanksTyped DEF TypeOK, AbortExplained, Goto, NoError, Threads, RunIds
<1>9. JoinedStopped'
  BY WorkersType, BlanksTyped DEF TypeOK, JoinedStopped, Stopped, Goto, Threads, RunIds
<1>10. ReplyLast'
  BY WorkersType, BlanksTyped DEF TypeOK, ReplyLast, Goto, Threads, RunIds
<1>11. FirstTry'
  BY WorkersType, BlanksTyped DEF TypeOK, Ownership, FirstTry, Busy, Goto, Threads, RunIds
<1> QED
  BY <1>1, <1>2, <1>3, <1>4, <1>5, <1>6, <1>7, <1>8, <1>9, <1>10, <1>11

\* A worker that ends by itself stays with its thread.
LEMMA WorkerExitInv == ASSUME IInv, NEW i \in RunIds, WorkerExit(i) PROVE IInv'
<1> USE DEF IInv
<1>a. PICK how \in Exits : exitKind' = [exitKind EXCEPT ![i] = how]
  BY WorkerExitsAssumption DEF WorkerExit
<1>b. /\ Alive(i) /\ child' = [child EXCEPT ![i] = "zombie"]
      /\ UNCHANGED <<mode, next, results, cancel, abort, firstError, pc, item, outcome,
                     expired, phase, joined, reply>>
  BY DEF WorkerExit
<1> USE <1>a, <1>b
<1>1. TypeOK'
  BY WorkersType, BlanksTyped DEF TypeOK, PCs, Outcomes, Causes, Goto, RunStatus, Threads, RunIds
<1>2. Ownership'
  BY WorkersType, BlanksTyped DEF TypeOK, Ownership, Busy, Goto, Threads, RunIds
<1>3. OutcomeDecided'
  BY WorkersType, BlanksTyped DEF TypeOK, OutcomeDecided, Settled, Goto, Causes, Threads, RunIds
<1>4. ZombieExited'
  BY WorkersType, BlanksTyped DEF TypeOK, ZombieExited, Alive, Threads, RunIds
<1>5. Supervised'
  BY WorkersType, BlanksTyped DEF TypeOK, Ownership, Supervising, Busy, Alive, Goto, Supervised, Threads, RunIds
<1>6. NoRunForgotten'
  BY WorkersType, BlanksTyped DEF TypeOK, Ownership, NoRunForgotten, Goto, Busy, Threads, RunIds
<1>7. ExitJustified'
  BY WorkersType, BlanksTyped DEF TypeOK, Ownership, ExitJustified, Goto, OutcomeDecided, Threads, RunIds
<1>8. AbortExplained'
  BY WorkersType, BlanksTyped DEF TypeOK, AbortExplained, Goto, NoError, Threads, RunIds
<1>9. JoinedStopped'
  BY WorkersType, BlanksTyped DEF TypeOK, JoinedStopped, Stopped, Goto, Threads, RunIds
<1>10. ReplyLast'
  BY WorkersType, BlanksTyped DEF TypeOK, ReplyLast, Goto, Threads, RunIds
<1>11. FirstTry'
  BY DEF TypeOK, FirstTry, Alive
<1> QED
  BY <1>1, <1>2, <1>3, <1>4, <1>5, <1>6, <1>7, <1>8, <1>9, <1>10, <1>11

\* A cancellation only adds a reason to leave.
LEMMA CallerCancelsInv == ASSUME IInv, CallerCancels PROVE IInv'
<1> USE DEF CallerCancels, IInv
<1>1. TypeOK'
  BY WorkersType, BlanksTyped DEF TypeOK, PCs, Outcomes, Causes, Goto, RunStatus, Threads, RunIds
<1>2. Ownership'
  BY WorkersType, BlanksTyped DEF TypeOK, Ownership, Busy, Goto, Threads, RunIds
<1>3. OutcomeDecided'
  BY WorkersType, BlanksTyped DEF TypeOK, OutcomeDecided, Settled, Goto, Causes, Threads, RunIds
<1>4. ZombieExited'
  BY WorkersType, BlanksTyped DEF TypeOK, ZombieExited, Alive, Threads, RunIds
<1>5. Supervised'
  BY WorkersType, BlanksTyped DEF TypeOK, Ownership, Supervising, Busy, Alive, Goto, Supervised, Threads, RunIds
<1>6. NoRunForgotten'
  BY WorkersType, BlanksTyped DEF TypeOK, Ownership, NoRunForgotten, Goto, Busy, Threads, RunIds
<1>7. ExitJustified'
  BY WorkersType, BlanksTyped DEF TypeOK, Ownership, ExitJustified, Goto, OutcomeDecided, Threads, RunIds
<1>8. AbortExplained'
  BY WorkersType, BlanksTyped DEF TypeOK, AbortExplained, Goto, NoError, Threads, RunIds
<1>9. JoinedStopped'
  BY WorkersType, BlanksTyped DEF TypeOK, JoinedStopped, Stopped, Goto, Threads, RunIds
<1>10. ReplyLast'
  BY WorkersType, BlanksTyped DEF TypeOK, ReplyLast, Goto, Threads, RunIds
<1>11. FirstTry'
  BY WorkersType, BlanksTyped DEF TypeOK, Ownership, FirstTry, Busy, Goto, Threads, RunIds
<1> QED
  BY <1>1, <1>2, <1>3, <1>4, <1>5, <1>6, <1>7, <1>8, <1>9, <1>10, <1>11

\* A joined thread has stopped, and a panic it brings is recorded.
LEMMA JoinThreadInv == ASSUME IInv, JoinThread PROVE IInv'
<1> USE DEF JoinThread, IInv
<1>1. TypeOK'
  <2>1. joined' \in 0..Workers
    BY WorkersType DEF TypeOK
  <2>2. abort' \in BOOLEAN /\ firstError' \in Errors
    BY BlanksTyped DEF TypeOK
  <2> QED
    BY <2>1, <2>2 DEF TypeOK
<1>2. Ownership'
  BY WorkersType, BlanksTyped DEF TypeOK, Ownership, Busy, Goto, Threads, RunIds
<1>3. OutcomeDecided'
  BY WorkersType, BlanksTyped DEF TypeOK, OutcomeDecided, Settled, Goto, Causes, Threads, RunIds
<1>4. ZombieExited'
  BY WorkersType, BlanksTyped DEF TypeOK, ZombieExited, Alive, Threads, RunIds
<1>5. Supervised'
  BY WorkersType, BlanksTyped DEF TypeOK, Ownership, Supervising, Busy, Alive, Goto, Supervised, Threads, RunIds
<1>6. NoRunForgotten'
  BY WorkersType, BlanksTyped DEF TypeOK, Ownership, NoRunForgotten, Goto, Busy, Threads, RunIds
<1>7. ExitJustified'
  BY WorkersType, BlanksTyped DEF TypeOK, Ownership, ExitJustified, Goto, OutcomeDecided, Threads, RunIds
<1>8. AbortExplained'
  BY BlanksTyped DEF AbortExplained
<1>9. JoinedStopped'
  <2>1. joined \in Nat /\ Threads \subseteq Nat
    BY WorkersType DEF TypeOK, Threads
  <2>2. firstError # NoError => firstError' # NoError
    BY BlanksTyped
  <2>3. Stopped(joined + 1) /\ UNCHANGED pc /\ joined' = joined + 1
    OBVIOUS
  <2>4. pc[joined + 1] = "panicked" => firstError' # NoError
    BY BlanksTyped
  <2> QED
    BY <2>1, <2>2, <2>3, <2>4 DEF JoinedStopped, Stopped
<1>10. ReplyLast'
  BY WorkersType, BlanksTyped DEF TypeOK, ReplyLast, Goto, Threads, RunIds
<1>11. FirstTry'
  BY WorkersType, BlanksTyped DEF TypeOK, Ownership, FirstTry, Busy, Goto, Threads, RunIds
<1> QED
  BY <1>1, <1>2, <1>3, <1>4, <1>5, <1>6, <1>7, <1>8, <1>9, <1>10, <1>11

\* The reply is given after the last join.
LEMMA ReturnInv == ASSUME IInv, Return PROVE IInv'
<1> USE DEF Return, ReplyOr, IInv
<1>1. TypeOK'
  <2>1. reply' \in Replies
    BY ReplyForType DEF TypeOK, Replies
  <2> QED
    BY <2>1 DEF TypeOK
<1>2. Ownership'
  BY WorkersType, BlanksTyped DEF TypeOK, Ownership, Busy, Goto, Threads, RunIds
<1>3. OutcomeDecided'
  BY WorkersType, BlanksTyped DEF TypeOK, OutcomeDecided, Settled, Goto, Causes, Threads, RunIds
<1>4. ZombieExited'
  BY WorkersType, BlanksTyped DEF TypeOK, ZombieExited, Alive, Threads, RunIds
<1>5. Supervised'
  BY WorkersType, BlanksTyped DEF TypeOK, Ownership, Supervising, Busy, Alive, Goto, Supervised, Threads, RunIds
<1>6. NoRunForgotten'
  BY WorkersType, BlanksTyped DEF TypeOK, Ownership, NoRunForgotten, Goto, Busy, Threads, RunIds
<1>7. ExitJustified'
  BY WorkersType, BlanksTyped DEF TypeOK, Ownership, ExitJustified, Goto, OutcomeDecided, Threads, RunIds
<1>8. AbortExplained'
  BY WorkersType, BlanksTyped DEF TypeOK, AbortExplained, Goto, NoError, Threads, RunIds
<1>9. JoinedStopped'
  BY WorkersType, BlanksTyped DEF TypeOK, JoinedStopped, Stopped, Goto, Threads, RunIds
<1>10. ReplyLast'
  BY WorkersType, BlanksTyped DEF TypeOK, ReplyLast, Goto, Threads, RunIds
<1>11. FirstTry'
  BY WorkersType, BlanksTyped DEF TypeOK, Ownership, FirstTry, Busy, Goto, Threads, RunIds
<1> QED
  BY <1>1, <1>2, <1>3, <1>4, <1>5, <1>6, <1>7, <1>8, <1>9, <1>10, <1>11

\* A step that changes no variable keeps the invariant.
LEMMA StutterInv == IInv /\ UNCHANGED vars => IInv'
  BY DEF vars, IInv, TypeOK, Ownership, OutcomeDecided, ZombieExited, Supervised,
         NoRunForgotten, ExitJustified, AbortExplained, JoinedStopped, ReplyLast,
         FirstTry, Alive, Stopped

\* Every step of the batch keeps the invariant.
LEMMA NextInv == IInv /\ [Next]_vars => IInv'
<1> SUFFICES ASSUME IInv, [Next]_vars PROVE IInv'
  OBVIOUS
<1>1. ASSUME NEW t \in Threads, ThreadStep(t) PROVE IInv'
  BY <1>1, CheckFlagsInv, PopRunInv, SpawnWorkerInv, WriteRequestInv, PollChildInv,
     CheckWaitInv, ReportRunInv, StoreResultInv, LeaveCancelledInv, RaiseAbortInv,
     RecordErrorInv DEF ThreadStep
<1>2. ASSUME NEW t \in Threads, PanicInSink(t) \/ TimeCapElapses(t) PROVE IInv'
  BY <1>2, PanicInSinkInv, TimeCapElapsesInv
<1>3. ASSUME NEW i \in RunIds, WorkerExit(i) PROVE IInv'
  BY <1>3, WorkerExitInv
<1>4. ASSUME NEW i \in RunIds, NEW t \in Threads, ReadRequest(i, t) PROVE IInv'
  BY <1>4, ReadRequestInv
<1>5. CASE CallerCancels \/ JoinThread \/ Return
  BY <1>5, CallerCancelsInv, JoinThreadInv, ReturnInv
<1>6. CASE UNCHANGED vars
  BY <1>6, StutterInv
<1> QED
  BY <1>1, <1>2, <1>3, <1>4, <1>5, <1>6 DEF Next

\* The inductive invariant holds of every reachable state.
THEOREM InductiveInvariant == Spec => []IInv
  BY InitInv, NextInv, PTL DEF Spec

(***************************************************************************)
(* What follows from it                                                    *)
(***************************************************************************)
\* The state of execute and of its threads keeps its types.
THEOREM TypeCorrect == Spec => []TypeOK
<1>1. IInv => TypeOK
  BY DEF IInv
<1> QED
  BY <1>1, InductiveInvariant, PTL

\* Once all threads are joined and nothing is on record against the batch, every
\* run has been popped and has left its result.
LEMMA CollectionHolds == ASSUME IInv PROVE CollectionComplete
<1> SUFFICES ASSUME joined = Workers, ~cancel, firstError = NoError, NEW i \in RunIds
             PROVE  results[i].run = i
  BY DEF CollectionComplete
<1>1. \A t \in Threads : pc[t] = "exit"
  BY WorkersType DEF IInv, JoinedStopped, Stopped, Threads
<1>2. ~abort
  BY <1>1 DEF IInv, AbortExplained
<1>3. \A t \in Threads : item[t] = 0 /\ next = NumRuns + 1
  BY <1>1, <1>2 DEF IInv, ExitJustified
<1>4. next = NumRuns + 1
  BY <1>3, WorkersType DEF Threads
<1> QED
  BY <1>3, <1>4 DEF IInv, NoRunForgotten, RunIds

\* Whatever the number of runs and threads, and however they interleave with
\* crashes, caps and flags, the collection at the end of execute finds every
\* slot filled with the result of its own run.
THEOREM CollectionNeverFails == Spec => []CollectionComplete
  BY CollectionHolds, InductiveInvariant, PTL

\* An abort flag that was raised leaves an error for the caller.
THEOREM AbortAlwaysReported == Spec => []AbortNeverSilent
<1>1. IInv => AbortNeverSilent
  <2> SUFFICES ASSUME IInv, joined = Workers, abort PROVE firstError # NoError
    BY DEF AbortNeverSilent
  <2>1. \A t \in Threads : pc[t] # "slot"
    BY WorkersType DEF IInv, JoinedStopped, Stopped, Threads
  <2> QED
    BY <2>1 DEF IInv, AbortExplained
<1> QED
  BY <1>1, InductiveInvariant, PTL

\* At most one worker process per dispatch thread, and none after the reply.
THEOREM ProcessesAlwaysBounded == Spec => []ProcessesBounded
<1>1. ASSUME IInv PROVE Cardinality({i \in RunIds : Alive(i)}) <= AtLeastOne
  <2> DEFINE A == {i \in RunIds : Alive(i)}
             f == [i \in A |-> CHOOSE t \in Threads : item[t] = i]
  <2>1. \A i \in A : f[i] \in Threads /\ item[f[i]] = i
    BY <1>1 DEF IInv, Supervised
  <2>2. f \in Injection(A, Threads)
    BY <2>1 DEF Injection, IsInjective
  <2>3. IsFiniteSet(Threads) /\ Cardinality(Threads) = Workers
    BY FS_Interval, WorkersType DEF Threads
  <2>4. IsFiniteSet(A) /\ Cardinality(A) <= Cardinality(Threads)
    BY <2>2, <2>3, FS_Injection
  <2> HIDE DEF A
  <2>5. Cardinality(A) \in Nat
    BY <2>4, FS_CardinalityType
  <2> QED
    BY <2>3, <2>4, <2>5, WorkersType DEF A
<1>2. ASSUME IInv, reply # NoReply, NEW i \in RunIds PROVE ~Alive(i)
  <2>1. \A t \in Threads : Stopped(t)
    BY <1>2, WorkersType DEF IInv, ReplyLast, JoinedStopped, Threads
  <2> QED
    BY <1>2, <2>1 DEF IInv, Supervised, Supervising, Stopped
<1>3. IInv => ProcessesBounded
  BY <1>1, <1>2 DEF ProcessesBounded
<1> QED
  BY <1>3, InductiveInvariant, PTL

\* A run is given one worker process, and its slot is written once.
THEOREM RunsNeverRetried == Spec => NeverRetried
<1> DEFINE OnceOnly == \A i \in RunIds :
              /\ results[i] # NoResult => results'[i] = results[i]
              /\ child[i] # "none" => child'[i] # "none"
              /\ child[i] \in {"zombie", "gone"} => child'[i] \in {"zombie", "gone"}
<1>1. ASSUME IInv, NEW t \in Threads, ThreadStep(t) PROVE OnceOnly
  <2>1. CASE StoreResult(t)
    BY <1>1, <2>1 DEF IInv, FirstTry, Busy, StoreResult, StoreAt, TypeOK
  <2>2. CASE SpawnWorker(t)
    BY <1>1, <2>2 DEF IInv, FirstTry, SpawnWorker, TypeOK
  <2>3. CASE PollChild(t) \/ CheckWait(t)
    BY <1>1, <2>3 DEF IInv, PollChild, CheckWait, EndWait, KillAndReap, TypeOK
  <2>4. CASE CheckFlags(t) \/ PopRun(t) \/ WriteRequest(t) \/ ReportRun(t)
    BY <2>4 DEF CheckFlags, PopRun, WriteRequest, ReportRun
  <2>5. CASE LeaveCancelled(t) \/ RaiseAbort(t) \/ RecordError(t)
    BY <2>5 DEF LeaveCancelled, RaiseAbort, RaiseThenGo, RecordError
  <2> QED
    BY <1>1, <2>1, <2>2, <2>3, <2>4, <2>5 DEF ThreadStep
<1>2. ASSUME IInv, NEW i \in RunIds, WorkerExit(i) PROVE OnceOnly
  BY <1>2 DEF IInv, TypeOK, WorkerExit, Alive
<1>3. ASSUME IInv, NEW i \in RunIds, NEW t \in Threads, ReadRequest(i, t) PROVE OnceOnly
  BY <1>3 DEF IInv, TypeOK, ReadRequest
<1>4. ASSUME NEW t \in Threads, PanicInSink(t) \/ TimeCapElapses(t) PROVE OnceOnly
  BY <1>4 DEF PanicInSink, TimeCapElapses
<1>5. ASSUME CallerCancels \/ JoinThread \/ Return \/ UNCHANGED vars PROVE OnceOnly
  BY <1>5 DEF CallerCancels, JoinThread, Return, ReplyOr, vars
<1>6. IInv /\ [Next]_vars => [OnceOnly]_vars
  BY <1>1, <1>2, <1>3, <1>4, <1>5 DEF Next
<1> QED
  BY <1>6, InductiveInvariant, PTL DEF Spec, NeverRetried

----------------------------------------------------------------------------
(***************************************************************************)
(* What execute reports is true of the runs (ReportsAreTrue), and the      *)
(* coordinator implements the batch contract.  To the invariant above this *)
(* adds what a thread knows of the worker it watches and of the run it     *)
(* gives an account of: an account is kept only of a run that is over, and *)
(* a run that is over changes no more.                                     *)
(***************************************************************************)

Deciding == {"report", "record", "slot"}

\* Every account of a run, wherever it is kept, is true of it.
AccountsTrue ==
    /\ \A t \in Threads : pc[t] \in Deciding /\ outcome[t] # "cancelled" =>
           TrueCause(item[t], outcome[t])
    /\ \A i \in RunIds : results[i] # NoResult => TrueCause(i, results[i].status)
    /\ firstError.run # 0 => TrueCause(firstError.run, firstError.cause)

\* The error on record is of a thread that has left, or of a panic.
ErrorHeld ==
    /\ firstError.run = 0 => firstError \in {NoError, Panic}
    /\ firstError.run # 0 =>
           /\ mode = "abort" /\ phase[firstError.run] = "fail"
           /\ \E t \in Threads : item[t] = firstError.run /\ pc[t] = "exit"
    /\ firstError = Panic => \E t \in Threads : pc[t] = "panicked"
    /\ \A t \in Threads : pc[t] = "slot" => mode = "abort"

\* What a thread finds when it looks at its worker.
Watching ==
    /\ \A t \in Threads : pc[t] = "write" =>
           /\ child[item[t]] \in {"starting", "zombie"}
           /\ child[item[t]] = "zombie" => exitKind[item[t]] \in Crashes
    /\ \A t \in Threads : pc[t] \in {"poll", "flags"} =>
           child[item[t]] \in {"starting", "running", "zombie"}
    /\ \A i \in RunIds : child[i] = "none" => exitKind[i] = "none"

\* How far a run's phase is, by its thread or by its result.
PhaseFollows ==
    /\ \A i \in RunIds : i >= next => phase[i] = "none"
    /\ \A i \in RunIds : results[i] # NoResult =>
           /\ results[i].run = i /\ results[i].status \in {"ok"} \union Causes
           /\ phase[i] = RunStatus(results[i].status)
    /\ \A t \in Threads : pc[t] \in {"spawn", "report", "panicked"} \union Supervising =>
           item[t] \in RunIds /\ phase[item[t]] \in {"none", "open"}
    /\ \A t \in Threads : pc[t] \in {"record", "slot"} => phase[item[t]] = RunStatus(outcome[t])
    /\ \A t \in Threads : pc[t] = "exit" /\ item[t] # 0 => phase[item[t]] \in {"fail", "cancelled"}

\* The batch's abort flag is up because a run failed or a thread was lost, and
\* under "abort" no failure is among the results.
AbortMeans ==
    /\ abort => \/ mode = "abort" /\ \E i \in RunIds : i < next /\ phase[i] = "fail"
                \/ \E t \in Threads : pc[t] = "panicked"
    /\ mode = "abort" => \A i \in RunIds : results[i].status \in {"none", "ok"}

\* A reply of results is given once, with nothing to say against it.
ReplyStands == reply.kind = "results" => ~cancel /\ firstError = NoError /\ joined = Workers

RInv == /\ AccountsTrue /\ ErrorHeld /\ Watching /\ PhaseFollows
        /\ AbortMeans /\ ReplyStands

\* A run that a thread still works on has no account yet, and no other thread.
LEMMA NotAccounted ==
    ASSUME IInv, RInv, NEW t \in Threads, pc[t] \in {"spawn", "report"} \union Supervising
    PROVE  /\ item[t] \in RunIds /\ results[item[t]] = NoResult /\ firstError.run # item[t]
           /\ \A u \in Threads : u # t => item[u] # item[t]
           /\ phase[item[t]] \in {"none", "open"}
<1>1. pc[t] \in Busy
  BY DEF Busy, Supervising
<1>2. item[t] \in RunIds /\ item[t] # 0 /\ \A u \in Threads : u # t => item[u] # item[t]
  BY <1>1 DEF IInv, Ownership, RunIds
<1>3. results[item[t]] = NoResult
  BY <1>1 DEF IInv, FirstTry
<1>4. firstError.run # item[t]
  BY <1>2 DEF RInv, ErrorHeld, Supervising
<1> QED
  BY <1>2, <1>3, <1>4 DEF RInv, PhaseFollows

\* A step of a thread, or of its worker, on the run it works on.
LEMMA WorkStep ==
    ASSUME IInv, RInv, NEW t \in Threads, pc[t] \in {"spawn", "report"} \union Supervising,
           UNCHANGED <<mode, next, results, cancel, abort, firstError, item, joined, reply>>,
           \A u \in Threads : u # t => pc'[u] = pc[u] /\ outcome'[u] = outcome[u],
           \A i \in RunIds : i # item[t] => /\ child'[i] = child[i] /\ exitKind'[i] = exitKind[i]
                                            /\ phase'[i] = phase[i],
           pc'[t] \in {"report", "record", "panicked"} \union Supervising,
           pc'[t] \in {"report", "record"} /\ outcome'[t] # "cancelled" =>
               TrueCause(item[t], outcome[t])',
           pc'[t] = "write" =>
               /\ child'[item[t]] \in {"starting", "zombie"}
               /\ child'[item[t]] = "zombie" => exitKind'[item[t]] \in Crashes,
           pc'[t] \in {"poll", "flags"} => child'[item[t]] \in {"starting", "running", "zombie"},
           child'[item[t]] = "none" => exitKind'[item[t]] = "none",
           pc'[t] # "record" => phase'[item[t]] \in {"none", "open"},
           pc'[t] = "record" => phase'[item[t]] = RunStatus(outcome'[t])
    PROVE  RInv'
<1> DEFINE j == item[t]
<1>1. /\ j \in RunIds /\ results[j] = NoResult /\ firstError.run # j
      /\ \A u \in Threads : u # t => item[u] # j
      /\ phase[j] \in {"none", "open"} /\ item'[t] = j /\ j < next
  BY NotAccounted DEF IInv, Ownership, RunIds
<1>2. \A i, c : child'[i] = child[i] /\ exitKind'[i] = exitKind[i] =>
          (TrueCause(i, c)' <=> TrueCause(i, c))
  BY DEF TrueCause
<1>3. \A u \in Threads : pc[u] \in Busy => item[u] \in RunIds
  BY DEF IInv, Ownership
<1>4. firstError.run # 0 => firstError.run \in RunIds
  BY DEF IInv, TypeOK, Errors
<1> HIDE DEF j
<1>5. AccountsTrue'
  <2>1. ASSUME NEW u \in Threads, u # t, pc[u] \in Deciding, outcome[u] # "cancelled"
        PROVE  TrueCause(item[u], outcome[u])'
    <3>1. item[u] \in RunIds /\ item[u] # j /\ TrueCause(item[u], outcome[u])
      BY <1>1, <1>3, <2>1 DEF Deciding, Busy, RInv, AccountsTrue
    <3>2. /\ item'[u] = item[u] /\ outcome'[u] = outcome[u]
          /\ child'[item[u]] = child[item[u]] /\ exitKind'[item[u]] = exitKind[item[u]]
      BY <2>1, <3>1 DEF j
    <3> QED
      BY <3>1, <3>2 DEF TrueCause
  <2>2. \A u \in Threads : pc'[u] \in Deciding /\ outcome'[u] # "cancelled" =>
            TrueCause(item[u], outcome[u])'
    BY <2>1 DEF Deciding, Supervising
  <2>3. \A i \in RunIds : results[i] # NoResult => TrueCause(i, results[i].status)'
    BY <1>1, <1>2 DEF j, RInv, AccountsTrue
  <2>4. firstError.run # 0 => TrueCause(firstError.run, firstError.cause)'
    BY <1>1, <1>2, <1>4 DEF j, RInv, AccountsTrue
  <2> QED
    BY <2>2, <2>3, <2>4 DEF AccountsTrue
<1>6. ErrorHeld'
  <2>1. firstError.run # 0 => phase'[firstError.run] = "fail"
    BY <1>1, <1>4 DEF j, RInv, ErrorHeld
  <2>2. firstError.run # 0 => \E u \in Threads : item'[u] = firstError'.run /\ pc'[u] = "exit"
    BY DEF RInv, ErrorHeld, Supervising
  <2>3. firstError = Panic => \E u \in Threads : pc'[u] = "panicked"
    BY DEF RInv, ErrorHeld, Supervising
  <2>4. \A u \in Threads : pc'[u] = "slot" => mode = "abort"
    BY DEF RInv, ErrorHeld, Supervising
  <2> QED
    BY <2>1, <2>2, <2>3, <2>4 DEF RInv, ErrorHeld
<1>7. Watching'
  <2>1. \A u \in Threads : u # t /\ pc'[u] \in Supervising =>
            /\ pc[u] = pc'[u] /\ item'[u] = item[u]
            /\ child'[item[u]] = child[item[u]] /\ exitKind'[item[u]] = exitKind[item[u]]
    BY <1>1, <1>3 DEF j, Busy, Supervising
  <2>2. \A i \in RunIds : child'[i] = "none" => exitKind'[i] = "none"
    BY <1>1 DEF j, RInv, Watching
  <2> QED
    BY <1>1, <2>1, <2>2 DEF j, RInv, Watching, Supervising
<1>8. PhaseFollows'
  <2>1. \A i \in RunIds : i >= next => phase'[i] = "none"
    <3>1. \A i \in RunIds : i >= next => i # j
      BY <1>1 DEF IInv, TypeOK, RunIds
    <3> QED
      BY <3>1 DEF j, RInv, PhaseFollows
  <2>2. \A i \in RunIds : results[i] # NoResult => phase'[i] = phase[i]
    BY <1>1 DEF j
  <2>3. \A u \in Threads : u # t /\ item[u] \in RunIds => phase'[item[u]] = phase[item[u]]
    BY <1>1 DEF j
  <2>4. \A u \in Threads : item[u] \in RunIds \/ item[u] = 0
    BY DEF IInv, TypeOK
  <2>5. \A u \in Threads : pc[u] \in {"record", "slot"} => item[u] \in RunIds
    BY <1>3 DEF Busy
  <2>6. \A u \in Threads : pc'[u] \in {"spawn", "report", "panicked"} \union Supervising =>
            item'[u] \in RunIds /\ phase'[item'[u]] \in {"none", "open"}
    BY <1>1, <2>3, <2>4 DEF j, RInv, PhaseFollows, Supervising
  <2>7. \A u \in Threads : pc'[u] \in {"record", "slot"} => phase'[item'[u]] = RunStatus(outcome'[u])
    BY <1>1, <2>3, <2>5 DEF j, RInv, PhaseFollows, Supervising
  <2>8. \A u \in Threads : pc'[u] = "exit" /\ item'[u] # 0 => phase'[item'[u]] \in {"fail", "cancelled"}
    BY <1>1, <2>3, <2>4 DEF j, RInv, PhaseFollows, Supervising
  <2> QED
    BY <2>1, <2>2, <2>6, <2>7, <2>8 DEF RInv, PhaseFollows
<1>9. AbortMeans'
  <2>1. \A i \in RunIds : phase[i] = "fail" => phase'[i] = "fail"
    BY <1>1 DEF j
  <2>2. \A u \in Threads : pc[u] = "panicked" => pc'[u] = "panicked"
    BY DEF Supervising
  <2> QED
    BY <2>1, <2>2 DEF RInv, AbortMeans
<1>10. ReplyStands'
  BY DEF RInv, ReplyStands
<1> QED
  BY <1>5, <1>6, <1>7, <1>8, <1>9, <1>10 DEF RInv

\* Reading the flags decides nothing.
LEMMA CheckFlagsReports == ASSUME IInv, RInv, IInv', NEW t \in Threads, CheckFlags(t) PROVE RInv'
<1> USE DEF IInv, RInv, CheckFlags
<1>1. \A i, c : TrueCause(i, c)' <=> TrueCause(i, c)
  BY DEF TrueCause
<1>2. AccountsTrue'
  BY <1>1 DEF AccountsTrue, TypeOK, Deciding, Goto, Ownership
<1>3. ErrorHeld'
  BY DEF ErrorHeld, TypeOK, Goto, Stopped, Panic, NoError
<1>4. Watching'
  BY DEF Watching, TypeOK, Goto
<1>5. PhaseFollows'
  BY DEF PhaseFollows, TypeOK, Ownership, Goto, Supervising, RunStatus, Causes
<1>6. AbortMeans'
  BY DEF AbortMeans, TypeOK, Goto, Stopped
<1>7. ReplyStands'
  BY DEF ReplyStands, TypeOK, JoinedStopped, ReplyLast, Goto, Stopped
<1> QED
  BY <1>2, <1>3, <1>4, <1>5, <1>6, <1>7

\* A popped run is new.
LEMMA PopRunReports == ASSUME IInv, RInv, IInv', NEW t \in Threads, PopRun(t) PROVE RInv'
<1> USE DEF IInv, RInv, PopRun
<1>1. \A i, c : TrueCause(i, c)' <=> TrueCause(i, c)
  BY DEF TrueCause
<1>2. AccountsTrue'
  BY <1>1 DEF AccountsTrue, TypeOK, Deciding, Goto, Ownership
<1>3. ErrorHeld'
  BY DEF ErrorHeld, TypeOK, Goto, Stopped, Panic, NoError
<1>4. Watching'
  BY DEF Watching, TypeOK, Goto
<1>5. PhaseFollows'
  <2>1. CASE next > NumRuns
    BY <2>1 DEF PhaseFollows, TypeOK, Ownership, Goto, Supervising
  <2>2. CASE next <= NumRuns
    <3>1. /\ next \in RunIds /\ phase[next] = "none" /\ item' = [item EXCEPT ![t] = next]
          /\ next' = next + 1 /\ pc' = [pc EXCEPT ![t] = "spawn"] /\ phase' = phase
          /\ results' = results /\ outcome' = outcome
      <4>1. next \in RunIds /\ ~(next > NumRuns)
        BY <2>2, NumRunsAssumption DEF TypeOK, RunIds
      <4>2. phase[next] = "none"
        BY <4>1, NumRunsAssumption DEF PhaseFollows, RunIds
      <4> QED
        BY <4>1, <4>2 DEF Goto
    <3>2. \A i \in RunIds : i >= next' => i >= next
      BY <3>1 DEF RunIds
    <3>3. /\ item'[t] = next /\ pc'[t] = "spawn"
          /\ \A u \in Threads : u # t => item'[u] = item[u] /\ pc'[u] = pc[u]
      BY <3>1 DEF TypeOK
    <3> QED
      BY <3>1, <3>2, <3>3 DEF PhaseFollows, Supervising
  <2> QED
    BY <2>1, <2>2, NumRunsAssumption DEF TypeOK
<1>6. AbortMeans'
  <2>1. \A i \in RunIds : i < next => i < next'
    BY DEF TypeOK, RunIds
  <2>2. \A u \in Threads : pc[u] = "panicked" => pc'[u] = "panicked"
    BY DEF TypeOK, Goto
  <2> QED
    BY <2>1, <2>2 DEF AbortMeans
<1>7. ReplyStands'
  BY DEF ReplyStands, TypeOK, JoinedStopped, ReplyLast, Goto, Stopped
<1> QED
  BY <1>2, <1>3, <1>4, <1>5, <1>6, <1>7

\* The result stored is the thread's own account.
LEMMA StoreResultReports == ASSUME IInv, RInv, IInv', NEW t \in Threads, StoreResult(t) PROVE RInv'
<1> USE DEF IInv, RInv, StoreResult, StoreAt
<1>1. \A i, c : TrueCause(i, c)' <=> TrueCause(i, c)
  BY DEF TrueCause
<1>2. AccountsTrue'
  <2>1. item[t] \in RunIds
    BY DEF Ownership, Busy
  <2>2. TrueCause(item[t], outcome[t])
    BY DEF AccountsTrue, Deciding, Causes
  <2>3. ASSUME NEW u \in Threads, pc'[u] \in Deciding, outcome'[u] # "cancelled"
        PROVE  TrueCause(item'[u], outcome'[u])
    BY <2>3 DEF AccountsTrue, TypeOK, Deciding, Goto
  <2>4. ASSUME NEW i \in RunIds, results'[i] # NoResult
        PROVE  TrueCause(i, results'[i].status)
    BY <2>1, <2>2, <2>4 DEF AccountsTrue, TypeOK
  <2>5. firstError'.run # 0 => TrueCause(firstError'.run, firstError'.cause)
    BY DEF AccountsTrue
  <2> QED
    BY <2>3, <2>4, <2>5 DEF AccountsTrue, TrueCause
<1>3. ErrorHeld'
  BY DEF ErrorHeld, TypeOK, Goto, Stopped, Panic, NoError
<1>4. Watching'
  BY DEF Watching, TypeOK, Goto
<1>5. PhaseFollows'
  BY DEF PhaseFollows, TypeOK, Ownership, Goto, Supervising, RunStatus, Causes
<1>6. AbortMeans'
  BY DEF AbortMeans, TypeOK, Goto, Stopped
<1>7. ReplyStands'
  BY DEF ReplyStands, TypeOK, JoinedStopped, ReplyLast, Goto, Stopped
<1> QED
  BY <1>2, <1>3, <1>4, <1>5, <1>6, <1>7

\* A cancelled run is left as it is.
LEMMA LeaveCancelledReports == ASSUME IInv, RInv, IInv', NEW t \in Threads, LeaveCancelled(t) PROVE RInv'
<1> USE DEF IInv, RInv, LeaveCancelled
<1>1. \A i, c : TrueCause(i, c)' <=> TrueCause(i, c)
  BY DEF TrueCause
<1>2. AccountsTrue'
  BY <1>1 DEF AccountsTrue, TypeOK, Deciding, Goto, Ownership
<1>3. ErrorHeld'
  BY DEF ErrorHeld, TypeOK, Goto, Stopped, Panic, NoError
<1>4. Watching'
  BY DEF Watching, TypeOK, Goto
<1>5. PhaseFollows'
  BY DEF PhaseFollows, TypeOK, Ownership, Goto, Supervising, RunStatus, Causes
<1>6. AbortMeans'
  BY DEF AbortMeans, TypeOK, Goto, Stopped
<1>7. ReplyStands'
  BY DEF ReplyStands, TypeOK, JoinedStopped, ReplyLast, Goto, Stopped
<1> QED
  BY <1>2, <1>3, <1>4, <1>5, <1>6, <1>7

\* The flag is raised for a failure already reported.
LEMMA RaiseAbortReports == ASSUME IInv, RInv, IInv', NEW t \in Threads, RaiseAbort(t) PROVE RInv'
<1> USE DEF IInv, RInv, RaiseAbort, RaiseThenGo
<1>1. \A i, c : TrueCause(i, c)' <=> TrueCause(i, c)
  BY DEF TrueCause
<1>2. AccountsTrue'
  BY <1>1 DEF AccountsTrue, TypeOK, Deciding, Goto, Ownership
<1>3. ErrorHeld'
  BY DEF ErrorHeld, TypeOK, Goto, Stopped, Panic, NoError
<1>4. Watching'
  BY DEF Watching, TypeOK, Goto
<1>5. PhaseFollows'
  BY DEF PhaseFollows, TypeOK, Ownership, Goto, Supervising, RunStatus, Causes
<1>6. AbortMeans'
  <2>1. item[t] \in RunIds /\ item[t] < next /\ phase[item[t]] = "fail"
    BY DEF Ownership, Busy, PhaseFollows, RunStatus, RunIds
  <2> QED
    BY <2>1 DEF AbortMeans
<1>7. ReplyStands'
  BY DEF ReplyStands, TypeOK, JoinedStopped, ReplyLast, Goto, Stopped
<1> QED
  BY <1>2, <1>3, <1>4, <1>5, <1>6, <1>7

\* The error recorded is the thread's own account.
LEMMA RecordErrorReports == ASSUME IInv, RInv, IInv', NEW t \in Threads, RecordError(t) PROVE RInv'
<1> USE DEF IInv, RInv, RecordError
<1>1. \A i, c : TrueCause(i, c)' <=> TrueCause(i, c)
  BY DEF TrueCause
<1>2. AccountsTrue'
  <2>1. ASSUME NEW u \in Threads, pc'[u] \in Deciding, outcome'[u] # "cancelled"
        PROVE  TrueCause(item'[u], outcome'[u])
    BY <2>1 DEF AccountsTrue, TypeOK, Deciding, Goto
  <2>2. TrueCause(item[t], outcome[t])
    BY DEF AccountsTrue, Deciding, OutcomeDecided, Causes
  <2>3. firstError'.run # 0 => TrueCause(firstError'.run, firstError'.cause)
    BY <2>2 DEF AccountsTrue
  <2>4. \A i \in RunIds : results'[i] # NoResult => TrueCause(i, results'[i].status)
    BY DEF AccountsTrue
  <2> QED
    BY <2>1, <2>3, <2>4 DEF AccountsTrue, TrueCause
<1>3. ErrorHeld'
  <2>1. /\ item[t] \in RunIds /\ item[t] # 0 /\ phase[item[t]] = "fail" /\ mode = "abort"
        /\ outcome[t] # "dispatch_panic"
    BY DEF Ownership, Busy, PhaseFollows, RunStatus, RunIds, OutcomeDecided, ErrorHeld, Causes
  <2>2. pc'[t] = "exit" /\ \A u \in Threads : u # t => pc'[u] = pc[u]
    BY DEF TypeOK, Goto
  <2>3. CASE firstError = NoError
    <3>1. firstError' = [run |-> item[t], cause |-> outcome[t]]
      BY <2>3
    <3>2. firstError'.run = item[t] /\ firstError' # Panic
      BY <2>1, <3>1 DEF Panic
    <3> QED
      BY <2>1, <2>2, <3>2 DEF ErrorHeld
  <2>4. CASE firstError # NoError
    BY <2>2, <2>4 DEF ErrorHeld
  <2> QED
    BY <2>3, <2>4
<1>4. Watching'
  BY DEF Watching, TypeOK, Goto
<1>5. PhaseFollows'
  <2>1. pc'[t] = "exit" /\ \A u \in Threads : u # t => pc'[u] = pc[u]
    BY DEF TypeOK, Goto
  <2>2. phase[item[t]] = "fail"
    BY DEF PhaseFollows, RunStatus, OutcomeDecided
  <2> QED
    BY <2>1, <2>2 DEF PhaseFollows, Supervising
<1>6. AbortMeans'
  BY DEF AbortMeans, TypeOK, Goto, Stopped
<1>7. ReplyStands'
  <2>1. joined # Workers
    BY WorkersType DEF JoinedStopped, Stopped, Threads
  <2> QED
    BY <2>1 DEF ReplyStands
<1> QED
  BY <1>2, <1>3, <1>4, <1>5, <1>6, <1>7

\* The caller cancels before the reply only.
LEMMA CallerCancelsReports == ASSUME IInv, RInv, IInv', CallerCancels PROVE RInv'
<1> USE DEF IInv, RInv, CallerCancels
<1>1. \A i, c : TrueCause(i, c)' <=> TrueCause(i, c)
  BY DEF TrueCause
<1>2. AccountsTrue'
  BY <1>1 DEF AccountsTrue, TypeOK, Deciding, Goto, Ownership
<1>3. ErrorHeld'
  BY DEF ErrorHeld, TypeOK, Goto, Stopped, Panic, NoError
<1>4. Watching'
  BY DEF Watching, TypeOK, Goto
<1>5. PhaseFollows'
  BY DEF PhaseFollows, TypeOK, Ownership, Goto, Supervising, RunStatus, Causes
<1>6. AbortMeans'
  BY DEF AbortMeans, TypeOK, Goto, Stopped
<1>7. ReplyStands'
  BY DEF ReplyStands, NoReply
<1> QED
  BY <1>2, <1>3, <1>4, <1>5, <1>6, <1>7

\* A panic found by join is put on record.
LEMMA JoinThreadReports == ASSUME IInv, RInv, IInv', JoinThread PROVE RInv'
<1> USE DEF IInv, RInv, JoinThread
<1>1. \A i, c : TrueCause(i, c)' <=> TrueCause(i, c)
  BY DEF TrueCause
<1>2. AccountsTrue'
  BY <1>1 DEF AccountsTrue, Deciding, Panic, TrueCause
<1>3. ErrorHeld'
  <2>1. joined + 1 \in Threads
    BY WorkersType DEF TypeOK, Threads
  <2>2. NoError # Panic /\ NoError.run = 0 /\ Panic.run = 0
    BY DEF Panic, NoError
  <2>3. CASE pc[joined + 1] = "panicked"
    BY <2>1, <2>2, <2>3 DEF ErrorHeld
  <2>4. CASE pc[joined + 1] # "panicked"
    BY <2>4 DEF ErrorHeld
  <2> QED
    BY <2>3, <2>4
<1>4. Watching'
  BY DEF Watching, TypeOK, Goto
<1>5. PhaseFollows'
  BY DEF PhaseFollows, TypeOK, Ownership, Goto, Supervising, RunStatus, Causes
<1>6. AbortMeans'
  <2>1. joined + 1 \in Threads
    BY WorkersType DEF TypeOK, Threads
  <2> QED
    BY <2>1 DEF AbortMeans
<1>7. ReplyStands'
  BY DEF ReplyStands, TypeOK, JoinedStopped, ReplyLast, Goto, Stopped
<1> QED
  BY <1>2, <1>3, <1>4, <1>5, <1>6, <1>7

\* The reply is made when every thread is gone.
LEMMA ReturnReports == ASSUME IInv, RInv, IInv', Return PROVE RInv'
<1> USE DEF IInv, RInv, Return, ReplyOr, ReplyFor
<1>1. \A i, c : TrueCause(i, c)' <=> TrueCause(i, c)
  BY DEF TrueCause
<1>2. AccountsTrue'
  BY <1>1 DEF AccountsTrue, TypeOK, Deciding, Goto, Ownership
<1>3. ErrorHeld'
  BY DEF ErrorHeld, TypeOK, Goto, Stopped, Panic, NoError
<1>4. Watching'
  BY DEF Watching, TypeOK, Goto
<1>5. PhaseFollows'
  BY DEF PhaseFollows, TypeOK, Ownership, Goto, Supervising, RunStatus, Causes
<1>6. AbortMeans'
  BY DEF AbortMeans, TypeOK, Goto, Stopped
<1>7. ReplyStands'
  BY DEF ReplyStands, TypeOK, JoinedStopped, ReplyLast, Goto, Stopped
<1> QED
  BY <1>2, <1>3, <1>4, <1>5, <1>6, <1>7

\* A run whose thread still works on it: what is true in the next state too.
LEMMA ThreadWorkReports ==
    ASSUME IInv, RInv, NEW t \in Threads,
           \/ SpawnWorker(t) \/ WriteRequest(t) \/ PollChild(t) \/ CheckWait(t) \/ ReportRun(t)
           \/ PanicInSink(t) \/ TimeCapElapses(t)
    PROVE  RInv'
<1> DEFINE j == item[t]
<1> USE DEF Supervising, Goto
<1>1. /\ pc[t] \in {"spawn", "report"} \union Supervising
      /\ UNCHANGED <<mode, next, results, cancel, abort, firstError, item, joined, reply>>
  BY DEF SpawnWorker, WriteRequest, PollChild, CheckWait, EndWait, ReportRun, PanicInSink,
         TimeCapElapses
<1>2. /\ TypeOK /\ Watching /\ ZombieExited /\ FirstTry /\ OutcomeDecided /\ AccountsTrue
  BY DEF IInv, RInv
<1>3. j \in RunIds /\ phase[j] \in {"none", "open"}
  BY <1>1, NotAccounted
<1>4. CASE SpawnWorker(t)
  <2>1. pc[t] = "spawn" /\ child[j] = "none" /\ exitKind[j] = "none"
    BY <1>2, <1>3, <1>4 DEF SpawnWorker, FirstTry, Watching
  <2>2. pc'[t] = "report" => TrueCause(item[t], outcome[t])'
    BY <1>2, <1>3, <1>4, <2>1 DEF SpawnWorker, TypeOK, TrueCause
  <2> QED
    BY <1>1, <1>2, <1>3, <1>4, <2>1, <2>2, WorkStep DEF SpawnWorker, TypeOK
<1>5. CASE WriteRequest(t)
  <2>1. pc[t] = "write" /\ (child[j] = "zombie" => exitKind[j] \in Crashes)
    BY <1>2, <1>5 DEF WriteRequest, Watching
  <2>2. pc'[t] = "report" => TrueCause(item[t], outcome[t])'
    BY <1>2, <1>3, <1>5, <2>1 DEF WriteRequest, TypeOK, TrueCause
  <2> QED
    BY <1>1, <1>2, <1>3, <1>5, <2>1, <2>2, WorkStep DEF WriteRequest, TypeOK, Watching
<1>6. CASE PollChild(t)
  <2>1. pc[t] = "poll" /\ child[j] \in {"starting", "running", "zombie"}
    BY <1>2, <1>6 DEF PollChild, Watching
  <2>2. pc'[t] = "report" => TrueCause(item[t], outcome[t])' /\ outcome'[t] # "cancelled"
    <3>1. pc'[t] = "report" => /\ outcome'[t] = Classify(exitKind[j]) /\ exitKind[j] \in Exits
                               /\ item' = item /\ exitKind' = exitKind /\ exitKind'[j] = exitKind[j]
      BY <1>2, <1>3, <1>6, <2>1 DEF PollChild, TypeOK, ZombieExited
    <3> QED
      BY <3>1 DEF Exits, Classify, TrueCause, Crashes
  <2> QED
    BY <1>1, <1>2, <1>3, <1>6, <2>1, <2>2, WorkStep DEF PollChild, TypeOK, Watching
<1>7. CASE CheckWait(t)
  <2>1. pc[t] = "flags" /\ child[j] \in {"starting", "running", "zombie"}
    BY <1>2, <1>7 DEF CheckWait, EndWait, Watching
  <2>2. CASE pc' = [pc EXCEPT ![t] = "poll"]
    <3>1. UNCHANGED <<child, exitKind, outcome, phase>>
      BY <1>2, <1>7, <2>2 DEF CheckWait, EndWait, TypeOK
    <3> QED
      BY <1>1, <1>2, <1>3, <2>1, <2>2, <3>1, WorkStep DEF TypeOK
  <2>3. CASE pc' # [pc EXCEPT ![t] = "poll"]
    <3>1. /\ pc' = [pc EXCEPT ![t] = "report"] /\ KillAndReap(j) /\ phase' = phase
          /\ outcome' \in {[outcome EXCEPT ![t] = o] : o \in {"cancelled", "time_cap_exceeded"}}
      BY <1>7, <2>3 DEF CheckWait, EndWait
    <3>2. child'[j] = "gone" /\ exitKind'[j] \in {"killed"} \union Exits
      BY <1>2, <1>3, <2>1, <3>1 DEF KillAndReap, Alive, ZombieExited, TypeOK
    <3>3. \A i \in RunIds : i # j => child'[i] = child[i] /\ exitKind'[i] = exitKind[i]
      BY <1>2, <1>3, <3>1 DEF KillAndReap, TypeOK
    <3>4. outcome'[t] # "cancelled" => TrueCause(item[t], outcome[t])'
      BY <1>1, <1>2, <3>1, <3>2 DEF TypeOK, TrueCause
    <3> QED
      BY <1>1, <1>2, <1>3, <3>1, <3>2, <3>3, <3>4, WorkStep DEF TypeOK
  <2> QED
    BY <2>2, <2>3
<1>8. CASE ReportRun(t)
  <2>1. outcome[t] # "cancelled" => TrueCause(item[t], outcome[t])'
    BY <1>2, <1>8 DEF ReportRun, AccountsTrue, Deciding, TrueCause
  <2> QED
    BY <1>1, <1>2, <1>3, <1>8, <2>1, WorkStep DEF ReportRun, TypeOK, Watching
<1>9. CASE PanicInSink(t)
  BY <1>1, <1>2, <1>3, <1>9, WorkStep DEF PanicInSink, TypeOK, Watching
<1>10. CASE TimeCapElapses(t)
  BY <1>1, <1>2, <1>3, <1>10, WorkStep DEF TimeCapElapses, TypeOK, Watching
<1> QED
  BY <1>4, <1>5, <1>6, <1>7, <1>8, <1>9, <1>10

\* What a worker does is seen by the thread that watches it, and by no other.
LEMMA WorkerReports ==
    ASSUME IInv, RInv, NEW i \in RunIds, WorkerExit(i) \/ \E t \in Threads : ReadRequest(i, t)
    PROVE  RInv'
<1> USE DEF Supervising
<1>1. /\ TypeOK /\ Watching
  BY DEF IInv, RInv
<1>2. CASE WorkerExit(i)
  <2>1. PICK t \in Threads : item[t] = i /\ pc[t] \in Supervising
    BY <1>2 DEF WorkerExit, IInv, Supervised
  <2>2. /\ child'[i] = "zombie" /\ (child[i] = "starting" => exitKind'[i] \in Crashes)
        /\ \A k \in RunIds : k # i => child'[k] = child[k] /\ exitKind'[k] = exitKind[k]
        /\ UNCHANGED <<mode, next, results, cancel, abort, firstError, pc, item, outcome,
                       phase, joined, reply>>
    BY <1>1, <1>2 DEF WorkerExit, TypeOK, Alive
  <2>3. pc[t] = "write" => child[i] = "starting"
    BY <1>1, <1>2, <2>1 DEF WorkerExit, Alive, Watching
  <2>4. phase[item[t]] \in {"none", "open"}
    BY <2>1, NotAccounted
  <2> QED
    BY <2>1, <2>2, <2>3, <2>4, WorkStep
<1>3. ASSUME NEW t \in Threads, ReadRequest(i, t)
      PROVE  RInv'
  <2>1. /\ item[t] = i /\ pc[t] \in Supervising /\ pc'[t] \in {"poll", "flags"}
        /\ child'[i] = "running"
        /\ \A u \in Threads : u # t => pc'[u] = pc[u]
        /\ \A k \in RunIds : k # i => child'[k] = child[k]
        /\ UNCHANGED <<mode, next, results, cancel, abort, firstError, item, outcome,
                       exitKind, phase, joined, reply>>
    BY <1>1, <1>3 DEF ReadRequest, TypeOK, Goto
  <2>2. phase[item[t]] \in {"none", "open"}
    BY <2>1, NotAccounted
  <2> QED
    BY <2>1, <2>2, WorkStep
<1> QED
  BY <1>2, <1>3

\* The invariant of the reports holds before a batch.
LEMMA InitReports == ASSUME Init PROVE RInv
<1>1. Threads # {} /\ 1 \in Threads
  BY WorkersType DEF Threads
<1>2. AccountsTrue /\ ErrorHeld
  BY DEF Init, AccountsTrue, ErrorHeld, Deciding, NoError, Panic
<1>3. Watching /\ PhaseFollows
  BY DEF Init, Watching, PhaseFollows, Supervising
<1>4. AbortMeans /\ ReplyStands
  BY DEF Init, AbortMeans, ReplyStands, NoResult, NoReply
<1> QED
  BY <1>2, <1>3, <1>4 DEF RInv

\* Every step, and every stutter, keeps the invariant of the reports.
LEMMA NextReports == ASSUME IInv, RInv, IInv', [Next]_vars PROVE RInv'
<1>1. ASSUME NEW t \in Threads, ThreadStep(t) \/ PanicInSink(t) \/ TimeCapElapses(t)
      PROVE  RInv'
  BY <1>1, ThreadWorkReports, CheckFlagsReports, PopRunReports, StoreResultReports,
     LeaveCancelledReports, RaiseAbortReports, RecordErrorReports DEF ThreadStep
<1>2. ASSUME NEW i \in RunIds, WorkerExit(i) \/ \E t \in Threads : ReadRequest(i, t)
      PROVE  RInv'
  BY <1>2, WorkerReports
<1>3. CASE UNCHANGED vars
  BY <1>3 DEF vars, RInv, AccountsTrue, TrueCause, ErrorHeld, Watching, PhaseFollows, AbortMeans,
     ReplyStands
<1> QED
  BY <1>1, <1>2, <1>3, CallerCancelsReports, JoinThreadReports, ReturnReports DEF Next

\* What is kept of a run that is over is true of it.
THEOREM AccountsAlwaysTrue == Spec => [](IInv /\ RInv)
<1>1. Init => IInv /\ RInv
  BY InitInv, InitReports
<1>2. IInv /\ RInv /\ [Next]_vars => (IInv /\ RInv)'
  BY NextInv, NextReports
<1> QED
  BY <1>1, <1>2, PTL DEF Spec

\* Whatever the caller is told is true of the runs, and nobody suffers for a
\* neighbour's failure (ReportsAreTrue).
THEOREM ReportsAlwaysTrue == Spec => []ReportsAreTrue
<1>1. IInv /\ RInv => ReportsAreTrue
  <2> SUFFICES ASSUME IInv, RInv PROVE ReportsAreTrue
    OBVIOUS
  <2> USE DEF IInv, RInv
  <2>1. firstError.run # 0 => /\ phase[firstError.run] = "fail"
                              /\ TrueCause(firstError.run, firstError.cause)
    BY DEF AccountsTrue, ErrorHeld
  <2>2. \A i \in RunIds : results[i] # NoResult => TrueCause(i, results[i].status)
    BY DEF AccountsTrue
  <2>3. ASSUME reply.kind = "results", NEW i \in RunIds
        PROVE  /\ mode = "abort" => exitKind[i] = "ok"
               /\ exitKind[i] = "killed" => results[i].status = "time_cap_exceeded"
               /\ exitKind[i] = "ok" => results[i].status \in {"ok", "time_cap_exceeded"}
    <3>1. results[i].run = i /\ results[i] # NoResult
      <4>1. CollectionComplete
        BY CollectionHolds
      <4> QED
        BY <2>3, <4>1 DEF CollectionComplete, ReplyStands, NoResult, RunIds
    <3>2. /\ TrueCause(i, results[i].status) /\ results[i].status \in {"ok"} \union Causes
          /\ mode = "abort" => results[i].status = "ok"
      BY <2>2, <3>1 DEF PhaseFollows, AbortMeans, Causes
    <3>3. child[i] = "none" => exitKind[i] = "none"
      BY DEF Watching
    <3> QED
      BY <3>2, <3>3 DEF TrueCause, Causes, Crashes
  <2> QED
    BY <2>1, <2>2, <2>3 DEF ReportsAreTrue
<1> QED
  BY <1>1, AccountsAlwaysTrue, PTL

(***************************************************************************)
(* The coordinator implements the batch contract                           *)
(***************************************************************************)
Working == {"spawn", "report"} \union Supervising
Ended == {"ok", "fail", "cancelled"}

\* A popped run whose phase is not closed has a thread: at work, or panicked.
LEMMA OpenRunHasThread ==
    ASSUME IInv, RInv, NEW i \in RunIds, i < next, phase[i] \notin Ended
    PROVE  \E t \in Threads : item[t] = i /\ pc[t] \in Working \union {"panicked"}
<1>1. results[i].run # i
  BY DEF RInv, PhaseFollows, RunStatus, Ended, NoResult, RunIds
<1>2. PICK t \in Threads : item[t] = i
  BY <1>1 DEF IInv, NoRunForgotten
<1>3. pc[t] \notin {"check", "pop"} /\ i # 0
  BY <1>2 DEF IInv, Ownership, RunIds
<1>4. pc[t] \notin {"record", "slot"}
  BY <1>2 DEF IInv, OutcomeDecided, RInv, PhaseFollows, RunStatus, Ended, Settled
<1>5. pc[t] # "exit"
  BY <1>2, <1>3 DEF RInv, PhaseFollows, Ended
<1>6. pc[t] \in PCs
  BY DEF IInv, TypeOK
<1> QED
  BY <1>2, <1>3, <1>4, <1>5, <1>6 DEF PCs, Working, Supervising

\* What the contract sees of a run.
LEMMA StatusIs ==
    ASSUME IInv, RInv, NEW i \in RunIds
    PROVE  /\ StatusOf(i) = "pending" <=> i >= next
           /\ StatusOf(i) = "ok" <=> i < next /\ phase[i] = "ok"
           /\ StatusOf(i) = "fail" <=> i < next /\ phase[i] = "fail"
           /\ StatusOf(i) = "stopped" <=> i < next /\ phase[i] = "cancelled"
           /\ StatusOf(i) = "lost" <=> \E t \in Threads : item[t] = i /\ pc[t] = "panicked"
           /\ StatusOf(i) = "active" <=> \E t \in Threads : item[t] = i /\ pc[t] \in Working
           /\ StatusOf(i) \in {"pending", "ok", "fail", "stopped", "lost", "active"}
<1>1. i >= next <=> ~(i < next)
  BY DEF IInv, TypeOK, RunIds
<1>2. \A t \in Threads : item[t] = i /\ pc[t] \in Working \union {"panicked"} =>
          i < next /\ phase[i] \in {"none", "open"}
  BY DEF IInv, Ownership, RunIds, RInv, PhaseFollows, Working
<1>3. \A t, u \in Threads : item[t] = i /\ item[u] = i => t = u
  BY DEF IInv, Ownership, RunIds
<1>4. i < next /\ phase[i] \notin Ended =>
          \E t \in Threads : item[t] = i /\ pc[t] \in Working \union {"panicked"}
  BY OpenRunHasThread
<1>5. "panicked" \notin Working
  BY DEF Working, Supervising
<1> QED
  BY <1>1, <1>2, <1>3, <1>4, <1>5 DEF StatusOf, Owner, Ended

\* A step the contract does not see.
LEMMA UnseenStep ==
    ASSUME UNCHANGED <<mode, next, cancel, reply>>,
           \A i \in RunIds : \/ phase'[i] = phase[i]
                             \/ phase[i] \in {"none", "open"} /\ phase'[i] \in {"none", "open"},
           \A t \in Threads : /\ pc'[t] = "panicked" <=> pc[t] = "panicked"
                              /\ pc[t] = "panicked" => item'[t] = item[t]
    PROVE  UNCHANGED Contract!cvars
<1>1. \A i \in RunIds : (\E t \in Threads : item'[t] = i /\ pc'[t] = "panicked")
                     <=> (\E t \in Threads : item[t] = i /\ pc[t] = "panicked")
  <2> SUFFICES ASSUME NEW i \in RunIds
               PROVE  (\E t \in Threads : item'[t] = i /\ pc'[t] = "panicked")
                          <=> (\E t \in Threads : item[t] = i /\ pc[t] = "panicked")
    OBVIOUS
  <2>1. \A t \in Threads : item'[t] = i /\ pc'[t] = "panicked" <=> item[t] = i /\ pc[t] = "panicked"
    OBVIOUS
  <2> QED
    BY <2>1
<1>2. \A i \in RunIds : StatusOf(i)' = StatusOf(i)
  BY <1>1 DEF StatusOf, Owner
<1> QED
  BY <1>2 DEF Contract!cvars

\* The contract's view of a step that changes the status of run i only.
LEMMA SeenStep ==
    ASSUME NEW i \in RunIds, NEW s,
           \A k \in RunIds : StatusOf(k)' = IF k = i THEN s ELSE StatusOf(k)
    PROVE  [k \in RunIds |-> StatusOf(k)]' = [[k \in RunIds |-> StatusOf(k)] EXCEPT ![i] = s]
  OBVIOUS

\* While a thread has not stopped, execute has not returned.
LEMMA NotReturned ==
    ASSUME IInv, NEW t \in Threads, ~Stopped(t)
    PROVE  reply = NoReply /\ joined # Workers
  BY WorkersType DEF IInv, ReplyLast, JoinedStopped, Threads

\* The contract counts with the same Cardinality.
LEMMA SameCardinality == \A S : Contract!Cardinality(S) = Cardinality(S)
  BY DEF Cardinality, Contract!Cardinality

\* The initial states of the coordinator are initial states of the contract.
LEMMA InitImplements == Init => Contract!CInit
<1> SUFFICES ASSUME Init PROVE Contract!CInit
  OBVIOUS
<1>1. \A i \in RunIds : StatusOf(i) = "pending"
  BY DEF Init, StatusOf, RunIds
<1> QED
  BY <1>1 DEF Init, Contract!CInit, Contract!NoReply, NoReply, Contract!RunIds, RunIds

\* A run is popped only by a thread that has none, so there is room for it.
LEMMA PopRunImplements ==
    ASSUME IInv, RInv, NEW t \in Threads, PopRun(t)
    PROVE  Contract!CNext \/ UNCHANGED Contract!cvars
<1>1. CASE next > NumRuns
  BY <1>1, UnseenStep DEF PopRun, Goto, IInv, TypeOK
<1>2. ASSUME ~(next > NumRuns), NEW n \in RunIds, n = next
      PROVE  Contract!CNext
  <2>1. /\ pc[t] = "pop" /\ item[t] = 0 /\ next' = n + 1 /\ n = next
        /\ item' = [item EXCEPT ![t] = n] /\ pc' = [pc EXCEPT ![t] = "spawn"]
        /\ UNCHANGED <<mode, cancel, phase, reply>>
    BY <1>2 DEF PopRun, Goto, IInv, Ownership
  <2>2. reply = NoReply
    BY <2>1, NotReturned DEF Stopped
  <2>3. /\ StatusOf(n) = "pending" /\ \A j \in RunIds : j < n => StatusOf(j) # "pending"
    BY <2>1, StatusIs DEF RunIds
  <2>4. Cardinality({i \in RunIds : StatusOf(i) = "active"}) < Workers
    <3> DEFINE A == {i \in RunIds : StatusOf(i) = "active"}
               f == [i \in A |-> CHOOSE u \in Threads : item[u] = i]
               Others == Threads \ {t}
    <3>1. \A i \in A : f[i] \in Others /\ item[f[i]] = i
      BY <2>1, StatusIs DEF RunIds
    <3>2. f \in Injection(A, Others)
      BY <3>1 DEF Injection, IsInjective
    <3>3. IsFiniteSet(Threads) /\ Cardinality(Threads) = Workers
      BY FS_Interval, WorkersType DEF Threads
    <3>4. IsFiniteSet(Others) /\ Cardinality(Others) = Workers - 1
      BY <3>3, FS_RemoveElement
    <3>5. IsFiniteSet(A) /\ Cardinality(A) <= Cardinality(Others)
      BY <3>2, <3>4, FS_Injection
    <3> HIDE DEF A
    <3>6. Cardinality(A) \in Nat
      BY <3>5, FS_CardinalityType
    <3> QED
      BY <3>4, <3>5, <3>6, WorkersType DEF A
  <2>5. \A k \in RunIds : StatusOf(k)' = IF k = n THEN "active" ELSE StatusOf(k)
    <3>1. phase[n] = "none" /\ ~(n >= next')
      BY <2>1 DEF RInv, PhaseFollows, RunIds
    <3>2. \A k \in RunIds : k # n => (k >= next' <=> k >= next)
      BY <2>1 DEF RunIds
    <3>3. ~\E u \in Threads : item'[u] = n /\ pc'[u] = "panicked"
      BY <2>1, SMTT(30) DEF IInv, TypeOK, Ownership, RunIds
    <3>4. \A k \in RunIds : k # n =>
              ((\E u \in Threads : item'[u] = k /\ pc'[u] = "panicked")
                 <=> (\E u \in Threads : item[u] = k /\ pc[u] = "panicked"))
      BY <2>1 DEF IInv, TypeOK
    <3>5. StatusOf(n)' = "active"
      BY <2>1, <3>1, <3>3 DEF StatusOf, Owner
    <3>6. \A k \in RunIds : k # n => StatusOf(k)' = StatusOf(k)
      BY <2>1, <3>2, <3>4 DEF StatusOf, Owner
    <3> QED
      BY <3>5, <3>6
  <2>6. Contract!Start(n)
    <3>1. [k \in RunIds |-> StatusOf(k)]' = [[k \in RunIds |-> StatusOf(k)] EXCEPT ![n] = "active"]
      BY <2>5, SeenStep
    <3>2. Contract!RunsAt("active") = {i \in RunIds : StatusOf(i) = "active"}
      BY DEF Contract!RunsAt, Contract!RunIds, RunIds
    <3>3. Contract!Cardinality(Contract!RunsAt("active")) < Workers
      BY <2>4, <3>2, SameCardinality
    <3>4. Contract!RunIds = RunIds /\ reply = Contract!NoReply
      BY <2>2 DEF Contract!RunIds, RunIds, Contract!NoReply, NoReply
    <3>5. /\ [k \in RunIds |-> StatusOf(k)][n] = "pending"
          /\ \A j \in RunIds : j < n => [k \in RunIds |-> StatusOf(k)][j] # "pending"
      BY <2>1, <2>3
    <3> QED
      BY <2>1, <3>1, <3>3, <3>4, <3>5 DEF Contract!Start
  <2> QED
    BY <2>1, <2>6 DEF Contract!CNext, Contract!RunIds, RunIds
<1>3. next > NumRuns \/ next \in RunIds
  BY NumRunsAssumption DEF IInv, TypeOK, RunIds
<1> QED
  BY <1>1, <1>2, <1>3

\* The end of a run as its thread reports it.
LEMMA ReportRunImplements ==
    ASSUME IInv, RInv, NEW t \in Threads, ReportRun(t)
    PROVE  Contract!CNext
<1> SUFFICES ASSUME NEW j, j = item[t]
             PROVE  Contract!CNext
  OBVIOUS
<1>1. /\ pc[t] = "report" /\ phase' = [phase EXCEPT ![j] = RunStatus(outcome[t])]
      /\ pc' = [pc EXCEPT ![t] = "record"] /\ UNCHANGED <<mode, next, cancel, reply, item>>
  BY DEF ReportRun, Goto
<1>2. j \in RunIds /\ j < next /\ \A u \in Threads : u # t => item[u] # j
  BY <1>1, NotAccounted DEF IInv, Ownership, RunIds
<1>3. reply = NoReply /\ StatusOf(j) = "active"
  BY <1>1, <1>2, NotReturned, StatusIs DEF Stopped, Working
<1>4. outcome[t] \in Settled /\ (outcome[t] = "cancelled" => cancel \/ abort)
  BY <1>1 DEF IInv, OutcomeDecided
<1>5. \A k \in RunIds : k # j => StatusOf(k)' = StatusOf(k)
  <2>1. \A k \in RunIds : k # j => phase'[k] = phase[k]
    BY <1>1 DEF IInv, TypeOK
  <2>2. \A u \in Threads : pc'[u] = "panicked" <=> pc[u] = "panicked"
    BY <1>1 DEF IInv, TypeOK
  <2> QED
    BY <1>1, <2>1, <2>2 DEF StatusOf, Owner
<1>6. phase'[j] = RunStatus(outcome[t]) /\ ~(j >= next')
  BY <1>1, <1>2 DEF IInv, TypeOK, RunIds
<1>7. CASE outcome[t] = "cancelled"
  <2>1. StatusOf(j)' = "stopped"
    BY <1>6, <1>7 DEF StatusOf, RunStatus, Causes
  <2>2. \A k \in RunIds : StatusOf(k)' = IF k = j THEN "stopped" ELSE StatusOf(k)
    BY <1>5, <2>1
  <2>3. Contract!StopReason
    <3>1. CASE cancel
      BY <3>1 DEF Contract!StopReason
    <3>2. CASE mode = "abort" /\ \E i \in RunIds : i < next /\ phase[i] = "fail"
      BY <3>2, StatusIs DEF Contract!StopReason, Contract!RunsAt, Contract!RunIds, RunIds
    <3>3. CASE \E u \in Threads : pc[u] = "panicked"
      <4>1. PICK u \in Threads : pc[u] = "panicked" /\ item[u] \in RunIds
        BY <3>3 DEF RInv, PhaseFollows
      <4>2. StatusOf(item[u]) = "lost"
        BY <4>1, StatusIs
      <4> QED
        BY <4>1, <4>2 DEF Contract!StopReason, Contract!RunsAt, Contract!RunIds, RunIds
    <3> QED
      BY <1>4, <1>7, <3>1, <3>2, <3>3 DEF RInv, AbortMeans
  <2>4. Contract!Stop(j)
    BY <1>1, <1>2, <1>3, <2>2, <2>3, SeenStep
       DEF Contract!Stop, Contract!RunIds, RunIds, Contract!NoReply, NoReply
  <2> QED
    BY <1>2, <2>4 DEF Contract!CNext, Contract!RunIds, RunIds
<1>8. CASE outcome[t] # "cancelled"
  <2>1. PICK s \in {"ok", "fail"} : StatusOf(j)' = s
    BY <1>4, <1>6, <1>8 DEF StatusOf, RunStatus, Settled
  <2>2. \A k \in RunIds : StatusOf(k)' = IF k = j THEN s ELSE StatusOf(k)
    BY <1>5, <2>1
  <2>3. Contract!Finish(j)
    BY <1>1, <1>2, <1>3, <2>2, SeenStep
       DEF Contract!Finish, Contract!RunIds, RunIds, Contract!NoReply, NoReply
  <2> QED
    BY <1>2, <2>3 DEF Contract!CNext, Contract!RunIds, RunIds
<1> QED
  BY <1>7, <1>8

\* A panic loses the run of its thread.
LEMMA PanicImplements ==
    ASSUME IInv, RInv, NEW t \in Threads, PanicInSink(t)
    PROVE  Contract!CNext
<1> SUFFICES ASSUME NEW j, j = item[t]
             PROVE  Contract!CNext
  OBVIOUS
<1>1. /\ pc[t] \in {"spawn", "report"} /\ pc' = [pc EXCEPT ![t] = "panicked"]
      /\ UNCHANGED <<mode, next, cancel, reply, item, phase>>
  BY DEF PanicInSink, Goto
<1>2. /\ j \in RunIds /\ j < next /\ phase[j] \in {"none", "open"}
      /\ \A u \in Threads : u # t => item[u] # j
  BY <1>1, NotAccounted DEF IInv, Ownership, RunIds
<1>3. reply = NoReply /\ StatusOf(j) = "active"
  BY <1>1, <1>2, NotReturned, StatusIs DEF Stopped, Working
<1>4. pc'[t] = "panicked" /\ \A u \in Threads : u # t => pc'[u] = pc[u]
  BY <1>1 DEF IInv, TypeOK
<1>5. \A k \in RunIds : k # j => StatusOf(k)' = StatusOf(k)
  <2>1. \A k \in RunIds : k # j =>
            ((\E u \in Threads : item'[u] = k /\ pc'[u] = "panicked")
               <=> (\E u \in Threads : item[u] = k /\ pc[u] = "panicked"))
    BY <1>1, <1>4
  <2> QED
    BY <1>1, <2>1 DEF StatusOf, Owner
<1>6. StatusOf(j)' = "lost"
  <2>1. ~(j >= next')
    BY <1>1, <1>2 DEF IInv, TypeOK, RunIds
  <2> QED
    BY <1>1, <1>2, <1>4, <2>1 DEF StatusOf, Owner
<1>7. \A k \in RunIds : StatusOf(k)' = IF k = j THEN "lost" ELSE StatusOf(k)
  BY <1>5, <1>6
<1>8. Contract!Lose(j)
  BY <1>1, <1>2, <1>3, <1>7, SeenStep
     DEF Contract!Lose, Contract!RunIds, RunIds, Contract!NoReply, NoReply
<1> QED
  BY <1>2, <1>8 DEF Contract!CNext, Contract!RunIds, RunIds

\* The reply of execute is one that the contract allows.
LEMMA ReturnImplements ==
    ASSUME IInv, RInv, Return
    PROVE  Contract!CNext
<1>1. /\ joined = Workers /\ reply = NoReply
      /\ reply' = IF cancel THEN [kind |-> "cancelled", run |-> 0] ELSE ReplyFor(firstError)
      /\ UNCHANGED <<mode, next, cancel, firstError, pc, item, phase>>
  BY DEF Return, ReplyOr
<1>2. [k \in RunIds |-> StatusOf(k)]' = [k \in RunIds |-> StatusOf(k)]
  BY <1>1 DEF StatusOf, Owner
<1>3. \A t \in Threads : Stopped(t)
  BY <1>1, WorkersType DEF IInv, JoinedStopped, Threads
<1>4. Contract!RunsAt("active") = {}
  BY <1>3, StatusIs DEF Contract!RunsAt, Contract!RunIds, RunIds, Stopped, Working, Supervising
<1>5. \A i \in RunIds : \A s : StatusOf(i) = s => i \in Contract!RunsAt(s)
  BY DEF Contract!RunsAt, Contract!RunIds, RunIds
<1>6. cancel => Contract!ReplyCancelled
  BY <1>1 DEF Contract!ReplyCancelled
<1>7. ASSUME ~cancel, firstError = NoError
      PROVE  Contract!ReplyResults
  <2>1. \A i \in RunIds : results[i].run = i /\ results[i] # NoResult /\ i < next
    BY <1>1, <1>7, CollectionHolds
       DEF CollectionComplete, NoResult, RunIds, IInv, FirstTry, TypeOK
  <2>2. \A i \in RunIds : /\ results[i].status \in {"ok"} \union Causes
                          /\ phase[i] = RunStatus(results[i].status)
                          /\ mode = "abort" => results[i].status = "ok"
    BY <2>1 DEF RInv, PhaseFollows, AbortMeans, Causes
  <2>3. \A i \in RunIds : StatusOf(i) \in {"ok", "fail"} /\ (mode = "abort" => StatusOf(i) = "ok")
    BY <2>1, <2>2, StatusIs DEF RunStatus, Causes
  <2>4. Contract!RunsAt("ok") \union Contract!RunsAt("fail") = RunIds
    BY <2>3 DEF Contract!RunsAt, Contract!RunIds, RunIds
  <2>5. mode = "abort" => Contract!RunsAt("fail") = {}
    BY <2>3 DEF Contract!RunsAt, Contract!RunIds, RunIds
  <2>6. reply' = [kind |-> "results", run |-> 0]
    BY <1>1, <1>7, BlanksTyped DEF ReplyFor
  <2> QED
    BY <1>7, <2>4, <2>5, <2>6 DEF Contract!ReplyResults, Contract!RunIds, RunIds
<1>8. ASSUME ~cancel, firstError = Panic
      PROVE  Contract!ReplyPanicked
  <2>1. PICK t \in Threads : pc[t] = "panicked" /\ item[t] \in RunIds
    BY <1>8 DEF RInv, ErrorHeld, PhaseFollows
  <2>2. item[t] \in Contract!RunsAt("lost")
    BY <1>5, <2>1, StatusIs
  <2>3. reply' = [kind |-> "panicked", run |-> 0]
    BY <1>1, <1>8, BlanksTyped DEF ReplyFor
  <2> QED
    BY <1>8, <2>2, <2>3 DEF Contract!ReplyPanicked
<1>9. ASSUME ~cancel, firstError # NoError, firstError # Panic
      PROVE  Contract!ReplyFailed
  <2>1. /\ firstError.run # 0 /\ firstError.run \in RunIds /\ mode = "abort"
        /\ phase[firstError.run] = "fail"
    BY <1>9 DEF RInv, ErrorHeld, IInv, TypeOK, Errors
  <2>2. firstError.run < next
    BY <2>1 DEF RInv, PhaseFollows, IInv, TypeOK, RunIds
  <2>3. firstError.run \in Contract!RunsAt("fail")
    BY <1>5, <2>1, <2>2, StatusIs
  <2>4. reply' = [kind |-> "failed", run |-> firstError.run]
    BY <1>1, <1>9 DEF ReplyFor
  <2> QED
    BY <1>9, <2>1, <2>3, <2>4 DEF Contract!ReplyFailed
<1>10. Contract!ReplyCancelled \/ Contract!ReplyFailed \/ Contract!ReplyPanicked \/ Contract!ReplyResults
  BY <1>6, <1>7, <1>8, <1>9
<1>11. Contract!Reply
  BY <1>1, <1>2, <1>4, <1>10 DEF Contract!Reply, Contract!NoReply, NoReply
<1> QED
  BY <1>11 DEF Contract!CNext

\* The other steps of a thread or of a worker change nothing the contract sees.
LEMMA OtherStepsUnseen ==
    ASSUME IInv, RInv, NEW t \in Threads, ThreadStep(t) \/ TimeCapElapses(t),
           ~PopRun(t), ~ReportRun(t)
    PROVE  UNCHANGED Contract!cvars
<1>1. TypeOK /\ pc \in [Threads -> PCs]
  BY DEF IInv, TypeOK
<1>2. CASE CheckFlags(t) \/ WriteRequest(t) \/ PollChild(t) \/ CheckWait(t) \/ TimeCapElapses(t)
  BY <1>1, <1>2, UnseenStep
     DEF CheckFlags, WriteRequest, PollChild, CheckWait, EndWait, TimeCapElapses, Goto
<1>3. CASE LeaveCancelled(t) \/ RaiseAbort(t) \/ RecordError(t)
  BY <1>1, <1>3, UnseenStep DEF LeaveCancelled, RaiseAbort, RaiseThenGo, RecordError, Goto
<1>4. CASE StoreResult(t)
  BY <1>1, <1>4, UnseenStep DEF StoreResult, StoreAt, Goto, TypeOK
<1>5. CASE SpawnWorker(t)
  <2>1. item[t] \in RunIds /\ phase[item[t]] \in {"none", "open"}
    BY <1>5, NotAccounted DEF SpawnWorker
  <2> QED
    BY <1>1, <1>5, <2>1, UnseenStep DEF SpawnWorker, Goto, TypeOK
<1> QED
  BY <1>2, <1>3, <1>4, <1>5 DEF ThreadStep

\* Every step of the coordinator is one of the contract's, or unseen by it.
LEMMA NextImplements ==
    ASSUME IInv, RInv, [Next]_vars
    PROVE  Contract!CNext \/ UNCHANGED Contract!cvars
<1>1. ASSUME NEW t \in Threads, ThreadStep(t) \/ PanicInSink(t) \/ TimeCapElapses(t)
      PROVE  Contract!CNext \/ UNCHANGED Contract!cvars
  BY <1>1, PopRunImplements, ReportRunImplements, PanicImplements, OtherStepsUnseen
<1>2. ASSUME NEW i \in RunIds, WorkerExit(i) \/ \E t \in Threads : ReadRequest(i, t)
      PROVE  UNCHANGED Contract!cvars
  BY <1>2, UnseenStep DEF WorkerExit, ReadRequest, Goto, IInv, TypeOK
<1>3. CASE CallerCancels
  <2>1. [k \in RunIds |-> StatusOf(k)]' = [k \in RunIds |-> StatusOf(k)]
    BY <1>3 DEF CallerCancels, StatusOf, Owner
  <2> QED
    BY <1>3, <2>1 DEF CallerCancels, Contract!CNext, Contract!Cancel, Contract!NoReply, NoReply
<1>4. CASE JoinThread
  BY <1>4, UnseenStep DEF JoinThread
<1>5. CASE Return
  BY <1>5, ReturnImplements
<1>6. CASE UNCHANGED vars
  BY <1>6, UnseenStep DEF vars
<1> QED
  BY <1>1, <1>2, <1>3, <1>4, <1>5, <1>6 DEF Next

\* Threads, flags, pipes and processes together do no more than the contract says
\* (ImplementsContract).
THEOREM CoordinatorImplementsContract == Spec => ImplementsContract
<1>1. IInv /\ RInv /\ [Next]_vars => [Contract!CNext]_(Contract!cvars)
  BY NextImplements
<1> QED
  BY <1>1, InitImplements, AccountsAlwaysTrue, PTL
     DEF Spec, ImplementsContract, Contract!CSpec
=============================================================================
